------------------------------- MODULE MailSync -------------------------------
(***************************************************************************)
(* One poll of the watched folder, from IMAP to the daemon cycle:          *)
(* createCacheDaemonSource (backend/src/source/cache-source.ts) drives     *)
(* MailboxSync (imap/mailbox-sync.ts) by the plan of computeSyncPlan       *)
(* (imap/sync-plan.ts), into the SQLite cache (cache/cache.ts), and hands  *)
(* the rows it takes for new to runDaemonCycle.                            *)
(*                                                                         *)
(* The cache survives a crash and a lost connection; the poll's local      *)
(* variables do not.  Everything between two awaits is one step.           *)
(***************************************************************************)
EXTENDS Integers, FiniteSetsExt, SequencesExt, Functions

CONSTANTS
  Messages,    \* the messages that may arrive
  Backlog,     \* deps.initialBacklog
  Condstore,   \* the server has CONDSTORE: changes carry a modseq
  Faults,      \* which of "drop", "crash", "build", "renumber" may happen
  MaxFaults,   \* bound: faults in a behaviour
  MaxChanges   \* bound: changes of the mailbox (arrivals, flags, expunges)

ASSUME BoundsAssumption ==
  /\ Backlog \in Nat \ {0} /\ MaxFaults \in Nat /\ MaxChanges \in Nat
  /\ Condstore \in BOOLEAN
  /\ Faults \subseteq {"drop", "crash", "build", "renumber"}

VARIABLES
  \* the IMAP server (external)
  uidValidity, uidNext, highestModseq,
  box,         \* its messages by UID: which one, its \Seen flag, its modseq
  changes,     \* changes of the mailbox so far
  \* the local cache, on disk
  folder,      \* the row of `folders`, NoFolder while there is none
  rows,        \* the rows of `messages` by UID
  \* the poll in progress
  pc,          \* the await it stands at
  poll,        \* pollFolder's before and firstSync, the plan's ranges
  wire,        \* what the current FETCH still has to deliver, as <<uid, mail>>
  top,         \* maxUid and maxModseq of the current FETCH
  todo,        \* newRows still to be built
  out,         \* the built messages, then those the cycle has yet to process
  \* history
  arrived,     \* the messages that have arrived
  archive,     \* what the mailbox held when its first FETCH was answered
  triaged,     \* how often each message was handed to processMessage (bound: 2)
  excused,     \* messages passed over for a reason the module names
  faults       \* faults so far

server == <<uidValidity, uidNext, highestModseq, box, changes, arrived>>
cache == <<folder, rows>>
local == <<pc, poll, wire, top, todo, out>>
history == <<archive, triaged, excused, faults>>
vars == <<server, cache, local, history>>

None == -1     \* `null`, for fetchNewRange and changedSince

Mail == [msg : Messages, seen : BOOLEAN, modseq : Nat]
Row == [msg : Messages, seen : BOOLEAN, uidValidity : Nat]
Uids == Nat \ {0}

TypeOK ==
  /\ uidValidity \in Nat \ {0} /\ uidNext \in Uids /\ highestModseq \in Nat
  /\ DOMAIN box \subseteq 1..(uidNext - 1) /\ Range(box) \subseteq Mail
  /\ changes \in 0..MaxChanges
  /\ folder \in [uidValidity : Nat, lastSeenUid : Nat, highestModseq : Nat]
  /\ DOMAIN rows \subseteq Uids /\ Range(rows) \subseteq Row
  /\ pc \in {"idle", "opening", "fetch", "storing", "deltas", "flags",
             "enumerate", "build", "triage"}
  /\ poll \in [before : Nat, firstSync : BOOLEAN,
               fetchFrom : Nat \union {None}, changedSince : Nat \union {None}]
  /\ wire \subseteq Uids \X Mail
  /\ top \in [uid : Nat, modseq : Nat]
  /\ todo \subseteq DOMAIN rows
  /\ out \in Seq(Messages)
  /\ arrived \subseteq Messages /\ archive \subseteq Messages
  /\ triaged \in [Messages -> 0..2]
  /\ excused \subseteq Messages
  /\ faults \in 0..MaxFaults

NoFolder == [uidValidity |-> 0, lastSeenUid |-> 0, highestModseq |-> 0]
NoPoll == [before |-> 0, firstSync |-> FALSE, fetchFrom |-> None, changedSince |-> None]
NoTop == [uid |-> 0, modseq |-> 0]

Init ==
  /\ uidValidity = 1 /\ uidNext = 1 /\ highestModseq = 1
  /\ box = << >> /\ changes = 0 /\ arrived = {}
  /\ folder = NoFolder /\ rows = << >>
  /\ pc = "idle" /\ poll = NoPoll /\ wire = {} /\ top = NoTop
  /\ todo = {} /\ out = << >>
  /\ archive = {} /\ triaged = [m \in Messages |-> 0] /\ excused = {} /\ faults = 0

Larger(a, b) == IF a > b THEN a ELSE b
Smaller(a, b) == IF a < b THEN a ELSE b
With(f, u, v) == [x \in DOMAIN f \union {u} |-> IF x = u THEN v ELSE f[x]]
Held == {box[u].msg : u \in DOMAIN box}

-----------------------------------------------------------------------------
(* The mailbox: senders and other clients change it at any time.           *)

Change ==
  /\ changes < MaxChanges
  /\ changes' = changes + 1
  /\ highestModseq' = IF Condstore THEN highestModseq + 1 ELSE highestModseq
  /\ UNCHANGED <<uidValidity, cache, local, history>>

Arrive(m) ==
  /\ m \notin arrived
  /\ Change
  /\ box' = With(box, uidNext, [msg |-> m, seen |-> FALSE, modseq |-> highestModseq'])
  /\ uidNext' = uidNext + 1
  /\ arrived' = arrived \union {m}

MarkSeen(u) ==
  /\ ~box[u].seen
  /\ Change
  /\ box' = [box EXCEPT ![u].seen = TRUE, ![u].modseq = highestModseq']
  /\ UNCHANGED <<uidNext, arrived>>

Expunge(u) ==
  /\ Change
  /\ box' = Restrict(box, DOMAIN box \ {u})
  /\ UNCHANGED <<uidNext, arrived>>

Fault(kind) ==
  /\ kind \in Faults /\ faults < MaxFaults
  /\ faults' = faults + 1

\* The server voids its UIDs and numbers the messages anew, in their order.  A
\* selected mailbox cannot be renumbered, so no session is open.
Renumber ==
  /\ pc \in {"idle", "enumerate", "build", "triage"}
  /\ Fault("renumber")
  /\ uidValidity' = uidValidity + 1
  /\ LET renumbered == 1..Cardinality(DOMAIN box)
     IN /\ \E old \in [renumbered -> DOMAIN box] :
             /\ \A i, j \in renumbered : i < j => old[i] < old[j]
             /\ box' = [i \in renumbered |-> box[old[i]]]
        /\ uidNext' = Cardinality(DOMAIN box) + 1
  /\ UNCHANGED <<highestModseq, changes, arrived, cache, local, archive, triaged, excused>>

-----------------------------------------------------------------------------
(* MailboxSync.syncOnce.                                                   *)

NewestOnly == uidNext - 1                       \* mutant: only the newest is fetched
FirstNew == folder.lastSeenUid + 1

HasTwoNew == uidNext > folder.lastSeenUid + 2   \* mutant: off by one
HasNew == uidNext > folder.lastSeenUid + 1

\* computeSyncPlan(local, server)
SyncPlan ==
  LET noLocalState == folder.lastSeenUid <= 0
      voided == folder.uidValidity # uidValidity
      full == noLocalState \/ voided
  IN [full |-> full,
      fetchFrom |-> CASE full -> 1
                      [] ~full /\ HasNew -> FirstNew
                      [] ~full /\ ~HasNew -> None,
      changedSince |-> IF ~full /\ highestModseq # folder.highestModseq
                       THEN folder.highestModseq ELSE None]

\* createCacheDaemonSource.poll with a live client, pollFolder up to its await.
PollFolder ==
  /\ pc = "idle"
  /\ pc' = "opening"
  /\ poll' = [NoPoll EXCEPT !.before = folder.lastSeenUid, !.firstSync = (folder = NoFolder)]
  /\ UNCHANGED <<server, cache, wire, top, todo, out, history>>

\* openMailbox() answered: plan, invalidate, record the folder's metadata.
KeepRows(full) == rows                          \* mutant: nothing is invalidated
InvalidateFolder(full) == IF full THEN << >> ELSE rows

SyncOnce ==
  /\ pc = "opening"
  /\ LET plan == SyncPlan
     IN /\ rows' = InvalidateFolder(plan.full)
        /\ folder' = [uidValidity |-> uidValidity,
                      lastSeenUid |-> IF plan.full THEN 0 ELSE folder.lastSeenUid,
                      highestModseq |-> highestModseq]
        /\ poll' = [poll EXCEPT !.fetchFrom = plan.fetchFrom,
                                !.changedSince = plan.changedSince]
        /\ pc' = CASE plan.fetchFrom # None -> "fetch"
                   [] plan.fetchFrom = None /\ plan.changedSince # None -> "deltas"
                   [] plan.fetchFrom = None /\ plan.changedSince = None -> "enumerate"
  /\ UNCHANGED <<server, wire, top, todo, out, history>>

\* The server answers FETCH from:* with what it holds at that moment; `*` is
\* the last message, so the range always has it.
FetchAnswered ==
  /\ pc = "fetch"
  /\ pc' = "storing"
  /\ wire' = {<<u, box[u]>> : u \in {v \in DOMAIN box :
                v >= poll.fetchFrom \/ \A w \in DOMAIN box : w <= v}}
  /\ top' = NoTop
  /\ archive' = IF poll.firstSync THEN Held ELSE archive
  /\ UNCHANGED <<server, cache, poll, todo, out, triaged, excused, faults>>

\* One turn of a `for await` over the fetched messages, which come by UID.
Deliver(w) ==
  /\ w \in wire /\ \A x \in wire : w[1] <= x[1]
  /\ wire' = wire \ {w}
  /\ top' = [uid |-> Larger(top.uid, w[1]), modseq |-> Larger(top.modseq, w[2].modseq)]

StoreMessage(w) ==
  /\ pc = "storing"
  /\ Deliver(w)
  /\ rows' = With(rows, w[1], [msg |-> w[2].msg, seen |-> w[2].seen,
                               uidValidity |-> folder.uidValidity])
  /\ UNCHANGED <<server, folder, pc, poll, todo, out, history>>

SetSyncCursorBelow(uid) ==                      \* mutant: one short, never a MAX
  folder' = [folder EXCEPT !.lastSeenUid = uid - 1]

\* setSyncCursor(folderId, uid, top.modseq)
SetSyncCursor(uid) ==
  folder' = [folder EXCEPT !.lastSeenUid = Larger(@, uid),
                           !.highestModseq = IF top.modseq = 0 THEN @ ELSE top.modseq]

FetchDone ==
  /\ pc = "storing" /\ wire = {}
  /\ SetSyncCursor(top.uid)
  /\ pc' = IF poll.changedSince # None THEN "deltas" ELSE "enumerate"
  /\ UNCHANGED <<server, rows, poll, wire, top, todo, out, history>>

\* applyFlagDeltas: FETCH 1:* (FLAGS) (CHANGEDSINCE n)
DeltasAnswered ==
  /\ pc = "deltas"
  /\ pc' = "flags"
  /\ wire' = {<<u, box[u]>> : u \in {v \in DOMAIN box : box[v].modseq > poll.changedSince}}
  /\ top' = NoTop
  /\ UNCHANGED <<server, cache, poll, todo, out, history>>

UpdateFlags(w) ==
  /\ pc = "flags"
  /\ Deliver(w)
  /\ rows' = IF w[1] \in DOMAIN rows THEN [rows EXCEPT ![w[1]].seen = w[2].seen] ELSE rows
  /\ UNCHANGED <<server, folder, pc, poll, todo, out, history>>

FlagsDone ==
  /\ pc = "flags" /\ wire = {}
  /\ SetSyncCursor(0)
  /\ pc' = "enumerate"
  /\ UNCHANGED <<server, rows, poll, wire, top, todo, out, history>>

-----------------------------------------------------------------------------
(* The rest of pollFolder, and the cycle over its result.                  *)

SinceBefore(u) == u >= poll.before             \* mutant: the last one again
BeyondNext(u) == u > poll.before + 1           \* mutant: the first one not
New(u) == u > poll.before

NoBacklog == {u \in DOMAIN rows : New(u)}       \* mutant: no first sync
Newest(u) == Cardinality({v \in DOMAIN rows : v > u}) < Backlog

NewRows == {u \in DOMAIN rows : IF poll.firstSync THEN Newest(u) ELSE New(u)}

Enumerate ==
  /\ pc = "enumerate"
  /\ pc' = "build"
  /\ todo' = NewRows
  /\ excused' = excused \union
       (IF poll.firstSync THEN {rows[u].msg : u \in DOMAIN rows \ NewRows} ELSE {})
  /\ UNCHANGED <<server, cache, poll, wire, top, out, archive, triaged, faults>>

\* The rows are built by UID.
NextRow(u) == pc = "build" /\ u \in todo /\ \A v \in todo : u <= v

Build(u) ==
  /\ NextRow(u)
  /\ out' = Append(out, rows[u].msg)
  /\ todo' = todo \ {u}
  /\ UNCHANGED <<server, cache, pc, poll, wire, top, history>>

\* A metadata call of buildMessage throws: logged, the message is skipped.
BuildFails(u) ==
  /\ NextRow(u)
  /\ Fault("build")
  /\ excused' = excused \union {rows[u].msg}
  /\ todo' = todo \ {u}
  /\ UNCHANGED <<server, cache, pc, poll, wire, top, out, archive, triaged>>

Return ==
  /\ pc = "build" /\ todo = {}
  /\ pc' = "triage"
  /\ UNCHANGED <<server, cache, poll, wire, top, todo, out, history>>

\* runDaemonCycle hands the next message to processMessage, whose own failures
\* it records and forgets.
ProcessMessage ==
  /\ pc = "triage" /\ out # << >>
  /\ triaged' = [triaged EXCEPT ![Head(out)] = Smaller(@ + 1, 2)]
  /\ out' = Tail(out)
  /\ UNCHANGED <<server, cache, pc, poll, wire, top, todo, archive, excused, faults>>

CycleDone ==
  /\ pc = "triage" /\ out = << >>
  /\ pc' = "idle" /\ poll' = NoPoll /\ top' = NoTop
  /\ UNCHANGED <<server, cache, wire, todo, out, history>>

-----------------------------------------------------------------------------
(* Failures.                                                               *)

\* The messages behind the cursor that only this poll still knows to be new.
InFlight ==
  LET pending == {u \in DOMAIN rows : u <= folder.lastSeenUid /\
                    (poll.firstSync \/ u > poll.before)}
  IN {rows[u].msg : u \in todo \union
        (IF pc \in {"deltas", "flags", "enumerate"} THEN pending ELSE {})}
     \union Range(out)

Abandon ==
  /\ pc' = "idle" /\ poll' = NoPoll /\ wire' = {} /\ top' = NoTop
  /\ todo' = {} /\ out' = << >>
  /\ excused' = excused \union InFlight
  /\ UNCHANGED <<server, cache, archive, triaged>>

\* The connection is lost: the awaited IMAP call throws out of pollFolder.
Drop ==
  /\ pc \in {"opening", "fetch", "storing", "deltas", "flags"}
  /\ Fault("drop")
  /\ Abandon

\* The process dies and is started again.
Crash ==
  /\ pc # "idle"
  /\ Fault("crash")
  /\ Abandon

-----------------------------------------------------------------------------

Mailbox ==
  \/ \E m \in Messages : Arrive(m)
  \/ \E u \in DOMAIN box : MarkSeen(u) \/ Expunge(u)
  \/ Renumber

Poll ==
  \/ PollFolder \/ SyncOnce \/ FetchAnswered
  \/ \E w \in wire : StoreMessage(w) \/ UpdateFlags(w)
  \/ FetchDone \/ DeltasAnswered \/ FlagsDone
  \/ Enumerate \/ Return \/ ProcessMessage \/ CycleDone
  \/ \E u \in todo : Build(u)

Next == Mailbox \/ Poll \/ (\E u \in todo : BuildFails(u)) \/ Drop \/ Crash

Spec == Init /\ [][Next]_vars

\* The interval of startDaemon keeps polling and awaited IMAP calls settle.
FairSpec == Spec /\ WF_vars(Poll)

-----------------------------------------------------------------------------
(* Safety.                                                                 *)

\* LocalFolderState.lastSeenUid is the "Highest UID already cached": whatever
\* the server holds up to the cursor is in the cache, so the incremental FETCH
\* above it leaves no hole, whenever a sync was cut short.
CursorIsHonest ==
  folder.uidValidity = uidValidity =>
    \A u \in DOMAIN box : u <= folder.lastSeenUid => u \in DOMAIN rows

\* The cache is a mirror: all its rows belong to the numbering the folder row
\* names and show the message the server has under that UID, also when a resync
\* after a renumbering was cut short and tried again.
CacheIsMirror ==
  \A u \in DOMAIN rows :
    /\ rows[u].uidValidity = folder.uidValidity
    /\ folder.uidValidity = uidValidity /\ u \in DOMAIN box => rows[u].msg = box[u].msg

\* "Re-running never double-triages" (RUNBOOK): while the server keeps its
\* numbering, no message it still holds is handed to processMessage twice,
\* whatever was interrupted, refetched or resynchronised.
TriagedOnce == uidValidity = 1 => \A m \in Held : triaged[m] <= 1

\* The cursor is advanced before the messages are processed.  Still, a message
\* behind it is processed, on its way there, part of the archive the backlog
\* leaves out, or was lost to one of the failures that set `excused`.
NothingSkipped ==
  uidValidity = 1 =>
    \A u \in DOMAIN rows : u <= folder.lastSeenUid =>
      \/ triaged[rows[u].msg] > 0
      \/ rows[u].msg \in excused \union InFlight

\* "Highest modseq already synced" (LocalFolderState.highestModseq): between
\* polls, a cached row has every flag change up to the stored modseq.  Does not
\* hold: the cursor is set past a change made while new messages were fetched.
ModseqIsSynced ==
  pc = "idle" /\ folder.uidValidity = uidValidity =>
    \A u \in DOMAIN box \intersect DOMAIN rows :
      box[u].modseq <= folder.highestModseq => rows[u].seen = box[u].seen

\* "On the first cycle it triages the 25 most-recent messages; the rest are
\* cached and browsable but not force-triaged" (RUNBOOK): as long as nothing
\* interrupts a poll, the rest of what the mailbox held at first stays so, also
\* in the polls that follow and when the mailbox changes under the first one.
BacklogKept ==
  faults = 0 => Cardinality({m \in archive : triaged[m] > 0}) <= Backlog

-----------------------------------------------------------------------------
(* Liveness.                                                               *)

\* "New mail appears within seconds (IDLE) or within the cold-poll interval"
\* (RUNBOOK): mail above the cursor of a synced folder is triaged at some time,
\* if it is not expunged before.  Holds without CONDSTORE only: with it, a failing
\* second fetch leaves the new rows behind the cursor, and nothing emits them.
NewMailAppears ==
  \A m \in Messages :
    (/\ folder.lastSeenUid > 0
     /\ \E u \in DOMAIN box : u > folder.lastSeenUid /\ box[u].msg = m)
      ~> (triaged[m] > 0 \/ m \notin Held)

=============================================================================
