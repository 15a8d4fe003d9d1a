------------------------------- MODULE Learning -------------------------------
(***************************************************************************)
(* Silent learning (backend/src/learning/learn.ts, log.ts), the revert     *)
(* route of the local API, the changelog on the server and the Memory page *)
(* of the browser, over one tone file that the machines synchronise        *)
(* (ToneSync).                                                             *)
(*                                                                         *)
(* A lesson is the number of its entry in the server's changelog.  Both    *)
(* flows read the local store, await Claude or the server, and write the   *)
(* store afterwards: a call is a record in `calls`, a step is what runs    *)
(* between two awaits, and nothing serialises the calls of one file.       *)
(***************************************************************************)
EXTENDS ToneSync

CONSTANTS
  Skew,        \* how far the clock of each machine is ahead
  MaxCalls,    \* bound: calls in flight at once
  MaxLessons,  \* bound: calls that learn
  MaxReverts,  \* bound: clicks on Revert
  MaxNow,      \* bound: ticks of the clock
  MaxPasses,   \* bound: sync passes
  Faults,      \* the kinds of failures that happen
  MaxFaults    \* bound: how many

ASSUME LearningAssumption ==
  /\ Skew \in [Machines -> Nat]
  /\ MaxCalls \in Nat /\ MaxLessons \in Nat /\ MaxReverts \in Nat
  /\ MaxNow \in Nat /\ MaxPasses \in Nat /\ MaxFaults \in Nat
  /\ Faults \subseteq {"call", "crash", "log", "hand"}

VARIABLES
  entries,  \* the server's changelog: the entries, each applied or reverted
  log,      \* each machine's learning log, oldest record first
  calls,    \* the calls in flight
  now,      \* the time, but for the skew
  \* History and bounds.
  undone,   \* the lessons a revert has taken out of the file
  crossed,  \* what has interfered: two calls or two passes, a call with a pass, a file that
            \* was adopted, a fault
  begun,    \* calls that learned
  clicks, passes, faults

learnVars == <<entries, log, calls, now, undone, crossed, begun, clicks, passes, faults>>
vars == <<syncVars, learnVars>>

Slots == 1..MaxCalls
Free == [kind |-> "free"]
ByHand == 0  \* a paragraph the user wrote

Init ==
  /\ SyncInit
  /\ entries = <<>>
  /\ log = [m \in Machines |-> <<>>]
  /\ calls = [k \in Slots |-> Free]
  /\ now = 1
  /\ undone = {} /\ crossed = {}
  /\ begun = 0 /\ clicks = 0 /\ passes = 0 /\ faults = 0

-----------------------------------------------------------------------------
Clock(m) == now + Skew[m]

ServerTime(m) == now \* mutant: a lesson is stamped by another clock than a revert

LearnTime(m) == Clock(m)

Busy(m) == \E k \in Slots : calls[k] # Free /\ calls[k].at.machine = m

Post(call) ==
  /\ \E k \in Slots :
       /\ calls[k] = Free /\ \A j \in 1..(k - 1) : calls[j] # Free
       /\ calls' = [calls EXCEPT ![k] = call]
  /\ crossed' = crossed
       \union (IF Busy(call.at.machine) THEN {"calls"} ELSE {})
       \union (IF Syncing(call.at.machine) THEN {"sync"} ELSE {})

Goes(k, call) == calls' = [calls EXCEPT ![k] = call]
Ends(k) == calls' = [calls EXCEPT ![k] = Free]

Fault(kind) ==
  /\ kind \in Faults /\ faults < MaxFaults
  /\ faults' = faults + 1
  /\ crossed' = crossed \union {kind}

At(k, kind, stage) == calls[k].kind = kind /\ calls[k].stage = stage

-----------------------------------------------------------------------------
(* Learning from what was sent.                                            *)

\* applyLearning starts, with the time of its caller, and Claude is asked.
LearnStarts(m) ==
  /\ begun < MaxLessons /\ begun' = begun + 1
  /\ Post([kind |-> "learn", stage |-> "model", at |-> [machine |-> m, time |-> LearnTime(m)]])
  /\ UNCHANGED <<syncVars, entries, log, now, undone, clicks, passes, faults>>

\* Claude answers; the file is read, and the entry is on its way to the server.
LessonComes(k) ==
  /\ At(k, "learn", "model")
  /\ Goes(k, [kind |-> "learn", stage |-> "record", at |-> calls[k].at,
              before |-> Read(calls[k].at.machine)])
  /\ UNCHANGED <<syncVars, entries, log, now, undone, crossed, begun, clicks, passes, faults>>

\* mutant: the local pair is written before the server has the entry
WrittenUnrecorded(k) ==
  LET c == calls[k] m == c.at.machine IN
  /\ At(k, "learn", "record")
  /\ Store(m, Edited(Append(c.before, Len(entries) + 1), c.at.time))
  /\ log' = [log EXCEPT ![m] = Append(@, [id |-> Len(entries) + 1, before |-> c.before,
                                          reverted |-> FALSE])]
  /\ Ends(k)
  /\ UNCHANGED <<server, pass, put, entries, now, undone, crossed, begun, clicks,
                 passes, faults>>

\* POST /learning.
EntryCreated(k) ==
  /\ At(k, "learn", "record")
  /\ entries' = Append(entries, "applied")
  /\ Goes(k, [kind |-> "learn", stage |-> "write", at |-> calls[k].at,
              before |-> calls[k].before, id |-> Len(entries) + 1])
  /\ UNCHANGED <<syncVars, log, now, undone, crossed, begun, clicks, passes, faults>>

Record(c) == [id |-> c.id, before |-> c.before, reverted |-> FALSE]

WrittenTwice(k) == \* mutant: the write may be repeated, the log does not look for the id
  LET c == calls[k] m == c.at.machine IN
  /\ At(k, "learn", "write") /\ Len(log[m]) < MaxLessons
  /\ Store(m, Edited(Append(c.before, c.id), c.at.time))
  /\ log' = [log EXCEPT ![m] = Append(@, Record(c))]
  /\ UNCHANGED <<server, pass, put, entries, calls, now, undone, crossed, begun, clicks,
                 passes, faults>>

\* The lesson is appended to the file that was read, and the record is logged.
Written(k) ==
  LET c == calls[k] m == c.at.machine IN
  /\ At(k, "learn", "write")
  /\ Store(m, Edited(Append(c.before, c.id), c.at.time))
  /\ log' = [log EXCEPT ![m] = Append(@, Record(c))]
  /\ Ends(k)
  /\ UNCHANGED <<server, pass, put, entries, now, undone, crossed, begun, clicks,
                 passes, faults>>

\* The log cannot be written: the file is put back.
RolledBack(k) ==
  LET c == calls[k] IN
  /\ At(k, "learn", "write") /\ Fault("log")
  /\ Store(c.at.machine, Edited(c.before, c.at.time))
  /\ Ends(k)
  /\ UNCHANGED <<server, pass, put, entries, log, now, undone, begun, clicks, passes>>

-----------------------------------------------------------------------------
(* Reverting a lesson.                                                     *)

\* The place of a lesson in the log; ids are unique.
PlaceOf(m, id) == CHOOSE n \in DOMAIN log[m] : log[m][n].id = id

Unreverted(m) == {n \in DOMAIN log[m] : ~log[m][n].reverted}

AnyUnreverted(m, id) == \* mutant: the guard does not ask for the last lesson
  \E n \in Unreverted(m) : log[m][n].id = id

\* The guard of the route: the last lesson of the file that is not reverted.
MayRevert(m, id) ==
  \E n \in Unreverted(m) : log[m][n].id = id /\ \A k \in Unreverted(m) : k <= n

Kept(m, id) == file[m] \* mutant: nothing is restored

Restored(m, id) == log[m][PlaceOf(m, id)].before

\* Confirmed on the Memory page; the handler restores the file before it awaits.
Revert(m, id) ==
  LET c == [kind |-> "revert", stage |-> "flag", id |-> id,
            at |-> [machine |-> m, time |-> Clock(m)]]
  IN /\ clicks < MaxReverts /\ clicks' = clicks + 1
     /\ entries[id] = "applied" /\ MayRevert(m, id)
     /\ Store(m, Edited(Restored(m, id), Clock(m)))
     /\ Post(c)
     /\ undone' = undone \union {id}
     /\ UNCHANGED <<server, pass, put, entries, log, now, begun, passes, faults>>

\* POST /learning/:id/revert, which is idempotent.
Flagged(k) ==
  /\ At(k, "revert", "flag")
  /\ entries' = [entries EXCEPT ![calls[k].id] = "reverted"]
  /\ Goes(k, [calls[k] EXCEPT !.stage = "mark"])
  /\ UNCHANGED <<syncVars, log, now, undone, crossed, begun, clicks, passes, faults>>

Unmarked(k) == \* mutant: the local record is not marked
  /\ At(k, "revert", "mark") /\ Ends(k)
  /\ UNCHANGED <<syncVars, entries, log, now, undone, crossed, begun, clicks, passes, faults>>

\* The reply: the local record is marked.
Marked(k) ==
  LET m == calls[k].at.machine IN
  /\ At(k, "revert", "mark")
  /\ log' = [log EXCEPT ![m] =
       [n \in DOMAIN log[m] |->
         [log[m][n] EXCEPT !.reverted = @ \/ log[m][n].id = calls[k].id]]]
  /\ Ends(k)
  /\ UNCHANGED <<syncVars, entries, now, undone, crossed, begun, clicks, passes, faults>>

-----------------------------------------------------------------------------
(* Failures.                                                               *)

\* Claude or the server fails, or the reply is lost after the server has served the call.
CallFails(k) ==
  /\ calls[k] # Free /\ Fault("call")
  /\ Ends(k)
  /\ UNCHANGED <<syncVars, entries, log, now, undone, begun, clicks, passes>>

\* The backend dies: between two awaits, or within the writes of a lesson:
\* after the Markdown, or after the index and before the log.
Crash(m) ==
  /\ Fault("crash")
  /\ pass' = [pass EXCEPT ![m] = Idle]
  /\ calls' = [k \in Slots |->
       IF calls[k] # Free /\ calls[k].at.machine = m THEN Free ELSE calls[k]]
  /\ \/ UNCHANGED <<file, index>>
     \/ \E k \in Slots :
          /\ At(k, "learn", "write") /\ calls[k].at.machine = m
          /\ LET new == Edited(Append(calls[k].before, calls[k].id), calls[k].at.time)
             IN Store(m, new) \/ (file' = [file EXCEPT ![m] = new.content] /\ UNCHANGED index)
  /\ UNCHANGED <<server, put, entries, log, now, undone, begun, clicks, passes>>

\* The user adds a paragraph to the Markdown in an editor of their own.
HandEdit(m) ==
  /\ Fault("hand")
  /\ ~Contains(file[m], ByHand)
  /\ file' = [file EXCEPT ![m] = Append(@, ByHand)]
  /\ UNCHANGED <<index, server, pass, put, entries, log, calls, now, undone, begun,
                 clicks, passes>>

Tick ==
  /\ now < MaxNow /\ now' = now + 1
  /\ UNCHANGED <<syncVars, entries, log, calls, undone, crossed, begun, clicks, passes, faults>>

-----------------------------------------------------------------------------
(* The sync pass among the calls.                                          *)

PassStarts(m) ==
  /\ passes < MaxPasses /\ passes' = passes + 1
  /\ SyncStarts(m)
  /\ crossed' = crossed
       \union (IF Busy(m) THEN {"sync"} ELSE {})
       \union (IF \E other \in Machines : Syncing(other) THEN {"passes"} ELSE {})
  /\ UNCHANGED <<entries, log, calls, now, undone, begun, clicks, faults>>

Stored(m) == <<file[m], index[m]>>

PassGoesOn(m) ==
  /\ PutServed(m) \/ Adopt(m) \/ ListServed(m) \/ Pull(m)
  /\ crossed' = crossed \union (IF Stored(m)' # Stored(m) THEN {"pull"} ELSE {})
  /\ UNCHANGED <<entries, log, calls, now, undone, begun, clicks, passes, faults>>

PassFails(m) ==
  /\ SyncFails(m) /\ Fault("call")
  /\ UNCHANGED <<entries, log, calls, now, undone, begun, clicks, passes>>

Next ==
  \/ \E m \in Machines :
       \/ LearnStarts(m) \/ \E id \in DOMAIN entries : Revert(m, id)
       \/ PassStarts(m) \/ PassGoesOn(m) \/ PassFails(m)
       \/ Crash(m) \/ HandEdit(m)
  \/ \E k \in Slots :
       \/ LessonComes(k) \/ EntryCreated(k) \/ Written(k) \/ RolledBack(k)
       \/ Flagged(k) \/ Marked(k) \/ CallFails(k)
  \/ Tick

Spec == Init /\ [][Next]_vars

-----------------------------------------------------------------------------
Content == Seq(Nat)
Version == [content : Content, hash : Nat, at : Nat]
Origin == [machine : Machines, time : Nat]

CallState ==
  {Free}
  \union [kind : {"learn"}, stage : {"model"}, at : Origin]
  \union [kind : {"learn"}, stage : {"record"}, at : Origin, before : Content]
  \union [kind : {"learn"}, stage : {"write"}, at : Origin, before : Content, id : Nat]
  \union [kind : {"revert"}, stage : {"flag", "mark"}, at : Origin, id : Nat]

PassState ==
  {Idle}
  \union [stage : {"put"}, sent : Version]
  \union [stage : {"adopt"}, sent : Version, accepted : BOOLEAN, got : Version]
  \union [stage : {"list"}, verdict : {"none", "pushed", "pulled"}]
  \union [stage : {"pull"}, verdict : {"none", "pushed", "pulled"}, got : Version]

\* Types; what is flagged or marked is an entry, and the records of a machine are
\* of different entries.
TypeOK ==
  /\ file \in [Machines -> Content]
  /\ index \in [Machines -> [hash : Nat, at : Nat]]
  /\ server \in Version /\ pass \in [Machines -> PassState] /\ put \subseteq Version
  /\ entries \in Seq({"applied", "reverted"})
  /\ log \in [Machines -> Seq([id : Nat, before : Content, reverted : BOOLEAN])]
  /\ calls \in [Slots -> CallState]
  /\ \A k \in Slots : calls[k].kind = "revert" => calls[k].id \in DOMAIN entries
  /\ \A m \in Machines : \A i, j \in DOMAIN log[m] : log[m][i].id = log[m][j].id => i = j

\* A lesson in a tone file is in the server's changelog, whatever fails and whoever
\* interferes: no tone edit is untracked (learn.ts, the server is told first).
LessonsAreRecorded ==
  \A m \in Machines : \A n \in DOMAIN file[m] : file[m][n] \in DOMAIN entries \union {ByHand}

\* A content holds the lessons at these places of a log, in their order, and no other.
Lists(content, records, places) ==
  /\ \A i \in DOMAIN content : \E n \in places : records[n].id = content[i]
  /\ \A n \in places : \E i \in DOMAIN content : content[i] = records[n].id
  /\ \A i, j \in DOMAIN content : \A k, n \in places :
       i < j /\ content[i] = records[k].id /\ content[j] = records[n].id => k < n

\* The lessons of a log that no revert has taken out.
Standing(records) == {n \in DOMAIN records : records[n].id \notin undone}

\* Tone mutated iff logged: the file holds the logged lessons but for the reverted
\* ones, in their order, as long as nothing interferes with a call.
ToneIsTheLog ==
  crossed \subseteq {"call", "log", "passes"} =>
    \A m \in Machines : Lists(Read(m), log[m], Standing(log[m]))

\* What the changelog shows as reverted is gone from the file.
RevertedIsGone ==
  crossed \subseteq {"call", "log", "passes"} =>
    \A m \in Machines : \A n \in DOMAIN file[m] : entries[file[m][n]] = "applied"

\* The lesson a machine lets one revert first is one the Memory page offers to
\* revert, unless a revert is under way or its reply was lost; otherwise every older
\* lesson of the file is refused for good.
RevertIsOffered ==
  crossed \intersect {"call", "crash"} = {} =>
    \A m \in Machines :
      \/ Unreverted(m) = {}
      \/ \E k \in Slots : calls[k].kind = "revert" /\ calls[k].at.machine = m
      \/ \E id \in DOMAIN entries : MayRevert(m, id) /\ entries[id] = "applied"

\* The hash that arbitrates is the hash of the content, unless the file was edited by
\* hand or a crash came between the two writes.
HashIsOfContent ==
  crossed \intersect {"hand", "crash"} = {} =>
    \A m \in Machines : index[m] # NoEntry => index[m].hash = Hash(file[m])

\* Unless something interferes, a write gives the file a time that is not earlier
\* than the one it replaces: the next sync does not undo it.
StampsGrow ==
  [][crossed' \subseteq {"call", "log"} => \A m \in Machines : index'[m].at >= index[m].at]_vars

\* A pass that nobody disturbs leaves the machine with the server's version.
PassConverges ==
  [][\A m \in Machines :
       pass[m].stage = "pull" /\ pass'[m] = Idle /\ faults' = faults
         /\ crossed \intersect {"sync", "passes", "hand", "crash"} = {}
       => Local(m)' = server]_vars

\* A pass does not replace what the user has by something that loses to it.
SyncKeepsEdits ==
  [][\A m \in Machines :
       pass'[m] # pass[m] /\ Stored(m)' # Stored(m) /\ crossed \intersect {"sync", "hand", "crash"} = {}
       => ~Beats(Local(m), Local(m)')]_vars

\* The server's row is a last-write-wins register.
Register == INSTANCE LastWriteWins WITH value <- IF server = NoFile THEN {} ELSE {server}

LastWriteWinsSpec == Register!Spec
=============================================================================
