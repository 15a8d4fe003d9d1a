------------------------------ MODULE DaemonCycle ------------------------------
(***************************************************************************)
(* runDaemonCycle (backend/src/daemon/cycle.ts): what the daemons of the   *)
(* people sharing a project do with new messages, against the metadata     *)
(* service they share, while the users act on the same tasks through the   *)
(* API (backend/src/api/app.ts).                                           *)
(*                                                                         *)
(* A cycle builds the context of every message before it processes the     *)
(* first, so what it knows of a task is as old as the poll.  Each call of  *)
(* the metadata service is one atomic step of that service; between two    *)
(* calls anyone else may act.  Messages reach a daemon from MailSync.      *)
(***************************************************************************)
EXTENDS TaskStates, Integers, SequencesExt

CONSTANTS
  Daemons,     \* the daemons, one per machine
  Users,       \* the users' local apps
  Threads, Messages,
  ThreadOf,    \* the thread of each message
  Says,        \* the inbound promise a message makes, or NoPromise
  NoPromise,
  Promises,    \* inbound promises, told apart by promiseDedupKey
  DueAt,       \* when each falls due; after MaxNow, never
  Old,         \* messages old enough for the silence threshold of `waiting`
  Faults,      \* which of "call", "crash", "redeliver" may happen
  MaxFaults,   \* bound: faults in a behaviour
  MaxOps,      \* bound: user operations in a behaviour
  MaxNow       \* bound: the clock

ASSUME InputsAssumption ==
  /\ ThreadOf \in [Messages -> Threads]
  /\ NoPromise \notin Promises
  /\ Says \in [Messages -> Promises \union {NoPromise}]
  /\ DueAt \in [Promises -> Nat]
  /\ Old \subseteq Messages
  /\ Faults \subseteq {"call", "crash", "redeliver"}
  /\ MaxFaults \in Nat /\ MaxOps \in Nat /\ MaxNow \in Nat \ {0}

VARIABLES
  \* the metadata service
  tasks,       \* each thread's tasks, most recently updated first
  promises,    \* each thread's promise rows (bound: 2 of a kind)
  drafts,      \* the threads with a DraftMeta
  \* a daemon
  feed,        \* what its next poll will find new
  todo,        \* messages buildMessage has yet to look up
  queue,       \* the built messages with their task contexts
  pc,          \* the await it stands at
  applied,     \* triageApplied
  known,       \* the promise keys listPromises returned
  \* a user's local app
  asked,       \* the write a user's handler is about to make, if any
  \* outside
  filed,       \* nudges in the Drafts folder by thread (bound: 3)
  sent,        \* messages that arrived
  now, ops, faults

metadata == <<tasks, promises, drafts>>
daemon == <<feed, todo, queue, pc, applied, known>>
world == <<sent, now, ops, faults>>
vars == <<metadata, daemon, asked, filed, world>>

None == 0      \* `null`, for task ids and instants

Task == [id : Nat \ {None}, state : TaskState, followUpAt : Nat]
Context == [msg : Messages, id : Nat, state : TaskState, followUpAt : Nat]
Write == [thread : Threads, id : Nat \ {None}, op : {"done", "waiting", "snooze"}]

TypeOK ==
  /\ tasks \in [Threads -> Seq(Task)]
  /\ promises \in [Threads -> [Promises -> 0..2]]
  /\ drafts \subseteq Threads
  /\ feed \in [Daemons -> Seq(Messages)] /\ todo \in [Daemons -> Seq(Messages)]
  /\ queue \in [Daemons -> Seq(Context)]
  /\ pc \in [Daemons -> {"idle", "build", "triage", "extract", "record", "stale",
                         "nudge", "file", "meta"}]
  /\ \A d \in Daemons : pc[d] \notin {"idle", "build", "triage"} => queue[d] # << >>
  /\ applied \in [Daemons -> BOOLEAN]
  /\ known \in [Daemons -> SUBSET Promises]
  /\ asked \in [Users -> SUBSET Write]
  /\ filed \in [Threads -> 0..3]
  /\ sent \subseteq Messages
  /\ now \in 1..MaxNow /\ ops \in 0..MaxOps /\ faults \in 0..MaxFaults

Init ==
  /\ tasks = [t \in Threads |-> << >>]
  /\ promises = [t \in Threads |-> [p \in Promises |-> 0]]
  /\ drafts = {}
  /\ feed = [d \in Daemons |-> << >>] /\ todo = feed /\ queue = feed
  /\ pc = [d \in Daemons |-> "idle"]
  /\ applied = [d \in Daemons |-> FALSE]
  /\ known = [d \in Daemons |-> {}]
  /\ asked = [u \in Users |-> {}]
  /\ filed = [t \in Threads |-> 0]
  /\ sent = {} /\ now = 1 /\ ops = 0 /\ faults = 0

Smaller(a, b) == IF a < b THEN a ELSE b
Passed(instant) == instant # None /\ instant < now

-----------------------------------------------------------------------------
(* The metadata service (server/src/repo/sqlite.ts).                       *)

CreateTask(t, state) ==
  tasks' = [tasks EXCEPT ![t] =
              <<[id |-> Len(@) + 1, state |-> state, followUpAt |-> None]>> \o @]

TaskWith(t, id) == CHOOSE i \in DOMAIN tasks[t] : tasks[t][i].id = id

\* An update puts its task first: listTasks orders by updated_at.
Update(t, id, task) ==
  tasks' = [tasks EXCEPT ![t] = <<task>> \o RemoveAt(@, TaskWith(t, id))]

\* createTransition without expected_from: any edge is recorded.
Transition(t, id, to) ==
  LET task == tasks[t][TaskWith(t, id)]
  IN Update(t, id, [task EXCEPT !.state = to])

\* expected_from: 409 unless the task is still where the caller saw it.
Unguarded(t, id, from) == TRUE            \* mutant: expected_from is left out
Expected(t, id, from) == tasks[t][TaskWith(t, id)].state = from

-----------------------------------------------------------------------------
(* The source: poll, then buildMessage for each message.                   *)

Goto(d, stage) == pc' = [pc EXCEPT ![d] = stage]
Current(d) == Head(queue[d])
Thread(d) == ThreadOf[Current(d).msg]

Poll(d) ==
  /\ pc[d] = "idle"
  /\ Goto(d, "build")
  /\ todo' = [todo EXCEPT ![d] = feed[d]]
  /\ feed' = [feed EXCEPT ![d] = << >>]
  /\ UNCHANGED <<metadata, queue, applied, known, asked, filed, world>>

OpenIn(t) == {i \in DOMAIN tasks[t] : tasks[t][i].state # "done"}

\* pickTaskContext: the first open task, else the latest, else a new thread.
PickTask(t) ==
  IF tasks[t] = << >> THEN None
  ELSE IF OpenIn(t) # {} THEN tasks[t][Min(OpenIn(t))].id
  ELSE Head(tasks[t]).id

TaskContext(m) ==
  LET id == PickTask(ThreadOf[m])
      task == tasks[ThreadOf[m]][TaskWith(ThreadOf[m], id)]
  IN IF id = None
     THEN [msg |-> m, id |-> None, state |-> "needs-reply", followUpAt |-> None]
     ELSE [msg |-> m, id |-> id, state |-> task.state, followUpAt |-> task.followUpAt]

BuildMessage(d) ==
  /\ pc[d] = "build" /\ todo[d] # << >>
  /\ queue' = [queue EXCEPT ![d] = Append(@, TaskContext(Head(todo[d])))]
  /\ todo' = [todo EXCEPT ![d] = Tail(@)]
  /\ UNCHANGED <<metadata, feed, pc, applied, known, asked, filed, world>>

BuildDone(d) ==
  /\ pc[d] = "build" /\ todo[d] = << >>
  /\ Goto(d, "triage")
  /\ UNCHANGED <<metadata, feed, todo, queue, applied, known, asked, filed, world>>

CycleDone(d) ==
  /\ pc[d] = "triage" /\ queue[d] = << >>
  /\ Goto(d, "idle")
  /\ UNCHANGED <<metadata, feed, todo, queue, applied, known, asked, filed, world>>

\* The for loop goes on to the next message.
SkipTriage(d) ==                          \* mutant: goes on past the triage
  /\ Goto(d, "extract")
  /\ queue' = [queue EXCEPT ![d] = Tail(@)]
  /\ UNCHANGED <<feed, todo, applied, known>>

NextMessage(d) ==
  /\ Goto(d, "triage")
  /\ queue' = [queue EXCEPT ![d] = Tail(@)]
  /\ applied' = [applied EXCEPT ![d] = FALSE]
  /\ known' = [known EXCEPT ![d] = {}]
  /\ UNCHANGED <<feed, todo>>

-----------------------------------------------------------------------------
(* processMessage, from one metadata call to the next.                     *)

\* The events triage may choose; FYI chooses none.
Disposition == {"new-inbound", "inbound-thanks", "fyi"}

\* triageMessage on the state the poll read; null when there is no event.
Outcome(state, event) == IF event = "fyi" THEN "null" ELSE Resolve(state, event)

\* applyTriage on a brand-new thread: create its task.
OnlyIfOwed(d, event) ==                   \* mutant: an FYI opens no task
  IF event = "fyi" THEN UNCHANGED tasks ELSE CreateTask(Thread(d), EventTarget[event])
OpenTask(d, event) ==
  CreateTask(Thread(d), IF event = "fyi" THEN "done" ELSE EventTarget[event])

TriageNew(d) ==
  /\ pc[d] = "triage" /\ queue[d] # << >>
  /\ Current(d).id = None
  /\ \E event \in Disposition :
       /\ OpenTask(d, event)
       /\ applied' = [applied EXCEPT ![d] = event = "inbound-thanks" \/ event = "fyi"]
  /\ Goto(d, "extract")
  /\ UNCHANGED <<promises, drafts, feed, todo, queue, known, asked, filed, world>>

\* applyTriage on a known task: only an `apply` outcome is written.
TriageKnown(d) ==
  /\ pc[d] = "triage" /\ queue[d] # << >>
  /\ Current(d).id # None
  /\ \E event \in Disposition :
       IF Outcome(Current(d).state, event) = "apply"
       THEN IF Expected(Thread(d), Current(d).id, Current(d).state)
            THEN /\ Transition(Thread(d), Current(d).id, EventTarget[event])
                 /\ applied' = [applied EXCEPT ![d] = TRUE]
                 /\ Goto(d, "extract")
                 /\ UNCHANGED <<feed, todo, queue, known>>
            ELSE NextMessage(d) /\ UNCHANGED tasks       \* 409 throws
       ELSE Goto(d, "extract") /\ UNCHANGED <<tasks, feed, todo, queue, applied, known>>
  /\ UNCHANGED <<promises, drafts, asked, filed, world>>

\* extractPromises: what Claude finds in the message, the same every time.
Found(d) == Says[Current(d).msg]

\* It found none, or listPromises answers what is known by now.
Extract(d) ==
  /\ pc[d] = "extract"
  /\ IF Found(d) = NoPromise
     THEN Goto(d, "stale") /\ UNCHANGED known
     ELSE /\ Goto(d, "record")
          /\ known' = [known EXCEPT ![d] =
                         {p \in Promises : promises[Thread(d)][p] > 0}]
  /\ UNCHANGED <<metadata, feed, todo, queue, applied, asked, filed, world>>

\* createPromise for what `seen` lacks.
Unseen(d, p) == TRUE                      \* mutant: no dedup
NotSeen(d, p) == p \notin known[d]

RecordPromise(d) ==
  /\ pc[d] = "record"
  /\ LET p == Found(d)
     IN promises' = IF NotSeen(d, p)
                    THEN [promises EXCEPT ![Thread(d)][p] = Smaller(@ + 1, 2)]
                    ELSE promises
  /\ Goto(d, "stale")
  /\ UNCHANGED <<tasks, drafts, feed, todo, queue, applied, known, asked, filed, world>>

\* detectStale on the context the poll read; the message itself is the
\* thread's last activity, so only an old one has been silent for long.
Stale(d) ==
  /\ ~applied[d] /\ Current(d).id # None /\ Current(d).state = "waiting"
  /\ Passed(Current(d).followUpAt) \/ Current(d).msg \in Old

StalePass(d) ==
  /\ pc[d] = "stale"
  /\ IF Stale(d) /\ Resolve("waiting", "deadline-lapsed") = "apply"
     THEN IF Expected(Thread(d), Current(d).id, "waiting")
          THEN /\ Transition(Thread(d), Current(d).id, EventTarget["deadline-lapsed"])
               /\ Goto(d, "nudge")
               /\ UNCHANGED <<feed, todo, queue, applied, known>>
          ELSE NextMessage(d) /\ UNCHANGED tasks         \* 409 throws
     ELSE Goto(d, "nudge") /\ UNCHANGED <<tasks, feed, todo, queue, applied, known>>
  /\ UNCHANGED <<promises, drafts, asked, filed, world>>

\* maybeNudge: shouldNudgeAt on listPromises, then listDraftMeta.
Lapsed(t) == {p \in Promises : promises[t][p] > 0 /\ Passed(DueAt[p])}

AnyLapse(t) == Lapsed(t) # {}             \* mutant: an existing draft is no reason
NudgeDue(t) == Lapsed(t) # {} /\ t \notin drafts

Nudge(d) ==
  /\ pc[d] = "nudge"
  /\ IF NudgeDue(Thread(d))
     THEN Goto(d, "file") /\ UNCHANGED <<feed, todo, queue, applied, known>>
     ELSE NextMessage(d)
  /\ UNCHANGED <<metadata, asked, filed, world>>

\* draftNudge ends in filer.saveDraft; the DraftMeta is a call of its own.
FileNudge(d) ==
  /\ pc[d] = "file"
  /\ filed' = [filed EXCEPT ![Thread(d)] = Smaller(@ + 1, 3)]
  /\ Goto(d, "meta")
  /\ UNCHANGED <<metadata, feed, todo, queue, applied, known, asked, world>>

RecordDraft(d) ==
  /\ pc[d] = "meta"
  /\ drafts' = drafts \union {Thread(d)}
  /\ NextMessage(d)
  /\ UNCHANGED <<tasks, promises, asked, filed, world>>

-----------------------------------------------------------------------------
(* The users, through handlers that read the tasks and then write one.     *)

Op ==
  /\ ops < MaxOps
  /\ ops' = ops + 1
  /\ UNCHANGED <<sent, now, faults>>

Ask(u, t, id, op) ==
  /\ asked[u] = {}
  /\ tasks[t] # << >>
  /\ Op
  /\ asked' = [asked EXCEPT ![u] = {[thread |-> t, id |-> id, op |-> op]}]
  /\ UNCHANGED <<metadata, daemon, filed>>

\* POST done: the first open task, if any.
AskDone(u, t) == OpenIn(t) # {} /\ Ask(u, t, PickTask(t), "done")

\* POST send, once the mail is sent: transitionToWaiting.
AskWaiting(u, t) ==
  /\ Ask(u, t, PickTask(t), "waiting")
  /\ tasks[t][TaskWith(t, PickTask(t))].state # "waiting"

\* POST snooze: a follow-up instant to come.
AskSnooze(u, t) == Ask(u, t, PickTask(t), "snooze")

Answer(u) ==
  /\ \E w \in asked[u] :
       LET task == tasks[w.thread][TaskWith(w.thread, w.id)]
       IN IF w.op = "snooze"
          THEN Update(w.thread, w.id, [task EXCEPT !.followUpAt = now])
          ELSE Transition(w.thread, w.id, w.op)
  /\ asked' = [asked EXCEPT ![u] = {}]
  /\ UNCHANGED <<promises, drafts, daemon, filed, world>>

\* POST draft: the user's own draft records a DraftMeta as well.
UserDrafts(t) ==
  /\ Op
  /\ drafts' = drafts \union {t}
  /\ UNCHANGED <<tasks, promises, daemon, asked, filed>>

-----------------------------------------------------------------------------
(* Outside: mail, time and failures.                                       *)

\* Every daemon watches the shared mailbox and finds the message new.
Arrive(m) ==
  /\ m \notin sent
  /\ sent' = sent \union {m}
  /\ feed' = [d \in Daemons |-> Append(feed[d], m)]
  /\ UNCHANGED <<metadata, todo, queue, pc, applied, known, asked, filed, now, ops, faults>>

Tick ==
  /\ now < MaxNow
  /\ now' = now + 1
  /\ UNCHANGED <<metadata, daemon, asked, filed, sent, ops, faults>>

Fault(kind) ==
  /\ kind \in Faults /\ faults < MaxFaults
  /\ faults' = faults + 1
  /\ UNCHANGED <<sent, now, ops>>

\* A metadata, claude or filer call of processMessage throws: the rest of the
\* message is skipped.
CallFails(d) ==
  /\ pc[d] \notin {"idle", "build"} /\ queue[d] # << >>
  /\ Fault("call")
  /\ NextMessage(d)
  /\ UNCHANGED <<metadata, asked, filed>>

\* A metadata call of buildMessage throws: the message is skipped.
BuildFails(d) ==
  /\ pc[d] = "build" /\ todo[d] # << >>
  /\ Fault("call")
  /\ todo' = [todo EXCEPT ![d] = Tail(@)]
  /\ UNCHANGED <<metadata, feed, queue, pc, applied, known, asked, filed>>

\* The process dies; its messages are behind the cursor of the cache.
Crash(d) ==
  /\ pc[d] # "idle"
  /\ Fault("crash")
  /\ Goto(d, "idle")
  /\ todo' = [todo EXCEPT ![d] = << >>]
  /\ queue' = [queue EXCEPT ![d] = << >>]
  /\ applied' = [applied EXCEPT ![d] = FALSE]
  /\ known' = [known EXCEPT ![d] = {}]
  /\ UNCHANGED <<metadata, feed, asked, filed>>

\* The disposable cache is rebuilt and the backlog comes again.
Redeliver(d, m) ==
  /\ m \in sent
  /\ Fault("redeliver")
  /\ feed' = [feed EXCEPT ![d] = Append(@, m)]
  /\ UNCHANGED <<metadata, todo, queue, pc, applied, known, asked, filed>>

-----------------------------------------------------------------------------

Cycle(d) ==
  \/ Poll(d) \/ BuildMessage(d) \/ BuildDone(d) \/ CycleDone(d)
  \/ TriageNew(d) \/ TriageKnown(d) \/ Extract(d) \/ RecordPromise(d)
  \/ StalePass(d) \/ Nudge(d) \/ FileNudge(d) \/ RecordDraft(d)

User(u) ==
  \/ \E t \in Threads : AskDone(u, t) \/ AskWaiting(u, t) \/ AskSnooze(u, t)
  \/ Answer(u)

Failure(d) ==
  \/ CallFails(d) \/ BuildFails(d) \/ Crash(d)
  \/ \E m \in Messages : Redeliver(d, m)

Next ==
  \/ \E d \in Daemons : Cycle(d) \/ Failure(d)
  \/ \E u \in Users : User(u)
  \/ \E t \in Threads : UserDrafts(t)
  \/ \E m \in Messages : Arrive(m)
  \/ Tick

Spec == Init /\ [][Next]_vars

\* The interval keeps firing and awaited calls settle, in each process.
FairSpec ==
  /\ Spec
  /\ \A d \in Daemons : WF_vars(Cycle(d))
  /\ \A u \in Users : WF_vars(Answer(u))

-----------------------------------------------------------------------------
(* Safety.                                                                 *)

\* "Auto-set the obvious, propose the ambiguous": whatever a user did to a task
\* since the poll read it, a daemon moves it only along an auto edge from the
\* state it has at that moment.  In particular it reopens nothing and never
\* overrides a done or a send it did not know of.
DaemonKeepsToAutoEdges ==
  [][\A d \in Daemons : pc'[d] # pc[d] =>
       \A t \in Threads : \A i \in DOMAIN tasks[t], j \in DOMAIN tasks'[t] :
         LET was == tasks[t][i]
             is == tasks'[t][j]
         IN was.id = is.id /\ was.state # is.state =>
              <<was.state, is.state>> \in AutoEdges]_vars

\* "re-processing a message never creates duplicate rows": with one daemon a
\* thread has a promise once, however often its messages come again or the
\* daemon dies between the extraction and the write.
PromiseOnce == \A t \in Threads : \A p \in Promises : promises[t][p] <= 1

\* "so we never pile nudges every cycle": each further nudge on a thread costs a
\* fault; without one the DraftMeta of the first stops them all.
NudgesDoNotPile == \A t \in Threads : filed[t] <= 1 + faults

\* "existing task -> record ONLY an auto transition": a thread has one task.  Does
\* not hold: two new messages of one poll open two.
OneTask == \A t \in Threads : Len(tasks[t]) <= 1

-----------------------------------------------------------------------------
(* Liveness.                                                               *)

Built(m) == \E d \in Daemons : \E i \in DOMAIN queue[d] : queue[d][i].msg = m

\* "New thread -> create a task": every message that arrives leaves its thread
\* with a task, also when Claude takes it for an FYI, unless a failure loses it.
TaskForEveryMessage ==
  \A m \in Messages :
    (m \in sent) ~> (tasks[ThreadOf[m]] # << >> \/ faults > 0)

\* The daemon "runs: triage + state inference, 3-way promise tracking": what a
\* message of a queue promises is recorded on its thread.  Does not hold: a move
\* of its task since the poll ends the processing of a message before that.
PromisesTracked ==
  \A m \in {x \in Messages : Says[x] # NoPromise} :
    Built(m) ~> (promises[ThreadOf[m]][Says[m]] > 0)

\* "when an inbound promise lapses, it auto-drafts a nudge".  Does not hold: only
\* a new message of the thread makes the daemon look.
NudgeComes == \A t \in Threads : (Lapsed(t) # {}) ~> (t \in drafts)

=============================================================================
