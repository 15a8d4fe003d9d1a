------------------------------ MODULE ClaudeQueue ------------------------------
(***************************************************************************)
(* Calls of the `claude` CLI: the usage throttle over a rolling window     *)
(* (backend/src/claude/throttle.ts), the runner that spawns a process and  *)
(* guards it with a timeout (runner.ts), and the queue that limits how     *)
(* many run (queue.ts).  The daemon and the digest call the runner         *)
(* directly, between a check and a record of the shared throttle; the      *)
(* queue does the same for its jobs.                                       *)
(*                                                                         *)
(* A call's notional usage is one unit.                                    *)
(***************************************************************************)
EXTENDS Integers, SequencesExt

CONSTANTS
  Jobs,         \* jobs given to the queue
  Direct,       \* calls made past the queue: the daemon's, the digest's
  Essential,    \* those whose kind is in ESSENTIAL_TASK_KINDS
  Concurrency,  \* slots of the queue
  Throttle,     \* notional usage allowed in a window
  Window,       \* its length
  MaxNow        \* bound: the clock

Calls == Jobs \union Direct
Deferrable == Calls \ Essential

ASSUME CallsAssumption ==
  Jobs \intersect Direct = {} /\ Essential \subseteq Calls /\ IsFiniteSet(Direct)
\* throttleConfigFromEnv(): what does not parse gives way to the default.  A throttle of 0
\* closes the gate to deferrable kinds; a window is never empty, or the gate never closed.
ConfigFromEnv == Throttle \in Nat /\ Window \in Nat \ {0}

ASSUME LimitsAssumption == ConfigFromEnv /\ Concurrency \in Nat \ {0} /\ MaxNow \in Nat

VARIABLES
  waiting,   \* the jobs that wait for a slot
  active,    \* this.active
  promise,   \* what the caller of each has been told
  child,     \* the process of each
  timer,     \* the calls whose hang guard is set
  entries,   \* the usage entries of the window store: who, and when
  now

vars == <<waiting, active, promise, child, timer, entries, now>>

Init ==
  /\ waiting = <<>> /\ active = 0
  /\ promise = [c \in Calls |-> "none"]
  /\ child = [c \in Calls |-> "none"]
  /\ timer = {} /\ entries = {} /\ now = 0

-----------------------------------------------------------------------------
(* The throttle.                                                           *)

\* usageSince(): entries at or after the start of the window; older ones are pruned.
InWindow(es) == {e \in es : e.at >= now - Window}

AllowedLate(c, es) ==       \* mutant: off by one at the limit
  c \in Essential \/ Cardinality(InWindow(es)) <= Throttle

\* check(): over the throttle, only an essential kind may proceed.
Allowed(c, es) == c \in Essential \/ Cardinality(InWindow(es)) < Throttle

Recorded(c) == InWindow(entries \union {[call |-> c, at |-> now]})

-----------------------------------------------------------------------------
(* run(): the child is spawned and its timer set.                          *)

Running(c) == promise[c] = "pending" /\ child[c] # "none"

\* pump(): jobs leave the queue in order while a slot is free; a refused one takes no
\* slot.  Taken is how many leave.
Admitted(queue, n, es) == {queue[i] : i \in {j \in 1..n : Allowed(queue[j], es)}}

Taken(queue, free, es) ==
  CHOOSE n \in 0..Len(queue) :
    /\ \A i \in 0..n - 1 : Cardinality(Admitted(queue, i, es)) < free
    /\ n < Len(queue) => Cardinality(Admitted(queue, n, es)) >= free

Leave(n, queue, used, told, procs, timers, es) ==
  LET admitted == Admitted(queue, n, es)
      refused == {queue[i] : i \in 1..n} \ admitted
  IN /\ waiting' = SubSeq(queue, n + 1, Len(queue))
     /\ active' = used + Cardinality(admitted)
     /\ promise' = [c \in Calls |-> IF c \in refused THEN "throttled" ELSE told[c]]
     /\ child' = [c \in Calls |-> IF c \in admitted THEN "alive" ELSE procs[c]]
     /\ timer' = timers \union admitted

\* mutant: one slot too many is given out
PumpOneMore(queue, used, told, procs, timers, es) ==
  Leave(Taken(queue, Concurrency + 1 - used, es), queue, used, told, procs, timers, es)

Pump(queue, used, told, procs, timers, es) ==
  Leave(Taken(queue, Concurrency - used, es), queue, used, told, procs, timers, es)

Enqueue(c) ==
  /\ c \in Jobs /\ promise[c] = "none"
  /\ Pump(Append(waiting, c), active, [promise EXCEPT ![c] = "pending"], child, timer, entries)
  /\ UNCHANGED <<entries, now>>

\* The daemon's summary or triage, the digest's synthesis: check, then run.
CallDirectly(c) ==
  /\ c \in Direct /\ promise[c] = "none"
  /\ IF Allowed(c, entries)
       THEN /\ promise' = [promise EXCEPT ![c] = "pending"]
            /\ child' = [child EXCEPT ![c] = "alive"]
            /\ timer' = timer \union {c}
       ELSE promise' = [promise EXCEPT ![c] = "throttled"] /\ UNCHANGED <<child, timer>>
  /\ UNCHANGED <<waiting, active, entries, now>>

-----------------------------------------------------------------------------
(* The end of a run.                                                       *)

SettleOnly(c, outcome, state, es) ==  \* mutant: the queue is not pumped when a job ends
  /\ entries' = es
  /\ promise' = [promise EXCEPT ![c] = outcome] /\ child' = [child EXCEPT ![c] = state]
  /\ timer' = timer \ {c}
  /\ active' = (IF c \in Jobs THEN active - 1 ELSE active)
  /\ UNCHANGED waiting

\* The promise of a call settles and its timer is cleared; a job gives back its slot,
\* after what it used was recorded.
Settle(c, outcome, state, es) ==
  LET told == [promise EXCEPT ![c] = outcome]
      procs == [child EXCEPT ![c] = state]
  IN /\ entries' = es
     /\ IF c \in Jobs
          THEN Pump(waiting, active - 1, told, procs, timer \ {c}, es)
          ELSE /\ promise' = told /\ child' = procs /\ timer' = timer \ {c}
               /\ UNCHANGED <<waiting, active>>

\* The child exits.  'close' comes when its pipes are closed too, which another process
\* may have inherited.
Exit(c) ==
  /\ Running(c) /\ child[c] = "alive" /\ child' = [child EXCEPT ![c] = "exited"]
  /\ UNCHANGED <<waiting, active, promise, timer, entries, now>>

\* 'close' with an envelope, before the time is up.
Close(c) ==
  /\ c \in timer /\ child[c] = "exited"
  /\ Settle(c, "done", "gone", Recorded(c))
  /\ UNCHANGED now

\* 'error' (nothing could be spawned), or 'close' without an envelope or after the time
\* was up: a failed call is not recorded, whatever it used.
CloseBroken(c) ==
  /\ Running(c)
  /\ Settle(c, "failed", "gone", entries)
  /\ UNCHANGED now

\* The hang guard: abort() sends SIGTERM and at once emits the 'error' that settles the
\* promise; the child may take its time.  When the child has exited nothing listens to the
\* abort and there is nothing to kill: only a 'close' can settle the promise then.
Timeout(c) ==
  /\ c \in timer
  /\ \/ child[c] = "alive" /\ Settle(c, "failed", "dying", entries)
     \/ /\ child[c] = "exited" /\ timer' = timer \ {c}
        /\ UNCHANGED <<waiting, active, promise, child, entries>>
  /\ UNCHANGED now

\* The killed child exits, or SIGKILL comes after the grace time: nobody waits for it.
Die(c) ==
  /\ child[c] = "dying" /\ child' = [child EXCEPT ![c] = "gone"]
  /\ UNCHANGED <<waiting, active, promise, timer, entries, now>>

\* The window moves on by one; grace times are shorter.
Tick ==
  /\ now < MaxNow /\ now' = now + 1
  /\ \A c \in Calls : child[c] # "dying"
  /\ UNCHANGED <<waiting, active, promise, child, timer, entries>>

Next ==
  \/ \E c \in Calls :
       \/ Enqueue(c) \/ CallDirectly(c)
       \/ Exit(c) \/ Close(c) \/ CloseBroken(c) \/ Timeout(c) \/ Die(c)
  \/ Tick

Spec == Init /\ [][Next]_vars

\* Timers fire, and SIGKILL works.  No child has to exit, and no pipe has to close.
FairSpec == Spec /\ \A c \in Calls : WF_vars(Timeout(c)) /\ WF_vars(Die(c))

-----------------------------------------------------------------------------
\* The call outlives its child and its hang guard: it waits for a 'close' that need not come.
Hung(c) == Running(c) /\ c \notin timer

\* Types; `active` counts the jobs that run, a call that runs is guarded unless its child
\* has exited, and a job waits only while every slot is taken.
TypeOK ==
  /\ waiting \in Seq(Jobs) /\ IsInjective(waiting)
  /\ \A i \in DOMAIN waiting : promise[waiting[i]] = "pending" /\ child[waiting[i]] = "none"
  /\ active = Cardinality({c \in Jobs : Running(c)})
  /\ promise \in [Calls -> {"none", "pending", "done", "failed", "throttled"}]
  /\ child \in [Calls -> {"none", "alive", "exited", "dying", "gone"}]
  /\ timer \subseteq {c \in Calls : Running(c)}
  /\ \A c \in Calls : Hung(c) => child[c] = "exited"
  /\ entries \subseteq [call : Calls, at : 0..MaxNow]
  /\ waiting # <<>> => active = Concurrency

\* The jobs never have more processes than there are slots, apart from killed ones that
\* have yet to die (runner.ts gives the slot back first).
ProcessesBounded ==
  Cardinality({c \in Jobs : child[c] = "alive"}) <= Concurrency

\* Background work may overshoot the throttle only by what was already under way when
\* the limit was reached: the check comes before a call and the record after it.
OvershootBounded ==
  LET under == {c \in Deferrable : Running(c)}
      used == {e \in InWindow(entries) : e.call \in Deferrable}
  IN Throttle > 0 =>
       Cardinality(used) + Cardinality(under)
         <= Throttle - 1 + Concurrency + Cardinality(Direct \intersect Deferrable)

\* A call settles once and for good, and counts in the window if and only if it
\* succeeded: the late end of a killed child neither answers nor counts.
SettledOnce ==
  [][\A c \in Calls :
       /\ promise[c] \in {"done", "failed", "throttled"} => promise'[c] = promise[c]
       /\ (\E e \in entries' \ entries : e.call = c)
            <=> (promise[c] = "pending" /\ promise'[c] = "done")]_vars

\* Every job given to the queue settles, however long its own process and those before it
\* take: the hang guard gets the slot back from whatever does not exit.  A call whose
\* child exited and left its pipes to another process is beyond the guard's reach: it
\* keeps its slot, and when every slot is kept so, the queue stands still.
JobsSettle ==
  \A c \in Jobs : promise[c] = "pending" ~>
    \/ promise[c] # "pending"
    \/ Hung(c)
    \/ Cardinality({j \in Jobs : Hung(j)}) = Concurrency
=============================================================================
