-------------------------- MODULE ClaudeQueue_proofs --------------------------
(***************************************************************************)
(* Proofs about ClaudeQueue, for any jobs, slots, throttle and window: the *)
(* queue never runs more processes than it has slots, background work      *)
(* overshoots the throttle by no more than what was under way, and every   *)
(* call settles once.                                                      *)
(***************************************************************************)
EXTENDS ClaudeQueue, FiniteSetTheorems, SequenceTheorems, WellFoundedInduction, TLAPS

Told == {"none", "pending", "done", "failed", "throttled"}
Child == {"none", "alive", "exited", "dying", "gone"}

\* The calls that run, by what their callers were told and by their processes.
Busy(told, procs) == {c \in Calls : told[c] = "pending" /\ procs[c] # "none"}

\* The types the argument needs.
Typed ==
  /\ waiting \in Seq(Jobs) /\ active \in Nat /\ now \in 0..MaxNow
  /\ promise \in [Calls -> Told] /\ child \in [Calls -> Child]
  /\ entries \subseteq [call : Calls, at : 0..MaxNow] /\ IsFiniteSet(entries)

\* A job in the queue waits there once, and has no process.
Queued(queue, told, procs) ==
  /\ \A i, j \in 1..Len(queue) : queue[i] = queue[j] => i = j
  /\ \A i \in 1..Len(queue) : told[queue[i]] = "pending" /\ procs[queue[i]] = "none"

\* A child that lives is guarded, and one that is killed or gone is not waited for.
Watched(told, procs, timers) ==
  /\ timers \subseteq Busy(told, procs)
  /\ \A c \in Calls : procs[c] = "alive" => c \in timers
  /\ \A c \in Calls : procs[c] \in {"dying", "gone"} => told[c] # "pending"

\* The slots in use are the jobs that run, each guarded or its child exited.
Counted(used, told, procs, timers) ==
  /\ IsFiniteSet(Busy(told, procs) \intersect Jobs)
  /\ used = Cardinality(Busy(told, procs) \intersect Jobs)
  /\ used <= Concurrency
  /\ Watched(told, procs, timers)
  /\ \A c \in Calls : told[c] = "none" => procs[c] = "none"

\* No slot is free while a job waits.
NoneIdle == waiting # <<>> => active = Concurrency

\* Only an answer counts.
Answered == \A e \in entries : promise[e.call] = "done"

\* The inductive invariant.
Guarded ==
  /\ Typed
  /\ Queued(waiting, promise, child)
  /\ Counted(active, promise, child, timer)
  /\ NoneIdle
  /\ Answered

-----------------------------------------------------------------------------
(* The pump.                                                               *)

\* An element more makes a set at most one larger.
LEMMA OneMore ==
  ASSUME NEW S, NEW x, IsFiniteSet(S)
  PROVE  /\ IsFiniteSet(S \cup {x}) /\ Cardinality(S \cup {x}) \in Nat
         /\ Cardinality(S) \in Nat /\ Cardinality(S \cup {x}) <= Cardinality(S) + 1
<1>1. /\ IsFiniteSet(S \cup {x})
      /\ Cardinality(S \cup {x}) = IF x \in S THEN Cardinality(S) ELSE Cardinality(S) + 1
  BY FS_AddElement
<1>2. Cardinality(S) \in Nat
  BY FS_CardinalityType
<1> QED BY <1>1, <1>2

\* How many of a prefix of the queue are admitted; one more job, at most one more.
LEMMA AdmittedCount ==
  ASSUME NEW queue \in Seq(Jobs), NEW es, NEW n \in 0..Len(queue)
  PROVE  /\ IsFiniteSet(Admitted(queue, n, es)) /\ Cardinality(Admitted(queue, n, es)) \in Nat
         /\ n = 0 => Cardinality(Admitted(queue, n, es)) = 0
         /\ n > 0 => Cardinality(Admitted(queue, n, es))
                       <= Cardinality(Admitted(queue, n - 1, es)) + 1
<1> DEFINE S(m) == {j \in 1..m : Allowed(queue[j], es)}
<1>1. ASSUME NEW m \in 0..Len(queue)
      PROVE  IsFiniteSet(Admitted(queue, m, es))
  <2> DEFINE f == [i \in S(m) |-> queue[i]]
  <2>1. IsFiniteSet(1..m)
    BY FS_Interval
  <2>2. IsFiniteSet(S(m))
    BY <2>1, FS_Subset
  <2>3. f \in Surjection(S(m), Admitted(queue, m, es))
    BY DEF Surjection, Admitted
  <2> QED BY <2>2, <2>3, FS_Surjection
<1>2. IsFiniteSet(Admitted(queue, n, es)) /\ Cardinality(Admitted(queue, n, es)) \in Nat
  BY <1>1, FS_CardinalityType
<1>3. n = 0 => Cardinality(Admitted(queue, n, es)) = 0
  <2> HAVE n = 0
  <2>1. Admitted(queue, n, es) = {}
    BY DEF Admitted
  <2> QED BY <2>1, FS_EmptySet
<1>4. ASSUME n > 0
      PROVE  Cardinality(Admitted(queue, n, es)) <= Cardinality(Admitted(queue, n - 1, es)) + 1
  <2> DEFINE A == Admitted(queue, n - 1, es)
  <2>1. n - 1 \in 0..Len(queue)
    BY <1>4
  <2>2. IsFiniteSet(A) /\ Cardinality(A) \in Nat
    BY <1>1, <2>1, FS_CardinalityType
  <2>3. Admitted(queue, n, es) \subseteq A \cup {queue[n]}
    BY <1>4 DEF Admitted
  <2> HIDE DEF A
  <2>4. /\ IsFiniteSet(A \cup {queue[n]})
        /\ Cardinality(A \cup {queue[n]}) <= Cardinality(A) + 1
        /\ Cardinality(A \cup {queue[n]}) \in Nat
    BY <2>2, OneMore
  <2>5. Cardinality(Admitted(queue, n, es)) <= Cardinality(A \cup {queue[n]})
    BY <2>3, <2>4, FS_Subset
  <2> QED BY <1>2, <2>2, <2>4, <2>5 DEF A
<1> QED BY <1>2, <1>3, <1>4

\* A set of numbers that is not empty has a least one.
LEMMA Least ==
  ASSUME NEW T \in SUBSET Nat, T # {}
  PROVE  \E n \in T : \A m \in T : n <= m
<1>1. PICK n \in T : \A m \in T : <<m, n>> \notin OpToRel(<, Nat)
  BY WFMin, NatLessThanWellFounded
<1>2. \A m \in T : ~(m < n)
  BY <1>1 DEF OpToRel
<1> QED BY <1>2

\* A count that grows by one at most has a first place where it is enough, and
\* there it is just enough.
LEMMA FirstEnough ==
  ASSUME NEW len \in Nat, NEW free \in Nat, NEW count \in [0..len -> Nat],
         count[0] = 0, \A i \in 1..len : count[i] <= count[i - 1] + 1
  PROVE  /\ \E n \in 0..len : /\ \A i \in 0..n - 1 : count[i] < free
                              /\ n < len => count[n] >= free
         /\ \A n \in 0..len : (\A i \in 0..n - 1 : count[i] < free) => count[n] <= free
<1> DEFINE enough == {i \in 0..len : i = len \/ count[i] >= free}
<1>1. len \in enough /\ enough \subseteq Nat
  OBVIOUS
<1>2. PICK n \in enough : \A m \in enough : n <= m
  BY <1>1, Least
<1>3. \A i \in 0..n - 1 : count[i] < free
  <2> TAKE i \in 0..n - 1
  <2>1. i \in 0..len /\ i < n
    OBVIOUS
  <2>2. i \notin enough
    BY <1>2, <2>1
  <2>3. ~(count[i] >= free) /\ count[i] \in Nat
    BY <2>1, <2>2
  <2> QED BY <2>3
<1>4. n < len => count[n] >= free
  OBVIOUS
<1>5. ASSUME NEW k \in 0..len, \A i \in 0..k - 1 : count[i] < free
      PROVE  count[k] <= free
  <2>1. CASE k = 0
    BY <2>1
  <2>2. CASE k # 0
    <3>1. k - 1 \in 0..k - 1 /\ k - 1 \in 0..len /\ k \in 1..len
      BY <2>2
    <3>2. count[k - 1] < free /\ count[k] <= count[k - 1] + 1
      BY <1>5, <3>1
    <3>3. count[k] \in Nat /\ count[k - 1] \in Nat
      BY <3>1
    <3> QED BY <3>2, <3>3
  <2> QED BY <2>1, <2>2
<1>6. n \in 0..len
  OBVIOUS
<1> QED BY <1>3, <1>4, <1>5, <1>6

\* The pump takes jobs until the free slots are used, and never more of them.
LEMMA TakenFits ==
  ASSUME NEW queue \in Seq(Jobs), NEW es, NEW free \in Nat
  PROVE  LET n == Taken(queue, free, es)
             used == Cardinality(Admitted(queue, n, es))
         IN n \in 0..Len(queue) /\ used <= free /\ (n < Len(queue) => used = free)
<1> DEFINE count == [i \in 0..Len(queue) |-> Cardinality(Admitted(queue, i, es))]
           right(n) == /\ \A i \in 0..n - 1 : Cardinality(Admitted(queue, i, es)) < free
                       /\ n < Len(queue) => Cardinality(Admitted(queue, n, es)) >= free
           n == Taken(queue, free, es)
<1>1. Len(queue) \in Nat
  OBVIOUS
<1>2. count \in [0..Len(queue) -> Nat]
  BY AdmittedCount
<1>3. count[0] = 0
  <2>1. 0 \in 0..Len(queue)
    BY <1>1
  <2> QED BY <2>1, AdmittedCount
<1>4. \A i \in 1..Len(queue) : count[i] <= count[i - 1] + 1
  <2> TAKE i \in 1..Len(queue)
  <2>1. i \in 0..Len(queue) /\ i - 1 \in 0..Len(queue) /\ i > 0
    BY <1>1
  <2>2. Cardinality(Admitted(queue, i, es)) <= Cardinality(Admitted(queue, i - 1, es)) + 1
    BY <2>1, AdmittedCount
  <2> QED BY <2>1, <2>2
<1>5. /\ \E k \in 0..Len(queue) : /\ \A i \in 0..k - 1 : count[i] < free
                                  /\ k < Len(queue) => count[k] >= free
      /\ \A k \in 0..Len(queue) : (\A i \in 0..k - 1 : count[i] < free) => count[k] <= free
  <2> HIDE DEF count
  <2> QED BY <1>1, <1>2, <1>3, <1>4, FirstEnough
<1>6. \A k \in 0..Len(queue) : \A i \in 0..k - 1 :
        count[i] = Cardinality(Admitted(queue, i, es))
  BY <1>1
<1>7. \A k \in 0..Len(queue) : count[k] = Cardinality(Admitted(queue, k, es))
  OBVIOUS
<1> HIDE DEF count
<1>8. \E k \in 0..Len(queue) : right(k)
  BY <1>5, <1>6, <1>7
<1>9. n = CHOOSE k \in 0..Len(queue) : right(k)
  BY DEF Taken
<1>10. n \in 0..Len(queue) /\ right(n)
  BY <1>8, <1>9
<1> HIDE DEF n
<1>11. count[n] <= free /\ count[n] \in Nat
  BY <1>2, <1>5, <1>6, <1>10
<1>12. n < Len(queue) => count[n] = free
  BY <1>7, <1>10, <1>11
<1>13. count[n] = Cardinality(Admitted(queue, n, es))
  BY <1>7, <1>10
<1> QED BY <1>10, <1>11, <1>12, <1>13 DEF n

\* What the pump leaves behind: the slots are counted and no more than there
\* are, nobody waits beside a free one, whoever starts is allowed to, and nobody
\* else's promise settles.
LEMMA Pumping ==
  ASSUME NEW queue \in Seq(Jobs), NEW used \in Nat, NEW told \in [Calls -> Told],
         NEW procs \in [Calls -> Child], NEW timers, NEW es,
         Queued(queue, told, procs), Counted(used, told, procs, timers),
         Pump(queue, used, told, procs, timers, es)
  PROVE  /\ waiting' \in Seq(Jobs) /\ active' \in Nat
         /\ promise' \in [Calls -> Told] /\ child' \in [Calls -> Child]
         /\ Queued(waiting', promise', child') /\ Counted(active', promise', child', timer')
         /\ NoneIdle'
         /\ \A c \in Busy(promise', child') : c \in Busy(told, procs) \/ Allowed(c, es)
         /\ \A c \in Calls :
              promise'[c] = told[c] \/ (told[c] = "pending" /\ promise'[c] = "throttled")
<1> DEFINE n == Taken(queue, Concurrency - used, es)
           admitted == Admitted(queue, n, es)
           refused == {queue[i] : i \in 1..n} \ admitted
           busy == Busy(told, procs)
<1>1. /\ waiting' = SubSeq(queue, n + 1, Len(queue))
      /\ active' = used + Cardinality(admitted)
      /\ promise' = [c \in Calls |-> IF c \in refused THEN "throttled" ELSE told[c]]
      /\ child' = [c \in Calls |-> IF c \in admitted THEN "alive" ELSE procs[c]]
      /\ timer' = timers \union admitted
  BY DEF Pump, Leave
<1>2. Concurrency - used \in Nat /\ Concurrency \in Nat
  BY LimitsAssumption DEF Counted
<1>3. /\ n \in 0..Len(queue) /\ Cardinality(admitted) <= Concurrency - used
      /\ n < Len(queue) => Cardinality(admitted) = Concurrency - used
  BY <1>2, TakenFits
<1> HIDE DEF n
<1>4. IsFiniteSet(admitted) /\ Cardinality(admitted) \in Nat
  BY <1>3, AdmittedCount
<1>5. Len(queue) \in Nat /\ n \in Nat /\ \A i \in 1..Len(queue) : queue[i] \in Jobs
  BY <1>3
<1>6. Jobs \subseteq Calls
  BY DEF Calls
<1>7. \A c \in admitted : \E i \in 1..n : c = queue[i] /\ Allowed(c, es)
  BY DEF Admitted
<1>8. \A c \in admitted : c \in Jobs /\ told[c] = "pending" /\ procs[c] = "none" /\ Allowed(c, es)
  BY <1>3, <1>5, <1>7 DEF Queued
<1>9. \A c \in refused : /\ c \in Jobs /\ told[c] = "pending" /\ procs[c] = "none"
                         /\ c \notin admitted
  BY <1>3, <1>5 DEF Queued
<1>10. promise' \in [Calls -> Told] /\ child' \in [Calls -> Child]
  BY <1>1 DEF Told, Child
<1>11. \A i \in 1..Len(queue) : i > n => queue[i] \notin admitted /\ queue[i] \notin refused
  BY <1>3, <1>5, <1>7 DEF Queued
<1>12. /\ \A c \in Calls : promise'[c] = IF c \in refused THEN "throttled" ELSE told[c]
       /\ \A c \in Calls : child'[c] = IF c \in admitted THEN "alive" ELSE procs[c]
  BY <1>1
<1> HIDE DEF admitted, refused
<1>13. Busy(promise', child') = busy \cup admitted
  <2>1. ASSUME NEW c \in Busy(promise', child') PROVE c \in busy \cup admitted
    <3>1. c \in Calls /\ promise'[c] = "pending" /\ child'[c] # "none"
      BY DEF Busy
    <3>2. c \notin refused /\ told[c] = "pending"
      BY <1>12, <3>1
    <3>3. c \in admitted \/ procs[c] # "none"
      BY <1>12, <3>1
    <3> QED BY <3>1, <3>2, <3>3 DEF Busy
  <2>2. ASSUME NEW c \in admitted PROVE c \in Busy(promise', child')
    <3>1. c \in Calls /\ told[c] = "pending" /\ c \notin refused
      BY <1>6, <1>8, <1>9
    <3> QED BY <1>12, <3>1 DEF Busy
  <2>3. ASSUME NEW c \in busy PROVE c \in Busy(promise', child')
    <3>1. c \in Calls /\ told[c] = "pending" /\ procs[c] # "none"
      BY DEF Busy
    <3>2. c \notin refused /\ c \notin admitted
      BY <1>8, <1>9, <3>1
    <3> QED BY <1>12, <3>1, <3>2 DEF Busy
  <2> QED BY <2>1, <2>2, <2>3
<1>14. busy \cap admitted = {}
  BY <1>8 DEF Busy
<1>15. Counted(active', promise', child', timer')
  <2> DEFINE slots == busy \cap Jobs
  <2>1. IsFiniteSet(slots) /\ used = Cardinality(slots)
    BY DEF Counted
  <2>2. Busy(promise', child') \cap Jobs = slots \cup admitted /\ slots \cap admitted = {}
    BY <1>8, <1>13, <1>14
  <2> HIDE DEF slots
  <2>3. /\ IsFiniteSet(slots \cup admitted)
        /\ Cardinality(slots \cup admitted)
             = Cardinality(slots) + Cardinality(admitted) - Cardinality(slots \cap admitted)
    BY <1>4, <2>1, FS_Union
  <2>4. Cardinality(slots \cap admitted) = 0
    BY <2>2, FS_EmptySet
  <2>5. active' = Cardinality(slots \cup admitted)
    BY <1>1, <1>4, <2>1, <2>3, <2>4
  <2>6. active' <= Concurrency
    BY <1>1, <1>2, <1>3, <1>4
  <2>7. Watched(promise', child', timer')
    <3>1. timer' \subseteq Busy(promise', child')
      BY <1>1, <1>13 DEF Counted, Watched
    <3>2. \A c \in Calls : child'[c] = "alive" => c \in timer'
      BY <1>1, <1>12 DEF Counted, Watched
    <3>3. ASSUME NEW c \in Calls, child'[c] \in {"dying", "gone"}
          PROVE  promise'[c] # "pending"
      <4>1. procs[c] \in {"dying", "gone"}
        BY <1>12, <3>3
      <4>2. told[c] # "pending"
        BY <4>1 DEF Counted, Watched
      <4> QED BY <1>12, <4>2
    <3> QED BY <3>1, <3>2, <3>3 DEF Watched
  <2>9. \A c \in Calls : promise'[c] = "none" => child'[c] = "none"
    <3> TAKE c \in Calls
    <3> HAVE promise'[c] = "none"
    <3>1. told[c] = "none"
      BY <1>12
    <3>2. c \notin admitted /\ procs[c] = "none"
      BY <1>8, <3>1 DEF Counted
    <3> QED BY <1>12, <3>2
  <2> QED BY <2>2, <2>3, <2>5, <2>6, <2>7, <2>9 DEF Counted
<1>16. /\ waiting' \in Seq(Jobs)
       /\ Len(waiting') = IF n + 1 <= Len(queue) THEN Len(queue) - n ELSE 0
       /\ \A i \in 1..(Len(queue) - n) : waiting'[i] = queue[n + i]
  <2>1. \A i \in (n + 1)..Len(queue) : queue[i] \in Jobs
    BY <1>5
  <2>2. /\ SubSeq(queue, n + 1, Len(queue)) \in Seq(Jobs)
        /\ Len(SubSeq(queue, n + 1, Len(queue)))
             = IF n + 1 <= Len(queue) THEN Len(queue) - (n + 1) + 1 ELSE 0
        /\ \A i \in 1..(Len(queue) - (n + 1) + 1) :
             SubSeq(queue, n + 1, Len(queue))[i] = queue[(n + 1) + i - 1]
    BY <1>5, <2>1, SubSeqProperties
  <2> QED BY <1>1, <1>5, <2>2
<1>17. \A i \in 1..Len(waiting') : /\ n + i \in 1..Len(queue) /\ n + i > n
                                   /\ waiting'[i] = queue[n + i]
  <2>1. n \in Nat /\ n <= Len(queue) /\ Len(queue) \in Nat
    BY <1>3, <1>5
  <2>2. Len(waiting') = Len(queue) - n
    BY <1>16, <2>1
  <2> QED BY <1>16, <2>1, <2>2, SMTT(30)
<1>18. Queued(waiting', promise', child')
  <2>1. \A i, j \in 1..Len(waiting') : waiting'[i] = waiting'[j] => i = j
    <3> SUFFICES ASSUME NEW i \in 1..Len(waiting'), NEW j \in 1..Len(waiting'),
                        waiting'[i] = waiting'[j]
                 PROVE  i = j
      OBVIOUS
    <3>1. /\ n + i \in 1..Len(queue) /\ n + j \in 1..Len(queue)
          /\ queue[n + i] = queue[n + j]
      BY <1>17
    <3>2. n + i = n + j
      BY <3>1, Zenon DEF Queued
    <3> QED BY <1>5, <1>16, <3>2
  <2>2. ASSUME NEW i \in 1..Len(waiting')
        PROVE  promise'[waiting'[i]] = "pending" /\ child'[waiting'[i]] = "none"
    <3>1. queue[n + i] \in Calls /\ queue[n + i] \notin admitted /\ queue[n + i] \notin refused
      BY <1>5, <1>6, <1>11, <1>17
    <3> QED BY <1>12, <1>17, <3>1 DEF Queued
  <2> QED BY <2>1, <2>2 DEF Queued
<1>19. NoneIdle'
  <2> SUFFICES ASSUME waiting' # <<>> PROVE active' = Concurrency
    BY DEF NoneIdle
  <2>1. Len(waiting') # 0
    BY <1>16
  <2>2. n < Len(queue)
    BY <1>5, <1>16, <2>1
  <2> QED BY <1>1, <1>2, <1>3, <1>4, <2>2
<1>20. active' \in Nat
  BY <1>1, <1>4
<1>21. \A c \in Busy(promise', child') : c \in Busy(told, procs) \/ Allowed(c, es)
  BY <1>8, <1>13
<1>22. \A c \in Calls :
         promise'[c] = told[c] \/ (told[c] = "pending" /\ promise'[c] = "throttled")
  BY <1>9, <1>12
<1> QED BY <1>10, <1>15, <1>16, <1>18, <1>19, <1>20, <1>21, <1>22

-----------------------------------------------------------------------------
(* The steps.                                                              *)

LEMMA StartsGuarded == Init => Guarded
<1> SUFFICES ASSUME Init PROVE Guarded
  OBVIOUS
<1>1. waiting = <<>> /\ waiting \in Seq(Jobs) /\ Len(waiting) = 0
  BY DEF Init
<1>2. IsFiniteSet({}) /\ Cardinality({}) = 0
  BY FS_EmptySet
<1>3. Busy(promise, child) = {}
  BY DEF Init, Busy
<1>4. Typed
  BY <1>1, <1>2, LimitsAssumption DEF Init, Typed, Told, Child
<1>5. Queued(waiting, promise, child)
  BY <1>1 DEF Queued
<1>6. Counted(active, promise, child, timer)
  <2>1. Busy(promise, child) \cap Jobs = {}
    BY <1>3
  <2>2. active = 0 /\ 0 <= Concurrency /\ timer = {}
    BY LimitsAssumption DEF Init
  <2>3. \A c \in Calls : child[c] = "none"
    BY DEF Init
  <2>4. Watched(promise, child, timer)
    BY <2>2, <2>3 DEF Watched
  <2> QED BY <1>2, <1>3, <2>1, <2>2, <2>3, <2>4 DEF Counted
<1> QED BY <1>1, <1>4, <1>5, <1>6 DEF Init, Guarded, NoneIdle, Answered

\* What happens to the promises in a step.
Promised ==
  \A c \in Calls : /\ promise[c] \in {"done", "failed", "throttled"} => promise'[c] = promise[c]
                   /\ promise'[c] = promise[c] \/ promise'[c] # "none"

LEMMA EnqueueGuarded ==
  ASSUME Guarded, NEW c \in Calls, Enqueue(c)
  PROVE  /\ Guarded' /\ Promised /\ UNCHANGED <<entries, now>>
         /\ \A d \in Calls : promise'[d] = "done" => promise[d] = "done"
         /\ \A d \in Busy(promise', child') : d \in Busy(promise, child) \/ Allowed(d, entries)
<1> DEFINE queue == Append(waiting, c)
           told == [promise EXCEPT ![c] = "pending"]
<1>1. /\ c \in Jobs /\ promise[c] = "none" /\ UNCHANGED <<entries, now>>
      /\ Pump(queue, active, told, child, timer, entries)
  BY DEF Enqueue
<1>2. /\ waiting \in Seq(Jobs) /\ active \in Nat /\ promise \in [Calls -> Told]
      /\ child \in [Calls -> Child]
  BY DEF Guarded, Typed
<1>3. child[c] = "none"
  BY <1>1 DEF Guarded, Counted
<1>4. /\ queue \in Seq(Jobs) /\ Len(queue) = Len(waiting) + 1 /\ Len(waiting) \in Nat
      /\ \A i \in 1..Len(waiting) : queue[i] = waiting[i]
      /\ queue[Len(waiting) + 1] = c
  BY <1>1, <1>2
<1>5. /\ told \in [Calls -> Told] /\ told[c] = "pending"
      /\ \A d \in Calls : d # c => told[d] = promise[d]
  BY <1>2 DEF Told
<1>6. \A i \in 1..Len(waiting) : waiting[i] \in Calls
  BY <1>2 DEF Calls
<1> HIDE DEF queue, told
<1>7. Queued(queue, told, child)
  <2>1. \A i \in 1..Len(waiting) : waiting[i] # c
    BY <1>1, <1>6 DEF Guarded, Queued
  <2>2. \A i \in 1..Len(queue) : i = Len(waiting) + 1 \/ i \in 1..Len(waiting)
    BY <1>4
  <2>3. \A i, j \in 1..Len(queue) : queue[i] = queue[j] => i = j
    BY <1>4, <2>1, <2>2 DEF Guarded, Queued
  <2>4. \A i \in 1..Len(queue) : told[queue[i]] = "pending" /\ child[queue[i]] = "none"
    <3> TAKE i \in 1..Len(queue)
    <3>1. CASE i = Len(waiting) + 1
      BY <1>3, <1>4, <1>5, <3>1
    <3>2. CASE i \in 1..Len(waiting)
      BY <1>4, <1>5, <1>6, <2>1, <3>2 DEF Guarded, Queued
    <3> QED BY <2>2, <3>1, <3>2
  <2> QED BY <2>3, <2>4 DEF Queued
<1>8. Busy(told, child) = Busy(promise, child)
  BY <1>3, <1>5 DEF Busy
<1>9. Counted(active, told, child, timer)
  <2>1. Watched(told, child, timer)
    BY <1>3, <1>5, <1>8 DEF Guarded, Counted, Watched
  <2>2. \A d \in Calls : told[d] = "none" => child[d] = "none"
    BY <1>5 DEF Guarded, Counted
  <2> QED BY <1>8, <2>1, <2>2 DEF Guarded, Counted
<1>10. /\ waiting' \in Seq(Jobs) /\ active' \in Nat
       /\ promise' \in [Calls -> Told] /\ child' \in [Calls -> Child]
       /\ Queued(waiting', promise', child') /\ Counted(active', promise', child', timer')
       /\ NoneIdle'
       /\ \A d \in Busy(promise', child') : d \in Busy(told, child) \/ Allowed(d, entries)
       /\ \A d \in Calls :
            promise'[d] = told[d] \/ (told[d] = "pending" /\ promise'[d] = "throttled")
  BY <1>1, <1>2, <1>4, <1>5, <1>7, <1>9, Pumping
<1>11. Typed'
  BY <1>1, <1>10 DEF Guarded, Typed
<1>12. Promised
  BY <1>1, <1>5, <1>10 DEF Promised
<1>13. \A d \in Calls : promise'[d] = "done" => promise[d] = "done"
  BY <1>5, <1>10
<1>14. Answered'
  <2> SUFFICES ASSUME NEW e \in entries PROVE promise'[e.call] = "done"
    BY <1>1 DEF Answered
  <2>1. e.call \in Calls /\ promise[e.call] = "done"
    BY DEF Guarded, Typed, Answered
  <2> QED BY <1>12, <2>1 DEF Promised
<1> QED BY <1>1, <1>8, <1>10, <1>11, <1>12, <1>13, <1>14 DEF Guarded

\* What a settled call leaves is guarded, once its parts are.
LEMMA SettledIs ==
  ASSUME Guarded, NEW c \in Calls, NEW outcome \in {"done", "failed"},
         promise[c] = "pending", promise'[c] = outcome, UNCHANGED now,
         entries' \subseteq [call : Calls, at : 0..MaxNow], IsFiniteSet(entries'),
         \A e \in entries' : e \in entries \/ (e.call = c /\ outcome = "done"),
         \A d \in Calls : d # c =>
           promise'[d] = promise[d] \/ (promise[d] = "pending" /\ promise'[d] = "throttled"),
         waiting' \in Seq(Jobs), active' \in Nat,
         promise' \in [Calls -> Told], child' \in [Calls -> Child],
         Queued(waiting', promise', child'), Counted(active', promise', child', timer'),
         NoneIdle'
  PROVE  /\ Guarded' /\ Promised
         /\ \A d \in Calls : promise'[d] = "done" => promise[d] = "done" \/ d = c
<1>1. Typed'
  BY DEF Guarded, Typed
<1>2. Promised
  BY DEF Promised
<1>3. Answered'
  <2> SUFFICES ASSUME NEW e \in entries' PROVE promise'[e.call] = "done"
    BY DEF Answered
  <2>1. CASE e \in entries
    <3>1. e.call \in Calls /\ promise[e.call] = "done"
      BY <2>1 DEF Guarded, Typed, Answered
    <3> QED BY <1>2, <3>1 DEF Promised
  <2>2. CASE e \notin entries
    BY <2>2
  <2> QED BY <2>1, <2>2
<1>4. \A d \in Calls : promise'[d] = "done" => promise[d] = "done" \/ d = c
  OBVIOUS
<1> QED BY <1>1, <1>2, <1>3, <1>4 DEF Guarded

\* A promise settles and its slot is given back.
LEMMA Settling ==
  ASSUME Guarded, NEW c \in Busy(promise, child), NEW outcome \in {"done", "failed"},
         NEW state \in {"gone", "dying"}, NEW es, es \subseteq [call : Calls, at : 0..MaxNow],
         IsFiniteSet(es), \A e \in es : e \in entries \/ (e.call = c /\ outcome = "done"),
         Settle(c, outcome, state, es), UNCHANGED now
  PROVE  /\ Guarded' /\ Promised /\ entries' = es
         /\ promise[c] = "pending" /\ promise'[c] = outcome
         /\ \A d \in Calls : promise'[d] = "done" => promise[d] = "done" \/ d = c
         /\ \A d \in Busy(promise', child') :
              d \in Busy(promise, child) \ {c} \/ Allowed(d, es)
<1> DEFINE told == [promise EXCEPT ![c] = outcome]
           procs == [child EXCEPT ![c] = state]
           before == Busy(promise, child)
<1>1. /\ waiting \in Seq(Jobs) /\ active \in Nat /\ promise \in [Calls -> Told]
      /\ child \in [Calls -> Child]
  BY DEF Guarded, Typed
<1>2. c \in Calls /\ promise[c] = "pending" /\ child[c] # "none"
  BY DEF Busy
<1>3. /\ told \in [Calls -> Told] /\ told[c] = outcome
      /\ \A d \in Calls : d # c => told[d] = promise[d]
  BY <1>1, <1>2 DEF Told
<1>4. /\ procs \in [Calls -> Child] /\ procs[c] = state
      /\ \A d \in Calls : d # c => procs[d] = child[d]
  BY <1>1, <1>2 DEF Child
<1>5. /\ entries' = es
      /\ IF c \in Jobs
           THEN Pump(waiting, active - 1, told, procs, timer \ {c}, es)
           ELSE /\ promise' = told /\ child' = procs /\ timer' = timer \ {c}
                /\ UNCHANGED <<waiting, active>>
  BY DEF Settle
<1> HIDE DEF told, procs
<1>6. Busy(told, procs) = before \ {c}
  BY <1>3, <1>4 DEF Busy
<1>7. Queued(waiting, told, procs)
  <2>1. \A i \in 1..Len(waiting) : waiting[i] \in Calls /\ waiting[i] # c
    BY <1>1, <1>2 DEF Guarded, Queued, Calls
  <2> QED BY <1>3, <1>4, <2>1 DEF Guarded, Queued
<1>8. /\ \A d \in Calls : told[d] = "none" => procs[d] = "none"
      /\ Watched(told, procs, timer \ {c})
  <2>1. timer \ {c} \subseteq Busy(told, procs)
    BY <1>6 DEF Guarded, Counted, Watched
  <2>2. \A d \in Calls : told[d] = "none" => procs[d] = "none"
    BY <1>3, <1>4 DEF Guarded, Counted
  <2>3. \A d \in Calls : procs[d] = "alive" => d \in timer \ {c}
    BY <1>4 DEF Guarded, Counted, Watched
  <2>4. \A d \in Calls : procs[d] \in {"dying", "gone"} => told[d] # "pending"
    BY <1>3, <1>4 DEF Guarded, Counted, Watched
  <2> QED BY <2>1, <2>2, <2>3, <2>4 DEF Watched
<1>9. /\ IsFiniteSet(before \cap Jobs) /\ active = Cardinality(before \cap Jobs)
      /\ active <= Concurrency
  BY DEF Guarded, Counted
<1>10. CASE c \in Jobs
  <2>1. Busy(told, procs) \cap Jobs = (before \cap Jobs) \ {c} /\ c \in before \cap Jobs
    BY <1>6, <1>10
  <2> HIDE DEF before
  <2>2. /\ IsFiniteSet((before \cap Jobs) \ {c})
        /\ Cardinality((before \cap Jobs) \ {c}) = active - 1
    BY <1>9, <2>1, FS_RemoveElement
  <2>3. Cardinality((before \cap Jobs) \ {c}) \in Nat
    BY <2>2, FS_CardinalityType
  <2>4. active - 1 \in Nat /\ active - 1 <= Concurrency
    BY <1>1, <1>9, <2>2, <2>3, LimitsAssumption
  <2>5. Counted(active - 1, told, procs, timer \ {c})
    BY <1>8, <2>1, <2>2, <2>4 DEF Counted
  <2>6. Pump(waiting, active - 1, told, procs, timer \ {c}, es)
    BY <1>5, <1>10
  <2>7. /\ waiting' \in Seq(Jobs) /\ active' \in Nat
        /\ promise' \in [Calls -> Told] /\ child' \in [Calls -> Child]
        /\ Queued(waiting', promise', child') /\ Counted(active', promise', child', timer')
        /\ NoneIdle'
        /\ \A d \in Busy(promise', child') : d \in Busy(told, procs) \/ Allowed(d, es)
        /\ \A d \in Calls :
             promise'[d] = told[d] \/ (told[d] = "pending" /\ promise'[d] = "throttled")
    BY <1>1, <1>3, <1>4, <1>7, <2>4, <2>5, <2>6, Pumping
  <2>8. promise'[c] = outcome /\ \A d \in Calls : d # c =>
          promise'[d] = promise[d] \/ (promise[d] = "pending" /\ promise'[d] = "throttled")
    BY <1>2, <1>3, <2>7
  <2>9. entries' = es
    BY <1>5
  <2>10. /\ Guarded' /\ Promised
         /\ \A d \in Calls : promise'[d] = "done" => promise[d] = "done" \/ d = c
    BY <1>2, <2>7, <2>8, <2>9, SettledIs
  <2>11. \A d \in Busy(promise', child') : d \in before \ {c} \/ Allowed(d, es)
    BY <1>6, <2>7
  <2> QED BY <1>2, <2>8, <2>9, <2>10, <2>11 DEF before
<1>11. CASE c \notin Jobs
  <2>1. promise' = told /\ child' = procs /\ timer' = timer \ {c} /\ UNCHANGED <<waiting, active>>
    BY <1>5, <1>11
  <2>2. Busy(told, procs) \cap Jobs = before \cap Jobs
    BY <1>6, <1>11
  <2>3. Counted(active', promise', child', timer')
    BY <1>8, <1>9, <2>1, <2>2 DEF Counted
  <2>4. promise'[c] = outcome /\ \A d \in Calls : d # c => promise'[d] = promise[d]
    BY <1>3, <2>1
  <2>5. NoneIdle'
    BY <2>1 DEF Guarded, NoneIdle
  <2>6. Queued(waiting', promise', child')
    BY <1>7, <2>1
  <2>7. waiting' \in Seq(Jobs) /\ active' \in Nat /\ promise' \in [Calls -> Told]
        /\ child' \in [Calls -> Child]
    BY <1>1, <1>3, <1>4, <2>1
  <2>8. Busy(promise', child') = before \ {c}
    BY <1>6, <2>1
  <2>9. entries' = es
    BY <1>5
  <2>10. /\ Guarded' /\ Promised
         /\ \A d \in Calls : promise'[d] = "done" => promise[d] = "done" \/ d = c
    BY <1>2, <2>3, <2>4, <2>5, <2>6, <2>7, <2>9, SettledIs
  <2> QED BY <1>2, <2>4, <2>8, <2>9, <2>10
<1> QED BY <1>10, <1>11

LEMMA CallDirectlyGuarded ==
  ASSUME Guarded, NEW c \in Calls, CallDirectly(c)
  PROVE  /\ Guarded' /\ Promised /\ UNCHANGED <<entries, now>>
         /\ \A d \in Calls : promise'[d] = "done" => promise[d] = "done"
         /\ \A d \in Busy(promise', child') : d \in Busy(promise, child) \/ Allowed(d, entries)
<1>1. /\ c \notin Jobs /\ promise[c] = "none" /\ UNCHANGED <<waiting, active, entries, now>>
  BY CallsAssumption DEF CallDirectly
<1>2. /\ waiting \in Seq(Jobs) /\ promise \in [Calls -> Told] /\ child \in [Calls -> Child]
  BY DEF Guarded, Typed
<1>3. child[c] = "none"
  BY <1>1 DEF Guarded, Counted
<1>4. \A i \in 1..Len(waiting) : waiting[i] \in Calls /\ waiting[i] # c
  BY <1>1, <1>2 DEF Calls
<1>5. /\ promise' \in [Calls -> Told] /\ child' \in [Calls -> Child]
      /\ \A d \in Calls : d # c => promise'[d] = promise[d] /\ child'[d] = child[d]
      /\ \/ /\ Allowed(c, entries) /\ promise'[c] = "pending" /\ child'[c] = "alive"
            /\ timer' = timer \cup {c}
         \/ promise'[c] = "throttled" /\ child'[c] = "none" /\ timer' = timer
  <2>1. CASE Allowed(c, entries)
    BY <1>2, <2>1 DEF CallDirectly, Told, Child
  <2>2. CASE ~Allowed(c, entries)
    BY <1>2, <1>3, <2>2 DEF CallDirectly, Told, Child
  <2> QED BY <2>1, <2>2
<1>6. Busy(promise', child') = IF child'[c] = "alive" THEN Busy(promise, child) \cup {c}
                               ELSE Busy(promise, child)
  BY <1>1, <1>3, <1>5 DEF Busy
<1>7. Queued(waiting', promise', child')
  BY <1>1, <1>4, <1>5 DEF Guarded, Queued
<1>8. Counted(active', promise', child', timer')
  <2>1. Busy(promise', child') \cap Jobs = Busy(promise, child) \cap Jobs
    BY <1>1, <1>6
  <2>2. timer' \subseteq Busy(promise', child')
    BY <1>5, <1>6 DEF Guarded, Counted, Watched
  <2>3. Watched(promise', child', timer')
    BY <1>5, <2>2 DEF Guarded, Counted, Watched
  <2>4. \A d \in Calls : promise'[d] = "none" => child'[d] = "none"
    BY <1>5 DEF Guarded, Counted
  <2> QED BY <1>1, <2>1, <2>3, <2>4 DEF Guarded, Counted
<1>9. Typed' /\ NoneIdle'
  BY <1>1, <1>5 DEF Guarded, Typed, NoneIdle
<1>10. Promised
  BY <1>1, <1>5 DEF Promised
<1>11. \A d \in Calls : promise'[d] = "done" => promise[d] = "done"
  BY <1>5
<1>12. Answered'
  <2> SUFFICES ASSUME NEW e \in entries PROVE promise'[e.call] = "done"
    BY <1>1 DEF Answered
  <2>1. e.call \in Calls /\ promise[e.call] = "done"
    BY DEF Guarded, Typed, Answered
  <2> QED BY <1>10, <2>1 DEF Promised
<1>13. \A d \in Busy(promise', child') : d \in Busy(promise, child) \/ Allowed(d, entries)
  BY <1>5, <1>6
<1> QED BY <1>1, <1>7, <1>8, <1>9, <1>10, <1>11, <1>12, <1>13 DEF Guarded

\* What an answer leaves in the window is what was there, and the answer.
LEMMA RecordedIs ==
  ASSUME Guarded, NEW c \in Calls
  PROVE  /\ Recorded(c) \subseteq [call : Calls, at : 0..MaxNow] /\ IsFiniteSet(Recorded(c))
         /\ \A e \in Recorded(c) : e \in entries \/ e = [call |-> c, at |-> now]
         /\ [call |-> c, at |-> now] \in Recorded(c)
<1>1. now \in 0..MaxNow /\ entries \subseteq [call : Calls, at : 0..MaxNow] /\ IsFiniteSet(entries)
  BY DEF Guarded, Typed
<1>2. Window \in Nat
  BY LimitsAssumption DEF ConfigFromEnv
<1>3. IsFiniteSet(entries \cup {[call |-> c, at |-> now]})
  BY <1>1, FS_AddElement
<1>4. Recorded(c) \subseteq entries \cup {[call |-> c, at |-> now]}
  BY DEF Recorded, InWindow
<1>5. IsFiniteSet(Recorded(c))
  BY <1>3, <1>4, FS_Subset
<1>6. now >= now - Window
  BY <1>1, <1>2, LimitsAssumption
<1>7. [call |-> c, at |-> now] \in Recorded(c)
  BY <1>6 DEF Recorded, InWindow
<1> QED BY <1>1, <1>4, <1>5, <1>7

\* A call that settles with an answer, or without.
LEMMA CloseGuarded ==
  ASSUME Guarded, NEW c \in Calls, Close(c)
  PROVE  /\ Guarded' /\ Promised /\ entries' = Recorded(c) /\ UNCHANGED now
         /\ c \in Busy(promise, child) /\ promise'[c] = "done"
         /\ \A d \in Calls : promise'[d] = "done" => promise[d] = "done" \/ d = c
         /\ \A d \in Busy(promise', child') :
              d \in Busy(promise, child) \ {c} \/ Allowed(d, Recorded(c))
<1>1. c \in Busy(promise, child) /\ Settle(c, "done", "gone", Recorded(c)) /\ UNCHANGED now
  BY DEF Close, Guarded, Counted, Watched
<1>2. /\ Recorded(c) \subseteq [call : Calls, at : 0..MaxNow] /\ IsFiniteSet(Recorded(c))
      /\ \A e \in Recorded(c) : e \in entries \/ e.call = c
  BY RecordedIs
<1> QED BY <1>1, <1>2, Settling

\* A call fails: its child is closed without an answer, or killed.
Fails(c) == CloseBroken(c) \/ (Timeout(c) /\ child[c] = "alive")

LEMMA FailureGuarded ==
  ASSUME Guarded, NEW c \in Calls, Fails(c)
  PROVE  /\ Guarded' /\ Promised /\ UNCHANGED <<entries, now>>
         /\ \A d \in Calls : promise'[d] = "done" => promise[d] = "done"
         /\ \A d \in Busy(promise', child') : d \in Busy(promise, child) \/ Allowed(d, entries)
<1>1. PICK state \in {"gone", "dying"} : Settle(c, "failed", state, entries)
  BY DEF Fails, CloseBroken, Timeout
<1>2. UNCHANGED now
  BY DEF Fails, CloseBroken, Timeout
<1>3. c \in Busy(promise, child)
  BY DEF Fails, CloseBroken, Timeout, Guarded, Counted, Watched, Running, Busy
<1>4. entries \subseteq [call : Calls, at : 0..MaxNow] /\ IsFiniteSet(entries)
  BY DEF Guarded, Typed
<1>5. /\ Guarded' /\ Promised /\ entries' = entries /\ promise'[c] = "failed"
      /\ \A d \in Calls : promise'[d] = "done" => promise[d] = "done" \/ d = c
      /\ \A d \in Busy(promise', child') :
           d \in Busy(promise, child) \ {c} \/ Allowed(d, entries)
  BY <1>1, <1>2, <1>3, <1>4, Settling
<1> QED BY <1>2, <1>5

\* A process ends, the hang guard finds nothing left to kill, or time goes by.
Ends(c) == Exit(c) \/ Die(c) \/ (Timeout(c) /\ child[c] = "exited")

Passes == Tick \/ \E c \in Calls : Ends(c)

LEMMA EndsGuarded ==
  ASSUME Guarded, NEW c \in Calls, Ends(c)
  PROVE  Guarded' /\ UNCHANGED <<promise, entries, now>>
         /\ Busy(promise', child') = Busy(promise, child)
<1>1. /\ UNCHANGED <<waiting, active, promise, entries, now>>
      /\ \/ /\ child[c] = "dying" /\ child' = [child EXCEPT ![c] = "gone"] /\ timer' = timer
         \/ /\ Running(c) /\ child[c] = "alive"
            /\ child' = [child EXCEPT ![c] = "exited"] /\ timer' = timer
         \/ child[c] = "exited" /\ child' = child /\ timer' = timer \ {c}
  BY DEF Ends, Exit, Die, Timeout
<1>2. child \in [Calls -> Child] /\ waiting \in Seq(Jobs)
  BY DEF Guarded, Typed
<1>3. /\ child' \in [Calls -> Child]
      /\ child[c] # "none" /\ child'[c] # "none" /\ child'[c] # "alive"
      /\ \A d \in Calls : d # c => child'[d] = child[d]
  BY <1>1, <1>2 DEF Child
<1>4. Busy(promise', child') = Busy(promise, child)
  BY <1>1, <1>3 DEF Busy
<1>5. \A i \in 1..Len(waiting) : waiting[i] \in Calls /\ waiting[i] # c
  BY <1>2, <1>3 DEF Guarded, Queued, Calls
<1>6. Queued(waiting', promise', child')
  BY <1>1, <1>3, <1>5 DEF Guarded, Queued
<1>7. Watched(promise', child', timer')
  <2>1. timer' \subseteq Busy(promise', child')
    BY <1>1, <1>4 DEF Guarded, Counted, Watched
  <2>2. \A d \in Calls : child'[d] = "alive" => d \in timer'
    BY <1>1, <1>3 DEF Guarded, Counted, Watched
  <2>3. child'[c] \in {"dying", "gone"} => promise[c] # "pending"
    BY <1>1, <1>2 DEF Guarded, Counted, Watched
  <2>4. \A d \in Calls : child'[d] \in {"dying", "gone"} => promise'[d] # "pending"
    BY <1>1, <1>3, <2>3 DEF Guarded, Counted, Watched
  <2> QED BY <2>1, <2>2, <2>4 DEF Watched
<1>8. Counted(active', promise', child', timer')
  <2>1. promise[c] # "none"
    BY <1>3 DEF Guarded, Counted
  <2>2. \A d \in Calls : promise'[d] = "none" => child'[d] = "none"
    BY <1>1, <1>3, <2>1 DEF Guarded, Counted
  <2> QED BY <1>1, <1>4, <1>7, <2>2 DEF Guarded, Counted
<1>9. Typed' /\ NoneIdle' /\ Answered'
  BY <1>1, <1>3 DEF Guarded, Typed, NoneIdle, Answered
<1> QED BY <1>1, <1>4, <1>6, <1>8, <1>9 DEF Guarded

LEMMA PassingGuarded ==
  ASSUME Guarded, Passes
  PROVE  Guarded' /\ UNCHANGED <<promise, entries>> /\ Busy(promise', child') = Busy(promise, child)
         /\ now' \in now..(now + 1)
<1>1. CASE Tick
  <2>1. /\ UNCHANGED <<waiting, active, promise, child, timer, entries>>
        /\ now' = now + 1 /\ now < MaxNow
    BY <1>1 DEF Tick
  <2>2. now' \in 0..MaxNow /\ now' \in now..(now + 1)
    BY <2>1, LimitsAssumption DEF Guarded, Typed
  <2> QED BY <2>1, <2>2 DEF Guarded, Typed, NoneIdle, Answered
<1>2. now \in now..(now + 1)
  BY LimitsAssumption DEF Guarded, Typed
<1> QED BY <1>1, <1>2, EndsGuarded DEF Passes

LEMMA StutterGuarded ==
  ASSUME Guarded, UNCHANGED vars PROVE Guarded'
<1>1. UNCHANGED <<waiting, active, promise, child, timer, entries, now>>
  BY DEF vars
<1> QED BY <1>1 DEF Guarded, Typed, NoneIdle, Answered

\* Every step is one of these.
LEMMA Steps ==
  ASSUME Next
  PROVE  Passes \/ \E c \in Calls : Enqueue(c) \/ CallDirectly(c) \/ Close(c) \/ Fails(c)
<1>1. \A c \in Calls : Timeout(c) => Fails(c) \/ Ends(c)
  BY DEF Timeout, Fails, Ends
<1> QED BY <1>1 DEF Next, Fails, Ends, Passes

LEMMA NextGuarded == Guarded /\ [Next]_vars => Guarded'
  BY Steps, EnqueueGuarded, CallDirectlyGuarded, CloseGuarded, FailureGuarded, PassingGuarded,
     StutterGuarded

\* The inductive invariant: `active` counts the jobs that run and exceeds the
\* slots never, what lives is guarded by a timer, what waits has no process.
THEOREM GuardedHolds == Spec => []Guarded
  BY StartsGuarded, NextGuarded, PTL DEF Spec

\* The queue keeps its types, a call that runs is guarded unless its child has exited,
\* and none waits beside a free slot.
THEOREM TypeCorrect == Spec => []TypeOK
<1>1. Guarded => TypeOK
  <2> SUFFICES ASSUME Guarded PROVE TypeOK
    OBVIOUS
  <2>1. waiting \in Seq(Jobs) /\ DOMAIN waiting = 1..Len(waiting)
    BY DEF Guarded, Typed
  <2>2. IsInjective(waiting)
    BY <2>1 DEF Guarded, Queued, IsInjective
  <2>3. \A i \in DOMAIN waiting : promise[waiting[i]] = "pending" /\ child[waiting[i]] = "none"
    BY <2>1 DEF Guarded, Queued
  <2>4. Busy(promise, child) = {c \in Calls : Running(c)}
        /\ Busy(promise, child) \cap Jobs = {c \in Jobs : Running(c)}
    BY DEF Busy, Running, Calls
  <2>5. timer \subseteq {c \in Calls : Running(c)}
    BY <2>4 DEF Guarded, Counted, Watched
  <2>6. \A c \in Calls : Hung(c) => child[c] = "exited"
    BY DEF Guarded, Typed, Child, Counted, Watched, Hung, Running
  <2>7. child \in [Calls -> {"none", "alive", "exited", "dying", "gone"}]
    BY DEF Guarded, Typed, Child
  <2>8. promise \in [Calls -> {"none", "pending", "done", "failed", "throttled"}]
    BY DEF Guarded, Typed, Told
  <2> QED BY <2>1, <2>2, <2>3, <2>4, <2>5, <2>6, <2>7, <2>8
          DEF Guarded, Typed, Counted, NoneIdle, TypeOK
<1> QED BY <1>1, GuardedHolds, PTL

\* Of the processes of jobs no more are alive than the queue has slots, whatever
\* ends, hangs or is killed (queue.ts, runner.ts).
THEOREM ProcessesBoundedHolds == Spec => []ProcessesBounded
<1>1. Guarded => ProcessesBounded
  <2> SUFFICES ASSUME Guarded PROVE ProcessesBounded
    OBVIOUS
  <2> DEFINE slots == Busy(promise, child) \cap Jobs
             alive == {c \in Jobs : child[c] = "alive"}
  <2>1. alive \subseteq slots
    BY DEF Guarded, Counted, Watched, Busy, Calls
  <2>2. IsFiniteSet(slots) /\ Cardinality(slots) = active /\ active <= Concurrency
    BY DEF Guarded, Counted
  <2>3. active \in Nat
    BY DEF Guarded, Typed
  <2> HIDE DEF slots
  <2>4. IsFiniteSet(alive) /\ Cardinality(alive) <= Cardinality(slots)
    BY <2>1, <2>2, FS_Subset
  <2>5. Cardinality(alive) \in Nat
    BY <2>4, FS_CardinalityType
  <2>6. Cardinality(alive) <= Concurrency
    BY <2>2, <2>3, <2>4, <2>5, LimitsAssumption
  <2> QED BY <2>6 DEF ProcessesBounded
<1> QED BY <1>1, GuardedHolds, PTL

\* A call settles once and for good, and is charged if and only if it was
\* answered (runner.ts, `settled`): no end of a killed process answers or counts.
THEOREM SettledOnceHolds == Spec => SettledOnce
<1> DEFINE Once ==
      \A c \in Calls :
        /\ promise[c] \in {"done", "failed", "throttled"} => promise'[c] = promise[c]
        /\ (\E e \in entries' \ entries : e.call = c)
             <=> (promise[c] = "pending" /\ promise'[c] = "done")
<1>1. ASSUME Guarded, UNCHANGED entries, Promised,
             \A d \in Calls : promise'[d] = "done" => promise[d] = "done"
      PROVE  Once
  BY <1>1 DEF Promised
<1>2. ASSUME Guarded, UNCHANGED <<promise, entries>>
      PROVE  Once
  BY <1>2
<1>3. ASSUME Guarded, NEW c \in Calls, Close(c)
      PROVE  Once
  <2> DEFINE new == [call |-> c, at |-> now]
  <2>1. /\ Promised /\ entries' = Recorded(c) /\ promise'[c] = "done" /\ promise[c] = "pending"
        /\ \A d \in Calls : promise'[d] = "done" => promise[d] = "done" \/ d = c
    BY <1>3, CloseGuarded DEF Busy
  <2>2. new.call = c
    OBVIOUS
  <2>3. new \notin entries
    BY <1>3, <2>1, <2>2 DEF Guarded, Answered
  <2>4. new \in entries' /\ \A e \in entries' : e \in entries \/ e = new
    BY <1>3, <2>1, RecordedIs
  <2> HIDE DEF new
  <2>5. \A d \in Calls : (\E e \in entries' \ entries : e.call = d) <=> d = c
    BY <2>2, <2>3, <2>4
  <2>6. \A d \in Calls : (promise[d] = "pending" /\ promise'[d] = "done") <=> d = c
    BY <2>1
  <2> QED BY <2>1, <2>5, <2>6 DEF Promised
<1>4. Guarded /\ [Next]_vars => [Once]_vars
  <2> SUFFICES ASSUME Guarded, Next PROVE Once
    BY DEF vars
  <2>1. ASSUME NEW c \in Calls, Enqueue(c) PROVE Once
    BY <1>1, <2>1, EnqueueGuarded
  <2>2. ASSUME NEW c \in Calls, CallDirectly(c) PROVE Once
    BY <1>1, <2>2, CallDirectlyGuarded
  <2>3. ASSUME NEW c \in Calls, Fails(c) PROVE Once
    BY <1>1, <2>3, FailureGuarded
  <2>4. ASSUME Passes PROVE Once
    BY <1>2, <2>4, PassingGuarded
  <2> QED BY <1>3, <2>1, <2>2, <2>3, <2>4, Steps
<1> QED BY <1>4, GuardedHolds, PTL DEF Spec, SettledOnce

-----------------------------------------------------------------------------
(* The throttle.                                                           *)

\* What background work has used in the window, and what of it is under way.
Used == {e \in InWindow(entries) : e.call \in Deferrable}
Under == Busy(promise, child) \cap Deferrable

Room == Concurrency + Cardinality(Direct \cap Deferrable)

Within == Throttle > 0 => Cardinality(Used) + Cardinality(Under) <= Throttle - 1 + Room

\* No more is under way than has a slot, or needs none.
LEMMA UnderFits ==
  Guarded => /\ IsFiniteSet(Used) /\ Cardinality(Used) \in Nat
             /\ IsFiniteSet(Under) /\ Cardinality(Under) \in Nat
             /\ Room \in Nat /\ Cardinality(Under) <= Room
<1> SUFFICES ASSUME Guarded PROVE UnderFits!2
  OBVIOUS
<1> DEFINE slots == Busy(promise, child) \cap Jobs
           past == Direct \cap Deferrable
<1>1. IsFiniteSet(slots) /\ Cardinality(slots) = active /\ active <= Concurrency /\ active \in Nat
  BY DEF Guarded, Typed, Counted
<1>2. IsFiniteSet(past) /\ Cardinality(past) \in Nat
  BY CallsAssumption, FS_Subset, FS_CardinalityType
<1>3. Under \subseteq slots \cup past
  BY DEF Under, Busy, Calls, Deferrable
<1>4. slots \cap past = {}
  BY CallsAssumption
<1> HIDE DEF slots, past
<1>5. /\ IsFiniteSet(slots \cup past)
      /\ Cardinality(slots \cup past) = Cardinality(slots) + Cardinality(past) - Cardinality(slots \cap past)
  BY <1>1, <1>2, FS_Union
<1>6. Cardinality(slots \cap past) = 0
  BY <1>4, FS_EmptySet
<1>7. IsFiniteSet(Under) /\ Cardinality(Under) <= Cardinality(slots \cup past)
  BY <1>3, <1>5, FS_Subset
<1>8. Cardinality(Under) \in Nat
  BY <1>7, FS_CardinalityType
<1>9. Cardinality(Under) <= Concurrency + Cardinality(past)
  BY <1>1, <1>2, <1>5, <1>6, <1>7, <1>8, LimitsAssumption
<1>10. Used \subseteq entries /\ IsFiniteSet(entries)
  BY DEF Used, InWindow, Guarded, Typed
<1>11. IsFiniteSet(Used) /\ Cardinality(Used) \in Nat
  BY <1>10, FS_Subset, FS_CardinalityType
<1> QED BY <1>2, <1>7, <1>8, <1>9, <1>11, LimitsAssumption DEF Room, past

\* Where a deferrable call is allowed the window is not full, so that whatever is
\* under way afterwards stays within the bound.
LEMMA AllowedWithin ==
  ASSUME Guarded', UNCHANGED now, NEW c \in Deferrable, Allowed(c, entries')
  PROVE  Within'
<1>1. /\ IsFiniteSet(Used') /\ Cardinality(Used') \in Nat /\ Cardinality(Under') \in Nat
      /\ Room \in Nat /\ Cardinality(Under') <= Room
  <2>1. Guarded' => /\ IsFiniteSet(Used)' /\ (Cardinality(Used) \in Nat)'
                    /\ (Cardinality(Under) \in Nat)'
                    /\ (Room \in Nat)' /\ (Cardinality(Under) <= Room)'
    BY UnderFits, PTL
  <2> QED BY <2>1 DEF Room
<1>2. InWindow(entries)' = InWindow(entries')
  BY DEF InWindow
<1>3. IsFiniteSet(InWindow(entries)') /\ Cardinality(InWindow(entries)') \in Nat
  <2>1. InWindow(entries') \subseteq entries' /\ IsFiniteSet(entries')
    BY DEF InWindow, Guarded, Typed
  <2> QED BY <1>2, <2>1, FS_Subset, FS_CardinalityType
<1>4. Cardinality(InWindow(entries)') < Throttle
  BY <1>2 DEF Allowed, Deferrable
<1>5. Cardinality(Used') <= Cardinality(InWindow(entries)')
  <2>1. Used' \subseteq InWindow(entries)'
    BY DEF Used
  <2> QED BY <1>3, <2>1, FS_Subset
<1>6. Throttle \in Nat
  BY LimitsAssumption DEF ConfigFromEnv
<1>7. Within' <=> (Throttle > 0 => Cardinality(Used') + Cardinality(Under') <= Throttle - 1 + Room)
  BY DEF Within, Room
<1>8. Cardinality(Used') <= Throttle - 1
  BY <1>1, <1>3, <1>4, <1>5, <1>6
<1> QED BY <1>1, <1>6, <1>7, <1>8

\* Fewer under way, and no more used.
LEMMA LessWithin ==
  ASSUME Guarded, Within, Guarded', Used' \subseteq Used, Under' \subseteq Under
  PROVE  Within'
<1>1. /\ IsFiniteSet(Used) /\ Cardinality(Used) \in Nat
      /\ IsFiniteSet(Under) /\ Cardinality(Under) \in Nat /\ Room \in Nat
  BY UnderFits
<1>2. /\ IsFiniteSet(Used') /\ Cardinality(Used') <= Cardinality(Used)
      /\ IsFiniteSet(Under') /\ Cardinality(Under') <= Cardinality(Under)
  BY <1>1, FS_Subset
<1>3. Cardinality(Used') \in Nat /\ Cardinality(Under') \in Nat
  BY <1>2, FS_CardinalityType
<1>4. Throttle \in Nat
  BY LimitsAssumption DEF ConfigFromEnv
<1>5. Within' <=> (Throttle > 0 => Cardinality(Used') + Cardinality(Under') <= Throttle - 1 + Room)
  BY DEF Within, Room
<1> QED BY <1>1, <1>2, <1>3, <1>4, <1>5 DEF Within

\* A call that leaves what is under way for the window changes nothing in sum.
LEMMA ChargedWithin ==
  ASSUME Guarded, Within, Guarded', NEW c \in Under, NEW e,
         Used' \subseteq Used \cup {e}, Under' \subseteq Under \ {c}
  PROVE  Within'
<1>1. /\ IsFiniteSet(Used) /\ Cardinality(Used) \in Nat
      /\ IsFiniteSet(Under) /\ Cardinality(Under) \in Nat /\ Room \in Nat
  BY UnderFits
<1>2. /\ IsFiniteSet(Used \cup {e}) /\ Cardinality(Used \cup {e}) \in Nat
      /\ Cardinality(Used \cup {e}) <= Cardinality(Used) + 1
  BY <1>1, OneMore
<1>3. /\ IsFiniteSet(Under \ {c}) /\ Cardinality(Under \ {c}) = Cardinality(Under) - 1
  BY <1>1, FS_RemoveElement
<1>4. /\ IsFiniteSet(Used') /\ Cardinality(Used') <= Cardinality(Used \cup {e})
      /\ IsFiniteSet(Under') /\ Cardinality(Under') <= Cardinality(Under \ {c})
  BY <1>2, <1>3, FS_Subset
<1>5. /\ Cardinality(Used') \in Nat /\ Cardinality(Under') \in Nat
      /\ Cardinality(Under \ {c}) \in Nat
  BY <1>3, <1>4, FS_CardinalityType
<1>6. Throttle \in Nat
  BY LimitsAssumption DEF ConfigFromEnv
<1>7. Within' <=> (Throttle > 0 => Cardinality(Used') + Cardinality(Under') <= Throttle - 1 + Room)
  BY DEF Within, Room
<1> QED BY <1>1, <1>2, <1>3, <1>4, <1>5, <1>6, <1>7 DEF Within

LEMMA NextWithin == Guarded /\ Within /\ [Next]_vars => Within'
<1> SUFFICES ASSUME Guarded, Within, [Next]_vars PROVE Within'
  OBVIOUS
<1>1. Guarded'
  BY NextGuarded
<1>2. ASSUME UNCHANGED <<entries, now>>,
             \A d \in Busy(promise', child') : d \in Busy(promise, child) \/ Allowed(d, entries)
      PROVE  Within'
  <2>1. CASE \E c \in Deferrable : Allowed(c, entries)
    BY <1>1, <1>2, <2>1, AllowedWithin
  <2>2. CASE ~\E c \in Deferrable : Allowed(c, entries)
    <3>1. Under' \subseteq Under
      BY <1>2, <2>2 DEF Under
    <3>2. Used' = Used
      BY <1>2 DEF Used, InWindow
    <3> QED BY <1>1, <3>1, <3>2, LessWithin
  <2> QED BY <2>1, <2>2
<1>3. ASSUME NEW c \in Calls, Close(c) PROVE Within'
  <2> DEFINE new == [call |-> c, at |-> now]
  <2>1. /\ entries' = Recorded(c) /\ UNCHANGED now /\ c \in Busy(promise, child)
        /\ \A d \in Busy(promise', child') :
             d \in Busy(promise, child) \ {c} \/ Allowed(d, Recorded(c))
    BY <1>3, CloseGuarded
  <2>2. CASE \E d \in Deferrable : Allowed(d, Recorded(c))
    BY <1>1, <2>1, <2>2, AllowedWithin
  <2>3. CASE ~\E d \in Deferrable : Allowed(d, Recorded(c))
    <3>1. Under' \subseteq Under \ {c}
      BY <2>1, <2>3 DEF Under
    <3>2. \A e \in entries' : e \in entries \/ e = new
      BY <2>1, RecordedIs
    <3>3. new.call = c
      OBVIOUS
    <3> HIDE DEF new
    <3>4. Used' \subseteq Used \cup {new}
      BY <2>1, <3>2 DEF Used, InWindow
    <3>5. CASE c \in Deferrable
      <4>1. c \in Under
        BY <2>1, <3>5 DEF Under
      <4> QED BY <1>1, <3>1, <3>4, <4>1, ChargedWithin
    <3>6. CASE c \notin Deferrable
      <4>1. Used' \subseteq Used
        BY <3>3, <3>4, <3>6 DEF Used
      <4> QED BY <1>1, <3>1, <4>1, LessWithin
    <3> QED BY <3>5, <3>6
  <2> QED BY <2>2, <2>3
<1>4. ASSUME NEW c \in Calls, Enqueue(c) PROVE Within'
  BY <1>2, <1>4, EnqueueGuarded
<1>5. ASSUME NEW c \in Calls, CallDirectly(c) PROVE Within'
  BY <1>2, <1>5, CallDirectlyGuarded
<1>6. ASSUME NEW c \in Calls, Fails(c) PROVE Within'
  BY <1>2, <1>6, FailureGuarded
<1>7. ASSUME UNCHANGED <<promise, entries>>, Busy(promise', child') = Busy(promise, child),
             now' \in now..(now + 1)
      PROVE  Within'
  <2>1. now \in Nat /\ now' \in Nat /\ now <= now' /\ Window \in Nat
    BY <1>7, LimitsAssumption DEF Guarded, Typed, ConfigFromEnv
  <2>2. \A e \in entries : e.at \in Nat
    BY LimitsAssumption DEF Guarded, Typed
  <2>3. Used' \subseteq Used
    BY <1>7, <2>1, <2>2 DEF Used, InWindow
  <2>4. Under' = Under
    BY <1>7 DEF Under
  <2> QED BY <1>1, <2>3, <2>4, LessWithin
<1>8. ASSUME Passes PROVE Within'
  BY <1>7, <1>8, PassingGuarded
<1>9. ASSUME UNCHANGED vars PROVE Within'
  BY <1>9 DEF vars, Within, Used, Under, InWindow, Busy, Room
<1> QED BY <1>3, <1>4, <1>5, <1>6, <1>8, <1>9, Steps

\* Background work overshoots the throttle by no more than what was under way
\* when the limit was reached (throttle.ts: checked before, recorded after).
THEOREM OvershootBoundedHolds == Spec => []OvershootBounded
<1>1. Init => Within
  <2> SUFFICES ASSUME Init PROVE Within
    OBVIOUS
  <2>1. Used = {} /\ Under = {}
    BY DEF Init, Used, Under, InWindow, Busy
  <2>2. Cardinality(Used) = 0 /\ Cardinality(Under) = 0
    BY <2>1, FS_EmptySet
  <2>3. Room \in Nat /\ Throttle \in Nat
    BY StartsGuarded, UnderFits, LimitsAssumption DEF ConfigFromEnv
  <2> QED BY <2>2, <2>3 DEF Within
<1>2. Guarded /\ Within => OvershootBounded
  <2> SUFFICES ASSUME Guarded, Within PROVE OvershootBounded
    OBVIOUS
  <2>1. Under = {c \in Deferrable : Running(c)}
    BY DEF Under, Busy, Running, Deferrable
  <2>2. Cardinality(Direct \cap Deferrable) \in Nat
    BY CallsAssumption, FS_Subset, FS_CardinalityType
  <2>3. Throttle - 1 + Room = Throttle - 1 + Concurrency + Cardinality(Direct \cap Deferrable)
    BY <2>2, LimitsAssumption DEF Room, ConfigFromEnv
  <2> QED BY <2>1, <2>3 DEF OvershootBounded, Within, Used
<1> QED BY <1>1, <1>2, NextWithin, GuardedHolds, PTL DEF Spec
=============================================================================
