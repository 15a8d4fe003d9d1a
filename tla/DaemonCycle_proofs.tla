-------------------------- MODULE DaemonCycle_proofs --------------------------
(***************************************************************************)
(* Theorems about DaemonCycle, for any number of daemons, users, threads   *)
(* and messages, and about the engine of the deadlines it records          *)
(* (Deadlines), for every instant and every phrase.                        *)
(*                                                                         *)
(* A task once found is found again: rows are only added, and their ids    *)
(* are 1, 2, ... in some order (Kept).  So what a poll read names a row    *)
(* when it is written, and a row is told by its id whatever order an       *)
(* update has left the rows in: a write moves the one row it names.        *)
(* With one daemon (OneDaemon) nobody writes a promise between its         *)
(* listPromises and its createPromise (Recorded), and a nudge without its  *)
(* DraftMeta is one a fault was paid for (Piled); with two neither holds.  *)
(***************************************************************************)
EXTENDS DaemonCycle, Deadlines, WellFoundedInduction, TLAPS

-----------------------------------------------------------------------------
(* A thread's rows.                                                        *)

\* The ids of a thread's rows are 1, 2, ... in some order.
Numbered(s) ==
  /\ \A i \in DOMAIN s : s[i].id \in 1..Len(s)
  /\ \A i, j \in DOMAIN s : s[i].id = s[j].id => i = j
  /\ \A id \in 1..Len(s) : \E i \in DOMAIN s : s[i].id = id

\* A row of `before` that `after` still has is in the same state there.
SameStates(before, after) ==
  \A i \in DOMAIN before, j \in DOMAIN after :
    before[i].id = after[j].id => before[i].state = after[j].state

LEMMA PushFront ==
  ASSUME NEW S, NEW s \in Seq(S), NEW e \in S
  PROVE /\ <<e>> \o s \in Seq(S)
        /\ Len(<<e>> \o s) = Len(s) + 1
        /\ \A i \in 1..Len(s) + 1 : (<<e>> \o s)[i] = IF i = 1 THEN e ELSE s[i - 1]
OBVIOUS

LEMMA Joined ==
  ASSUME NEW S, NEW a \in Seq(S), NEW b \in Seq(S)
  PROVE a \o b \in Seq(S) /\ Len(a \o b) = Len(a) + Len(b)
OBVIOUS

LEMMA Without ==
  ASSUME NEW S, NEW s \in Seq(S), NEW k \in 1..Len(s)
  PROVE /\ RemoveAt(s, k) \in Seq(S)
        /\ Len(RemoveAt(s, k)) = Len(s) - 1
        /\ \A i \in 1..Len(s) - 1 : RemoveAt(s, k)[i] = IF i < k THEN s[i] ELSE s[i + 1]
<1> DEFINE a == SubSeq(s, 1, k - 1)
           b == SubSeq(s, k + 1, Len(s))
<1>1. /\ a \in Seq(S) /\ Len(a) = k - 1
      /\ \A i \in 1..k - 1 : a[i] = s[i]
  OBVIOUS
<1>2. /\ b \in Seq(S) /\ Len(b) = Len(s) - k
      /\ \A i \in 1..Len(s) - k : b[i] = s[i + k]
  OBVIOUS
<1>3. RemoveAt(s, k) = a \o b
  BY DEF RemoveAt
<1> HIDE DEF a, b
<1>4. a \o b \in Seq(S) /\ Len(a \o b) = Len(s) - 1
  <2>1. a \o b \in Seq(S) /\ Len(a \o b) = Len(a) + Len(b)
    BY Zenon, Joined, <1>1, <1>2
  <2>2. Len(s) \in Nat
    OBVIOUS
  <2> QED BY <1>1, <1>2, <2>1, <2>2
<1>5. ASSUME NEW i \in 1..Len(s) - 1
      PROVE (a \o b)[i] = IF i < k THEN s[i] ELSE s[i + 1]
  BY <1>1, <1>2
<1> QED
  BY <1>3, <1>4, <1>5

\* CreateTask puts a row with the next id first.
LEMMA Created ==
  ASSUME NEW s \in Seq(Task), Numbered(s), NEW task \in Task, task.id = Len(s) + 1
  PROVE LET u == <<task>> \o s
        IN u \in Seq(Task) /\ Numbered(u) /\ Len(u) = Len(s) + 1 /\ SameStates(s, u)
<1> DEFINE u == <<task>> \o s
<1>1. /\ u \in Seq(Task) /\ Len(u) = Len(s) + 1
      /\ \A i \in 1..Len(s) + 1 : u[i] = IF i = 1 THEN task ELSE s[i - 1]
  BY PushFront
<1>d. Len(s) \in Nat /\ DOMAIN s = 1..Len(s) /\ DOMAIN u = 1..Len(s) + 1
  BY <1>1
<1> HIDE DEF u
<1>2. ASSUME NEW i \in DOMAIN u PROVE u[i].id \in 1..Len(u)
  <2>1. CASE i = 1
    BY <1>1, <1>d, <2>1
  <2>2. CASE i # 1
    <3>1. i - 1 \in DOMAIN s /\ u[i] = s[i - 1]
      BY <1>1, <1>2, <1>d, <2>2
    <3>2. s[i - 1].id \in 1..Len(s)
      BY <3>1 DEF Numbered
    <3> QED BY <1>1, <1>d, <3>1, <3>2
  <2> QED BY <2>1, <2>2
<1>f. ASSUME NEW i \in DOMAIN u, i # 1
      PROVE i - 1 \in DOMAIN s /\ u[i] = s[i - 1] /\ u[i].id # u[1].id
  <2>1. i - 1 \in DOMAIN s /\ u[i] = s[i - 1] /\ u[1].id = Len(s) + 1
    BY <1>1, <1>f, <1>d
  <2>2. s[i - 1].id \in 1..Len(s)
    BY <2>1 DEF Numbered
  <2> QED BY <1>d, <2>1, <2>2
<1>3. ASSUME NEW i \in DOMAIN u, NEW j \in DOMAIN u, u[i].id = u[j].id PROVE i = j
  <2>1. CASE i = 1 \/ j = 1
    BY Zenon, <1>3, <1>f, <2>1
  <2>2. CASE i # 1 /\ j # 1
    <3>1. i - 1 = j - 1
      BY <1>3, <1>f, <2>2 DEF Numbered
    <3> QED BY <1>d, <3>1
  <2> QED BY <2>1, <2>2
<1>4. ASSUME NEW id \in 1..Len(u) PROVE \E i \in DOMAIN u : u[i].id = id
  <2>1. CASE id = Len(s) + 1
    <3>1. 1 \in DOMAIN u /\ u[1].id = id
      BY <1>1, <1>d, <2>1
    <3> QED BY <3>1
  <2>2. CASE id # Len(s) + 1
    <3>1. PICK i \in DOMAIN s : s[i].id = id
      BY <1>1, <1>d, <2>2 DEF Numbered
    <3>2. i + 1 \in DOMAIN u /\ u[i + 1].id = id
      BY <1>1, <1>d, <3>1
    <3> QED BY <3>2
  <2> QED BY <2>1, <2>2
<1>5. SameStates(s, u)
  <2> SUFFICES ASSUME NEW i \in DOMAIN s, NEW j \in DOMAIN u, s[i].id = u[j].id
               PROVE s[i].state = u[j].state
    BY DEF SameStates
  <2>1. j # 1 /\ u[j] = s[j - 1] /\ j - 1 \in DOMAIN s
    BY <1>1, <1>d, SMTT(30) DEF Numbered
  <2> QED BY <2>1 DEF Numbered
<1>6. Numbered(u)
  BY <1>2, <1>3, <1>4 DEF Numbered
<1> QED
  BY <1>1, <1>5, <1>6 DEF u

\* An update puts its row first; the others keep their order.
LEMMA Updated ==
  ASSUME NEW s \in Seq(Task), Numbered(s), NEW k \in 1..Len(s),
         NEW task \in Task, task.id = s[k].id
  PROVE LET u == <<task>> \o RemoveAt(s, k)
        IN /\ u \in Seq(Task) /\ Numbered(u) /\ Len(u) = Len(s)
           /\ \A i \in DOMAIN s, j \in DOMAIN u :
                s[i].id = u[j].id => IF i = k THEN u[j] = task ELSE u[j] = s[i]
<1> DEFINE r == RemoveAt(s, k)
           u == <<task>> \o r
<1>1. /\ r \in Seq(Task) /\ Len(r) = Len(s) - 1
      /\ \A i \in 1..Len(s) - 1 : r[i] = IF i < k THEN s[i] ELSE s[i + 1]
  BY Without
<1> HIDE DEF r
<1>2. /\ u \in Seq(Task) /\ Len(u) = Len(r) + 1
      /\ \A i \in 1..Len(r) + 1 : u[i] = IF i = 1 THEN task ELSE r[i - 1]
  BY <1>1, PushFront
<1>d. Len(s) \in Nat /\ DOMAIN s = 1..Len(s) /\ DOMAIN u = 1..Len(s)
  BY <1>1, <1>2
\* Where row j comes from.
<1> DEFINE from(j) == IF j = 1 THEN k ELSE IF j <= k THEN j - 1 ELSE j
<1> HIDE DEF u
<1>3. ASSUME NEW j \in 1..Len(s)
      PROVE /\ from(j) \in 1..Len(s)
            /\ u[j] = IF j = 1 THEN task ELSE s[from(j)]
            /\ (j = 1) <=> (from(j) = k)
            /\ u[j].id = s[from(j)].id
  <2>1. CASE j = 1
    BY <1>1, <1>2, <1>d, <2>1
  <2>2. CASE j # 1 /\ j <= k
    <3>1. u[j] = r[j - 1] /\ j - 1 \in 1..Len(s) - 1
      BY <1>1, <1>2, <1>d, <2>2
    <3>2. r[j - 1] = s[j - 1]
      BY <1>1, <1>d, <2>2, <3>1
    <3> QED BY <1>d, <2>2, <3>1, <3>2
  <2>3. CASE j > k
    <3>1. u[j] = r[j - 1] /\ j - 1 \in 1..Len(s) - 1 /\ j # 1
      BY <1>1, <1>2, <1>d, <2>3
    <3>2. r[j - 1] = s[j]
      BY <1>1, <1>d, <2>3, <3>1
    <3> QED BY <1>d, <2>3, <3>1, <3>2
  <2> QED BY <1>d, <2>1, <2>2, <2>3
<1>4. ASSUME NEW i \in 1..Len(s), NEW j \in 1..Len(s), from(i) = from(j) PROVE i = j
  BY <1>4, <1>d
<1>5. ASSUME NEW i \in 1..Len(s) PROVE \E j \in 1..Len(s) : from(j) = i
  <2> DEFINE j == IF i = k THEN 1 ELSE IF i < k THEN i + 1 ELSE i
  <2>1. j \in 1..Len(s) /\ from(j) = i
    BY <1>d
  <2> QED BY <2>1
<1> HIDE DEF from
<1>l. Len(u) = Len(s)
  BY <1>1, <1>2, <1>d
<1>6. ASSUME NEW i \in DOMAIN u PROVE u[i].id \in 1..Len(u)
  <2>1. from(i) \in DOMAIN s /\ u[i].id = s[from(i)].id
    BY <1>3, <1>d
  <2> QED BY <1>l, <2>1 DEF Numbered
<1>7. ASSUME NEW i \in DOMAIN u, NEW j \in DOMAIN u, u[i].id = u[j].id PROVE i = j
  <2>1. /\ from(i) \in DOMAIN s /\ u[i].id = s[from(i)].id
        /\ from(j) \in DOMAIN s /\ u[j].id = s[from(j)].id
    BY <1>3, <1>d
  <2>2. from(i) = from(j)
    BY Zenon, <1>7, <2>1 DEF Numbered
  <2> QED BY <1>4, <1>d, <2>2
<1>8. ASSUME NEW id \in 1..Len(u) PROVE \E j \in DOMAIN u : u[j].id = id
  <2>1. PICK i \in 1..Len(s) : s[i].id = id
    BY <1>1, <1>2, <1>d, <1>8 DEF Numbered
  <2>2. PICK j \in 1..Len(s) : from(j) = i
    BY <1>5
  <2> QED BY <1>3, <1>d, <2>1, <2>2
<1>9. ASSUME NEW i \in DOMAIN s, NEW j \in DOMAIN u, s[i].id = u[j].id
      PROVE IF i = k THEN u[j] = task ELSE u[j] = s[i]
  <2>1. from(j) \in DOMAIN s /\ u[j].id = s[from(j)].id
    BY <1>3, <1>d
  <2>2. from(j) = i
    BY Zenon, <1>9, <2>1 DEF Numbered
  <2> QED BY <1>3, <1>d, <2>2
<1>10. Numbered(u)
  BY <1>6, <1>7, <1>8 DEF Numbered
<1> QED
  BY <1>1, <1>2, <1>9, <1>10 DEF u, r

LEMMA MinInSet ==
  ASSUME NEW S, S \subseteq Nat, S # {}
  PROVE Min(S) \in S
<1>1. \E x \in S : \A y \in S : x <= y
  <2>1. PICK x \in S : \A y \in S : <<y, x>> \notin OpToRel(<, Nat)
    BY WFMin, NatLessThanWellFounded
  <2>2. \A y \in S : ~(y < x)
    BY <2>1 DEF OpToRel
  <2> QED BY <2>2
<1> QED
  BY Zenon, <1>1 DEF Min

-----------------------------------------------------------------------------
(* The inductive invariant: the type invariant, and that a task once found *)
(* is found again.                                                         *)

Rows ==
  /\ tasks \in [Threads -> Seq(Task)]
  /\ \A t \in Threads : Numbered(tasks[t])

\* The contexts and the writes that name a row there is.
Contexts == {c \in Context : c.id <= Len(tasks[ThreadOf[c.msg]])}
Writes == {w \in Write : w.id <= Len(tasks[w.thread])}

Refs ==
  /\ queue \in [Daemons -> Seq(Contexts)]
  /\ asked \in [Users -> SUBSET Writes]

Stages == {"idle", "build", "triage", "extract", "record", "stale", "nudge", "file", "meta"}

Working(d) == pc[d] \notin {"idle", "build", "triage"} => queue[d] # << >>

Cycles ==
  /\ feed \in [Daemons -> Seq(Messages)] /\ todo \in [Daemons -> Seq(Messages)]
  /\ pc \in [Daemons -> Stages]
  /\ \A d \in Daemons : Working(d)
  /\ applied \in [Daemons -> BOOLEAN]
  /\ known \in [Daemons -> SUBSET Promises]

Rest ==
  /\ promises \in [Threads -> [Promises -> 0..2]]
  /\ drafts \subseteq Threads
  /\ filed \in [Threads -> 0..3]
  /\ sent \subseteq Messages
  /\ now \in 1..MaxNow /\ ops \in 0..MaxOps /\ faults \in 0..MaxFaults

Kept == Rows /\ Refs /\ Cycles /\ Rest

LEMMA Wider ==
  ASSUME NEW S, NEW T, S \subseteq T
  PROVE Seq(S) \subseteq Seq(T)
OBVIOUS

LEMMA KeptIsTyped == Kept => TypeOK
<1> SUFFICES ASSUME Kept PROVE TypeOK
  OBVIOUS
<1>1. Seq(Contexts) \subseteq Seq(Context)
  <2>1. Contexts \subseteq Context
    BY DEF Contexts
  <2> QED BY <2>1, Wider
<1>2. queue \in [Daemons -> Seq(Context)]
  BY <1>1 DEF Kept, Refs
<1>3. asked \in [Users -> SUBSET Write]
  BY DEF Kept, Refs, Writes
<1> QED
  BY <1>2, <1>3 DEF TypeOK, Kept, Rows, Cycles, Rest, Stages, Working

LEMMA InitKept == Init => Kept
<1> SUFFICES ASSUME Init PROVE Kept
  OBVIOUS
<1> USE InputsAssumption
<1>1. Rows
  BY DEF Init, Rows, Numbered
<1>2. Refs
  BY DEF Init, Refs
<1>3. Cycles
  BY DEF Init, Cycles, Stages, Working
<1>4. Rest
  BY DEF Init, Rest
<1> QED
  BY <1>1, <1>2, <1>3, <1>4 DEF Kept

-----------------------------------------------------------------------------
(* The calls of the metadata service.                                      *)

\* No call takes a row away.
Grows == Rows' /\ \A t \in Threads : Len(tasks[t]) <= Len(tasks'[t])

\* What a step changes in the state of a row is an edge of the table.
Moves ==
  \A t \in Threads : \A i \in DOMAIN tasks[t], j \in DOMAIN tasks'[t] :
    tasks[t][i].id = tasks'[t][j].id /\ tasks[t][i].state # tasks'[t][j].state =>
      <<tasks[t][i].state, tasks'[t][j].state>> \in AutoEdges

LEMMA Untouched ==
  ASSUME Rows, tasks' = tasks
  PROVE Grows /\ Moves
<1>1. Rows'
  BY DEF Rows
<1>2. \A t \in Threads : Len(tasks[t]) \in Nat
  BY DEF Rows
<1>3. Moves
  BY DEF Moves, Rows, Numbered
<1> QED
  BY <1>1, <1>2, <1>3 DEF Grows

LEMMA RowWith ==
  ASSUME Rows, NEW t \in Threads, NEW id \in 1..Len(tasks[t])
  PROVE /\ TaskWith(t, id) \in 1..Len(tasks[t])
        /\ tasks[t][TaskWith(t, id)] \in Task
        /\ tasks[t][TaskWith(t, id)].id = id
<1>1. tasks[t] \in Seq(Task) /\ DOMAIN tasks[t] = 1..Len(tasks[t])
  BY DEF Rows
<1>2. \E i \in DOMAIN tasks[t] : tasks[t][i].id = id
  BY DEF Rows, Numbered
<1>3. TaskWith(t, id) \in DOMAIN tasks[t] /\ tasks[t][TaskWith(t, id)].id = id
  BY Zenon, <1>2 DEF TaskWith
<1> QED
  BY <1>1, <1>3

LEMMA Creates ==
  ASSUME Rows, NEW t \in Threads, NEW state \in TaskState, CreateTask(t, state)
  PROVE Grows /\ Moves
<1> DEFINE s == tasks[t]
           task == [id |-> Len(s) + 1, state |-> state, followUpAt |-> None]
           u == <<task>> \o s
<1>1. s \in Seq(Task) /\ Numbered(s) /\ Len(s) \in Nat
  BY DEF Rows
<1>2. task \in Task /\ task.id = Len(s) + 1
  BY <1>1 DEF Task, None
<1>3. tasks' = [tasks EXCEPT ![t] = u]
  BY DEF CreateTask
<1> HIDE DEF task
<1>4. u \in Seq(Task) /\ Numbered(u) /\ Len(u) = Len(s) + 1 /\ SameStates(s, u)
  BY <1>1, <1>2, Created
<1> HIDE DEF s, u
<1>5. tasks'[t] = u /\ \A x \in Threads : x # t => tasks'[x] = tasks[x]
  BY <1>3 DEF Rows
<1>6. Rows'
  BY <1>3, <1>4, <1>5 DEF Rows
<1>7. ASSUME NEW x \in Threads PROVE Len(tasks[x]) <= Len(tasks'[x])
  <2>1. CASE x = t
    BY <1>1, <1>4, <1>5, <2>1 DEF s
  <2>2. CASE x # t
    BY <1>5, <2>2 DEF Rows
  <2> QED BY <2>1, <2>2
<1>8. ASSUME NEW x \in Threads PROVE SameStates(tasks[x], tasks'[x])
  <2>1. CASE x = t
    BY <1>4, <1>5, <2>1 DEF s
  <2>2. CASE x # t
    BY <1>5, <2>2 DEF Rows, Numbered, SameStates
  <2> QED BY <2>1, <2>2
<1>9. Moves
  BY Zenon, <1>8 DEF Moves, SameStates
<1> QED
  BY <1>6, <1>7, <1>9 DEF Grows

LEMMA Updates ==
  ASSUME Rows, NEW t \in Threads, NEW id \in 1..Len(tasks[t]),
         NEW task \in Task, task.id = id, Update(t, id, task)
  PROVE /\ Grows
        /\ <<tasks[t][TaskWith(t, id)].state, task.state>> \in AutoEdges => Moves
<1> DEFINE s == tasks[t]
           k == TaskWith(t, id)
           u == <<task>> \o RemoveAt(s, k)
<1>1. s \in Seq(Task) /\ Numbered(s) /\ Len(s) \in Nat /\ k \in 1..Len(s) /\ task.id = s[k].id
  BY RowWith DEF Rows
<1>2. tasks' = [tasks EXCEPT ![t] = u]
  BY DEF Update
<1> HIDE DEF s, k
<1>3. /\ u \in Seq(Task) /\ Numbered(u) /\ Len(u) = Len(s)
      /\ \A i \in DOMAIN s, j \in DOMAIN u :
           s[i].id = u[j].id => IF i = k THEN u[j] = task ELSE u[j] = s[i]
  BY <1>1, Updated
<1> HIDE DEF u
<1>4. tasks'[t] = u /\ \A x \in Threads : x # t => tasks'[x] = tasks[x]
  BY <1>2 DEF Rows
<1>5. Rows'
  BY <1>2, <1>3, <1>4 DEF Rows
<1>6. ASSUME NEW x \in Threads PROVE Len(tasks[x]) <= Len(tasks'[x])
  <2>1. CASE x = t
    BY <1>1, <1>3, <1>4, <2>1 DEF s
  <2>2. CASE x # t
    BY <1>4, <2>2 DEF Rows
  <2> QED BY <2>1, <2>2
<1>7. ASSUME <<s[k].state, task.state>> \in AutoEdges,
             NEW x \in Threads, NEW i \in DOMAIN tasks[x], NEW j \in DOMAIN tasks'[x],
             tasks[x][i].id = tasks'[x][j].id, tasks[x][i].state # tasks'[x][j].state
      PROVE <<tasks[x][i].state, tasks'[x][j].state>> \in AutoEdges
  <2>1. CASE x = t
    BY Zenon, <1>3, <1>4, <1>7, <2>1 DEF s
  <2>2. CASE x # t
    BY <1>4, <1>7, <2>2, ZenonT(30) DEF Rows, Numbered
  <2> QED BY <2>1, <2>2
<1>8. <<s[k].state, task.state>> \in AutoEdges => Moves
  BY Zenon, <1>7 DEF Moves
<1> QED
  BY <1>5, <1>6, <1>8 DEF Grows, s, k

LEMMA Transitions ==
  ASSUME Rows, NEW t \in Threads, NEW id \in 1..Len(tasks[t]), NEW to \in TaskState,
         Transition(t, id, to)
  PROVE /\ Grows
        /\ <<tasks[t][TaskWith(t, id)].state, to>> \in AutoEdges => Moves
<1> DEFINE old == tasks[t][TaskWith(t, id)]
           task == [old EXCEPT !.state = to]
<1>1. old \in Task /\ old.id = id
  BY RowWith
<1> HIDE DEF old
<1>2. task \in Task /\ task.id = id /\ task.state = to
  BY <1>1 DEF Task
<1>3. Update(t, id, task)
  BY DEF Transition, old
<1> HIDE DEF task
<1>4. Grows /\ (<<old.state, task.state>> \in AutoEdges => Moves)
  BY <1>2, <1>3, Updates DEF old
<1> QED
  BY Zenon, <1>2, <1>4 DEF old


LEMMA Picked ==
  ASSUME Rows, NEW t \in Threads
  PROVE /\ PickTask(t) \in 0..Len(tasks[t])
        /\ tasks[t] # << >> => PickTask(t) \in 1..Len(tasks[t])
<1>1. /\ tasks[t] \in Seq(Task) /\ Len(tasks[t]) \in Nat
      /\ DOMAIN tasks[t] = 1..Len(tasks[t])
      /\ \A i \in DOMAIN tasks[t] : tasks[t][i].id \in 1..Len(tasks[t])
  BY DEF Rows, Numbered
<1>2. CASE tasks[t] = << >>
  BY <1>1, <1>2 DEF PickTask, None
<1>3. CASE tasks[t] # << >> /\ OpenIn(t) # {}
  <2>1. OpenIn(t) \subseteq Nat /\ OpenIn(t) \subseteq DOMAIN tasks[t]
    BY <1>1 DEF OpenIn
  <2>2. Min(OpenIn(t)) \in DOMAIN tasks[t]
    BY <1>3, <2>1, MinInSet
  <2>3. PickTask(t) = tasks[t][Min(OpenIn(t))].id
    BY <1>3 DEF PickTask
  <2> QED BY <1>1, <2>2, <2>3
<1>4. CASE tasks[t] # << >> /\ OpenIn(t) = {}
  <2>1. PickTask(t) = Head(tasks[t]).id /\ 1 \in DOMAIN tasks[t] /\ Head(tasks[t]) = tasks[t][1]
    BY <1>1, <1>4 DEF PickTask
  <2> QED BY <1>1, <2>1
<1> QED
  BY <1>2, <1>3, <1>4

LEMMA ContextOf ==
  ASSUME Rows, NEW m \in Messages
  PROVE TaskContext(m) \in Contexts /\ TaskContext(m).msg = m
<1> USE InputsAssumption
<1> DEFINE t == ThreadOf[m]
           id == PickTask(t)
           task == tasks[t][TaskWith(t, id)]
<1>1. t \in Threads /\ Len(tasks[t]) \in Nat
  BY DEF Rows
<1>2. id \in 0..Len(tasks[t])
  BY <1>1, Picked
<1> HIDE DEF id
<1>3. CASE id = None
  <2>1. TaskContext(m) = [msg |-> m, id |-> None, state |-> "needs-reply", followUpAt |-> None]
    BY <1>3 DEF TaskContext, id
  <2> QED BY <1>1, <2>1 DEF Contexts, Context, TaskState, None
<1>4. CASE id # None
  <2>1. id \in 1..Len(tasks[t])
    BY <1>1, <1>2, <1>4 DEF None
  <2>2. task \in Task
    BY <1>1, <2>1, RowWith
  <2>3. TaskContext(m) = [msg |-> m, id |-> id, state |-> task.state, followUpAt |-> task.followUpAt]
    BY <1>4 DEF TaskContext, id
  <2> HIDE DEF task
  <2> QED BY <1>1, <2>1, <2>2, <2>3 DEF Contexts, Context, Task
<1> QED
  BY <1>3, <1>4

\* What a daemon knows of the message it works at.
LEMMA AtWork ==
  ASSUME Kept, NEW d \in Daemons, queue[d] # << >>
  PROVE /\ Current(d) \in Context /\ Current(d).msg \in Messages /\ Thread(d) \in Threads
        /\ Current(d).id # None => Current(d).id \in 1..Len(tasks[Thread(d)])
<1> USE InputsAssumption
<1>1. queue[d] \in Seq(Contexts)
  BY DEF Kept, Refs
<1>2. Current(d) \in Contexts
  BY <1>1 DEF Current
<1>3. Current(d) \in Context /\ Current(d).id <= Len(tasks[Thread(d)])
  BY <1>2 DEF Contexts, Thread
<1>4. Current(d).msg \in Messages /\ Current(d).id \in Nat /\ Thread(d) \in Threads
  BY <1>3 DEF Context, Thread
<1>5. Len(tasks[Thread(d)]) \in Nat
  BY <1>4 DEF Kept, Rows
<1> QED
  BY <1>3, <1>4, <1>5 DEF None

\* What names a row still does when the rows have grown.
LEMMA RefsGrow ==
  ASSUME Rows, Grows, queue' \in [Daemons -> Seq(Contexts)], asked' \in [Users -> SUBSET Writes]
  PROVE Refs'
<1> USE InputsAssumption
<1>1. \A t \in Threads : Len(tasks[t]) \in Nat /\ Len(tasks'[t]) \in Nat
                           /\ Len(tasks[t]) <= Len(tasks'[t])
  BY DEF Grows, Rows
<1>2. Contexts \subseteq Contexts'
  <2> SUFFICES ASSUME NEW c \in Contexts PROVE c \in Contexts'
    OBVIOUS
  <2>1. c \in Context /\ c.id \in Nat /\ ThreadOf[c.msg] \in Threads
    BY DEF Contexts, Context
  <2>2. c.id <= Len(tasks[ThreadOf[c.msg]])
    BY DEF Contexts
  <2>3. c.id <= Len(tasks'[ThreadOf[c.msg]])
    BY <1>1, <2>1, <2>2
  <2> QED BY <2>1, <2>3 DEF Contexts
<1>3. Writes \subseteq Writes'
  <2> SUFFICES ASSUME NEW w \in Writes PROVE w \in Writes'
    OBVIOUS
  <2>1. w \in Write /\ w.id \in Nat /\ w.thread \in Threads
    BY DEF Writes, Write
  <2>2. w.id <= Len(tasks[w.thread])
    BY DEF Writes
  <2>3. w.id <= Len(tasks'[w.thread])
    BY <1>1, <2>1, <2>2
  <2> QED BY <2>1, <2>3 DEF Writes
<1>4. Seq(Contexts) \subseteq Seq(Contexts')
  BY Zenon, <1>2, Wider
<1>5. queue' \in [Daemons -> Seq(Contexts')] /\ asked' \in [Users -> SUBSET (Writes')]
  BY <1>3, <1>4
<1> QED
  BY <1>5 DEF Refs

\* The daemon goes on to the next message.
LEMMA Goes ==
  ASSUME Kept, NEW d \in Daemons, queue[d] # << >>, NextMessage(d)
  PROVE Cycles' /\ queue' \in [Daemons -> Seq(Contexts)]
<1>1. queue[d] \in Seq(Contexts) /\ queue \in [Daemons -> Seq(Contexts)]
  BY DEF Kept, Refs
<1>2. Tail(queue[d]) \in Seq(Contexts)
  BY <1>1
<1>3. queue' = [queue EXCEPT ![d] = Tail(queue[d])]
  BY DEF NextMessage
<1>4. queue' \in [Daemons -> Seq(Contexts)]
  BY <1>1, <1>2, <1>3
<1>5. /\ pc' \in [Daemons -> Stages] /\ applied' \in [Daemons -> BOOLEAN]
      /\ known' \in [Daemons -> SUBSET Promises]
  BY DEF NextMessage, Goto, Kept, Cycles, Stages
<1>6. \A e \in Daemons : Working(e)'
  BY <1>3 DEF NextMessage, Goto, Kept, Cycles, Working, Refs
<1> QED
  BY <1>4, <1>5, <1>6 DEF NextMessage, Kept, Cycles

\* The daemon goes on with the message it works at.
LEMMA GoesOn ==
  ASSUME Kept, NEW d \in Daemons, queue[d] # << >>, NEW stage \in Stages, Goto(d, stage),
         feed' = feed, todo' = todo, queue' = queue,
         applied' \in [Daemons -> BOOLEAN], known' \in [Daemons -> SUBSET Promises]
  PROVE Cycles' /\ queue' \in [Daemons -> Seq(Contexts)]
<1>1. pc' \in [Daemons -> Stages]
  BY DEF Goto, Kept, Cycles
<1>2. \A e \in Daemons : Working(e)'
  BY DEF Goto, Kept, Cycles, Working
<1> QED
  BY <1>1, <1>2 DEF Kept, Cycles, Refs

LEMMA TargetIsState == \A e \in DOMAIN EventTarget : EventTarget[e] \in TaskState
BY DEF EventTarget, TaskState


-----------------------------------------------------------------------------
(* The steps.                                                              *)

\* What every step brings about.
Steady ==
  /\ Grows
  /\ queue' \in [Daemons -> Seq(Contexts)]
  /\ asked' \in [Users -> SUBSET Writes]
  /\ Cycles'
  /\ Rest'

LEMMA SteadyKept ==
  ASSUME Kept, Steady
  PROVE Kept'
<1>1. Rows' /\ Refs'
  BY Zenon, RefsGrow DEF Steady, Kept, Grows
<1> QED
  BY <1>1 DEF Steady, Kept

LEMMA RestUntouched ==
  ASSUME Kept, promises' = promises, drafts' = drafts, filed' = filed, world' = world
  PROVE Rest'
BY DEF Kept, Rest, world

LEMMA AskedUntouched ==
  ASSUME Kept, asked' = asked
  PROVE asked' \in [Users -> SUBSET Writes]
BY DEF Kept, Refs

\* The source: poll, build, done.
LEMMA SourceSteps ==
  ASSUME Kept, NEW d \in Daemons,
         Poll(d) \/ BuildMessage(d) \/ BuildDone(d) \/ CycleDone(d)
  PROVE Steady /\ Moves
<1>1. tasks' = tasks /\ asked' = asked /\ Rest'
  BY RestUntouched DEF Poll, BuildMessage, BuildDone, CycleDone, metadata
<1>2. Grows /\ Moves
  BY <1>1, Untouched DEF Kept
<1>3. asked' \in [Users -> SUBSET Writes]
  BY <1>1, AskedUntouched
<1>4. Cycles' /\ queue' \in [Daemons -> Seq(Contexts)]
  <2>0. queue[d] \in Seq(Contexts) /\ feed[d] \in Seq(Messages) /\ todo[d] \in Seq(Messages)
    BY DEF Kept, Refs, Cycles
  <2>1. CASE Poll(d)
    <3>1. queue' \in [Daemons -> Seq(Contexts)]
      BY <2>1 DEF Poll, Kept, Refs
    <3>2. pc' \in [Daemons -> Stages] /\ \A e \in Daemons : Working(e)'
      BY <2>1 DEF Poll, Goto, Kept, Cycles, Stages, Working
    <3>3. feed' \in [Daemons -> Seq(Messages)] /\ todo' \in [Daemons -> Seq(Messages)]
      BY <2>0, <2>1 DEF Poll, Kept, Cycles
    <3> QED BY <2>1, <3>1, <3>2, <3>3 DEF Poll, Kept, Cycles
  <2>2. CASE BuildMessage(d)
    <3>1. Head(todo[d]) \in Messages /\ Tail(todo[d]) \in Seq(Messages)
      BY <2>0, <2>2 DEF BuildMessage
    <3>2. TaskContext(Head(todo[d])) \in Contexts
      BY <3>1, ContextOf DEF Kept
    <3> DEFINE new == Append(queue[d], TaskContext(Head(todo[d])))
    <3>3. new \in Seq(Contexts) /\ new # << >>
      BY <2>0, <3>2
    <3>4. queue' = [queue EXCEPT ![d] = new] /\ todo' = [todo EXCEPT ![d] = Tail(todo[d])]
      BY <2>2 DEF BuildMessage
    <3> HIDE DEF new
    <3>5. queue' \in [Daemons -> Seq(Contexts)]
      BY <3>3, <3>4 DEF Kept, Refs
    <3>6. todo' \in [Daemons -> Seq(Messages)]
      BY <3>1, <3>4 DEF Kept, Cycles
    <3>7. pc' = pc
      BY <2>2 DEF BuildMessage
    <3>8. \A e \in Daemons : Working(e)'
      BY <3>3, <3>4, <3>7 DEF Kept, Cycles, Refs, Working
    <3> QED BY <2>2, <3>5, <3>6, <3>8 DEF BuildMessage, Kept, Cycles
  <2>3. CASE BuildDone(d) \/ CycleDone(d)
    <3>1. pc' \in [Daemons -> Stages] /\ \A e \in Daemons : Working(e)'
      BY <2>3 DEF BuildDone, CycleDone, Goto, Kept, Cycles, Stages, Working
    <3> QED BY <2>3, <3>1 DEF BuildDone, CycleDone, Kept, Cycles, Refs
  <2> QED BY <2>1, <2>2, <2>3
<1> QED
  BY <1>1, <1>2, <1>3, <1>4 DEF Steady

LEMMA TriageSteps ==
  ASSUME Kept, NEW d \in Daemons, TriageNew(d) \/ TriageKnown(d)
  PROVE Steady /\ Moves
<1>0. queue[d] # << >>
  BY DEF TriageNew, TriageKnown
<1>1. asked' \in [Users -> SUBSET Writes] /\ Rest'
  BY RestUntouched, AskedUntouched DEF TriageNew, TriageKnown
<1>2. Thread(d) \in Threads
  BY <1>0, AtWork
<1>e. ASSUME NEW event \in Disposition
      PROVE event # "fyi" => EventTarget[event] \in TaskState
  BY TargetIsState DEF Disposition, EventTarget
<1>3. CASE TriageNew(d)
  <2>1. PICK event \in Disposition :
          /\ OpenTask(d, event)
          /\ applied' = [applied EXCEPT ![d] = event = "inbound-thanks" \/ event = "fyi"]
    BY <1>3 DEF TriageNew
  <2> DEFINE state == IF event = "fyi" THEN "done" ELSE EventTarget[event]
  <2>2. state \in TaskState
    BY <1>e DEF TaskState
  <2>3. CreateTask(Thread(d), state)
    BY <2>1 DEF OpenTask
  <2>4. Grows /\ Moves
    BY <1>2, <2>2, <2>3, Creates DEF Kept
  <2>5. applied' \in [Daemons -> BOOLEAN] /\ known' \in [Daemons -> SUBSET Promises]
    BY <1>3, <2>1 DEF TriageNew, Kept, Cycles
  <2>6. Cycles' /\ queue' \in [Daemons -> Seq(Contexts)]
    <3>1. /\ Goto(d, "extract") /\ "extract" \in Stages
          /\ feed' = feed /\ todo' = todo /\ queue' = queue
      BY <1>3 DEF TriageNew, Stages
    <3> QED BY <1>0, <2>5, <3>1, GoesOn
  <2> QED BY <1>1, <2>4, <2>6 DEF Steady
<1>4. CASE TriageKnown(d)
  <2>0. Current(d).id \in 1..Len(tasks[Thread(d)])
    BY <1>0, <1>4, AtWork DEF TriageKnown
  <2>1. PICK event \in Disposition :
          IF Outcome(Current(d).state, event) = "apply"
          THEN IF Expected(Thread(d), Current(d).id, Current(d).state)
               THEN /\ Transition(Thread(d), Current(d).id, EventTarget[event])
                    /\ applied' = [applied EXCEPT ![d] = TRUE]
                    /\ Goto(d, "extract")
                    /\ UNCHANGED <<feed, todo, queue, known>>
               ELSE NextMessage(d) /\ UNCHANGED tasks
          ELSE Goto(d, "extract") /\ UNCHANGED <<tasks, feed, todo, queue, applied, known>>
    BY <1>4 DEF TriageKnown
  <2>2. CASE /\ Outcome(Current(d).state, event) = "apply"
             /\ Expected(Thread(d), Current(d).id, Current(d).state)
    <3>1. /\ Transition(Thread(d), Current(d).id, EventTarget[event])
          /\ applied' = [applied EXCEPT ![d] = TRUE]
          /\ Goto(d, "extract") /\ feed' = feed /\ todo' = todo /\ queue' = queue /\ known' = known
      BY <2>1, <2>2
    <3>2. event # "fyi" /\ <<Current(d).state, EventTarget[event]>> \in AutoEdges
      BY <2>2 DEF Outcome, Resolve
    <3>3. EventTarget[event] \in TaskState
      BY <1>e, <3>2
    <3>4. tasks[Thread(d)][TaskWith(Thread(d), Current(d).id)].state = Current(d).state
      BY <2>2 DEF Expected
    <3>5. Grows /\ Moves
      BY <1>2, <2>0, <3>1, <3>2, <3>3, <3>4, Transitions DEF Kept
    <3>6. Cycles' /\ queue' \in [Daemons -> Seq(Contexts)]
      <4>1. "extract" \in Stages
        BY DEF Stages
      <4>2. applied' \in [Daemons -> BOOLEAN] /\ known' \in [Daemons -> SUBSET Promises]
        BY <3>1 DEF Kept, Cycles
      <4> QED BY <1>0, <3>1, <4>1, <4>2, GoesOn
    <3> QED BY <1>1, <3>5, <3>6 DEF Steady
  <2>3. CASE /\ Outcome(Current(d).state, event) = "apply"
             /\ ~Expected(Thread(d), Current(d).id, Current(d).state)
    <3>1. NextMessage(d) /\ tasks' = tasks
      BY <2>1, <2>3
    <3>2. Grows /\ Moves
      BY <3>1, Untouched DEF Kept
    <3> QED BY <1>0, <1>1, <3>1, <3>2, Goes DEF Steady
  <2>4. CASE Outcome(Current(d).state, event) # "apply"
    <3>1. /\ Goto(d, "extract") /\ tasks' = tasks /\ feed' = feed /\ todo' = todo
          /\ queue' = queue /\ applied' = applied /\ known' = known
      BY <2>1, <2>4
    <3>2. Grows /\ Moves
      BY <3>1, Untouched DEF Kept
    <3>3. "extract" \in Stages
      BY DEF Stages
    <3>4. applied' \in [Daemons -> BOOLEAN] /\ known' \in [Daemons -> SUBSET Promises]
      BY <3>1 DEF Kept, Cycles
    <3>5. Cycles' /\ queue' \in [Daemons -> Seq(Contexts)]
      BY <1>0, <3>1, <3>3, <3>4, GoesOn
    <3> QED BY <1>1, <3>2, <3>5 DEF Steady
  <2> QED BY <2>2, <2>3, <2>4
<1> QED
  BY <1>3, <1>4


LEMMA StaleSteps ==
  ASSUME Kept, NEW d \in Daemons, StalePass(d)
  PROVE Steady /\ Moves
<1>0. queue[d] # << >>
  BY DEF StalePass, Kept, Cycles, Working
<1>1. asked' \in [Users -> SUBSET Writes] /\ Rest'
  BY RestUntouched, AskedUntouched DEF StalePass
<1>2. Thread(d) \in Threads
  BY <1>0, AtWork
<1>3. "nudge" \in Stages
  BY DEF Stages
<1>4. CASE Stale(d) /\ Expected(Thread(d), Current(d).id, "waiting")
  <2>1. /\ <<"waiting", EventTarget["deadline-lapsed"]>> \in AutoEdges
        /\ <<"waiting", EventTarget["deadline-lapsed"]>> \notin ProposeEdges
        /\ EventTarget["deadline-lapsed"] \in TaskState
    BY DEF EventTarget, AutoEdges, ProposeEdges, TaskState
  <2>2. Resolve("waiting", "deadline-lapsed") = "apply"
    BY <2>1 DEF Resolve
  <2>3. /\ Transition(Thread(d), Current(d).id, EventTarget["deadline-lapsed"])
        /\ Goto(d, "nudge") /\ feed' = feed /\ todo' = todo /\ queue' = queue
        /\ applied' = applied /\ known' = known
    BY <1>4, <2>2 DEF StalePass
  <2>4. Current(d).id \in 1..Len(tasks[Thread(d)])
    BY <1>0, <1>4, AtWork DEF Stale
  <2>5. tasks[Thread(d)][TaskWith(Thread(d), Current(d).id)].state = "waiting"
    BY <1>4 DEF Expected
  <2>6. Grows /\ Moves
    BY <1>2, <2>1, <2>3, <2>4, <2>5, Transitions DEF Kept
  <2>7. applied' \in [Daemons -> BOOLEAN] /\ known' \in [Daemons -> SUBSET Promises]
    BY <2>3 DEF Kept, Cycles
  <2>8. Cycles' /\ queue' \in [Daemons -> Seq(Contexts)]
    BY <1>0, <1>3, <2>3, <2>7, GoesOn
  <2> QED BY <1>1, <2>6, <2>8 DEF Steady
<1>5. CASE ~(Stale(d) /\ Expected(Thread(d), Current(d).id, "waiting"))
  <2>1. tasks' = tasks
    BY <1>5 DEF StalePass
  <2>2. Grows /\ Moves
    BY <2>1, Untouched DEF Kept
  <2>3. Cycles' /\ queue' \in [Daemons -> Seq(Contexts)]
    <3>1. CASE NextMessage(d)
      BY <1>0, <3>1, Goes
    <3>2. CASE ~NextMessage(d)
      <4>1. /\ Goto(d, "nudge") /\ feed' = feed /\ todo' = todo /\ queue' = queue
            /\ applied' = applied /\ known' = known
        BY <1>5, <3>2 DEF StalePass
      <4>2. applied' \in [Daemons -> BOOLEAN] /\ known' \in [Daemons -> SUBSET Promises]
        BY <4>1 DEF Kept, Cycles
      <4> QED BY <1>0, <1>3, <4>1, <4>2, GoesOn
    <3> QED BY <3>1, <3>2
  <2> QED BY <1>1, <2>2, <2>3 DEF Steady
<1> QED
  BY <1>4, <1>5

\* The promises and the nudges: the tasks are left alone.
LEMMA PromiseSteps ==
  ASSUME Kept, NEW d \in Daemons,
         Extract(d) \/ RecordPromise(d) \/ Nudge(d) \/ FileNudge(d) \/ RecordDraft(d)
  PROVE Steady /\ Moves
<1>0. queue[d] # << >>
  BY DEF Extract, RecordPromise, Nudge, FileNudge, RecordDraft, Kept, Cycles, Working
<1>1. tasks' = tasks /\ asked' = asked
  BY DEF Extract, RecordPromise, Nudge, FileNudge, RecordDraft, metadata
<1>2. Grows /\ Moves /\ asked' \in [Users -> SUBSET Writes]
  BY <1>1, Untouched, AskedUntouched DEF Kept
<1>3. Thread(d) \in Threads
  BY <1>0, AtWork
<1>s. /\ "stale" \in Stages /\ "record" \in Stages /\ "file" \in Stages /\ "meta" \in Stages
      /\ applied \in [Daemons -> BOOLEAN] /\ known \in [Daemons -> SUBSET Promises]
  BY DEF Stages, Kept, Cycles
<1>4. CASE Extract(d)
  <2>1. Rest'
    BY <1>4, RestUntouched DEF Extract, metadata
  <2>2. known' \in [Daemons -> SUBSET Promises]
    BY <1>4, <1>s DEF Extract
  <2>3. \E stage \in Stages : Goto(d, stage)
    BY <1>4, <1>s DEF Extract
  <2>4. feed' = feed /\ todo' = todo /\ queue' = queue /\ applied' = applied
    BY <1>4 DEF Extract
  <2>5. Cycles' /\ queue' \in [Daemons -> Seq(Contexts)]
    BY <1>0, <1>s, <2>2, <2>3, <2>4, GoesOn
  <2> QED BY <1>2, <2>1, <2>5 DEF Steady
<1>5. CASE RecordPromise(d)
  <2>1. promises' \in [Threads -> [Promises -> 0..2]]
    <3>1. promises \in [Threads -> [Promises -> 0..2]]
      BY DEF Kept, Rest
    <3>2. ASSUME NEW p \in Promises, NEW t \in Threads
          PROVE Smaller(promises[t][p] + 1, 2) \in 0..2
      <4>1. promises[t][p] \in 0..2
        BY <3>1
      <4> QED BY <4>1 DEF Smaller
    <3>3. \/ promises' = promises
          \/ \E p : promises' = [promises EXCEPT ![Thread(d)][p] = Smaller(@ + 1, 2)]
      BY <1>5 DEF RecordPromise
    <3>4. ASSUME NEW p, promises' = [promises EXCEPT ![Thread(d)][p] = Smaller(@ + 1, 2)]
          PROVE promises' \in [Threads -> [Promises -> 0..2]]
      BY <1>3, <3>1, <3>2, <3>4
    <3> QED BY <3>1, <3>3, <3>4
  <2>2. Rest'
    BY <1>5, <2>1 DEF RecordPromise, Kept, Rest, world
  <2>3. /\ Goto(d, "stale") /\ feed' = feed /\ todo' = todo /\ queue' = queue
        /\ applied' = applied /\ known' = known
    BY <1>5 DEF RecordPromise
  <2>4. Cycles' /\ queue' \in [Daemons -> Seq(Contexts)]
    BY <1>0, <1>s, <2>3, GoesOn
  <2> QED BY <1>2, <2>2, <2>4 DEF Steady
<1>6. CASE Nudge(d)
  <2>1. Rest'
    BY <1>6, RestUntouched DEF Nudge, metadata
  <2>2. CASE NudgeDue(Thread(d))
    <3>1. /\ Goto(d, "file") /\ feed' = feed /\ todo' = todo /\ queue' = queue
          /\ applied' = applied /\ known' = known
      BY <1>6, <2>2 DEF Nudge
    <3>2. Cycles' /\ queue' \in [Daemons -> Seq(Contexts)]
      BY <1>0, <1>s, <3>1, GoesOn
    <3> QED BY <1>2, <2>1, <3>2 DEF Steady
  <2>3. CASE ~NudgeDue(Thread(d))
    <3>1. NextMessage(d)
      BY <1>6, <2>3 DEF Nudge
    <3> QED BY <1>0, <1>2, <2>1, <3>1, Goes DEF Steady
  <2> QED BY <2>2, <2>3
<1>7. CASE FileNudge(d)
  <2>1. filed' \in [Threads -> 0..3]
    <3>1. filed \in [Threads -> 0..3]
      BY DEF Kept, Rest
    <3>2. filed[Thread(d)] \in 0..3
      BY <1>3, <3>1
    <3>3. Smaller(filed[Thread(d)] + 1, 3) \in 0..3
      BY <3>2 DEF Smaller
    <3>4. filed' = [filed EXCEPT ![Thread(d)] = Smaller(filed[Thread(d)] + 1, 3)]
      BY <1>7 DEF FileNudge
    <3> QED BY <3>1, <3>3, <3>4
  <2>2. Rest'
    BY <1>7, <2>1 DEF FileNudge, Kept, Rest, world, metadata
  <2>3. /\ Goto(d, "meta") /\ feed' = feed /\ todo' = todo /\ queue' = queue
        /\ applied' = applied /\ known' = known
    BY <1>7 DEF FileNudge
  <2>4. Cycles' /\ queue' \in [Daemons -> Seq(Contexts)]
    BY <1>0, <1>s, <2>3, GoesOn
  <2> QED BY <1>2, <2>2, <2>4 DEF Steady
<1>8. CASE RecordDraft(d)
  <2>1. Rest'
    BY <1>3, <1>8 DEF RecordDraft, Kept, Rest, world
  <2>2. NextMessage(d)
    BY <1>8 DEF RecordDraft
  <2> QED BY <1>0, <1>2, <2>1, <2>2, Goes DEF Steady
<1> QED
  BY <1>4, <1>5, <1>6, <1>7, <1>8

LEMMA FailureSteps ==
  ASSUME Kept, NEW d \in Daemons, Failure(d)
  PROVE Steady /\ Moves
<1>1. tasks' = tasks /\ asked' = asked /\ promises' = promises /\ drafts' = drafts /\ filed' = filed
  BY DEF Failure, CallFails, BuildFails, Crash, Redeliver, metadata
<1>2. Grows /\ Moves /\ asked' \in [Users -> SUBSET Writes]
  BY <1>1, Untouched, AskedUntouched DEF Kept
<1>3. Rest'
  <2>1. sent' = sent /\ now' = now /\ ops' = ops /\ faults' = faults + 1 /\ faults < MaxFaults
    BY DEF Failure, CallFails, BuildFails, Crash, Redeliver, Fault
  <2>2. faults' \in 0..MaxFaults
    BY <2>1, InputsAssumption DEF Kept, Rest
  <2> QED BY <1>1, <2>1, <2>2 DEF Kept, Rest
<1>4. Cycles' /\ queue' \in [Daemons -> Seq(Contexts)]
  <2>1. CASE CallFails(d)
    BY <2>1, Goes DEF CallFails
  <2>2. CASE BuildFails(d)
    <3>1. Tail(todo[d]) \in Seq(Messages)
      BY <2>2 DEF BuildFails, Kept, Cycles
    <3>2. todo' = [todo EXCEPT ![d] = Tail(todo[d])]
      BY <2>2 DEF BuildFails
    <3>3. todo' \in [Daemons -> Seq(Messages)]
      BY <3>1, <3>2 DEF Kept, Cycles
    <3>4. feed' = feed /\ queue' = queue /\ pc' = pc /\ applied' = applied /\ known' = known
      BY <2>2 DEF BuildFails
    <3> QED BY <3>3, <3>4 DEF Kept, Cycles, Refs, Working
  <2>3. CASE Crash(d)
    <3>1. queue' \in [Daemons -> Seq(Contexts)] /\ todo' \in [Daemons -> Seq(Messages)]
      BY <2>3 DEF Crash, Kept, Refs, Cycles
    <3>2. /\ pc' \in [Daemons -> Stages] /\ applied' \in [Daemons -> BOOLEAN]
          /\ known' \in [Daemons -> SUBSET Promises] /\ feed' = feed
      BY <2>3 DEF Crash, Goto, Kept, Cycles, Stages
    <3>3. \A e \in Daemons : Working(e)'
      BY <2>3 DEF Crash, Goto, Kept, Cycles, Working, Refs
    <3> QED BY <3>1, <3>2, <3>3 DEF Kept, Cycles
  <2>4. ASSUME NEW m \in Messages, Redeliver(d, m)
        PROVE Cycles' /\ queue' \in [Daemons -> Seq(Contexts)]
    <3>1. Append(feed[d], m) \in Seq(Messages)
      BY DEF Kept, Cycles
    <3>2. feed' = [feed EXCEPT ![d] = Append(feed[d], m)]
      BY <2>4 DEF Redeliver
    <3>3. feed' \in [Daemons -> Seq(Messages)]
      BY <3>1, <3>2 DEF Kept, Cycles
    <3>4. todo' = todo /\ queue' = queue /\ pc' = pc /\ applied' = applied /\ known' = known
      BY <2>4 DEF Redeliver
    <3> QED BY <3>3, <3>4 DEF Kept, Cycles, Refs, Working
  <2> QED BY <2>1, <2>2, <2>3, <2>4 DEF Failure
<1> QED
  BY <1>1, <1>2, <1>3, <1>4 DEF Steady


\* A user's handler reads the tasks of a thread.
LEMMA AskSteps ==
  ASSUME Kept, NEW u \in Users, NEW t \in Threads,
         AskDone(u, t) \/ AskWaiting(u, t) \/ AskSnooze(u, t)
  PROVE Steady /\ pc' = pc
<1>1. PICK op \in {"done", "waiting", "snooze"} : Ask(u, t, PickTask(t), op)
  BY DEF AskDone, AskWaiting, AskSnooze
<1>2. /\ tasks' = tasks /\ promises' = promises /\ drafts' = drafts /\ filed' = filed
      /\ feed' = feed /\ todo' = todo /\ queue' = queue /\ pc' = pc
      /\ applied' = applied /\ known' = known
  BY <1>1 DEF Ask, metadata, daemon
<1>3. Grows
  BY <1>2, Untouched DEF Kept
<1>4. Cycles' /\ queue' \in [Daemons -> Seq(Contexts)]
  BY <1>2 DEF Kept, Cycles, Refs, Working
<1>5. asked' \in [Users -> SUBSET Writes]
  <2>1. PickTask(t) \in 1..Len(tasks[t]) /\ Len(tasks[t]) \in Nat
    BY <1>1, Picked DEF Ask, Kept, Rows
  <2> DEFINE w == [thread |-> t, id |-> PickTask(t), op |-> op]
  <2>2. w \in Writes
    <3>1. PickTask(t) \in Nat \ {None} /\ PickTask(t) <= Len(tasks[t])
      BY <2>1 DEF None
    <3> QED BY <1>1, <3>1 DEF Writes, Write
  <2>3. asked' = [asked EXCEPT ![u] = {w}]
    BY <1>1 DEF Ask
  <2> HIDE DEF w
  <2> QED BY <2>2, <2>3 DEF Kept, Refs
<1>6. Rest'
  <2>1. sent' = sent /\ now' = now /\ faults' = faults /\ ops' = ops + 1 /\ ops < MaxOps
    BY <1>1 DEF Ask, Op
  <2>2. ops' \in 0..MaxOps
    BY <2>1, InputsAssumption DEF Kept, Rest
  <2> QED BY <1>2, <2>1, <2>2 DEF Kept, Rest
<1> QED
  BY <1>2, <1>3, <1>4, <1>5, <1>6 DEF Steady

\* The handler writes the task it read.
LEMMA AnswerSteps ==
  ASSUME Kept, NEW u \in Users, Answer(u)
  PROVE Steady /\ pc' = pc
<1>1. PICK w \in asked[u] :
        LET task == tasks[w.thread][TaskWith(w.thread, w.id)]
        IN IF w.op = "snooze"
           THEN Update(w.thread, w.id, [task EXCEPT !.followUpAt = now])
           ELSE Transition(w.thread, w.id, w.op)
  BY DEF Answer
<1>2. /\ w \in Write /\ w.thread \in Threads /\ w.op \in {"done", "waiting", "snooze"}
      /\ w.id \in 1..Len(tasks[w.thread])
  <2>1. w \in Writes
    BY DEF Kept, Refs
  <2>2. w \in Write /\ w.id <= Len(tasks[w.thread])
    BY <2>1 DEF Writes
  <2>3. w.thread \in Threads /\ w.op \in {"done", "waiting", "snooze"} /\ w.id \in Nat /\ w.id # None
    BY <2>2 DEF Write
  <2>4. Len(tasks[w.thread]) \in Nat
    BY <2>3 DEF Kept, Rows
  <2> QED BY <2>2, <2>3, <2>4 DEF None
<1>3. Grows
  <2>1. CASE w.op = "snooze"
    <3> DEFINE old == tasks[w.thread][TaskWith(w.thread, w.id)]
               task == [old EXCEPT !.followUpAt = now]
    <3>1. old \in Task /\ old.id = w.id
      BY <1>2, RowWith DEF Kept
    <3>2. Update(w.thread, w.id, task)
      BY <1>1, <2>1
    <3> HIDE DEF old
    <3>3. now \in Nat
      BY DEF Kept, Rest
    <3>4. task \in Task /\ task.id = w.id
      BY <3>1, <3>3 DEF Task
    <3> HIDE DEF task
    <3> QED BY <1>2, <3>2, <3>4, Updates DEF Kept
  <2>2. CASE w.op # "snooze"
    <3>1. Transition(w.thread, w.id, w.op) /\ w.op \in TaskState
      BY <1>1, <1>2, <2>2 DEF TaskState
    <3> QED BY <1>2, <3>1, Transitions DEF Kept
  <2> QED BY <2>1, <2>2
<1>4. /\ feed' = feed /\ todo' = todo /\ queue' = queue /\ pc' = pc
      /\ applied' = applied /\ known' = known
  BY DEF Answer, daemon
<1>5. Cycles' /\ queue' \in [Daemons -> Seq(Contexts)]
  BY <1>4 DEF Kept, Cycles, Refs, Working
<1>6. asked' \in [Users -> SUBSET Writes]
  BY DEF Answer, Kept, Refs
<1>7. Rest'
  BY RestUntouched DEF Answer
<1> QED
  BY <1>3, <1>4, <1>5, <1>6, <1>7 DEF Steady

\* Mail, time and the user's own drafts.
LEMMA OutsideSteps ==
  ASSUME Kept,
         (\E t \in Threads : UserDrafts(t)) \/ (\E m \in Messages : Arrive(m)) \/ Tick
  PROVE Steady /\ pc' = pc
<1>1. /\ tasks' = tasks /\ promises' = promises /\ filed' = filed /\ todo' = todo
      /\ queue' = queue /\ pc' = pc /\ applied' = applied /\ known' = known /\ asked' = asked
  BY DEF UserDrafts, Arrive, Tick, metadata, daemon
<1>2. Grows /\ asked' \in [Users -> SUBSET Writes]
  BY <1>1, Untouched, AskedUntouched DEF Kept
<1>3. feed' \in [Daemons -> Seq(Messages)]
  <2>1. ASSUME NEW m \in Messages, Arrive(m)
        PROVE feed' \in [Daemons -> Seq(Messages)]
    <3>1. feed' = [d \in Daemons |-> Append(feed[d], m)]
      BY <2>1 DEF Arrive
    <3>2. \A d \in Daemons : Append(feed[d], m) \in Seq(Messages)
      BY DEF Kept, Cycles
    <3> QED BY <3>1, <3>2
  <2>2. CASE ~ \E m \in Messages : Arrive(m)
    <3>1. feed' = feed
      BY <2>2 DEF UserDrafts, Tick, daemon
    <3> QED BY <3>1 DEF Kept, Cycles
  <2> QED BY <2>1, <2>2
<1>4. Cycles' /\ queue' \in [Daemons -> Seq(Contexts)]
  BY <1>1, <1>3 DEF Kept, Cycles, Refs, Working
<1>5. Rest'
  <2>1. ASSUME NEW t \in Threads, UserDrafts(t) PROVE Rest'
    <3>1. /\ sent' = sent /\ now' = now /\ faults' = faults /\ ops' = ops + 1 /\ ops < MaxOps
          /\ drafts' = drafts \union {t}
      BY <2>1 DEF UserDrafts, Op
    <3>2. ops' \in 0..MaxOps
      BY <3>1, InputsAssumption DEF Kept, Rest
    <3> QED BY <1>1, <3>1, <3>2 DEF Kept, Rest
  <2>2. ASSUME NEW m \in Messages, Arrive(m) PROVE Rest'
    BY <1>1, <2>2 DEF Arrive, metadata, Kept, Rest
  <2>3. ASSUME Tick PROVE Rest'
    <3>1. sent' = sent /\ faults' = faults /\ ops' = ops /\ drafts' = drafts
      BY <2>3 DEF Tick, metadata
    <3>2. now' \in 1..MaxNow
      BY <2>3, InputsAssumption DEF Tick, Kept, Rest
    <3> QED BY <1>1, <3>1, <3>2 DEF Kept, Rest
  <2> QED BY <2>1, <2>2, <2>3
<1> QED
  BY <1>1, <1>2, <1>4, <1>5 DEF Steady

LEMMA NextKeeps ==
  ASSUME Kept, Next
  PROVE Steady /\ (Moves \/ pc' = pc)
<1>1. ASSUME NEW d \in Daemons, Cycle(d) \/ Failure(d)
      PROVE Steady /\ Moves
  BY <1>1, SourceSteps, TriageSteps, StaleSteps, PromiseSteps, FailureSteps DEF Cycle
<1>2. ASSUME NEW u \in Users, User(u)
      PROVE Steady /\ pc' = pc
  BY <1>2, AskSteps, AnswerSteps DEF User
<1> QED
  BY <1>1, <1>2, OutsideSteps DEF Next

LEMMA KeptSteps == Kept /\ [Next]_vars => Kept'
<1>1. ASSUME Kept, Next PROVE Kept'
  BY <1>1, NextKeeps, SteadyKept
<1>2. ASSUME Kept, UNCHANGED vars PROVE Kept'
  BY <1>2 DEF vars, metadata, daemon, world, Kept, Rows, Refs, Contexts, Writes, Cycles,
     Working, Rest
<1> QED
  BY <1>1, <1>2

\* cycle.ts:51-217, app.ts: what a daemon read of a task at the poll, and what a
\* user's handler read before it writes, names a row of that thread whenever it is used.
THEOREM KeptHolds == Spec => []Kept
BY InitKept, KeptSteps, PTL DEF Spec

\* Every variable has its type; in particular a daemon at work has a message.
THEOREM TypeCorrect == Spec => []TypeOK
BY KeptHolds, KeptIsTyped, PTL

\* cycle.ts:89-217: "Auto-set the obvious, propose the ambiguous".  Any number of daemons
\* and users on one thread, whatever fails and however late a poll's knowledge is used: a
\* daemon's step moves a task only along an auto edge from the state it is in then.
THEOREM AutoEdgesHold == Spec => DaemonKeepsToAutoEdges
<1> DEFINE A == \A d \in Daemons : pc'[d] # pc[d] =>
                  \A t \in Threads : \A i \in DOMAIN tasks[t], j \in DOMAIN tasks'[t] :
                    LET was == tasks[t][i]
                        is == tasks'[t][j]
                    IN was.id = is.id /\ was.state # is.state =>
                         <<was.state, is.state>> \in AutoEdges
<1>1. Kept /\ [Next]_vars => [A]_vars
  <2>1. ASSUME Kept, Next PROVE A
    BY Zenon, <2>1, NextKeeps DEF Moves
  <2> QED BY <2>1
<1>2. Spec => [][A]_vars
  BY <1>1, KeptHolds, PTL DEF Spec
<1> QED
  BY <1>2 DEF DaemonKeepsToAutoEdges


-----------------------------------------------------------------------------
(* A promise is recorded once.                                             *)

\* With one daemon nobody writes between its listPromises and its createPromise.
OneDaemon == \A d, e \in Daemons : d = e

Seen(d) == pc[d] = "record" => \A p \in Promises : promises[Thread(d)][p] > 0 => p \in known[d]

Recorded == Kept /\ PromiseOnce /\ \A d \in Daemons : Seen(d)

\* A step that neither lists nor creates promises.
AtRecord(e) == pc'[e] = "record" => pc[e] = "record" /\ queue'[e] = queue[e] /\ known'[e] = known[e]

LEMMA OtherCalls ==
  ASSUME Kept, Next, ~ \E d \in Daemons : Extract(d) \/ RecordPromise(d)
  PROVE promises' = promises /\ \A e \in Daemons : AtRecord(e)
<1>q. pc \in [Daemons -> Stages] /\ DOMAIN known = Daemons /\ DOMAIN queue = Daemons
  BY DEF Kept, Cycles, Refs
<1>1. ASSUME NEW d \in Daemons, Cycle(d) \/ Failure(d)
      PROVE promises' = promises /\ \A e \in Daemons : AtRecord(e)
  <2>1. promises' = promises
    BY <1>1 DEF Cycle, Failure, Poll, BuildMessage, BuildDone, CycleDone, TriageNew, TriageKnown,
       StalePass, Nudge, FileNudge, RecordDraft, CallFails, BuildFails, Crash, Redeliver, metadata
  <2> SUFFICES ASSUME NEW e \in Daemons, pc'[e] = "record"
               PROVE pc[e] = "record" /\ queue'[e] = queue[e] /\ known'[e] = known[e]
    BY <2>1 DEF AtRecord
  <2>2. CASE NextMessage(d)
    <3>1. e # d
      BY <1>q, <2>2 DEF NextMessage, Goto
    <3> QED BY <1>q, <2>2, <3>1 DEF NextMessage, Goto
  <2>3. ASSUME queue' = queue, known' = known, NEW stage \in Stages \ {"record"}, Goto(d, stage)
        PROVE pc[e] = "record" /\ queue'[e] = queue[e] /\ known'[e] = known[e]
    BY <1>q, <2>3 DEF Goto
  <2>4. /\ "build" \in Stages \ {"record"} /\ "triage" \in Stages \ {"record"}
        /\ "idle" \in Stages \ {"record"} /\ "extract" \in Stages \ {"record"}
        /\ "nudge" \in Stages \ {"record"} /\ "file" \in Stages \ {"record"}
        /\ "meta" \in Stages \ {"record"}
    BY DEF Stages
  <2>5. CASE Poll(d) \/ BuildDone(d) \/ CycleDone(d) \/ TriageNew(d) \/ FileNudge(d)
    <3>1. queue' = queue /\ known' = known /\ \E stage \in Stages \ {"record"} : Goto(d, stage)
      BY <2>4, <2>5 DEF Poll, BuildDone, CycleDone, TriageNew, FileNudge
    <3> QED BY <2>3, <3>1
  <2>6. CASE TriageKnown(d) \/ StalePass(d) \/ Nudge(d) \/ RecordDraft(d) \/ CallFails(d)
    <3>1. \/ NextMessage(d)
          \/ queue' = queue /\ known' = known /\ \E stage \in Stages \ {"record"} : Goto(d, stage)
      BY <2>4, <2>6 DEF TriageKnown, StalePass, Nudge, RecordDraft, CallFails
    <3> QED BY <2>2, <2>3, <3>1
  <2>7. CASE BuildMessage(d)
    <3>1. e # d /\ pc[e] = "record"
      BY <2>7 DEF BuildMessage
    <3> QED BY <1>q, <2>7, <3>1 DEF BuildMessage
  <2>8. CASE Crash(d)
    <3>1. e # d
      BY <1>q, <2>8 DEF Crash, Goto
    <3> QED BY <1>q, <2>8, <3>1 DEF Crash, Goto
  <2>9. CASE BuildFails(d) \/ \E m \in Messages : Redeliver(d, m)
    BY <2>9 DEF BuildFails, Redeliver
  <2> QED
    BY <1>1, <2>5, <2>6, <2>7, <2>8, <2>9 DEF Cycle, Failure
<1>2. ASSUME \/ \E u \in Users : User(u)
             \/ \E t \in Threads : UserDrafts(t)
             \/ \E m \in Messages : Arrive(m)
             \/ Tick
      PROVE promises' = promises /\ pc' = pc /\ queue' = queue /\ known' = known
  BY <1>2 DEF User, AskDone, AskWaiting, AskSnooze, Ask, Answer, UserDrafts, Arrive, Tick,
     metadata, daemon
<1> QED
  BY <1>1, <1>2 DEF Next, AtRecord

LEMMA RecordedSteps ==
  ASSUME OneDaemon
  PROVE Recorded /\ [Next]_vars => Recorded'
<1> SUFFICES ASSUME Recorded, [Next]_vars PROVE Recorded'
  OBVIOUS
<1>0. Kept /\ Kept'
  BY KeptSteps DEF Recorded
<1>q. /\ pc \in [Daemons -> Stages] /\ known \in [Daemons -> SUBSET Promises]
      /\ promises \in [Threads -> [Promises -> 0..2]]
  BY <1>0 DEF Kept, Cycles, Rest
<1>1. CASE UNCHANGED vars
  BY <1>0, <1>1 DEF vars, metadata, daemon, Recorded, PromiseOnce, Seen, Thread, Current
<1>2. ASSUME NEW d \in Daemons, Extract(d) PROVE Recorded'
  <2>1. promises' = promises /\ queue' = queue
    BY <1>2 DEF Extract, metadata
  <2>2. PromiseOnce'
    BY <2>1 DEF Recorded, PromiseOnce
  <2>3. Seen(d)'
    <3>1. Thread(d)' = Thread(d)
      BY <2>1 DEF Thread, Current
    <3>2. CASE Found(d) = NoPromise
      BY <1>2, <1>q, <3>2 DEF Extract, Goto, Seen
    <3>3. CASE Found(d) # NoPromise
      <4>1. known'[d] = {p \in Promises : promises[Thread(d)][p] > 0}
        BY <1>2, <1>q, <3>3 DEF Extract
      <4> QED BY <2>1, <3>1, <4>1 DEF Seen
    <3> QED BY <3>2, <3>3
  <2>4. \A e \in Daemons : e = d
    BY DEF OneDaemon
  <2> QED BY <1>0, <2>2, <2>3, <2>4 DEF Recorded
<1>3. ASSUME NEW d \in Daemons, RecordPromise(d) PROVE Recorded'
  <2>1. pc'[d] = "stale"
    BY <1>3, <1>q DEF RecordPromise, Goto
  <2>2. \A e \in Daemons : Seen(e)'
    BY <2>1 DEF OneDaemon, Seen
  <2>3. PromiseOnce'
    <3>1. CASE ~NotSeen(d, Found(d))
      BY <1>3, <3>1 DEF RecordPromise, Recorded, PromiseOnce
    <3>2. CASE NotSeen(d, Found(d))
      <4> DEFINE t == Thread(d)
                 p == Found(d)
      <4>1. promises' = [promises EXCEPT ![t][p] = Smaller(@ + 1, 2)]
        BY <1>3, <3>2 DEF RecordPromise
      <4>2. p \notin known[d]
        BY <3>2 DEF NotSeen
      <4>3. pc[d] = "record" /\ Seen(d)
        BY <1>3 DEF RecordPromise, Recorded
      <4>4. t \in Threads
        <5>1. queue[d] # << >>
          BY <1>0, <4>3 DEF Kept, Cycles, Working
        <5> QED BY <1>0, <5>1, AtWork
      <4>5. \A x \in Promises : promises[t][x] > 0 => x \in known[d]
        BY <4>3 DEF Seen
      <4> HIDE DEF t, p
      <4> SUFFICES ASSUME NEW x \in Threads, NEW y \in Promises PROVE promises'[x][y] <= 1
        BY DEF PromiseOnce
      <4>6. CASE x = t /\ y = p
        <5>1. promises[x][y] = 0
          BY <1>q, <4>2, <4>5, <4>6
        <5>2. promises'[x][y] = Smaller(promises[x][y] + 1, 2)
          BY <1>q, <4>1, <4>6
        <5> QED BY <5>1, <5>2 DEF Smaller
      <4>7. CASE ~(x = t /\ y = p)
        <5>1. promises'[x][y] = promises[x][y]
          BY <1>q, <4>1, <4>4, <4>7
        <5> QED BY <5>1 DEF Recorded, PromiseOnce
      <4> QED BY <4>6, <4>7
    <3> QED BY <3>1, <3>2
  <2> QED BY <1>0, <2>2, <2>3 DEF Recorded
<1>4. CASE Next /\ ~ \E d \in Daemons : Extract(d) \/ RecordPromise(d)
  <2>1. promises' = promises /\ \A d \in Daemons : AtRecord(d)
    BY <1>0, <1>4, OtherCalls
  <2>2. PromiseOnce'
    BY <2>1 DEF Recorded, PromiseOnce
  <2>3. ASSUME NEW d \in Daemons PROVE Seen(d)'
    BY <2>1 DEF Recorded, Seen, Thread, Current, AtRecord
  <2> QED BY <1>0, <2>2, <2>3 DEF Recorded
<1> QED
  BY <1>1, <1>2, <1>3, <1>4

\* cycle.ts:128-143: "re-processing a message never creates duplicate rows", however often
\* messages come again and wherever the daemon dies.
THEOREM PromiseOnceHolds ==
  ASSUME OneDaemon
  PROVE Spec => []PromiseOnce
<1>1. Init => Recorded
  <2>1. Init => Kept
    BY InitKept
  <2>2. Init => PromiseOnce /\ \A d \in Daemons : Seen(d)
    BY DEF Init, PromiseOnce, Seen
  <2> QED BY <2>1, <2>2 DEF Recorded
<1>2. Recorded /\ [Next]_vars => Recorded'
  BY RecordedSteps
<1>3. Recorded => PromiseOnce
  BY DEF Recorded
<1> QED
  BY <1>1, <1>2, <1>3, PTL DEF Spec


-----------------------------------------------------------------------------
(* Nudges do not pile up.                                                  *)

\* The nudge of t is in the folder and its DraftMeta is not written yet.
AtMeta(t) == \E d \in Daemons : pc[d] = "meta" /\ Thread(d) = t

\* Without a DraftMeta, written or about to be, every nudge there is cost a fault.
Paid(t) == t \in drafts \/ AtMeta(t) \/ filed[t] <= faults

ToFile(d) == pc[d] = "file" => filed[Thread(d)] <= faults

Piled ==
  /\ Kept
  /\ NudgesDoNotPile
  /\ \A t \in Threads : Paid(t)
  /\ \A d \in Daemons : ToFile(d)

LEMMA PiledSteps ==
  ASSUME OneDaemon
  PROVE Piled /\ [Next]_vars => Piled'
<1> SUFFICES ASSUME Piled, [Next]_vars PROVE Piled'
  OBVIOUS
<1>0. Kept /\ Kept'
  BY KeptSteps DEF Piled
<1>q. /\ pc \in [Daemons -> Stages] /\ filed \in [Threads -> 0..3] /\ faults \in Nat
      /\ filed' \in [Threads -> 0..3] /\ faults' \in Nat /\ DOMAIN queue = Daemons
  BY <1>0 DEF Kept, Cycles, Rest, Refs
<1>o. \A d, e \in Daemons : d = e
  BY DEF OneDaemon
<1>p. /\ \A t \in Threads : filed[t] <= 1 + faults
      /\ \A t \in Threads : Paid(t)
      /\ \A d \in Daemons : ToFile(d)
  BY DEF Piled, NudgesDoNotPile
<1>1. ASSUME filed' = filed, faults' = faults, drafts \subseteq drafts',
             pc' = pc, queue' = queue
      PROVE Piled'
  <2>1. \A d \in Daemons : Thread(d)' = Thread(d)
    BY <1>1 DEF Thread, Current
  <2>2. \A t \in Threads : Paid(t)'
    BY Zenon, <1>1, <1>p, <2>1 DEF Paid, AtMeta
  <2>3. \A d \in Daemons : ToFile(d)'
    BY <1>1, <1>p, <2>1 DEF ToFile
  <2>4. NudgesDoNotPile'
    BY <1>1, <1>p DEF NudgesDoNotPile
  <2> QED BY <1>0, <2>2, <2>3, <2>4 DEF Piled
<1>2. ASSUME filed' = filed, faults' = faults, drafts' = drafts,
             NEW d \in Daemons, pc[d] \notin {"file", "meta"}, pc'[d] \notin {"file", "meta"}
      PROVE Piled'
  <2>1. \A t \in Threads : ~AtMeta(t)
    BY <1>2, <1>o DEF AtMeta
  <2>2. \A t \in Threads : Paid(t)'
    BY <1>2, <1>p, <2>1 DEF Paid
  <2>3. \A e \in Daemons : ToFile(e)'
    BY <1>2, <1>o DEF ToFile
  <2>4. NudgesDoNotPile'
    BY <1>2, <1>p DEF NudgesDoNotPile
  <2> QED BY <1>0, <2>2, <2>3, <2>4 DEF Piled
<1>3. ASSUME filed' = filed, faults' = faults + 1
      PROVE Piled'
  <2>1. \A t \in Threads : filed'[t] <= faults'
    BY <1>3, <1>p, <1>q
  <2>2. \A d \in Daemons : pc'[d] = "file" => Thread(d)' \in Threads
    <3> SUFFICES ASSUME NEW d \in Daemons, pc'[d] = "file" PROVE Thread(d)' \in Threads
      OBVIOUS
    <3>1. Working(d)' /\ queue' \in [Daemons -> Seq(Contexts')]
      BY <1>0 DEF Kept, Cycles, Refs
    <3>2. queue'[d] # << >>
      BY <3>1 DEF Working
    <3>3. Head(queue'[d]) \in Contexts'
      BY <3>1, <3>2
    <3>4. Head(queue'[d]).msg \in Messages
      BY <3>3 DEF Contexts, Context
    <3> QED BY <3>4, InputsAssumption DEF Thread, Current
  <2>3. \A t \in Threads : Paid(t)'
    BY <2>1 DEF Paid
  <2>4. \A d \in Daemons : ToFile(d)'
    BY <2>1, <2>2 DEF ToFile
  <2>5. NudgesDoNotPile'
    BY <1>q, <2>1 DEF NudgesDoNotPile
  <2> QED BY <1>0, <2>3, <2>4, <2>5 DEF Piled
<1>4. ASSUME NEW d \in Daemons, Cycle(d) PROVE Piled'
  <2>1. CASE Poll(d) \/ BuildMessage(d) \/ BuildDone(d) \/ CycleDone(d)
    <3>1. filed' = filed /\ faults' = faults /\ drafts' = drafts
      BY <2>1 DEF Poll, BuildMessage, BuildDone, CycleDone, metadata, world
    <3>2. pc[d] \notin {"file", "meta"} /\ pc'[d] \notin {"file", "meta"}
      BY <1>q, <2>1 DEF Poll, BuildMessage, BuildDone, CycleDone, Goto
    <3> QED BY <1>2, <3>1, <3>2
  <2>2. CASE TriageNew(d) \/ TriageKnown(d) \/ StalePass(d)
    <3>1. filed' = filed /\ faults' = faults /\ drafts' = drafts
      BY <2>2 DEF TriageNew, TriageKnown, StalePass, world
    <3>2. pc[d] \notin {"file", "meta"}
      BY <2>2 DEF TriageNew, TriageKnown, StalePass
    <3>3. Goto(d, "extract") \/ Goto(d, "nudge") \/ Goto(d, "triage")
      BY Zenon, <2>2 DEF TriageNew, TriageKnown, StalePass, NextMessage
    <3>4. pc'[d] \notin {"file", "meta"}
      BY <1>q, <3>3 DEF Goto
    <3> QED BY <1>2, <3>1, <3>2, <3>4
  <2>3. CASE Extract(d) \/ RecordPromise(d)
    <3>1. filed' = filed /\ faults' = faults /\ drafts' = drafts
      BY <2>3 DEF Extract, RecordPromise, metadata, world
    <3>2. pc[d] \notin {"file", "meta"} /\ pc'[d] \notin {"file", "meta"}
      BY <1>q, <2>3 DEF Extract, RecordPromise, Goto
    <3> QED BY <1>2, <3>1, <3>2
  <2>4. CASE Nudge(d)
    <3>1. filed' = filed /\ faults' = faults /\ drafts' = drafts /\ pc[d] = "nudge"
      BY <2>4 DEF Nudge, metadata, world
    <3>2. CASE NudgeDue(Thread(d))
      <4>1. queue' = queue /\ pc'[d] = "file" /\ Thread(d) \notin drafts
        BY <1>q, <2>4, <3>2 DEF Nudge, Goto, NudgeDue
      <4>2. Thread(d) \in Threads
        <5>1. queue[d] # << >>
          BY <1>0, <3>1 DEF Kept, Cycles, Working
        <5> QED BY <1>0, <5>1, AtWork
      <4>3. \A t \in Threads : ~AtMeta(t)
        BY <1>o, <3>1 DEF AtMeta
      <4>4. filed[Thread(d)] <= faults
        BY <1>p, <4>1, <4>2, <4>3 DEF Paid
      <4>5. Thread(d)' = Thread(d)
        BY <4>1 DEF Thread, Current
      <4>6. ToFile(d)'
        BY <3>1, <4>4, <4>5 DEF ToFile
      <4>7. \A e \in Daemons : ToFile(e)'
        BY <1>o, <4>6
      <4>8. \A t \in Threads : Paid(t)'
        BY <1>p, <3>1, <4>3 DEF Paid
      <4>9. NudgesDoNotPile'
        BY <1>p, <3>1 DEF NudgesDoNotPile
      <4> QED BY <1>0, <4>7, <4>8, <4>9 DEF Piled
    <3>3. CASE ~NudgeDue(Thread(d))
      <4>1. pc'[d] = "triage"
        BY <1>q, <2>4, <3>3 DEF Nudge, NextMessage, Goto
      <4> QED BY <1>2, <3>1, <4>1
    <3> QED BY <3>2, <3>3
  <2>5. CASE FileNudge(d)
    <3> DEFINE t == Thread(d)
    <3>1. /\ pc[d] = "file" /\ pc'[d] = "meta" /\ queue' = queue /\ faults' = faults
          /\ drafts' = drafts /\ filed' = [filed EXCEPT ![t] = Smaller(@ + 1, 3)]
      BY <1>q, <2>5 DEF FileNudge, Goto, metadata, world
    <3>2. t \in Threads
      <4>1. queue[d] # << >>
        BY <1>0, <3>1 DEF Kept, Cycles, Working
      <4> QED BY <1>0, <4>1, AtWork
    <3>3. filed[t] <= faults
      BY <1>p, <3>1 DEF ToFile
    <3>4. t' = t
      BY <3>1 DEF Thread, Current
    <3>5. AtMeta(t)'
      BY <3>1, <3>4 DEF AtMeta
    <3> HIDE DEF t
    <3>6. filed'[t] <= 1 + faults
      <4>1. filed'[t] = Smaller(filed[t] + 1, 3)
        BY <1>q, <3>1, <3>2
      <4>2. filed[t] \in Nat
        BY <1>q, <3>2
      <4> QED BY <1>q, <3>3, <4>1, <4>2 DEF Smaller
    <3>7. \A x \in Threads : x # t => filed'[x] = filed[x]
      BY <1>q, <3>1
    <3>8. ASSUME NEW x \in Threads PROVE Paid(x)'
      <4>1. CASE x = t
        <5>1. AtMeta(x)'
          BY Zenon, <3>4, <3>5, <4>1
        <5> QED BY <5>1 DEF Paid
      <4>2. CASE x # t
        <5>1. ~AtMeta(x)
          BY <1>o, <3>1 DEF AtMeta
        <5> QED BY <1>p, <3>1, <3>7, <4>2, <5>1 DEF Paid
      <4> QED BY <4>1, <4>2
    <3>9. \A e \in Daemons : ToFile(e)'
      BY <1>o, <3>1 DEF ToFile
    <3>10. NudgesDoNotPile'
      BY <1>p, <3>1, <3>6, <3>7 DEF NudgesDoNotPile
    <3> QED BY <1>0, <3>8, <3>9, <3>10 DEF Piled
  <2>6. CASE RecordDraft(d)
    <3>1. /\ pc[d] = "meta" /\ pc'[d] = "triage" /\ filed' = filed /\ faults' = faults
          /\ drafts' = drafts \union {Thread(d)}
      BY <1>q, <2>6 DEF RecordDraft, NextMessage, Goto, world
    <3>2. ASSUME NEW x \in Threads PROVE Paid(x)'
      <4>1. AtMeta(x) => x = Thread(d)
        BY <1>o DEF AtMeta
      <4> QED BY <1>p, <3>1, <4>1 DEF Paid
    <3>3. \A e \in Daemons : ToFile(e)'
      BY <1>o, <3>1 DEF ToFile
    <3>4. NudgesDoNotPile'
      BY <1>p, <3>1 DEF NudgesDoNotPile
    <3> QED BY <1>0, <3>2, <3>3, <3>4 DEF Piled
  <2> QED BY <1>4, <2>1, <2>2, <2>3, <2>4, <2>5, <2>6 DEF Cycle
<1>5. ASSUME NEW d \in Daemons, Failure(d) PROVE Piled'
  <2>1. filed' = filed /\ faults' = faults + 1
    BY <1>5 DEF Failure, CallFails, BuildFails, Crash, Redeliver, Fault
  <2> QED BY <1>3, <2>1
<1>6. ASSUME \/ \E u \in Users : User(u)
             \/ \E t \in Threads : UserDrafts(t)
             \/ \E m \in Messages : Arrive(m)
             \/ Tick
      PROVE Piled'
  <2>1. /\ filed' = filed /\ faults' = faults /\ drafts \subseteq drafts'
        /\ pc' = pc /\ queue' = queue
    BY <1>6 DEF User, AskDone, AskWaiting, AskSnooze, Ask, Op, Answer, UserDrafts, Arrive, Tick,
       metadata, daemon, world
  <2> QED BY <1>1, <2>1
<1>7. CASE UNCHANGED vars
  BY <1>1, <1>7 DEF vars, metadata, daemon, world
<1> QED
  BY <1>4, <1>5, <1>6, <1>7 DEF Next

\* cycle.ts:222-270: "so we never pile nudges every cycle": a thread has at most one nudge
\* more than there were faults, also where the user drafts while a nudge is being filed.
THEOREM NudgesDoNotPileHolds ==
  ASSUME OneDaemon
  PROVE Spec => []NudgesDoNotPile
<1>1. Init => Piled
  <2>1. Init => Kept
    BY InitKept
  <2>2. ASSUME Init
        PROVE NudgesDoNotPile /\ (\A t \in Threads : Paid(t)) /\ (\A d \in Daemons : ToFile(d))
    BY <2>2 DEF Init, NudgesDoNotPile, Paid, ToFile
  <2> QED BY <2>1, <2>2 DEF Piled
<1>2. Piled /\ [Next]_vars => Piled'
  BY PiledSteps
<1>3. Piled => NudgesDoNotPile
  BY DEF Piled
<1> QED
  BY <1>1, <1>2, <1>3, PTL DEF Spec


-----------------------------------------------------------------------------
(* When a promise falls due.  The clock of Prague changes at 01:00 UTC, so *)
(* from then on a day of UTC has one offset (OneOffset); the end of a      *)
(* local day, 22 or 21 UTC and 59:59, is in that part of the day of UTC    *)
(* with the same number.  No fact about the calendar is needed but that    *)
(* its numbers are integers.                                               *)

LEMMA DayParts ==
  ASSUME NEW day \in Int, NEW time \in Int, 0 <= time, time < Day
  PROVE DayOf(day * Day + time) = day
BY SMT DEF DayOf, Day

\* An instant is in its day.
LEMMA Parts ==
  ASSUME NEW utc \in Int
  PROVE /\ DayOf(utc) \in Int
        /\ DayOf(utc) * Day <= utc
        /\ utc < DayOf(utc) * Day + Day
BY SMT DEF DayOf, Day

LEMMA CalendarIsInt ==
  ASSUME NEW year \in Int, NEW month \in Int
  PROVE LastSunday(year, month) \in Int
<1>1. ASSUME NEW y \in Int, NEW m \in Int, NEW d \in Int
      PROVE DateUTC(y, m, d) \in Int
  BY SMT, <1>1 DEF DateUTC
<1>2. DateUTC(year, month + 1, 0) \in Int
  BY SMT, <1>1
<1> QED
  BY SMT, <1>2 DEF LastSunday, Weekday

LEMMA YearIsInt == \A day \in Int : Civil(day).year \in Int
BY SMT DEF Civil

LEMMA OffsetType == \A utc : PragueOffset(utc) = 3600 \/ PragueOffset(utc) = 7200
BY SMT DEF PragueOffset, Hour

\* From 01:00 UTC to midnight a day of UTC has one offset.
LEMMA OneOffset ==
  ASSUME NEW day \in Int, NEW s \in Int, NEW t \in Int,
         Hour <= s, s < Day, Hour <= t, t < Day
  PROVE PragueOffset(day * Day + s) = PragueOffset(day * Day + t)
<1>1. DayOf(day * Day + s) = day /\ DayOf(day * Day + t) = day
  BY SMT DEF DayOf, Day, Hour
<1>2. ASSUME NEW last \in Int
      PROVE last * Day + Hour <= day * Day + s <=> last * Day + Hour <= day * Day + t
  BY SMT, <1>2 DEF Day, Hour
<1>3. ASSUME NEW last \in Int
      PROVE day * Day + s < last * Day + Hour <=> day * Day + t < last * Day + Hour
  BY SMT, <1>3 DEF Day, Hour
<1>4. PICK year \in Int : year = Civil(day).year
  BY YearIsInt
<1>5. LastSunday(year, 3) \in Int /\ LastSunday(year, 10) \in Int
  <2>1. 3 \in Int /\ 10 \in Int
    OBVIOUS
  <2> QED BY CalendarIsInt, <1>4, <2>1
<1>6. IsPragueSummer(day * Day + s) <=> IsPragueSummer(day * Day + t)
  BY Zenon, <1>1, <1>2, <1>3, <1>4, <1>5 DEF IsPragueSummer
<1> QED
  BY Zenon, <1>6 DEF PragueOffset

\* The second pass of localDayToUtc finds the offset of its own result.
LEMMA SecondPass ==
  ASSUME NEW day \in Int
  PROVE /\ AtEndOfDay(day) \in Int
        /\ AtEndOfDay(day) = (day * Day + EndOfDay) - PragueOffset(AtEndOfDay(day))
<1> DEFINE naive == day * Day + EndOfDay
           first == PragueOffset(naive)
           second == PragueOffset(naive - first)
<1>1. AtEndOfDay(day) = naive - second
  BY DEF AtEndOfDay, LocalDayToUtc
<1>2. first = 3600 \/ first = 7200
  BY OffsetType
<1>3. second = 3600 \/ second = 7200
  BY OffsetType
<1> HIDE DEF first, second
<1>4. naive - first = day * Day + (EndOfDay - first)
  BY SMT, <1>2 DEF EndOfDay, Day, Second
<1>5. naive - second = day * Day + (EndOfDay - second)
  BY SMT, <1>3 DEF EndOfDay, Day, Second
<1>6. /\ EndOfDay - first \in Int /\ Hour <= EndOfDay - first /\ EndOfDay - first < Day
      /\ EndOfDay - second \in Int /\ Hour <= EndOfDay - second /\ EndOfDay - second < Day
  BY SMT, <1>2, <1>3 DEF EndOfDay, Day, Hour, Second
<1>7. PragueOffset(day * Day + (EndOfDay - first)) = PragueOffset(day * Day + (EndOfDay - second))
  BY OneOffset, <1>6
<1>8. second = PragueOffset(naive - second)
  BY <1>4, <1>5, <1>7 DEF second
<1>9. naive - second \in Int
  BY SMT, <1>3 DEF EndOfDay, Day, Second
<1>10. PragueOffset(AtEndOfDay(day)) = second
  BY Zenon, <1>1, <1>8
<1>11. AtEndOfDay(day) = naive - PragueOffset(AtEndOfDay(day))
  BY Zenon, <1>1, <1>10
<1>12. AtEndOfDay(day) \in Int
  BY Zenon, <1>1, <1>9
<1> QED
  BY Zenon, <1>11, <1>12

\* relative-deadline.ts:110-115: "a second pass is enough".  On every day of every year
\* the instant taken for the end of a local day is the last second of that local day.
THEOREM EndOfDayIsLast ==
  ASSUME NEW day \in Int
  PROVE /\ ToLocalDay(AtEndOfDay(day)) = day
        /\ ToLocalDay(AtEndOfDay(day) + Second) = day + 1
<1> DEFINE end == AtEndOfDay(day)
           offset == PragueOffset(end)
<1>1. end \in Int /\ end = (day * Day + EndOfDay) - offset
  BY SecondPass
<1>2. offset = 3600 \/ offset = 7200
  BY OffsetType
<1>3. PragueOffset(end + Second) = offset
  <2> HIDE DEF end, offset
  <2>1. /\ EndOfDay - offset \in Int /\ Hour <= EndOfDay - offset /\ EndOfDay - offset < Day
        /\ EndOfDay - offset + Second \in Int /\ Hour <= EndOfDay - offset + Second
        /\ EndOfDay - offset + Second < Day
    BY SMT, <1>2 DEF EndOfDay, Day, Hour, Second
  <2>2. PragueOffset(day * Day + (EndOfDay - offset))
          = PragueOffset(day * Day + (EndOfDay - offset + Second))
    BY OneOffset, <2>1
  <2>3. /\ end = day * Day + (EndOfDay - offset)
        /\ end + Second = day * Day + (EndOfDay - offset + Second)
    BY SMT, <1>1, <1>2 DEF EndOfDay, Day, Second
  <2> QED BY <2>2, <2>3 DEF offset
<1> HIDE DEF end, offset
<1>4. DayOf(end + offset) = day /\ DayOf(end + Second + offset) = day + 1
  BY SMT, <1>1, <1>2 DEF DayOf, EndOfDay, Day, Second
<1> QED
  BY <1>3, <1>4 DEF ToLocalDay, end, offset

LEMMA DaysEndInOrder ==
  ASSUME NEW a \in Int, NEW b \in Int, a <= b
  PROVE AtEndOfDay(a) <= AtEndOfDay(b)
<1>1. CASE a = b
  <2>1. AtEndOfDay(b) \in Int
    BY SecondPass
  <2> QED BY SMT, <1>1, <2>1
<1>2. CASE a < b
  <2> DEFINE first == PragueOffset(AtEndOfDay(a))
             second == PragueOffset(AtEndOfDay(b))
  <2>1. (first = 3600 \/ first = 7200) /\ (second = 3600 \/ second = 7200)
    BY OffsetType
  <2>2. /\ AtEndOfDay(a) = (a * Day + EndOfDay) - first
        /\ AtEndOfDay(b) = (b * Day + EndOfDay) - second
    BY SecondPass
  <2> HIDE DEF first, second
  <2> QED BY SMT, <1>2, <2>1, <2>2 DEF EndOfDay, Day, Second
<1> QED
  BY SMT, <1>1, <1>2

\* The day a mail is received ends after it was received, also on the days the clock
\* changes.
LEMMA TodayIsNotOver ==
  ASSUME NEW received \in Int
  PROVE /\ ToLocalDay(received) \in Int
        /\ received <= AtEndOfDay(ToLocalDay(received))
<1> DEFINE today == ToLocalDay(received)
           end == AtEndOfDay(today)
           offset == PragueOffset(received)
           atEnd == PragueOffset(end)
<1>1. (offset = 3600 \/ offset = 7200) /\ (atEnd = 3600 \/ atEnd = 7200)
  BY OffsetType
<1>2. today = DayOf(received + offset)
  BY DEF ToLocalDay
<1>3. /\ today \in Int
      /\ received + offset < today * Day + Day /\ today * Day <= received + offset
  <2> HIDE DEF offset, today
  <2> QED BY SMT, <1>1, <1>2 DEF DayOf, Day
<1>4. end \in Int /\ end = (today * Day + EndOfDay) - atEnd
  BY SecondPass, <1>3
<1>5. ASSUME end < received
      PROVE atEnd = offset
  <2> DEFINE s == received - today * Day
             e == end - today * Day
  <2> HIDE DEF offset, atEnd, end, today
  <2>1. /\ s \in Int /\ e \in Int /\ Hour <= s /\ s < Day /\ Hour <= e /\ e < Day
        /\ received = today * Day + s /\ end = today * Day + e
    BY SMT, <1>1, <1>3, <1>4, <1>5 DEF EndOfDay, Day, Hour, Second
  <2> HIDE DEF s, e
  <2>2. PragueOffset(today * Day + s) = PragueOffset(today * Day + e)
    BY OneOffset, <2>1, <1>3
  <2> QED BY <2>1, <2>2 DEF offset, atEnd
<1> HIDE DEF offset, atEnd, end, today
<1>6. received <= end
  BY SMT, <1>1, <1>3, <1>4, <1>5 DEF EndOfDay, Day, Second
<1> QED
  BY <1>3, <1>6 DEF end, today

-----------------------------------------------------------------------------
(* What the phrases resolve to.                                            *)

\* The phrases of a day to come: all but "yesterday", and "next month", which takes the
\* calendar.
Coming == {"today", "tomorrow", "this week", "next week", "in days", "in weeks",
           "next weekday", "weekday"}

LEMMA Ahead ==
  ASSUME NEW today \in Int, NEW phrase \in Phrase, phrase.kind \in Coming, phrase.n >= 0
  PROVE DaysAhead(phrase, today) \in Nat
<1>0. phrase.n \in Int
  BY DEF Phrase
<1>w. ToFriday(today) \in Nat
  BY SMT DEF ToFriday, Friday, Weekday
<1>u. DaysUntilNext(Weekday(today), phrase.n) \in Nat
  BY SMT, <1>0 DEF DaysUntilNext, Weekday
<1>1. CASE phrase.kind = "today"
  BY <1>1 DEF DaysAhead
<1>2. CASE phrase.kind = "tomorrow"
  BY <1>2 DEF DaysAhead
<1>3. CASE phrase.kind = "this week"
  <2>1. DaysAhead(phrase, today) = ToFriday(today)
    BY <1>3 DEF DaysAhead
  <2> QED BY <1>w, <2>1
<1>4. CASE phrase.kind = "next week"
  <2>1. DaysAhead(phrase, today) = ToFriday(today) + 7
    BY <1>4 DEF DaysAhead
  <2> QED BY <1>w, <2>1
<1>5. CASE phrase.kind = "in days"
  <2>1. DaysAhead(phrase, today) = phrase.n
    BY <1>5 DEF DaysAhead
  <2> QED BY <1>0, <2>1
<1>6. CASE phrase.kind = "in weeks"
  <2>1. DaysAhead(phrase, today) = 7 * phrase.n
    BY <1>6 DEF DaysAhead
  <2> QED BY <1>0, <2>1
<1>7. CASE phrase.kind = "next weekday"
  <2>1. DaysAhead(phrase, today) = ToNextWeekday(today, phrase.n)
    BY <1>7 DEF DaysAhead
  <2> QED BY <1>u, <2>1 DEF ToNextWeekday
<1>8. CASE phrase.kind = "weekday"
  <2>1. DaysAhead(phrase, today) = DaysUntilNext(Weekday(today), phrase.n)
    BY <1>8 DEF DaysAhead
  <2> QED BY <1>u, <2>1
<1> QED
  BY <1>1, <1>2, <1>3, <1>4, <1>5, <1>6, <1>7, <1>8 DEF Coming

\* promise-reconciler.ts:113-128: a promise with a deadline to come is not born overdue:
\* whenever it is reconciled before the local day it was received on is over, whatever
\* the hour, and also on the days the clock changes, its status is open.
THEOREM BornOpen ==
  ASSUME NEW candidate, NEW phrase \in Phrase, NEW received \in Int, NEW at \in Int,
         candidate.dueAt = {}, candidate.dueRaw = {phrase}, candidate.signal = "none",
         phrase.kind \in Coming, phrase.n >= 0,
         at <= AtEndOfDay(ToLocalDay(received))
  PROVE Reconciled(candidate, received, at).status = "open"
<1> DEFINE today == ToLocalDay(received)
           due == ResolveRelativeDeadline(phrase, received)
<1>1. ASSUME NEW instant \in due
      PROVE ~(instant < at)
  <2>1. phrase.kind \notin {"instant", "date"}
    BY DEF Coming
  <2>2. instant = AtEndOfDay(today + DaysAhead(phrase, today))
    BY <1>1, <2>1 DEF ResolveRelativeDeadline
  <2>3. today \in Int /\ DaysAhead(phrase, today) \in Nat
    BY TodayIsNotOver, Ahead
  <2> DEFINE day == today + DaysAhead(phrase, today)
  <2> HIDE DEF today
  <2>4. day \in Int /\ today <= day
    BY SMT, <2>3
  <2> HIDE DEF day
  <2>5. AtEndOfDay(today) <= AtEndOfDay(day)
    BY DaysEndInOrder, <2>3, <2>4
  <2>6. AtEndOfDay(today) \in Int /\ AtEndOfDay(day) \in Int
    BY SecondPass, <2>3, <2>4
  <2>7. at <= AtEndOfDay(today)
    BY DEF today
  <2>8. instant = AtEndOfDay(day)
    BY <2>2 DEF day
  <2> QED BY SMT, <2>5, <2>6, <2>7, <2>8
<1>2. ResolveDueAt(candidate, received) = due
  BY DEF ResolveDueAt
<1>3. DeriveStatus("none", due, at) = "open"
  BY <1>1 DEF DeriveStatus
<1> QED
  BY <1>2, <1>3 DEF Reconciled

\* relative-deadline.ts:149-150, :235-238: a weekday is the next one after today, and
\* "next <weekday>" is never earlier: it is the same weekday a week on, or the same day
\* exactly where today is that weekday.
THEOREM NextIsLater ==
  ASSUME NEW today \in Int, NEW target \in Weekdays
  PROVE LET bare == today + DaysUntilNext(Weekday(today), target)
            next == today + ToNextWeekday(today, target)
        IN /\ Weekday(bare) = target /\ today < bare /\ bare <= today + 7
           /\ next = IF Weekday(today) = target THEN bare ELSE bare + 7
<1>1. target \in Int /\ 0 <= target /\ target <= 6
  BY DEF Weekdays
<1> QED
  BY SMT, <1>1 DEF Weekday, DaysUntilNext, ToNextWeekday

-----------------------------------------------------------------------------
(* Stored records.                                                         *)

\* promise-reconciler.ts:188-213: a stored record evaluated again later is the record the
\* same mail would give if it were reconciled only then.  Nothing is lost by settling the
\* status early, and nothing is gained by evaluating it again in between.
THEOREM LaterIsTheSame ==
  ASSUME NEW candidate, NEW received, NEW at \in Int, NEW later \in Int, at <= later,
         ResolveDueAt(candidate, received) \subseteq Int,
         candidate.signal \in {"none", "fulfilled", "cancelled"}
  PROVE ReconcileExisting(Reconciled(candidate, received, at), later)
          = Reconciled(candidate, received, later)
<1> DEFINE due == ResolveDueAt(candidate, received)
           first == Reconciled(candidate, received, at)
           last == Reconciled(candidate, received, later)
           passed(i) == \E instant \in due : instant < i
<1>1. passed(at) => passed(later)
  <2>1. ASSUME NEW instant \in due, instant < at
        PROVE instant < later
    <3>1. instant \in Int
      OBVIOUS
    <3> QED BY SMT, <2>1, <3>1
  <2> QED BY <2>1
<1>2. /\ first = [direction |-> BucketDirection(candidate), due |-> due,
                  status |-> DeriveStatus(candidate.signal, due, at)]
      /\ last = [direction |-> BucketDirection(candidate), due |-> due,
                 status |-> DeriveStatus(candidate.signal, due, later)]
  BY DEF Reconciled
<1>3. first.due = due
  BY <1>2
<1> HIDE DEF due, first, last
<1>4. CASE candidate.signal # "none"
  <2>1. first = last /\ first.status # "open"
    BY <1>2, <1>4 DEF DeriveStatus
  <2> QED BY <2>1 DEF ReconcileExisting, first, last
<1>5. CASE candidate.signal = "none" /\ passed(at)
  <2>1. first = last /\ first.status # "open"
    BY <1>1, <1>2, <1>5 DEF DeriveStatus
  <2> QED BY <2>1 DEF ReconcileExisting, first, last
<1>6. CASE candidate.signal = "none" /\ ~passed(at) /\ passed(later)
  <2>1. DeriveStatus("none", due, at) = "open" /\ DeriveStatus("none", due, later) = "overdue"
    BY <1>6 DEF DeriveStatus
  <2>2. first.status = "open" /\ last = [first EXCEPT !.status = "overdue"]
    BY <1>2, <1>6, <2>1
  <2>3. \E instant \in first.due : instant < later
    BY <1>3, <1>6
  <2>4. ReconcileExisting(first, later) = last
    BY <2>2, <2>3 DEF ReconcileExisting
  <2> QED BY <2>4 DEF first, last
<1>7. CASE candidate.signal = "none" /\ ~passed(later)
  <2>1. ~passed(at)
    BY <1>1, <1>7
  <2>2. DeriveStatus("none", due, at) = "open" /\ DeriveStatus("none", due, later) = "open"
    BY <1>7, <2>1 DEF DeriveStatus
  <2>3. first = last
    BY <1>2, <1>7, <2>2
  <2>4. ReconcileExisting(first, later) = first
    BY <1>3, <1>7 DEF ReconcileExisting
  <2> QED BY <2>3, <2>4 DEF first, last
<1> QED
  BY <1>4, <1>5, <1>6, <1>7

=============================================================================
