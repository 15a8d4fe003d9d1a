------------------------ MODULE MetadataService_proofs ------------------------
(***************************************************************************)
(* Theorems about the metadata service: its tables (MetadataService), for  *)
(* any projects, tokens, ids and states, and the locks it keeps with the   *)
(* sessions that hold them (ThreadLock), for any actors, sessions, calls   *)
(* in flight and timeouts.                                                 *)
(*                                                                         *)
(* A list is a join with the threads, and a write first looks its row up   *)
(* in such a join; so all of it rests on where the rows hang (RowsHang):   *)
(* on a thread of the project that made them, or on the project itself.    *)
(* Threads are never removed and never change projects.                    *)
(*                                                                         *)
(* Of the locks: an open gate on an unexpired lock is backed by the        *)
(* server's row until the lock's own actor releases it, and the locks      *)
(* implement ExclusiveEditing, whatever tabs an actor has and however the  *)
(* runs of the hook's effect and their calls overlap.                      *)
(***************************************************************************)
EXTENDS MetadataService, ThreadLock, TLAPS

Hangs(id) ==
  IF rows[id].kind \in OfThread
  THEN rows[id].home \in DOMAIN threads /\ threads[rows[id].home].project = maker[id]
  ELSE rows[id].home = maker[id]

RowsHang ==
  /\ DOMAIN maker = DOMAIN rows
  /\ \A id \in DOMAIN rows : rows[id] \in Row /\ maker[id] \in Projects /\ Hangs(id)

\* What Isolation says of one step, served for p.
ServedFor(p) ==
  /\ \A id \in DOMAIN rows' :
       id \notin DOMAIN rows \/ rows'[id] # rows[id] => Owner(rows', threads', id) = p
  /\ \A thread \in DOMAIN threads' : thread \notin DOMAIN threads => threads'[thread].project = p

LEMMA InitHangs == Init => RowsHang
BY DEF Init, RowsHang

LEMMA NothingDone ==
  ASSUME RowsHang, NEW p, UNCHANGED <<tables, maker>>
  PROVE RowsHang' /\ ServedFor(p)
<1>1. rows' = rows /\ threads' = threads /\ maker' = maker
  BY DEF tables
<1> QED
  BY <1>1 DEF RowsHang, Hangs, ServedFor

\* A thread comes to the threads, and to no other.
LEMMA UpsertedHangs ==
  ASSUME RowsHang, NEW p \in Projects, NEW root, Upserted(p, root)
  PROVE RowsHang' /\ ServedFor(p)
<1>1. CASE UNCHANGED <<tables, maker>>
  BY <1>1, NothingDone
<1>2. ASSUME NEW thread \in ThreadIds \ DOMAIN threads,
             threads' = With(threads, thread, [project |-> p, root |-> root]),
             UNCHANGED <<rows, moves, maker>>
      PROVE RowsHang' /\ ServedFor(p)
  <2>1. /\ DOMAIN threads' = DOMAIN threads \cup {thread}
        /\ threads'[thread].project = p
        /\ \A other \in DOMAIN threads : threads'[other] = threads[other]
    BY <1>2 DEF With
  <2>2. RowsHang'
    BY <1>2, <2>1 DEF RowsHang, Hangs
  <2>3. ServedFor(p)
    BY <1>2, <2>1 DEF ServedFor
  <2> QED BY <2>2, <2>3
<1> QED
  BY <1>1, <1>2 DEF Upserted

LEMMA InsertedHangs ==
  ASSUME RowsHang, NEW p \in Projects, NEW kind \in OfThread \cup OfProject,
         NEW home \in ThreadIds \cup Projects, NEW state \in States \cup {"made"},
         kind \in OfThread => GetThread(p, home),
         kind \notin OfThread => home = p,
         Inserted(p, kind, home, state)
  PROVE RowsHang' /\ ServedFor(p)
<1>1. PICK id \in RowIds \ DOMAIN rows :
        /\ rows' = With(rows, id, [kind |-> kind, home |-> home, state |-> state,
                                   touched |-> FALSE])
        /\ maker' = With(maker, id, p)
  BY DEF Inserted
<1>2. threads' = threads
  BY DEF Inserted
<1> DEFINE row == [kind |-> kind, home |-> home, state |-> state, touched |-> FALSE]
<1>3. row \in Row /\ row.kind = kind /\ row.home = home
  BY DEF Row
<1> HIDE DEF row
<1>4. /\ DOMAIN rows' = DOMAIN rows \cup {id} /\ rows'[id] = row
      /\ \A other \in DOMAIN rows : rows'[other] = rows[other]
  BY <1>1 DEF row, With
<1>5. /\ DOMAIN maker' = DOMAIN rows' /\ maker'[id] = p
      /\ \A other \in DOMAIN rows : maker'[other] = maker[other]
  BY <1>1, <1>4 DEF RowsHang, With
<1>6. RowsHang'
  <2>1. ASSUME NEW other \in DOMAIN rows
        PROVE rows'[other] \in Row /\ maker'[other] \in Projects /\ Hangs(other)'
    BY <1>2, <1>4, <1>5, <2>1 DEF RowsHang, Hangs
  <2>2. Hangs(id)'
    BY <1>2, <1>3, <1>4, <1>5 DEF Hangs, GetThread
  <2> QED BY <1>3, <1>4, <1>5, <2>1, <2>2 DEF RowsHang
<1>7. ServedFor(p)
  BY <1>2, <1>3, <1>4 DEF ServedFor, Owner, GetThread
<1> QED
  BY <1>6, <1>7

\* A row is listed for the project it hangs on.
LEMMA ListedOwner ==
  ASSUME RowsHang, NEW p, NEW kind, NEW id \in Listed(p, kind)
  PROVE id \in DOMAIN rows /\ rows[id].kind = kind /\ Owner(rows, threads, id) = p
BY DEF RowsHang, Hangs, Listed, GetThread, Owner

\* A row of the project changes in a field on which nothing hangs.
LEMMA ChangedHangs ==
  ASSUME RowsHang, NEW p \in Projects, NEW kind, NEW id \in Listed(p, kind), NEW row \in Row,
         row.kind = rows[id].kind, row.home = rows[id].home,
         rows' = [rows EXCEPT ![id] = row], UNCHANGED <<threads, maker>>
  PROVE RowsHang' /\ ServedFor(p)
<1>1. id \in DOMAIN rows /\ Owner(rows, threads, id) = p
  BY ListedOwner
<1>2. /\ DOMAIN rows' = DOMAIN rows /\ rows'[id] = row
      /\ \A other \in DOMAIN rows : other # id => rows'[other] = rows[other]
  BY <1>1
<1>3. RowsHang'
  BY <1>1, <1>2 DEF RowsHang, Hangs
<1>4. ServedFor(p)
  BY <1>1, <1>2 DEF ServedFor, Owner
<1> QED
  BY <1>3, <1>4

LEMMA TouchHangs ==
  ASSUME RowsHang, NEW p \in Projects, NEW kind, NEW id, Touch(p, kind, id)
  PROVE RowsHang' /\ ServedFor(p)
<1>1. CASE ~Scoped(p, kind, id)
  BY <1>1, NothingDone DEF Touch
<1>2. CASE Scoped(p, kind, id)
  <2> DEFINE row == [rows[id] EXCEPT !.touched = TRUE]
  <2>1. rows' = [rows EXCEPT ![id] = row] /\ UNCHANGED <<threads, maker>>
    BY <1>2 DEF Touch
  <2>2. id \in Listed(p, kind) /\ rows[id] \in Row
    BY <1>2 DEF Scoped, Listed, RowsHang
  <2>3. row \in Row /\ row.kind = rows[id].kind /\ row.home = rows[id].home
    BY <2>2 DEF Row
  <2> QED BY <2>1, <2>2, <2>3, ChangedHangs
<1> QED
  BY <1>1, <1>2

LEMMA RecordedHangs ==
  ASSUME RowsHang, NEW p \in Projects, NEW id, NEW to \in States,
         Scoped(p, "task", id), Recorded(id, to)
  PROVE RowsHang' /\ ServedFor(p)
<1> DEFINE row == [rows[id] EXCEPT !.state = to]
<1>1. rows' = [rows EXCEPT ![id] = row] /\ UNCHANGED <<threads, maker>>
  BY DEF Recorded
<1>2. id \in Listed(p, "task") /\ rows[id] \in Row
  BY DEF Scoped, Listed, RowsHang
<1>3. row \in Row /\ row.kind = rows[id].kind /\ row.home = rows[id].home
  BY <1>2 DEF Row
<1> QED
  BY <1>1, <1>2, <1>3, ChangedHangs

-----------------------------------------------------------------------------
(* The routes.                                                             *)

LEMMA HangHangs ==
  ASSUME RowsHang, NEW p \in Projects, NEW kind \in OfThread, NEW thread \in ThreadIds,
         NEW state \in States \cup {"made"}, Hang(p, kind, thread, state)
  PROVE RowsHang' /\ ServedFor(p)
<1>1. CASE GetThread(p, thread)
  BY <1>1, InsertedHangs DEF Hang
<1>2. CASE ~GetThread(p, thread)
  BY <1>2, NothingDone DEF Hang
<1> QED
  BY <1>1, <1>2

LEMMA InsertedForProject ==
  ASSUME RowsHang, NEW p \in Projects, NEW kind \in OfProject, Inserted(p, kind, p, "made")
  PROVE RowsHang' /\ ServedFor(p)
<1>1. kind \notin OfThread
  BY DEF OfThread, OfProject
<1> QED
  BY <1>1, InsertedHangs

LEMMA RoutesHang ==
  ASSUME RowsHang, NEW p \in Projects, Routes(p)
  PROVE RowsHang' /\ ServedFor(p)
<1>1. CASE UNCHANGED <<tables, maker>>
  BY <1>1, NothingDone
<1>2. CASE UpsertThread(p)
  BY <1>1, <1>2, UpsertedHangs DEF UpsertThread
<1>3. CASE CreateTask(p)
  <2>1. PICK thread \in ThreadIds, state \in States : Hang(p, "task", thread, state)
    BY <1>3 DEF CreateTask
  <2> QED BY <2>1, HangHangs DEF OfThread
<1>4. CASE CreatePromise(p) \/ CreateNote(p) \/ CreateDraftMeta(p)
  <2>1. PICK kind \in OfThread, thread \in ThreadIds : Hang(p, kind, thread, "made")
    BY <1>4 DEF CreatePromise, CreateNote, CreateDraftMeta, OfThread
  <2> QED BY <2>1, HangHangs
<1>5. CASE UpdateTask(p) \/ UpdatePromise(p) \/ RevertLearningEntry(p)
  BY <1>5, TouchHangs DEF UpdateTask, UpdatePromise, RevertLearningEntry
<1>6. CASE CreateTransition(p)
  <2>1. PICK id \in RowIds, to \in States :
          \/ Scoped(p, "task", id) /\ Recorded(id, to)
          \/ UNCHANGED <<tables, maker>>
    BY <1>6 DEF CreateTransition
  <2> QED BY <1>1, <2>1, RecordedHangs
<1>7. CASE CreateRepoPointer(p) \/ CreateLearningEntry(p)
  <2>1. \/ UNCHANGED <<tables, maker>>
        \/ \E kind \in OfProject : Inserted(p, kind, p, "made")
    BY <1>7 DEF CreateRepoPointer, CreateLearningEntry, Named, OfProject
  <2> QED BY <1>1, <2>1, InsertedForProject
<1>8. CASE PutToneFile(p)
  <2>1. \/ UNCHANGED <<tables, maker>>
        \/ Inserted(p, "tone", p, "made")
        \/ \E id \in Listed(p, "tone") : Touch(p, "tone", id)
    BY <1>8 DEF PutToneFile, Named
  <2>2. "tone" \in OfProject
    BY DEF OfProject
  <2> QED BY <1>1, <2>1, <2>2, InsertedForProject, TouchHangs
<1> QED
  BY <1>2, <1>3, <1>4, <1>5, <1>6, <1>7, <1>8 DEF Routes

LEMMA NextHangs ==
  ASSUME RowsHang, [Next]_vars
  PROVE /\ RowsHang'
        /\ (\E p \in Projects : ServedFor(p) /\ served' = p) \/ UNCHANGED <<tables, maker>>
<1>1. CASE UNCHANGED <<tables, maker>>
  BY <1>1, NothingDone
<1>2. ASSUME NEW p \in Projects, NEW token \in Tokens, Request(p, token)
      PROVE \/ UNCHANGED <<tables, maker>>
            \/ RowsHang' /\ ServedFor(p) /\ served' = p
  BY <1>2, RoutesHang DEF Request
<1>3. CASE UNCHANGED vars
  BY <1>1, <1>3 DEF vars
<1>4. ASSUME NEW p \in Projects, NEW token \in Tokens, Seed(p, token)
      PROVE UNCHANGED <<tables, maker>>
  BY <1>4 DEF Seed
<1> QED
  BY <1>1, <1>2, <1>3, <1>4 DEF Next

\* Every row hangs on the project that made it, whoever sends what when.
THEOREM Hanging == Spec => []RowsHang
<1>1. RowsHang /\ [Next]_vars => RowsHang'
  BY NextHangs
<1> QED
  BY InitHangs, <1>1, PTL DEF Spec

\* A row stays in the lists of the project that made it and of its thread, and is in no
\* other, for any number of projects and apps and after any number of upserts.
THEOREM StaysListed == Spec => []RowsStayListed
<1>1. RowsHang => RowsStayListed
  <2> SUFFICES ASSUME RowsHang, NEW id \in DOMAIN rows
               PROVE LET kind == rows[id].kind
                     IN /\ {p \in Projects : id \in Listed(p, kind)} = {maker[id]}
                        /\ kind \in OfThread =>
                             {thread \in DOMAIN threads : id \in ListedIn(maker[id], kind, thread)}
                               = {rows[id].home}
    BY DEF RowsStayListed
  <2> DEFINE kind == rows[id].kind
  <2>1. maker[id] \in Projects /\ Hangs(id)
    BY DEF RowsHang
  <2>2. \A p : id \in Listed(p, kind) <=> p = maker[id]
    BY <2>1 DEF Listed, Hangs, GetThread
  <2>3. {p \in Projects : id \in Listed(p, kind)} = {maker[id]}
    BY <2>1, <2>2
  <2>4. ASSUME kind \in OfThread
        PROVE {thread \in DOMAIN threads : id \in ListedIn(maker[id], kind, thread)}
                = {rows[id].home}
    BY <2>1, <2>2, <2>4 DEF ListedIn, Hangs
  <2> QED BY <2>3, <2>4
<1> QED
  BY Hanging, <1>1, PTL

\* auth.ts:8: no request changes or makes a row of a project other than the one whose
\* token it brought, for any number of projects, and ids of whichever origin.
THEOREM Isolated == Spec => Isolation
<1> DEFINE Step ==
      /\ \A id \in DOMAIN rows' :
           id \notin DOMAIN rows \/ rows'[id] # rows[id] => Owner(rows', threads', id) = served'
      /\ \A thread \in DOMAIN threads' :
           thread \notin DOMAIN threads => threads'[thread].project = served'
<1>1. RowsHang /\ [Next]_vars => [Step]_vars
  <2> SUFFICES ASSUME RowsHang, [Next]_vars PROVE Step
    OBVIOUS
  <2>1. CASE UNCHANGED <<tables, maker>>
    BY <2>1 DEF tables
  <2>2. CASE \E p \in Projects : ServedFor(p) /\ served' = p
    BY <2>2 DEF ServedFor
  <2> QED BY <2>1, <2>2, NextHangs
<1>2. Spec => [][Step]_vars
  BY Hanging, <1>1, PTL DEF Spec
<1> QED
  BY <1>2 DEF Isolation

-----------------------------------------------------------------------------
(* The history of the tasks.                                               *)

\* Types, and what they leave out: a task is in a state of its own, not "made".
Kept ==
  /\ TypeOK
  /\ \A id \in DOMAIN rows : rows[id].kind = "task" => rows[id].state \in States
  /\ MovesAreTheHistory

Move(someRows) == [task : DOMAIN someRows, from : States, to : States]

\* More rows do not change what the moves say.
LEMMA KeepsHistory ==
  ASSUME Kept, DOMAIN rows \subseteq DOMAIN rows', moves' = moves,
         \A id \in DOMAIN rows : rows'[id].state = rows[id].state
  PROVE  moves' \in Seq(Move(rows')) /\ MovesAreTheHistory'
<1>1. moves \in Seq(Move(rows)) /\ moves \in Seq(Move(rows'))
  <2>1. moves \in Seq(Move(rows))
    BY DEF Kept, TypeOK, Move
  <2>2. Move(rows) \subseteq Move(rows')
    BY DEF Move
  <2> QED BY <2>1, <2>2
<1>2. \A n \in DOMAIN moves : moves[n].task \in DOMAIN rows
  <2>1. \A n \in DOMAIN moves : moves[n] \in Move(rows)
    BY <1>1
  <2> QED BY <2>1 DEF Move
<1>3. MovesAreTheHistory'
  BY <1>2 DEF Kept, MovesAreTheHistory, Later
<1> QED
  BY <1>1, <1>3

LEMMA NothingKept ==
  ASSUME Kept, UNCHANGED <<tables, maker>>, served' \in Projects, UNCHANGED tokens
  PROVE  Kept'
BY DEF Kept, TypeOK, MovesAreTheHistory, Later, tables

\* A row of the tables is typed, new or written over.
LEMMA WrittenKept ==
  ASSUME Kept, RowsHang, RowsHang', UNCHANGED <<threads, moves, tokens>>, served' \in Projects,
         DOMAIN rows \subseteq DOMAIN rows', DOMAIN rows' \subseteq RowIds,
         \A id \in DOMAIN rows : rows'[id].state = rows[id].state /\ rows'[id].kind = rows[id].kind,
         \A id \in DOMAIN rows' \ DOMAIN rows : rows'[id].kind = "task" => rows'[id].state \in States
  PROVE  Kept'
<1>1. moves' \in Seq(Move(rows')) /\ MovesAreTheHistory'
  BY KeepsHistory
<1>2. TypeOK'
  BY <1>1 DEF Kept, TypeOK, RowsHang, Move
<1>3. \A id \in DOMAIN rows' : rows'[id].kind = "task" => rows'[id].state \in States
  BY DEF Kept
<1> QED
  BY <1>1, <1>2, <1>3 DEF Kept

LEMMA UpsertedKept ==
  ASSUME Kept, NEW p \in Projects, NEW root \in Roots, Upserted(p, root),
         UNCHANGED tokens, served' \in Projects
  PROVE  Kept'
<1>1. CASE UNCHANGED <<tables, maker>>
  BY <1>1, NothingKept
<1>2. ASSUME ~\E thread \in DOMAIN threads : threads[thread] = [project |-> p, root |-> root],
             NEW thread \in ThreadIds \ DOMAIN threads,
             threads' = With(threads, thread, [project |-> p, root |-> root]),
             UNCHANGED <<rows, moves, maker>>
      PROVE  Kept'
  <2> DEFINE new == [project |-> p, root |-> root]
  <2>1. new \in [project : Projects, root : Roots]
    OBVIOUS
  <2>2. \A other \in DOMAIN threads : threads[other] # new
    BY <1>2
  <2> HIDE DEF new
  <2>3. /\ DOMAIN threads' = DOMAIN threads \cup {thread}
        /\ threads'[thread] = new
        /\ \A other \in DOMAIN threads : threads'[other] = threads[other]
    BY <1>2 DEF With, new
  <2>4. /\ DOMAIN threads' \subseteq ThreadIds
        /\ \A other \in DOMAIN threads' : threads'[other] \in [project : Projects, root : Roots]
        /\ \A one, other \in DOMAIN threads' : threads'[one] = threads'[other] => one = other
    BY <2>1, <2>2, <2>3 DEF Kept, TypeOK
  <2>5. TypeOK'
    BY <1>2, <2>4 DEF Kept, TypeOK
  <2>6. MovesAreTheHistory'
    BY <1>2 DEF Kept, MovesAreTheHistory, Later
  <2> QED BY <1>2, <2>5, <2>6 DEF Kept
<1> QED
  BY <1>1, <1>2 DEF Upserted

LEMMA InsertedKept ==
  ASSUME Kept, RowsHang, RowsHang', NEW p, NEW kind, NEW home, NEW state,
         kind = "task" => state \in States, Inserted(p, kind, home, state),
         UNCHANGED tokens, served' \in Projects
  PROVE  Kept'
<1> DEFINE row == [kind |-> kind, home |-> home, state |-> state, touched |-> FALSE]
<1>1. PICK id \in RowIds \ DOMAIN rows : rows' = With(rows, id, row)
  BY DEF Inserted
<1>2. row.kind = kind /\ row.state = state
  OBVIOUS
<1> HIDE DEF row
<1>3. /\ DOMAIN rows' = DOMAIN rows \cup {id} /\ rows'[id] = row
      /\ \A other \in DOMAIN rows : rows'[other] = rows[other]
  BY <1>1 DEF With
<1>4. DOMAIN rows \subseteq RowIds /\ UNCHANGED <<threads, moves>>
  BY DEF Kept, TypeOK, Inserted
<1> QED
  BY <1>2, <1>3, <1>4, WrittenKept

LEMMA TouchKept ==
  ASSUME Kept, RowsHang, RowsHang', NEW p, NEW kind, NEW id, Touch(p, kind, id),
         UNCHANGED tokens, served' \in Projects
  PROVE  Kept'
<1>1. CASE ~Scoped(p, kind, id)
  BY <1>1, NothingKept DEF Touch
<1>2. CASE Scoped(p, kind, id)
  <2>1. rows' = [rows EXCEPT ![id].touched = TRUE] /\ UNCHANGED <<threads, moves>>
    BY <1>2 DEF Touch
  <2>2. \A other \in DOMAIN rows : rows[other] \in Row
    BY DEF RowsHang
  <2>3. /\ DOMAIN rows' = DOMAIN rows
        /\ \A other \in DOMAIN rows : /\ rows'[other].state = rows[other].state
                                      /\ rows'[other].kind = rows[other].kind
    BY <2>1, <2>2 DEF Row
  <2>4. DOMAIN rows \subseteq RowIds
    BY DEF Kept, TypeOK
  <2> QED BY <2>1, <2>3, <2>4, WrittenKept
<1> QED
  BY <1>1, <1>2

\* The move becomes the last one of its task, and starts where that was.
LEMMA RecordedKept ==
  ASSUME Kept, RowsHang, RowsHang', NEW p, NEW id, NEW to \in States, Scoped(p, "task", id),
         Recorded(id, to), UNCHANGED tokens, served' \in Projects
  PROVE  Kept'
<1> DEFINE last == Len(moves) + 1
           move == [task |-> id, from |-> rows[id].state, to |-> to]
<1>1. id \in DOMAIN rows /\ rows[id].kind = "task" /\ rows[id].state \in States
  BY DEF Scoped, Listed, Kept
<1>2. /\ DOMAIN rows' = DOMAIN rows
      /\ rows'[id].state = to /\ rows'[id].kind = "task"
      /\ \A other \in DOMAIN rows : other # id => rows'[other] = rows[other]
  <2>1. rows' = [rows EXCEPT ![id].state = to] /\ rows[id] \in Row
    BY <1>1 DEF Recorded, RowsHang
  <2> QED BY <1>1, <2>1 DEF Row
<1>3. move \in Move(rows) /\ Move(rows') = Move(rows) /\ moves \in Seq(Move(rows))
  BY <1>1, <1>2 DEF Move, Kept, TypeOK
<1>4. move.task = id /\ move.from = rows[id].state /\ move.to = to
  OBVIOUS
<1>5. moves' = Append(moves, move) /\ UNCHANGED threads
  BY DEF Recorded
<1> HIDE DEF move
<1>6. /\ moves' \in Seq(Move(rows')) /\ Len(moves) \in Nat
      /\ DOMAIN moves = 1..Len(moves) /\ DOMAIN moves' = 1..last
      /\ moves'[last] = move
      /\ \A n \in DOMAIN moves : moves'[n] = moves[n] /\ moves[n].task \in DOMAIN rows
  <2>1. \A n \in DOMAIN moves : moves[n] \in Move(rows)
    BY <1>3
  <2>2. \A n \in DOMAIN moves : moves[n].task \in DOMAIN rows
    BY <2>1 DEF Move
  <2> QED BY <1>3, <1>5, <2>2
<1>7. MovesAreTheHistory'
  <2> SUFFICES ASSUME NEW n \in DOMAIN moves'
               PROVE /\ Later(n)' = {} => rows'[moves'[n].task].state = moves'[n].to
                     /\ \A m \in Later(n)' : (\A k \in Later(n)' : m <= k) =>
                          moves'[m].from = moves'[n].to
    BY DEF MovesAreTheHistory
  <2> HIDE DEF last
  <2>0. last \in Nat /\ last > Len(moves) /\ DOMAIN moves' = DOMAIN moves \cup {last}
    BY <1>6 DEF last
  <2>1. CASE n = last
    <3>1. Later(n)' = {}
      BY <1>6, <2>1 DEF Later
    <3> QED BY <1>2, <1>4, <1>6, <2>1, <3>1
  <2>2. CASE n \in DOMAIN moves /\ moves[n].task # id
    <3>1. Later(n)' = Later(n)
      BY <1>4, <1>6, <2>0, <2>2 DEF Later
    <3>2. \A m \in Later(n) : moves'[m] = moves[m]
      BY <1>6 DEF Later
    <3> QED BY <1>2, <1>6, <2>2, <3>1, <3>2 DEF Kept, MovesAreTheHistory
  <2>3. CASE n \in DOMAIN moves /\ moves[n].task = id
    <3>0. /\ n < last /\ moves'[n].task = id /\ moves'[last].task = id
          /\ \A m \in DOMAIN moves : moves'[m].task = moves[m].task
      BY <1>4, <1>6, <2>0, <2>3
    <3>1. Later(n)' = Later(n) \cup {last}
      BY <2>0, <2>3, <3>0 DEF Later
    <3>2. \A m \in Later(n) : m \in DOMAIN moves /\ m < last
      BY <1>6, <2>0 DEF Later
    <3>3. CASE Later(n) = {}
      <4>1. moves'[last].from = moves'[n].to
        BY <1>4, <1>6, <2>3, <3>3 DEF Kept, MovesAreTheHistory
      <4> QED BY <3>1, <3>3, <4>1
    <3>4. CASE Later(n) # {}
      <4>1. ASSUME NEW m \in Later(n)', \A k \in Later(n)' : m <= k
            PROVE  moves'[m].from = moves'[n].to
        <5>1. m # last
          BY <1>6, <2>0, <3>1, <3>2, <3>4, <4>1
        <5>2. m \in Later(n) /\ \A k \in Later(n) : m <= k
          BY <3>1, <4>1, <5>1
        <5>3. moves[m].from = moves[n].to
          BY <2>3, <5>2 DEF Kept, MovesAreTheHistory
        <5> QED BY <1>6, <2>3, <3>2, <5>2, <5>3
      <4>2. Later(n)' # {}
        BY <3>1
      <4> QED BY <4>1, <4>2
    <3> QED BY <3>3, <3>4
  <2> QED BY <2>0, <2>1, <2>2, <2>3
<1>8. TypeOK'
  BY <1>2, <1>5, <1>6 DEF Kept, TypeOK, RowsHang, Move
<1>9. \A other \in DOMAIN rows' : rows'[other].kind = "task" => rows'[other].state \in States
  BY <1>2 DEF Kept
<1> QED
  BY <1>7, <1>8, <1>9 DEF Kept

LEMMA RoutesKeep ==
  ASSUME Kept, RowsHang, RowsHang', NEW p \in Projects, Routes(p), UNCHANGED tokens, served' = p
  PROVE  Kept'
<1>1. CASE UNCHANGED <<tables, maker>>
  BY <1>1, NothingKept
<1>2. CASE UpsertThread(p)
  BY <1>1, <1>2, UpsertedKept DEF UpsertThread
<1>3. CASE CreateTask(p)
  <2>1. PICK thread \in ThreadIds, state \in States : Hang(p, "task", thread, state)
    BY <1>3 DEF CreateTask
  <2> QED BY <1>1, <2>1, InsertedKept DEF Hang
<1>4. CASE CreatePromise(p) \/ CreateNote(p) \/ CreateDraftMeta(p)
  <2>1. PICK kind \in {"promise", "note", "draft"}, thread \in ThreadIds :
          Hang(p, kind, thread, "made")
    BY <1>4 DEF CreatePromise, CreateNote, CreateDraftMeta
  <2>2. kind # "task"
    OBVIOUS
  <2> QED BY <1>1, <2>1, <2>2, InsertedKept DEF Hang
<1>5. CASE UpdateTask(p) \/ UpdatePromise(p) \/ RevertLearningEntry(p)
  BY <1>5, TouchKept DEF UpdateTask, UpdatePromise, RevertLearningEntry
<1>6. CASE CreateTransition(p)
  <2>1. PICK id \in RowIds, to \in States :
          \/ Scoped(p, "task", id) /\ Recorded(id, to)
          \/ UNCHANGED <<tables, maker>>
    BY <1>6 DEF CreateTransition
  <2> QED BY <1>1, <2>1, RecordedKept
<1>7. CASE CreateRepoPointer(p) \/ CreateLearningEntry(p)
  BY <1>1, <1>7, InsertedKept DEF CreateRepoPointer, CreateLearningEntry, Named
<1>8. CASE PutToneFile(p)
  BY <1>1, <1>8, InsertedKept, TouchKept DEF PutToneFile, Named
<1> QED
  BY <1>2, <1>3, <1>4, <1>5, <1>6, <1>7, <1>8 DEF Routes

LEMMA NextKept ==
  ASSUME Kept, RowsHang, [Next]_vars
  PROVE  Kept'
<1>1. RowsHang' /\ served \in Projects
  BY NextHangs DEF Kept, TypeOK
<1>2. ASSUME NEW p \in Projects, NEW token \in Tokens, Request(p, token) PROVE Kept'
  BY <1>1, <1>2, NothingKept, RoutesKeep DEF Request
<1>3. ASSUME NEW p \in Projects, NEW token \in Tokens, Seed(p, token) PROVE Kept'
  <2>1. /\ DOMAIN tokens' = DOMAIN tokens \cup {p}
        /\ tokens'[p] = token
        /\ \A q \in DOMAIN tokens : q # p => tokens'[q] = tokens[q]
    BY <1>3 DEF Seed, With
  <2>2. DOMAIN tokens' \subseteq Projects /\ \A q \in DOMAIN tokens' : tokens'[q] \in Tokens
    BY <2>1 DEF Kept, TypeOK
  <2>3. UNCHANGED <<threads, rows, moves, served, maker>>
    BY <1>3 DEF Seed, tables
  <2>4. TypeOK'
    BY <2>2, <2>3 DEF Kept, TypeOK
  <2> QED BY <2>3, <2>4 DEF Kept, MovesAreTheHistory, Later
<1>4. CASE UNCHANGED vars
  BY <1>1, <1>4, NothingKept DEF vars
<1> QED
  BY <1>2, <1>3, <1>4 DEF Next

LEMMA InitKept == Init => Kept
<1>1. Init => TypeOK
  BY DEF Init, TypeOK
<1> QED
  BY <1>1 DEF Init, Kept, MovesAreTheHistory

\* The types and the history hold together: a task's state changes only in the step
\* that records the move.
THEOREM KeptHolds == Spec => []Kept
<1>1. Kept /\ RowsHang /\ [Next]_vars => Kept'
  BY NextKept
<1> QED
  BY InitKept, <1>1, Hanging, PTL DEF Spec

\* Types, and one thread per root of a project.
THEOREM TypeCorrect == Spec => []TypeOK
<1>1. Kept => TypeOK
  BY DEF Kept
<1> QED
  BY KeptHolds, <1>1, PTL

\* The history of every task leads without a gap to the state it is in, whoever moves it
\* and however many moves there are.
THEOREM HistoryHolds == Spec => []MovesAreTheHistory
<1>1. Kept => MovesAreTheHistory
  BY DEF Kept
<1> QED
  BY KeptHolds, <1>1, PTL

-----------------------------------------------------------------------------
(* The locks of the service (ThreadLock), with the sessions that hold them. *)

\* A lease that has time left, and that its actor has not released, is backed.
Told(t, lease) == lease.left > 0 /\ ~lease.undercut => Backed(t, lease.left)

\* The inductive strengthening of LeaseSafety: what is shown and what is on its way in a
\* reply, to whichever run of whichever tab.
LeaseInv ==
  \A s \in Sessions : Told(s, session[s]) /\ \A k \in Slots : Told(s, calls[s][k])

-----------------------------------------------------------------------------
LEMMA LessFacts == ASSUME NEW n \in Nat PROVE Less(n) \in Nat /\ Less(n) <= n
  BY DEF Less

LEMMA Values ==
  /\ Closed \in SessionState /\ Closed.left = 0
  /\ \A b \in BOOLEAN : /\ [Closed EXCEPT !.status = "open", !.settled = b] \in SessionState
                        /\ [Closed EXCEPT !.settled = b] \in SessionState
  /\ [Closed EXCEPT !.status = "killed"] \in SessionState
  /\ Idle \in Call /\ Idle.left = 0
  /\ \A op \in {"acquire", "refresh", "release"} : Sent(op) \in Call /\ Sent(op).left = 0
  /\ [Sent("acquire") EXCEPT !.result = "error"] \in Call
  BY DEF Closed, SessionState, Idle, Sent, Call

\* What a step makes of a call or of a session's state has its type again.
LEMMA Updates ==
  /\ \A c \in Call : [c EXCEPT !.left = Less(@)] \in Call /\ Cancel(c) \in Call
  /\ \A r \in SessionState : [r EXCEPT !.left = Less(@)] \in SessionState
  /\ \A c \in Call, a \in Actors, t \in Sessions : Undercut(a, t, c) \in Call
  /\ \A r \in SessionState, a \in Actors, t \in Sessions : Undercut(a, t, r) \in SessionState
  /\ \A c \in Call, n \in Nat, o \in {"ok", "refused", "error"} :
       [c EXCEPT !.result = o, !.left = n] \in Call
<1>1. \A c \in Call : [c EXCEPT !.left = Less(@)] \in Call /\ Cancel(c) \in Call
  <2> SUFFICES ASSUME NEW c \in Call
               PROVE  [c EXCEPT !.left = Less(@)] \in Call /\ Cancel(c) \in Call
    OBVIOUS
  <2>1. [c EXCEPT !.left = Less(@)] \in Call
    BY LessFacts DEF Call
  <2>2. \A b \in BOOLEAN : [c EXCEPT !.cancelled = b] \in Call
    BY DEF Call
  <2>3. (c.op \in {"acquire", "refresh"}) \in BOOLEAN
    OBVIOUS
  <2> QED BY <2>1, <2>2, <2>3, Zenon DEF Cancel
<1>2. \A r \in SessionState : [r EXCEPT !.left = Less(@)] \in SessionState
  BY LessFacts DEF SessionState
<1>3. \A c \in Call, a \in Actors, t \in Sessions : Undercut(a, t, c) \in Call
  BY DEF Call, Undercut
<1>4. \A r \in SessionState, a \in Actors, t \in Sessions : Undercut(a, t, r) \in SessionState
  BY DEF SessionState, Undercut
<1>5. \A c \in Call, n \in Nat, o \in {"ok", "refused", "error"} :
        [c EXCEPT !.result = o, !.left = n] \in Call
  BY DEF Call
<1> QED BY <1>1, <1>2, <1>3, <1>4, <1>5

LEMMA GrabType ==
  ASSUME NEW r \in SessionState, NEW b \in BOOLEAN, NEW u \in BOOLEAN, NEW n \in Nat,
         NEW p \in {"held", "contended", "error"}
  PROVE  [r EXCEPT !.presence = p, !.left = n, !.holding = b, !.beating = b,
                   !.undercut = u] \in SessionState
  BY DEF SessionState

\* Storing a call keeps the type of the calls and touches no other slot.
LEMMA PutFacts ==
  ASSUME calls \in [Sessions -> [Slots -> Call]],
         NEW s \in Sessions, NEW k \in Slots, NEW c \in Call, Put(s, k, c)
  PROVE  /\ calls' \in [Sessions -> [Slots -> Call]]
         /\ calls'[s][k] = c
         /\ \A t \in Sessions, j \in Slots :
              <<t, j>> # <<s, k>> => calls'[t][j] = calls[t][j]
  BY DEF Put

\* A reply carries the lease it was given.
LEMMA ReplyFacts ==
  ASSUME calls \in [Sessions -> [Slots -> Call]],
         NEW s \in Sessions, NEW k \in Slots, NEW n \in Nat,
         NEW r \in {"ok", "refused", "error"}, Reply(s, k, r, n)
  PROVE  /\ calls' \in [Sessions -> [Slots -> Call]]
         /\ calls'[s][k].left = n /\ calls'[s][k].undercut = calls[s][k].undercut
         /\ \A t \in Sessions, j \in Slots :
              <<t, j>> # <<s, k>> => calls'[t][j] = calls[t][j]
<1> DEFINE c == [calls[s][k] EXCEPT !.result = r, !.left = n]
<1>1. calls[s][k] \in Call
  OBVIOUS
<1>2. c \in Call /\ c.left = n /\ c.undercut = calls[s][k].undercut
  BY <1>1, Updates DEF Call
<1>3. Put(s, k, c)
  BY DEF Reply
<1> HIDE DEF c
<1> QED BY <1>2, <1>3, PutFacts

\* The cleanup, and what is sent with it: calls of their type, the other sessions' as
\* they were, and none with a lease that was not there.
LEMMA CleanUpFacts ==
  ASSUME calls \in [Sessions -> [Slots -> Call]],
         NEW s \in Sessions, NEW r, NEW a, CleanUp(s, r, a)
  PROVE  /\ calls' \in [Sessions -> [Slots -> Call]]
         /\ \A k \in Slots : \/ calls'[s][k].left = 0
                             \/ /\ calls'[s][k].left = calls[s][k].left
                                /\ calls'[s][k].undercut = calls[s][k].undercut
         /\ \A t \in Sessions \ {s} : calls'[t] = calls[t]
<1> DEFINE new == [k \in Slots |-> IF k \in r THEN Sent("release")
                                   ELSE IF k \in a THEN Sent("acquire") ELSE Cancel(calls[s][k])]
<1>1. calls' = [calls EXCEPT ![s] = new]
  BY DEF CleanUp
<1>2. \A k \in Slots : calls[s][k] \in Call
  OBVIOUS
<1>3. \A c \in Call : Cancel(c).left = c.left /\ Cancel(c).undercut = c.undercut
  BY DEF Cancel, Call
<1>4. new \in [Slots -> Call]
  BY <1>2, Updates, Values
<1>5. \A k \in Slots : \/ new[k].left = 0
                       \/ new[k].left = calls[s][k].left /\ new[k].undercut = calls[s][k].undercut
  BY <1>2, <1>3, Values
<1> HIDE DEF new
<1> QED BY <1>1, <1>4, <1>5

LEMMA GrantType ==
  ASSUME NEW a \in Actors, lock' = GrantedTo(a)
  PROVE  LockRowTypeOK' /\ Ttl[a] \in Nat
  BY ActorsAssumption, TtlAssumption DEF LockRowTypeOK, GrantedTo

\* Every variable keeps the type the code gives it, and the row of a lock never outlives
\* the timeout of the actor that holds it.
THEOREM LocksTypeCorrect == LocksSpec => []LocksTypeOK
<1>1. LocksInit => LocksTypeOK
  <2> SUFFICES ASSUME LocksInit PROVE LocksTypeOK
    OBVIOUS
  <2>1. LockRowTypeOK
    BY DEF LocksInit, LockRowTypeOK, NoLock
  <2>2. Closed \in SessionState /\ Idle \in Call
    BY Values
  <2> QED BY <2>1, <2>2 DEF LocksInit, LocksTypeOK
<1>2. LocksTypeOK /\ [LocksNext]_lockVars => LocksTypeOK'
  <2> SUFFICES ASSUME LocksTypeOK, [LocksNext]_lockVars PROVE LocksTypeOK'
    OBVIOUS
  <2> DEFINE SessionOK == session \in [Sessions -> SessionState]
             CallsOK == calls \in [Sessions -> [Slots -> Call]]
  <2>0. LockRowTypeOK /\ SessionOK /\ CallsOK
    BY DEF LocksTypeOK
  <2>q. LockRowTypeOK' /\ SessionOK' /\ CallsOK' => LocksTypeOK'
    BY DEF LocksTypeOK
  <2>l. UNCHANGED lock => LockRowTypeOK'
    BY <2>0 DEF LockRowTypeOK
  <2>s. \A s \in Sessions, r \in SessionState :
          session' = [session EXCEPT ![s] = r] => SessionOK'
    BY <2>0
  <2>b. \A s \in Sessions : session[s] \in SessionState /\ session[s].settled \in BOOLEAN
    BY <2>0 DEF SessionState
  <2>c. \A s \in Sessions, k \in Slots : calls[s][k] \in Call
    BY <2>0
  <2>f. \A s, op : Free(s, op) \subseteq Slots
    BY DEF Free
  <2>a. \A s \in Sessions : ActorOf[s] \in Actors
    BY ActorOfAssumption
  <2> HIDE DEF SessionOK, CallsOK
  <2>u. UNCHANGED session => SessionOK'
    BY <2>0 DEF SessionOK
  <2>p. \A s \in Sessions, k \in Slots, c \in Call : Put(s, k, c) => CallsOK'
    BY <2>0, PutFacts DEF CallsOK
  <2>1. ASSUME NEW s \in Sessions, Mount(s) PROVE LocksTypeOK'
    <3>1. SessionOK'
      BY <2>b, <2>s, <2>1, Values DEF Mount
    <3>2. CallsOK'
      BY <2>f, <2>p, <2>1, Values DEF Mount
    <3> QED BY <2>l, <2>q, <2>1, <3>1, <3>2 DEF Mount
  <2>2. ASSUME NEW s \in Sessions, HeartbeatFires(s) PROVE LocksTypeOK'
    BY <2>f, <2>l, <2>p, <2>q, <2>u, <2>2, Values DEF HeartbeatFires
  <2>3. ASSUME NEW s \in Sessions, Unmount(s) PROVE LocksTypeOK'
    <3>1. SessionOK'
      BY <2>b, <2>s, <2>3, Values DEF Unmount
    <3>2. CallsOK'
      BY <2>0, <2>3, CleanUpFacts DEF Unmount, CallsOK
    <3> QED BY <2>l, <2>q, <2>3, <3>1, <3>2 DEF Unmount
  <2>4. ASSUME NEW s \in Sessions, SettingsArrive(s) PROVE LocksTypeOK'
    <3>r. PICK r : r = [session[s] EXCEPT !.settled = TRUE, !.holding = FALSE, !.beating = FALSE]
      OBVIOUS
    <3>t. r \in SessionState
      BY <2>b, <3>r DEF SessionState
    <3>e. session' = [session EXCEPT ![s] = r]
      BY <2>0, <2>4, <3>r DEF SettingsArrive, SessionOK
    <3>1. SessionOK'
      BY <2>s, <3>t, <3>e
    <3>2. CallsOK'
      BY <2>0, <2>4, CleanUpFacts DEF SettingsArrive, CallsOK
    <3> QED BY <2>l, <2>q, <2>4, <3>1, <3>2 DEF SettingsArrive
  <2>5. ASSUME NEW s \in Sessions, Kill(s) PROVE LocksTypeOK'
    BY <2>0, <2>l, <2>q, <2>s, <2>5, Values DEF Kill, CallsOK
  <2>6. ASSUME NEW s \in Sessions, NEW k \in Slots, CallProgress(s, k) PROVE LocksTypeOK'
    <3>1. CASE AcquireLock(s, k)
      <4>1. PICK r \in {"ok", "refused"}, n \in Nat : Reply(s, k, r, n)
        BY <2>a, <3>1, GrantType DEF AcquireLock
      <4>2. CallsOK'
        BY <2>0, <4>1, ReplyFacts DEF CallsOK
      <4> QED BY <2>a, <2>l, <2>q, <2>u, <3>1, <4>2, GrantType DEF AcquireLock
    <3>2. CASE RefreshLock(s, k)
      <4>1. PICK r \in {"ok", "refused"}, n \in Nat : Reply(s, k, r, n)
        BY <2>a, <3>2, GrantType DEF RefreshLock
      <4>2. CallsOK'
        BY <2>0, <4>1, ReplyFacts DEF CallsOK
      <4> QED BY <2>a, <2>l, <2>q, <2>u, <3>2, <4>2, GrantType DEF RefreshLock
    <3>3. CASE ReleaseLock(s, k)
      <4>1. LockRowTypeOK'
        BY <2>0, <3>3 DEF ReleaseLock, LockRowTypeOK, NoLock
      <4>2. SessionOK'
        BY <2>a, <2>b, <3>3, Updates DEF ReleaseLock, SessionOK
      <4>3. CallsOK'
        BY <2>a, <2>c, <3>3, Updates, Values DEF ReleaseLock, CallsOK
      <4> QED BY <2>q, <4>1, <4>2, <4>3
    <3>4. CASE AcquireReturns(s, k)
      <4>1. CallsOK'
        BY <2>p, <3>4, Values DEF AcquireReturns
      <4>2. AfterGrab(s, calls[s][k]) \in SessionState
        <5>1. \A b \in BOOLEAN, u \in BOOLEAN, n \in Nat, p \in {"held", "contended", "error"} :
                [session[s] EXCEPT !.presence = p, !.left = n, !.holding = b, !.beating = b,
                                   !.undercut = u] \in SessionState
          BY <2>b, GrabType
        <5>2. PresenceAfter(calls[s][k].result) \in {"held", "contended", "error"}
          BY DEF PresenceAfter
        <5>3. (calls[s][k].result = "ok") \in BOOLEAN
          OBVIOUS
        <5>4. calls[s][k].undercut \in BOOLEAN /\ calls[s][k].left \in Nat
          BY <2>c DEF Call
        <5> QED BY <5>1, <5>2, <5>3, <5>4, Zenon DEF AfterGrab
      <4>3. SessionOK'
        BY <2>s, <2>u, <3>4, <4>2 DEF AcquireReturns
      <4> QED BY <2>l, <2>q, <3>4, <4>1, <4>3 DEF AcquireReturns
    <3>5. CASE RefreshReturns(s, k)
      <4>1. CallsOK'
        BY <2>p, <3>5, Values DEF RefreshReturns, LockLost
      <4>2. SessionOK'
        BY <2>0, <2>c, <3>5 DEF RefreshReturns, LockLost, LoseHold, SessionOK, SessionState, Call
      <4> QED BY <2>l, <2>q, <3>5, <4>1, <4>2 DEF RefreshReturns
    <3>6. CASE ReplyDropped(s, k)
      BY <2>l, <2>p, <2>q, <2>u, <3>6, Values DEF ReplyDropped
    <3> QED BY <2>6, <3>1, <3>2, <3>3, <3>4, <3>5, <3>6 DEF CallProgress
  <2>7. ASSUME NEW s \in Sessions, NEW k \in Slots, CallFails(s, k) PROVE LocksTypeOK'
    BY <2>l, <2>p, <2>q, <2>u, <2>7, Values DEF CallFails
  <2>8. ASSUME Tick PROVE LocksTypeOK'
    <3>1. LockRowTypeOK'
      BY <2>0, <2>8, TtlAssumption, LessFacts DEF Tick, LockRowTypeOK, NoLock, Less
    <3>2. SessionOK'
      BY <2>b, <2>8, Updates DEF Tick, SessionOK
    <3>3. CallsOK'
      BY <2>c, <2>8, Updates DEF Tick, CallsOK
    <3> QED BY <2>q, <3>1, <3>2, <3>3
  <2>9. CASE UNCHANGED lockVars
    BY <2>0, <2>l, <2>q, <2>u, <2>9 DEF lockVars, CallsOK
  <2> QED BY <2>1, <2>2, <2>3, <2>4, <2>5, <2>6, <2>7, <2>8, <2>9 DEF LocksNext
<1>3. QED BY <1>1, <1>2, PTL DEF LocksSpec

-----------------------------------------------------------------------------
\* A lease of a session that was there before the step, or no lease at all.
Same(lease, old) == lease.left = old.left /\ lease.undercut = old.undercut

Carried(s, lease) ==
  lease.left = 0 \/ Same(lease, session[s]) \/ \E k \in Slots : Same(lease, calls[s][k])

SessionsCarried == \A s \in Sessions : Carried(s, session'[s])

CallsCarried == \A s \in Sessions, k \in Slots : Carried(s, calls'[s][k])

\* While the row stays as it is, leases may be dropped, shown and passed on, but not made.
LEMMA CarriedSafe ==
  ASSUME LeaseInv, UNCHANGED lock, SessionsCarried, CallsCarried
  PROVE  LeaseInv'
<1>1. ASSUME NEW s \in Sessions, NEW lease, Carried(s, lease) PROVE Told(s, lease)
  BY <1>1 DEF Carried, Same, Told, LeaseInv
<1>2. \A s \in Sessions : Told(s, session'[s]) /\ \A k \in Slots : Told(s, calls'[s][k])
  BY <1>1 DEF SessionsCarried, CallsCarried
<1> QED BY <1>2 DEF LeaseInv, Told, Backed

LEMMA Unchanged ==
  /\ UNCHANGED session => SessionsCarried
  /\ UNCHANGED calls => CallsCarried
  BY DEF SessionsCarried, CallsCarried, Carried, Same

LEMMA ShownCarried ==
  ASSUME LocksTypeOK, NEW s \in Sessions, NEW r,
         session' = [session EXCEPT ![s] = r], Carried(s, r)
  PROVE  SessionsCarried
  BY DEF SessionsCarried, LocksTypeOK, Carried, Same

LEMMA PutCarried ==
  ASSUME LocksTypeOK, NEW s \in Sessions, NEW k \in Slots, NEW c \in Call,
         Put(s, k, c), Carried(s, c)
  PROVE  CallsCarried
<1>1. /\ calls'[s][k] = c
      /\ \A t \in Sessions, j \in Slots : <<t, j>> # <<s, k>> => calls'[t][j] = calls[t][j]
  BY PutFacts DEF LocksTypeOK
<1>2. \A t \in Sessions, j \in Slots : Carried(t, calls[t][j])
  BY DEF Carried, Same
<1>3. ASSUME NEW t \in Sessions, NEW j \in Slots PROVE Carried(t, calls'[t][j])
  <2>1. CASE t = s /\ j = k
    BY <1>1, <2>1
  <2>2. CASE <<t, j>> # <<s, k>>
    BY <1>1, <1>2, <2>2
  <2> QED BY <2>1, <2>2
<1> QED BY <1>3 DEF CallsCarried

LEMMA CleanUpCarried ==
  ASSUME LocksTypeOK, NEW s \in Sessions, NEW r, NEW a, CleanUp(s, r, a)
  PROVE  CallsCarried
<1>1. \A k \in Slots : Carried(s, calls'[s][k])
  BY CleanUpFacts DEF LocksTypeOK, Carried, Same
<1>2. \A t \in Sessions \ {s}, k \in Slots : Carried(t, calls'[t][k])
  BY CleanUpFacts DEF LocksTypeOK, Carried, Same
<1> QED BY <1>1, <1>2 DEF CallsCarried

\* The steps of a session itself make no lease.
LEMMA OwnStepsSafe ==
  ASSUME LocksTypeOK, LeaseInv, NEW s \in Sessions,
         Mount(s) \/ HeartbeatFires(s) \/ Unmount(s) \/ SettingsArrive(s) \/ Kill(s)
  PROVE  LeaseInv'
<1>0. /\ session[s] \in SessionState /\ session[s].settled \in BOOLEAN
      /\ session \in [Sessions -> SessionState] /\ \A op : Free(s, op) \subseteq Slots
  BY DEF LocksTypeOK, SessionState, Free
<1>s. \A c \in {"acquire", "refresh", "release"} : Sent(c) \in Call /\ Carried(s, Sent(c))
  BY Values DEF Carried
<1>1. CASE Mount(s)
  <2>1. [Closed EXCEPT !.status = "open", !.settled = session[s].settled].left = 0
    BY DEF Closed
  <2>2. SessionsCarried
    BY <1>1, <2>1, ShownCarried DEF Mount, Carried
  <2>3. CallsCarried
    BY <1>0, <1>1, <1>s, PutCarried DEF Mount
  <2> QED BY <1>1, <2>2, <2>3, CarriedSafe DEF Mount
<1>2. CASE HeartbeatFires(s)
  BY <1>0, <1>2, <1>s, PutCarried, Unchanged, CarriedSafe DEF HeartbeatFires
<1>3. CASE Unmount(s)
  <2>1. [Closed EXCEPT !.settled = session[s].settled].left = 0
    BY DEF Closed
  <2>2. SessionsCarried
    BY <1>3, <2>1, ShownCarried DEF Unmount, Carried
  <2>3. CallsCarried
    BY <1>3, CleanUpCarried DEF Unmount
  <2> QED BY <1>3, <2>2, <2>3, CarriedSafe DEF Unmount
<1>4. CASE SettingsArrive(s)
  <2> DEFINE r == [session[s] EXCEPT !.settled = TRUE, !.holding = FALSE, !.beating = FALSE]
  <2>1. Same(r, session[s])
    BY <1>0 DEF Same, SessionState
  <2>2. session' = [session EXCEPT ![s] = r]
    BY <1>0, <1>4 DEF SettingsArrive
  <2> HIDE DEF r
  <2>3. SessionsCarried
    BY <2>1, <2>2, ShownCarried DEF Carried
  <2>4. CallsCarried
    BY <1>4, CleanUpCarried, Unchanged DEF SettingsArrive
  <2> QED BY <1>4, <2>3, <2>4, CarriedSafe DEF SettingsArrive
<1>5. CASE Kill(s)
  <2>1. [Closed EXCEPT !.status = "killed"].left = 0
    BY DEF Closed
  <2>2. SessionsCarried
    BY <1>5, <2>1, ShownCarried DEF Kill, Carried
  <2> QED BY <1>5, <2>2, Unchanged, CarriedSafe DEF Kill
<1> QED BY <1>1, <1>2, <1>3, <1>4, <1>5

\* A grant is safe: whoever was told of an unexpired lock before is of the same actor, and
\* was not told of more time than the new lock has.
Granted(s, k) ==
  /\ CanTake(ActorOf[s])
  /\ lock' = GrantedTo(ActorOf[s])
  /\ Reply(s, k, "ok", Ttl[ActorOf[s]])
  /\ UNCHANGED session

LEMMA GrantStep ==
  ASSUME LocksTypeOK, LeaseInv, NEW s \in Sessions, NEW k \in Slots, Granted(s, k)
  PROVE  LeaseInv'
<1>0. Ttl[ActorOf[s]] \in Nat /\ lock.left \in Nat
  BY ActorOfAssumption, TtlAssumption DEF LocksTypeOK, LockRowTypeOK
<1>1. ASSUME NEW t \in Sessions, NEW n \in Nat, n > 0, Backed(t, n) PROVE Backed(t, n)'
  <2>1. ActorOf[t] # NoOne /\ lock.by = ActorOf[t] /\ lock.left <= Ttl[lock.by]
    BY <1>1, ActorsAssumption, ActorOfAssumption DEF Backed, LocksTypeOK, LockRowTypeOK
  <2>2. ~Expired
    BY <1>0, <1>1 DEF Backed, Expired
  <2>3. lock.by = ActorOf[s]
    BY <2>1, <2>2 DEF Granted, CanTake
  <2> QED BY <1>0, <1>1, <2>1, <2>3 DEF Granted, GrantedTo, Backed
<1>2. Backed(s, Ttl[ActorOf[s]])'
  BY <1>0 DEF Granted, GrantedTo, Backed
<1>3. /\ calls'[s][k].left = Ttl[ActorOf[s]]
      /\ \A t \in Sessions, j \in Slots : <<t, j>> # <<s, k>> => calls'[t][j] = calls[t][j]
  BY <1>0, ReplyFacts DEF Granted, LocksTypeOK
<1>4. ASSUME NEW t \in Sessions PROVE Told(t, session[t])'
  <2>1. session[t].left \in Nat /\ session'[t] = session[t]
    BY DEF LocksTypeOK, SessionState, Granted
  <2>2. Told(t, session[t])
    BY DEF LeaseInv
  <2> QED BY <1>1, <2>1, <2>2 DEF Told, Backed
<1>5. ASSUME NEW t \in Sessions, NEW j \in Slots PROVE Told(t, calls[t][j])'
  <2>1. CASE t = s /\ j = k
    BY <1>2, <1>3, <2>1 DEF Told, Backed
  <2>2. CASE <<t, j>> # <<s, k>>
    <3>1. calls[t][j].left \in Nat /\ calls'[t][j] = calls[t][j]
      BY <1>3, <2>2 DEF LocksTypeOK, Call
    <3>2. Told(t, calls[t][j])
      BY DEF LeaseInv
    <3> QED BY <1>1, <3>1, <3>2 DEF Told, Backed
  <2> QED BY <2>1, <2>2
<1> QED BY <1>4, <1>5 DEF LeaseInv

\* A release is safe: it frees the lock of its own actor, whose leases are undercut, or
\* one that has expired.
LEMMA UndercutFacts ==
  ASSUME NEW a \in Actors, NEW t \in Sessions, NEW lease \in SessionState \union Call
  PROVE  /\ Undercut(a, t, lease).left = lease.left
         /\ ~Undercut(a, t, lease).undercut => /\ ~lease.undercut
                                               /\ ActorOf[t] = a => ~(lease.left > 0)
<1>1. \A b \in BOOLEAN : /\ [lease EXCEPT !.undercut = b].left = lease.left
                         /\ [lease EXCEPT !.undercut = b].undercut = b
  BY DEF SessionState, Call
<1>2. (lease.undercut \/ (ActorOf[t] = a /\ lease.left > 0)) \in BOOLEAN
  OBVIOUS
<1> QED BY <1>1, <1>2, Zenon DEF Undercut

LEMMA ReleaseStep ==
  ASSUME LocksTypeOK, LeaseInv, NEW s \in Sessions, NEW k \in Slots, ReleaseLock(s, k)
  PROVE  LeaseInv'
<1> DEFINE a == ActorOf[s]
<1>0. a \in Actors
  BY ActorOfAssumption
<1>1. ASSUME NEW t \in Sessions, NEW lease \in SessionState \union Call, Told(t, lease)
      PROVE  LET new == Undercut(a, t, lease)
             IN  new.left > 0 /\ ~new.undercut => Backed(t, new.left)'
  <2> DEFINE new == Undercut(a, t, lease)
  <2>1. new.left = lease.left
    BY <1>0, UndercutFacts
  <2>2. ~new.undercut => ~lease.undercut /\ (ActorOf[t] = a => ~(lease.left > 0))
    BY <1>0, UndercutFacts
  <2>3. lease.left \in Nat /\ lock.left \in Nat
    BY DEF SessionState, Call, LocksTypeOK, LockRowTypeOK
  <2> HIDE DEF new
  <2>4. ASSUME new.left > 0, ~new.undercut PROVE Backed(t, new.left)'
    <3>1. Backed(t, lease.left) /\ ActorOf[t] # a /\ lease.left > 0
      BY <1>1, <2>1, <2>2, <2>4 DEF Told
    <3>2. ~MayFree(a)
      BY <2>3, <3>1 DEF Backed, MayFree, Expired
    <3>3. lock' = lock
      BY <3>2 DEF ReleaseLock
    <3> QED BY <2>1, <3>1, <3>3 DEF Backed
  <2> QED BY <2>4 DEF new
<1>2. ASSUME NEW t \in Sessions PROVE Told(t, session[t])'
  <2>1. session[t] \in SessionState /\ Told(t, session[t])
    BY DEF LocksTypeOK, LeaseInv
  <2>2. session'[t] = Undercut(a, t, session[t])
    BY DEF ReleaseLock
  <2> QED BY <1>1, <2>1, <2>2 DEF Told, Backed
<1>3. ASSUME NEW t \in Sessions, NEW j \in Slots PROVE Told(t, calls[t][j])'
  <2>1. calls[t][j] \in Call /\ Told(t, calls[t][j])
    BY DEF LocksTypeOK, LeaseInv
  <2>2. calls'[t][j] = Idle \/ calls'[t][j] = Undercut(a, t, calls[t][j])
    BY DEF ReleaseLock
  <2>3. CASE calls'[t][j] = Idle
    <3>1. calls'[t][j].left = 0
      BY <2>3, Values
    <3> QED BY <3>1 DEF Told
  <2>4. CASE calls'[t][j] = Undercut(a, t, calls[t][j])
    BY <1>1, <2>1, <2>4 DEF Told, Backed
  <2> QED BY <2>2, <2>3, <2>4
<1> QED BY <1>2, <1>3 DEF LeaseInv

\* The server's steps and the replies.
LEMMA ProgressSafe ==
  ASSUME LocksTypeOK, LeaseInv, NEW s \in Sessions, NEW k \in Slots,
         CallProgress(s, k) \/ CallFails(s, k)
  PROVE  LeaseInv'
<1>0. /\ session[s] \in SessionState /\ session \in [Sessions -> SessionState]
      /\ calls[s][k] \in Call /\ calls \in [Sessions -> [Slots -> Call]]
  BY DEF LocksTypeOK
<1>i. \A c \in Call : c.left = 0 => Carried(s, c)
  BY DEF Carried
<1>r. ASSUME Reply(s, k, "refused", 0), UNCHANGED <<lock, session>> PROVE LeaseInv'
  <2>1. /\ calls'[s][k].left = 0
        /\ \A t \in Sessions, j \in Slots : <<t, j>> # <<s, k>> => calls'[t][j] = calls[t][j]
    BY <1>0, <1>r, ReplyFacts
  <2>2. CallsCarried
    BY <2>1 DEF CallsCarried, Carried, Same
  <2> QED BY <1>r, <2>2, Unchanged, CarriedSafe
<1>q. ASSUME NEW c \in Call, c.left = 0, Put(s, k, c), UNCHANGED lock,
             SessionsCarried
      PROVE  LeaseInv'
  BY <1>i, <1>q, PutCarried, CarriedSafe
<1>1. CASE AcquireLock(s, k)
  BY <1>r, <1>1, GrantStep DEF AcquireLock, Granted
<1>2. CASE RefreshLock(s, k)
  BY <1>r, <1>2, GrantStep DEF RefreshLock, Granted, CanTake
<1>3. CASE ReleaseLock(s, k)
  BY <1>3, ReleaseStep
<1>4. CASE AcquireReturns(s, k)
  <2>1. Same(AfterGrab(s, calls[s][k]), calls[s][k])
    BY <1>0, Zenon DEF AfterGrab, Same, SessionState, Call
  <2>2. SessionsCarried
    BY <1>4, <2>1, ShownCarried, Unchanged DEF AcquireReturns, Carried
  <2> QED BY <1>q, <1>4, <2>2, Values DEF AcquireReturns
<1>5. CASE RefreshReturns(s, k)
  <2>1. ASSUME session' = [session EXCEPT ![s].presence = "held", ![s].left = calls[s][k].left,
                                          ![s].undercut = calls[s][k].undercut]
        PROVE  SessionsCarried
    <3> DEFINE r == [session[s] EXCEPT !.presence = "held", !.left = calls[s][k].left,
                                       !.undercut = calls[s][k].undercut]
    <3>1. Same(r, calls[s][k])
      BY <1>0 DEF Same, SessionState, Call
    <3>2. session' = [session EXCEPT ![s] = r]
      BY <1>0, <2>1
    <3> HIDE DEF r
    <3> QED BY <3>1, <3>2, ShownCarried DEF Carried
  <2>2. ASSUME LoseHold(s) PROVE SessionsCarried
    <3> DEFINE r == [session[s] EXCEPT !.presence = "lost", !.left = 0, !.undercut = FALSE,
                                       !.holding = FALSE, !.beating = FALSE]
    <3>1. r.left = 0
      BY <1>0 DEF SessionState
    <3>2. session' = [session EXCEPT ![s] = r]
      BY <1>0, <2>2 DEF LoseHold
    <3> HIDE DEF r
    <3> QED BY <3>1, <3>2, ShownCarried DEF Carried
  <2> QED BY <1>q, <1>5, <2>1, <2>2, Unchanged, Values DEF RefreshReturns, LockLost
<1>6. CASE ReplyDropped(s, k)
  BY <1>q, <1>6, Unchanged, Values DEF ReplyDropped
<1>7. CASE CallFails(s, k)
  <2>1. [Sent("acquire") EXCEPT !.result = "error"].left = 0
    BY DEF Sent, Idle
  <2> QED BY <1>q, <1>7, <2>1, Unchanged, Values DEF CallFails
<1> QED BY <1>1, <1>2, <1>3, <1>4, <1>5, <1>6, <1>7 DEF CallProgress

\* Time runs equally for the row and for every copy of its expiry.
LEMMA TickSafe == ASSUME LocksTypeOK, LeaseInv, Tick PROVE LeaseInv'
<1>0. lock.left \in Nat
  BY DEF LocksTypeOK, LockRowTypeOK
<1>1. lock'.by = lock.by /\ lock'.left = Less(lock.left)
  BY DEF Tick, LocksTypeOK, LockRowTypeOK
<1>2. ASSUME NEW t \in Sessions, NEW n \in Nat
      PROVE  Less(n) > 0 => n > 0 /\ (Backed(t, n) => Backed(t, Less(n))')
  BY <1>0, <1>1 DEF Less, Backed
<1>3. ASSUME NEW t \in Sessions PROVE Told(t, session[t])'
  <2>1. session'[t] = [session[t] EXCEPT !.left = Less(@)] /\ session[t] \in SessionState
    BY DEF Tick, LocksTypeOK
  <2>2. /\ session'[t].left = Less(session[t].left) /\ session[t].left \in Nat
        /\ session'[t].undercut = session[t].undercut
    BY <2>1 DEF SessionState
  <2>3. Told(t, session[t])
    BY DEF LeaseInv
  <2> QED BY <1>2, <2>2, <2>3 DEF Told, Backed
<1>4. ASSUME NEW t \in Sessions, NEW j \in Slots PROVE Told(t, calls[t][j])'
  <2>1. calls'[t][j] = [calls[t][j] EXCEPT !.left = Less(@)] /\ calls[t][j] \in Call
    BY DEF Tick, LocksTypeOK
  <2>2. /\ calls'[t][j].left = Less(calls[t][j].left) /\ calls[t][j].left \in Nat
        /\ calls'[t][j].undercut = calls[t][j].undercut
    BY <2>1 DEF Call
  <2>3. Told(t, calls[t][j])
    BY DEF LeaseInv
  <2> QED BY <1>2, <2>2, <2>3 DEF Told, Backed
<1> QED BY <1>3, <1>4 DEF LeaseInv

-----------------------------------------------------------------------------
\* Every lease that is shown or on its way, to any tab and any run of the effect of any
\* actor, is backed by the row for as long as it says, unless its own actor has released
\* the lock since.
THEOREM LeaseInvariant == LocksSpec => []LeaseInv
<1>1. LocksInit => LeaseInv
  <2> SUFFICES ASSUME LocksInit PROVE LeaseInv
    OBVIOUS
  <2>1. ASSUME NEW s \in Sessions PROVE session[s].left = 0 /\ \A k \in Slots : calls[s][k].left = 0
    BY Values DEF LocksInit
  <2> QED BY <2>1 DEF LeaseInv, Told
<1>2. LocksTypeOK /\ LeaseInv /\ [LocksNext]_lockVars => LeaseInv'
  <2> SUFFICES ASSUME LocksTypeOK, LeaseInv, [LocksNext]_lockVars PROVE LeaseInv'
    OBVIOUS
  <2>1. CASE UNCHANGED lockVars
    BY <2>1 DEF lockVars, LeaseInv, Told, Backed
  <2> QED BY <2>1, OwnStepsSafe, ProgressSafe, TickSafe DEF LocksNext
<1>3. QED BY <1>1, <1>2, LocksTypeCorrect, PTL DEF LocksSpec

\* A gate open on an unexpired lock is backed by the server's row until its own actor
\* releases it, for any number of people, tabs, calls in flight and timeouts.
THEOREM LeaseSafetyHolds == LocksSpec => []LeaseSafety
<1>1. LeaseInv => LeaseSafety
  BY DEF LeaseInv, Told, LeaseSafety, Rightful
<1> QED BY <1>1, LeaseInvariant, PTL

-----------------------------------------------------------------------------
Edits(t) == Rightful(t) /\ ~session[t].undercut

Editors == {ActorOf[s] : s \in {t \in Sessions : Edits(t)}}

\* Whoever edits is the holder of the row.
LEMMA EditorsHold == ASSUME LeaseInv PROVE Editors \subseteq {lock.by}
  BY DEF LeaseInv, Told, Backed, Editors, Edits, Rightful

\* A step that changes the holder of the row makes nobody an editor.
LEMMA HolderOrFewer ==
  ASSUME LocksTypeOK, [LocksNext]_lockVars
  PROVE  UNCHANGED lock.by \/ Editors' \subseteq Editors
<1>1. ASSUME NEW s \in Sessions, NEW k \in Slots, ReleaseLock(s, k)
      PROVE  Editors' \subseteq Editors
  <2>0. ActorOf[s] \in Actors
    BY ActorOfAssumption
  <2>1. ASSUME NEW t \in Sessions, Edits(t)' PROVE Edits(t)
    <3>1. session'[t] = Undercut(ActorOf[s], t, session[t]) /\ session[t] \in SessionState
      BY <1>1 DEF ReleaseLock, LocksTypeOK
    <3>2. /\ session'[t].left = session[t].left
          /\ ~session'[t].undercut => ~session[t].undercut
      BY <2>0, <3>1, UndercutFacts
    <3>3. /\ session'[t].status = session[t].status
          /\ session'[t].presence = session[t].presence
      BY <3>1 DEF Undercut, SessionState
    <3> QED BY <2>1, <3>2, <3>3 DEF Edits, Rightful, HoldsLock
  <2> QED BY <2>1 DEF Editors
<1>2. ASSUME NEW s \in Sessions, NEW k \in Slots, CallProgress(s, k), ~ReleaseLock(s, k)
      PROVE  UNCHANGED lock.by \/ UNCHANGED session
  BY <1>2 DEF CallProgress, AcquireLock, RefreshLock, AcquireReturns, RefreshReturns,
              ReplyDropped
<1>3. ASSUME Tick PROVE UNCHANGED lock.by
  BY <1>3 DEF Tick, LocksTypeOK, LockRowTypeOK
<1>4. UNCHANGED session => Editors' = Editors
  BY DEF Editors, Edits, Rightful, HoldsLock
<1> QED BY <1>1, <1>2, <1>3, <1>4
        DEF LocksNext, lockVars, Mount, HeartbeatFires, Unmount, SettingsArrive, Kill, CallFails

\* The thread locks implement exclusive editing: the people with the gate open on an
\* unexpired lock they have not released are never two, and never change hands in one
\* step, whatever tabs they have and whatever runs of the effect overlap.
THEOREM LocksImplementExclusiveEditing == LocksSpec => EditingSpec
<1>1. LocksInit => Editing!Init
  BY DEF LocksInit, Editing!Init, Rightful, HoldsLock, Closed
<1>2. LocksTypeOK /\ LeaseInv /\ LeaseInv' /\ [LocksNext]_lockVars => [Editing!Next]_Editors
  <2> SUFFICES ASSUME LocksTypeOK, LeaseInv, LeaseInv', [LocksNext]_lockVars,
                      Editors' # Editors
               PROVE  Editing!Next
    BY DEF Editing!Next, Editors, Edits
  <2>1. Editors \subseteq {lock.by} /\ Editors' \subseteq {lock'.by}
    BY EditorsHold DEF LeaseInv, Told, Backed, Editors, Edits, Rightful
  <2>2. Editors \subseteq Actors /\ Editors' \subseteq Actors
    BY ActorOfAssumption DEF Editors
  <2>3. UNCHANGED lock.by \/ Editors' \subseteq Editors
    BY HolderOrFewer
  <2>4. \/ Editors = {} /\ \E a \in Actors : Editors' = {a}
        \/ Editors # {} /\ Editors' = {}
    BY <2>1, <2>2, <2>3
  <2> QED BY <2>4 DEF Editing!Next, Editing!Enter, Editing!Leave, Editors, Edits
<1>3. QED BY <1>1, <1>2, LocksTypeCorrect, LeaseInvariant, PTL
          DEF LocksSpec, EditingSpec, Editing!Spec, Editors, Edits
=============================================================================
