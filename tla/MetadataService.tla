--------------------------- MODULE MetadataService ---------------------------
(***************************************************************************)
(* The metadata service (packages/server): one process that keeps what the *)
(* people of a project share, for several projects.  Every route but       *)
(* /health and /pair asks for the token of a project and then works on the *)
(* rows of that project alone.  Threads and a few tables name their        *)
(* project; tasks, promises, notes and drafts name a thread, and are       *)
(* scoped by a join with it.                                               *)
(*                                                                         *)
(* A request is served in one step: better-sqlite3 is synchronous, and     *)
(* nothing is awaited after the body was read.  Requests come from any app *)
(* at any time with any id: an app that was paired with another project    *)
(* keeps the ids it has stored.  ThreadLock models the locks, ToneSync who *)
(* wins a write of a tone file, Views the digest.                          *)
(***************************************************************************)
EXTENDS Naturals, Sequences, FiniteSets

CONSTANTS
  Projects, Tokens,
  Roots,        \* root_message_ids
  ThreadIds,    \* bound: what newId() may give a thread
  RowIds,       \* bound: what it may give the other rows
  States,       \* the states a task may be in
  MaxMoves      \* bound: task_transitions

ASSUME DisjointAssumption == ThreadIds \cap Projects = {} /\ MaxMoves \in Nat

OfThread == {"task", "promise", "note", "draft"}    \* tables with a thread_id
OfProject == {"repo", "tone", "learning"}           \* tables with a project_id

VARIABLES
  tokens,    \* projects: the token of each project, by its hash
  threads,   \* threads: id -> project and root
  rows,      \* the other tables: id -> kind, where it hangs, state, touched since
  moves,     \* task_transitions
  served,    \* history: the project of the last request that was let in
  maker      \* history: the project that made each row

tables == <<threads, rows, moves>>
vars == <<tokens, tables, served, maker>>

\* The tables of 0001_init.sql, and nobody paired.
Init ==
  /\ tokens = [p \in {} |-> 0]
  /\ threads = [id \in {} |-> 0]
  /\ rows = [id \in {} |-> 0]
  /\ moves = << >>
  /\ served \in Projects
  /\ maker = [id \in {} |-> 0]

With(f, x, value) == [y \in DOMAIN f \cup {x} |-> IF y = x THEN value ELSE f[y]]

-----------------------------------------------------------------------------
(* Projects and their tokens.                                              *)

\* seedProjectFromEnv at the start of the process: provisions, or rotates the token.
Seed(p, token) ==
  /\ tokens' = With(tokens, p, token)
  /\ UNCHANGED <<tables, served, maker>>

\* verifyProjectToken on the stored hash.
Paired(p, token) == p \in DOMAIN tokens /\ tokens[p] = token

-----------------------------------------------------------------------------
(* Threads.                                                                *)

\* getThread: by id and project.
GetThread(p, thread) == thread \in DOMAIN threads /\ threads[thread].project = p

Replaced(p, root) ==        \* mutant: the conflicting row is replaced under a new id
  LET old == {thread \in DOMAIN threads : threads[thread] = [project |-> p, root |-> root]}
  IN /\ \E thread \in ThreadIds \ DOMAIN threads :
          threads' = With([x \in DOMAIN threads \ old |-> threads[x]], thread,
                          [project |-> p, root |-> root])
     /\ UNCHANGED <<rows, moves, maker>>

\* ON CONFLICT(project_id, root_message_id): the thread keeps its id; only its shared
\* fields change.
Upserted(p, root) ==
  \/ /\ \E thread \in DOMAIN threads : threads[thread] = [project |-> p, root |-> root]
     /\ UNCHANGED <<tables, maker>>
  \/ /\ ~\E thread \in DOMAIN threads : threads[thread] = [project |-> p, root |-> root]
     /\ \E thread \in ThreadIds \ DOMAIN threads :
          threads' = With(threads, thread, [project |-> p, root |-> root])
     /\ UNCHANGED <<rows, moves, maker>>

\* POST /threads; 403 when the body names another project.
UpsertThread(p) ==
  \E root \in Roots, named \in Projects :
    IF named = p THEN Upserted(p, root) ELSE UNCHANGED <<tables, maker>>

-----------------------------------------------------------------------------
(* The rows of a thread, and those of a project.                           *)

Inserted(p, kind, home, state) ==
  /\ \E id \in RowIds \ DOMAIN rows :
       /\ rows' = With(rows, id, [kind |-> kind, home |-> home, state |-> state,
                                  touched |-> FALSE])
       /\ maker' = With(maker, id, p)
  /\ UNCHANGED <<threads, moves>>

\* 404, and nothing is written, when the thread is not one of the project's.
Hang(p, kind, thread, state) ==
  IF GetThread(p, thread) THEN Inserted(p, kind, thread, state)
  ELSE UNCHANGED <<tables, maker>>

\* The rows of a kind a list of the project shows: the join with threads, or its own
\* project_id; of one thread when a thread is asked for.
Listed(p, kind) ==
  {id \in DOMAIN rows : /\ rows[id].kind = kind
                        /\ IF kind \in OfThread THEN GetThread(p, rows[id].home)
                           ELSE rows[id].home = p}
ListedIn(p, kind, thread) == {id \in Listed(p, kind) : rows[id].home = thread}

AnyRow(p, kind, id) ==      \* mutant: looked up by id alone
  id \in DOMAIN rows /\ rows[id].kind = kind

\* getTask, getPromiseScoped, and revertLearningEntry's lookup: by id and project.
Scoped(p, kind, id) == id \in Listed(p, kind)

\* A field that no other table depends on: a date, a status, reverted_at.
Touch(p, kind, id) ==
  IF Scoped(p, kind, id)
  THEN rows' = [rows EXCEPT ![id].touched = TRUE] /\ UNCHANGED <<threads, moves, maker>>
  ELSE UNCHANGED <<tables, maker>>

CreateTask(p) == \E thread \in ThreadIds, state \in States : Hang(p, "task", thread, state)
CreatePromise(p) == \E thread \in ThreadIds : Hang(p, "promise", thread, "made")
CreateNote(p) == \E thread \in ThreadIds : Hang(p, "note", thread, "made")
CreateDraftMeta(p) == \E thread \in ThreadIds : Hang(p, "draft", thread, "made")

UpdatePromise(p) == \E id \in RowIds : Touch(p, "promise", id)

\* The three with a project_id in their body are 403 when it is another project's.
Named(p, Write) ==
  \E named \in Projects : IF named = p THEN Write ELSE UNCHANGED <<tables, maker>>

CreateRepoPointer(p) == Named(p, Inserted(p, "repo", p, "made"))
CreateLearningEntry(p) == Named(p, Inserted(p, "learning", p, "made"))
RevertLearningEntry(p) == \E id \in RowIds : Touch(p, "learning", id)

\* One file of tone memory: inserted, or written over by the version that wins.
PutToneFile(p) ==
  Named(p, \/ Listed(p, "tone") = {} /\ Inserted(p, "tone", p, "made")
           \/ \E id \in Listed(p, "tone") : Touch(p, "tone", id)
           \/ Listed(p, "tone") # {} /\ UNCHANGED <<tables, maker>>)

-----------------------------------------------------------------------------
(* Tasks and their history.                                                *)

UpdateWithState(p) ==       \* mutant: PATCH writes a state as well
  \E id \in Listed(p, "task"), state \in States :
    rows' = [rows EXCEPT ![id].state = state] /\ UNCHANGED <<threads, moves, maker>>

\* PATCH /tasks/:id writes dates and the importance, never the state.
UpdateTask(p) == \E id \in RowIds : Touch(p, "task", id)

\* In one transaction: the history and the task, or neither.
Recorded(id, to) ==
  /\ moves' = Append(moves, [task |-> id, from |-> rows[id].state, to |-> to])
  /\ rows' = [rows EXCEPT ![id].state = to]
  /\ UNCHANGED <<threads, maker>>

\* createTransition: 404, 409 when the state is not the expected one, or recorded.
\* Without expected_from the caller expects any state.
CreateTransition(p) ==
  /\ Len(moves) < MaxMoves
  /\ \E id \in RowIds, to \in States, expected \in SUBSET States \ {{}} :
       /\ expected = States \/ Cardinality(expected) = 1
       /\ IF Scoped(p, "task", id) /\ rows[id].state \in expected
          THEN Recorded(id, to)
          ELSE UNCHANGED <<tables, maker>>

-----------------------------------------------------------------------------
\* The routers of createApp that write.  The others, /transitions among them, only read.
Routes(p) ==
  \/ UpsertThread(p)
  \/ CreateTask(p) \/ UpdateTask(p) \/ CreateTransition(p)
  \/ CreatePromise(p) \/ UpdatePromise(p)
  \/ CreateNote(p) \/ CreateDraftMeta(p)
  \/ CreateRepoPointer(p) \/ PutToneFile(p)
  \/ CreateLearningEntry(p) \/ RevertLearningEntry(p)

\* bearerAuth: 401 unless the token is the one of the project the request names.
Request(p, token) ==
  /\ IF Paired(p, token) THEN Routes(p) /\ served' = p
     ELSE UNCHANGED <<tables, served, maker>>
  /\ UNCHANGED tokens

Next == \E p \in Projects, token \in Tokens : Seed(p, token) \/ Request(p, token)

Spec == Init /\ [][Next]_vars

-----------------------------------------------------------------------------
\* The project a row belongs to, in the given tables.
Owner(someRows, someThreads, id) ==
  LET home == someRows[id].home
  IN IF someRows[id].kind \in OfThread THEN someThreads[home].project ELSE home

\* auth.ts:8: "All data endpoints are then scoped to the authenticated project."  What a
\* request changes or makes, in any table, is of the project whose token it brought.
Isolation ==
  [][/\ \A id \in DOMAIN rows' :
          id \notin DOMAIN rows \/ rows'[id] # rows[id] => Owner(rows', threads', id) = served'
     /\ \A thread \in DOMAIN threads' :
          thread \notin DOMAIN threads => threads'[thread].project = served']_vars

\* A row stays in the lists of the project that made it, and in no other's; a row of a
\* thread is in the list of exactly that thread, however often the thread is upserted:
\* the daemon reads there what it has already recorded (cycle.ts:134, :239).
RowsStayListed ==
  \A id \in DOMAIN rows :
    LET kind == rows[id].kind
    IN /\ {p \in Projects : id \in Listed(p, kind)} = {maker[id]}
       /\ kind \in OfThread =>
            {thread \in DOMAIN threads : id \in ListedIn(maker[id], kind, thread)} = {rows[id].home}

\* The moves of the same task after the n-th.
Later(n) == {m \in DOMAIN moves : m > n /\ moves[m].task = moves[n].task}

\* sqlite.ts:423-457: the history tells how a task came to where it is, with no gap,
\* whoever moved it: a move starts where the one before it ended, and the last one ended
\* where the task is.  The digest's "what was handled" (cf. Views) is read from it.
MovesAreTheHistory ==
  \A n \in DOMAIN moves :
    /\ Later(n) = {} => rows[moves[n].task].state = moves[n].to
    /\ \A m \in Later(n) : (\A k \in Later(n) : m <= k) => moves[m].from = moves[n].to

Row == [kind : OfThread \cup OfProject, home : ThreadIds \cup Projects,
        state : States \cup {"made"}, touched : BOOLEAN]

\* Types, and one thread per root of a project.
TypeOK ==
  /\ DOMAIN tokens \subseteq Projects /\ \A p \in DOMAIN tokens : tokens[p] \in Tokens
  /\ DOMAIN threads \subseteq ThreadIds
  /\ \A thread \in DOMAIN threads : threads[thread] \in [project : Projects, root : Roots]
  /\ \A thread, other \in DOMAIN threads : threads[thread] = threads[other] => thread = other
  /\ DOMAIN rows \subseteq RowIds /\ DOMAIN maker = DOMAIN rows
  /\ \A id \in DOMAIN rows : rows[id] \in Row
  /\ moves \in Seq([task : DOMAIN rows, from : States, to : States])
  /\ served \in Projects
=============================================================================
