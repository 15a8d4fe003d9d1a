--------------------------------- MODULE Views ---------------------------------
(***************************************************************************)
(* The rows of the metadata service that the daemons and the users of a    *)
(* project write (server/src/repo/sqlite.ts), and the three pages a        *)
(* backend assembles from them: Today, the projects board and the morning  *)
(* digest (api/today-view.ts, api/projects-board-view.ts,                  *)
(* claude/digest.ts).  A page is assembled from several list calls made at *)
(* once (api/app.ts): the service answers each of them at its own moment,  *)
(* writes land in between, and a list that fails counts as empty.          *)
(***************************************************************************)
EXTENDS Integers, FiniteSets, FiniteSetsExt, SequencesExt, TaskStates

CONSTANTS
  Thread, Direction,
  ImportanceOf,  \* the importance the triage gave each thread's tasks: low 0 .. high 2
  Stock,         \* bound: what the service may hold at first
  StartTime,     \* the clock at first
  DueSoon,       \* DUE_SOON_MS
  WindowHours,   \* the span of a digest
  MaxCards,      \* MAX_DO_NEXT_CARDS
  MaxUpsets, MaxNow   \* bounds: writes and failed calls, the clock

None == -1
Times == None .. MaxNow
Status == {"open", "overdue", "fulfilled"}

TaskRow == [thread : Thread, state : TaskState]
PromiseRow == [thread : Thread, direction : Direction, due : Times, status : Status]
DraftRow == [thread : Thread, at : Times]
TransitionRow == [thread : Thread, to : TaskState, at : Times]

ASSUME LimitsAssumption ==
  /\ MaxNow \in Nat /\ StartTime \in 0 .. MaxNow
  /\ DueSoon \in Nat /\ WindowHours \in Nat /\ MaxCards \in Nat \ {0}
  /\ ImportanceOf \in [Thread -> 0 .. 2]

\* What the service holds at first is rows of threads it knows.
ASSUME StockAssumption ==
  \A s \in Stock :
    /\ s.threads \in [Thread -> Times]
    /\ s.tasks \in Seq(TaskRow) /\ s.promises \subseteq PromiseRow
    /\ s.drafts \subseteq DraftRow /\ s.transitions \subseteq TransitionRow
    /\ \A i \in DOMAIN s.tasks : s.threads[s.tasks[i].thread] # None
    /\ \A row \in s.promises \union s.drafts \union s.transitions :
         s.threads[row.thread] # None

VARIABLES
  threads,     \* last_message_at of each thread row; None: no row
  tasks,       \* the tasks, ORDER BY updated_at DESC
  promises, drafts, transitions,   \* the other rows
  now,
  request,     \* the page being assembled, and when it was asked for
  pending,     \* the list calls not answered yet
  got, lost,   \* the lists that came, the calls that failed
  answer,      \* the page
  steady,      \* history: nothing was written since the request
  open,        \* history: the threads that had work to do all through the request
  upsets

rows == <<threads, tasks, promises, drafts, transitions>>
assembly == <<request, pending, got, lost, answer>>
pagesVars == <<rows, now, assembly, steady, open, upsets>>

Known == {t \in Thread : threads[t] # None}
Todo(ts, known) == {t \in known : \E i \in DOMAIN ts : ts[i].thread = t /\ ts[i].state # "done"}

NoRequest == [kind |-> "none", at |-> 0]

Empty ==
  [tasks |-> <<>>, threads |-> [t \in Thread |-> None], promises |-> {}, drafts |-> {},
   transitions |-> {}]

ViewsInit ==
  /\ \E s \in Stock :
       /\ threads = s.threads /\ tasks = s.tasks /\ promises = s.promises
       /\ drafts = s.drafts /\ transitions = s.transitions
  /\ now = StartTime
  /\ request = NoRequest /\ pending = {} /\ got = Empty /\ lost = {} /\ answer = <<>>
  /\ steady = TRUE /\ open = {} /\ upsets = 0

-----------------------------------------------------------------------------
(* Writes.  Each is one transaction of the service.                        *)

Touched(s, i, task) == <<task>> \o RemoveAt(s, i)

Write ==
  /\ upsets < MaxUpsets /\ upsets' = upsets + 1
  /\ steady' = FALSE
  /\ open' = open \intersect Todo(tasks', {t \in Thread : threads'[t] # None})
  /\ UNCHANGED <<now, assembly>>

UpsertThread(t) ==
  /\ threads' = [threads EXCEPT ![t] = now]
  /\ UNCHANGED <<tasks, promises, drafts, transitions>>
  /\ Write

CreateTask(t, state) ==
  /\ t \in Known
  /\ tasks' = <<[thread |-> t, state |-> state]>> \o tasks
  /\ UNCHANGED <<threads, promises, drafts, transitions>>
  /\ Write

\* PATCH: a snooze, which leaves the state and renews updated_at.
UpdateTask(i) ==
  /\ tasks' = Touched(tasks, i, tasks[i])
  /\ UNCHANGED <<threads, promises, drafts, transitions>>
  /\ Write

\* The service records any edge.
CreateTransition(i, to) ==
  /\ tasks' = Touched(tasks, i, [tasks[i] EXCEPT !.state = to])
  /\ transitions' = transitions \union {[thread |-> tasks[i].thread, to |-> to, at |-> now]}
  /\ UNCHANGED <<threads, promises, drafts>>
  /\ Write

\* deriveStatus(): the daemon settles a promise's status when it records it, and only then.
DerivedStatus(due, fulfilled) ==
  IF fulfilled THEN "fulfilled" ELSE IF due # None /\ due < now THEN "overdue" ELSE "open"

CreatePromise(t, direction, due, fulfilled) ==
  /\ t \in Known
  /\ promises' = promises \union
       {[thread |-> t, direction |-> direction, due |-> due,
         status |-> DerivedStatus(due, fulfilled)]}
  /\ UNCHANGED <<threads, tasks, drafts, transitions>>
  /\ Write

CreateDraftMeta(t) ==
  /\ t \in Known
  /\ drafts' = drafts \union {[thread |-> t, at |-> now]}
  /\ UNCHANGED <<threads, tasks, promises, transitions>>
  /\ Write

Tick ==
  /\ now < MaxNow /\ now' = now + 1
  /\ UNCHANGED <<rows, assembly, steady, open, upsets>>

-----------------------------------------------------------------------------
(* engines/ranker.ts                                                       *)

Actionable(p) == p.status \in {"open", "overdue"}

Far == MaxNow + 1   \* OVERDUE_BASE, and minus it UNDATED_URGENCY: beyond every other urgency

Urgency(p, at) ==
  IF p.due = None THEN -Far
  ELSE IF p.due < at THEN Far + (at - p.due)
  ELSE at - p.due

LeastUrgent(ps, at) ==      \* mutant: the least urgent promise of a tier decides
  IF ps = {} THEN <<0, 0>> ELSE <<1, Min({Urgency(p, at) : p \in ps})>>

\* promiseTierKey(): the most urgent promise of a tier decides.
TierKey(ps, at) ==
  IF ps = {} THEN <<0, 0>> ELSE <<1, Max({Urgency(p, at) : p \in ps})>>

Age(last, at) == IF last = None THEN Far ELSE at - last

Of(ps, t, direction) ==
  {p \in ps : p.thread = t /\ p.direction = direction /\ Actionable(p)}

RankKey(t, lists, at) ==
  LET my == TierKey(Of(lists.promises, t, "my-promise"), at)
      they == TierKey(Of(lists.promises, t, "they-asked"), at)
  IN <<my[1], my[2], they[1], they[2], ImportanceOf[t], Age(lists.threads[t], at)>>

\* compareRankKeys(): the first component that differs, the higher first.
Before(a, b) == \E k \in DOMAIN a : a[k] > b[k] /\ \A j \in 1 .. k - 1 : a[j] = b[j]

\* Of two tasks, equal keys keep the order they came in.
Ahead(i, j, lists, at) ==
  LET a == RankKey(lists.tasks[i].thread, lists, at)
      b == RankKey(lists.tasks[j].thread, lists, at)
  IN Before(a, b) \/ (a = b /\ i < j)

\* rankTasks(): the n-th is the one that n - 1 others are ahead of.
RankTasks(queue, lists, at) ==
  [n \in 1 .. Cardinality(queue) |->
     CHOOSE i \in queue : Cardinality({j \in queue : Ahead(j, i, lists, at)}) = n - 1]

-----------------------------------------------------------------------------
(* api/today-view.ts                                                       *)

\* urgencyLabel(), from 0, no promise, to 4, overdue.
UrgencyLabel(ps, at) ==
  LET dated == {p \in ps : p.due # None}
  IN IF \E p \in dated : p.due < at THEN 4
     ELSE IF \E p \in dated : p.due - at <= DueSoon THEN 3
     ELSE IF dated # {} THEN 2
     ELSE IF ps # {} THEN 1 ELSE 0

First(places) == IF places = {} THEN 0 ELSE Min(places)

FirstOf(ts, t) == First({i \in DOMAIN ts : ts[i].thread = t})
FirstUndone(ts, t) == First({i \in DOMAIN ts : ts[i].thread = t /\ ts[i].state # "done"})

\* mutant: only the newest task of a thread is looked at.
NewestQueued(ts, known) ==
  {i \in DOMAIN ts : ts[i].thread \in known /\ ts[i].state # "done" /\ i = FirstOf(ts, ts[i].thread)}

\* The tasks that get a card: the first of a thread that is not done, if the thread is known.
Queued(ts, known) == {i \in DOMAIN ts : ts[i].thread \in known /\ i = FirstUndone(ts, ts[i].thread)}

KnownIn(lists) == {t \in Thread : lists.threads[t] # None}

Card(t, lists, at) ==
  [thread |-> t,
   state |-> lists.tasks[FirstUndone(lists.tasks, t)].state,
   my |-> UrgencyLabel(Of(lists.promises, t, "my-promise"), at),
   they |-> UrgencyLabel(Of(lists.promises, t, "they-asked"), at),
   draft |-> \E d \in lists.drafts : d.thread = t]

\* assembleTodayView(): the do-next queue.
DoNext(lists, at) ==
  LET queue == Queued(lists.tasks, KnownIn(lists))
      ranked == RankTasks(queue, lists, at)
  IN [n \in {k \in DOMAIN ranked : k <= MaxCards} |->
        Card(lists.tasks[ranked[n]].thread, lists, at)]

\* metricFor(): the tile of a direction.
Metric(lists, direction) ==
  LET of == {p \in lists.promises : p.direction = direction}
  IN [open |-> Cardinality({p \in of : Actionable(p)}),
      overdue |-> Cardinality({p \in of : p.status = "overdue"})]

Today(lists, at) ==
  [doNext |-> DoNext(lists, at),
   metrics |-> [d \in Direction |-> Metric(lists, d)],
   remaining |-> Cardinality({i \in DOMAIN lists.tasks : lists.tasks[i].state # "done"})]

-----------------------------------------------------------------------------
(* api/projects-board-view.ts                                              *)

\* mutant: the newest task of a thread decides, done or not.
ActiveNewest(ts, t) == FirstOf(ts, t)

\* The task that decides a thread's group: the first that is not done, else any, else none.
Active(ts, t) == IF FirstUndone(ts, t) # 0 THEN FirstUndone(ts, t) ELSE FirstOf(ts, t)

Group(lists, t) ==
  LET i == Active(lists.tasks, t) IN IF i = 0 THEN "needs-reply" ELSE lists.tasks[i].state

Board(lists) == [s \in TaskState |-> {t \in KnownIn(lists) : Group(lists, t) = s}]

-----------------------------------------------------------------------------
(* claude/digest.ts                                                        *)

NeedsYou == {"needs-reply", "follow-up"}

InWindow(at, end) == end - WindowHours <= at /\ at <= end

\* mutant: what is due at the very end of the window is left out.
DueBefore(p, end) == p.due # None /\ p.due < end

DueBy(p, end) == p.due # None /\ p.due <= end

\* The tasks that wait for an answer of threads that are known, in the order of the list.
WaitingForYou(ts, known) ==
  LET kept == {i \in DOMAIN ts : ts[i].state \in NeedsYou /\ ts[i].thread \in known}
  IN [i \in kept |-> ts[i]]

Digest(lists, end) ==
  [needs_you |-> WaitingForYou(lists.tasks, KnownIn(lists)),
   promises_due |-> {p \in lists.promises : Actionable(p) /\ DueBy(p, end)},
   handled |-> {t \in lists.transitions : InWindow(t.at, end)},
   drafted |-> {d \in lists.drafts : InWindow(d.at, end)}]

\* getDigestMetadata(): the service's own digest, read in one go.
ServiceDigest(end) ==
  [needs_you |-> WaitingForYou(tasks, Known),
   promises_due |-> {p \in promises : p.thread \in Known /\ p.status \in {"open", "overdue"}
                                        /\ p.due # None /\ p.due <= end},
   handled |-> {t \in transitions : t.thread \in Known /\ InWindow(t.at, end)},
   drafted |-> {d \in drafts : d.thread \in Known /\ InWindow(d.at, end)}]

-----------------------------------------------------------------------------
(* A page: the lists are asked for at once and answered in any order.      *)

Lists(kind) ==
  {"tasks", "threads", "promises", "drafts"} \union
  (IF kind = "digest" THEN {"transitions"} ELSE {})

Ask(kind) ==
  /\ pending = {}
  /\ request' = [kind |-> kind, at |-> now]
  /\ pending' = Lists(kind)
  /\ got' = Empty /\ lost' = {} /\ answer' = <<>>
  /\ steady' = TRUE /\ open' = Todo(tasks, Known)
  /\ UNCHANGED <<rows, now, upsets>>

\* The page is assembled with the last answer.  Today is ranked by the clock of that moment.
Page(kind, lists) ==
  CASE kind = "today" -> <<Today(lists, now)>>
    [] kind = "board" -> <<Board(lists)>>
    [] kind = "digest" -> <<Digest(lists, request.at)>>

Collect(list, lists) ==
  /\ got' = lists
  /\ pending' = pending \ {list}
  /\ answer' = IF pending' = {} THEN Page(request.kind, lists) ELSE answer
  /\ UNCHANGED <<rows, now, request, steady, open>>

Listed(list) ==
  CASE list = "tasks" -> tasks
    [] list = "threads" -> threads
    [] list = "promises" -> promises
    [] list = "drafts" -> drafts
    [] list = "transitions" ->
         {t \in transitions : t.thread \in Known /\ InWindow(t.at, request.at)}

Read(list) ==
  /\ list \in pending
  /\ Collect(list, [got EXCEPT ![list] = Listed(list)])
  /\ UNCHANGED <<lost, upsets>>

\* emptyOnError(): a list that fails is taken for an empty one.
ReadFails(list) ==
  /\ list \in pending
  /\ upsets < MaxUpsets /\ upsets' = upsets + 1
  /\ lost' = lost \union {list}
  /\ Collect(list, got)

-----------------------------------------------------------------------------
ViewsNext ==
  \/ \E t \in Thread : UpsertThread(t) \/ CreateDraftMeta(t)
  \/ \E t \in Thread, state \in TaskState : CreateTask(t, state)
  \/ \E i \in DOMAIN tasks : UpdateTask(i)
  \/ \E i \in DOMAIN tasks, to \in TaskState : CreateTransition(i, to)
  \/ \E t \in Thread, d \in Direction, due \in Times, f \in BOOLEAN : CreatePromise(t, d, due, f)
  \/ Tick
  \/ \E kind \in {"today", "board", "digest"} : Ask(kind)
  \/ \E list \in pending : Read(list) \/ ReadFails(list)

ViewsSpec == ViewsInit /\ [][ViewsNext]_pagesVars

-----------------------------------------------------------------------------
(* Properties.                                                             *)

RowsTyped ==
  /\ threads \in [Thread -> Times]
  /\ tasks \in Seq([thread : Known, state : TaskState])
  /\ promises \subseteq PromiseRow /\ drafts \subseteq DraftRow
  /\ transitions \subseteq TransitionRow
  /\ \A row \in promises \union drafts \union transitions : row.thread \in Known

AssemblyTyped ==
  /\ now \in 0 .. MaxNow /\ steady \in BOOLEAN /\ open \subseteq Thread
  /\ request \in [kind : {"none", "today", "board", "digest"}, at : 0 .. MaxNow]
  /\ got \in [tasks : Seq(TaskRow), threads : [Thread -> Times], promises : SUBSET PromiseRow,
              drafts : SUBSET DraftRow, transitions : SUBSET TransitionRow]
  /\ pending \subseteq Lists(request.kind) /\ lost \subseteq Lists(request.kind)
  /\ pending \intersect lost = {}
  /\ (pending # {}) => (answer = <<>>)

\* The rows have their types and belong to threads the service knows; so has a page in the
\* making, which is not there before its last list is.
ViewsTypeOK == RowsTyped /\ AssemblyTyped

Answered(kind) == answer # <<>> /\ request.kind = kind

\* However the writes fall between the list calls of a Today page, a thread that had a task
\* to do all along is in the queue, once, unless a call failed or the queue is full.
TodayDropsNothing ==
  (Answered("today") /\ lost = {}) =>
    LET queue == answer[1].doNext
    IN \/ Len(queue) = MaxCards
       \/ \A t \in open : Cardinality({i \in DOMAIN queue : queue[i].thread = t}) = 1

\* The label and the ordering never disagree (today-view.ts, urgencyLabel): no card stands
\* below one with a less urgent promise of mine, nor, where neither has one, below one with
\* a less urgent request.
LabelsFollowTheOrder ==
  Answered("today") =>
    LET queue == answer[1].doNext
    IN \A i, j \in DOMAIN queue : i < j =>
         /\ queue[i].my >= queue[j].my
         /\ (queue[i].my = 0) => (queue[i].they >= queue[j].they)

\* Every thread is on the board once, and a thread that Today, assembled from the same
\* lists, would show as work to do is in the group of the state Today shows.
BoardAgreesWithToday ==
  Answered("board") =>
    LET board == answer[1]
        queue == DoNext(got, now)
    IN /\ \A t \in KnownIn(got) : Cardinality({s \in TaskState : t \in board[s]}) = 1
       /\ \A i \in DOMAIN queue : queue[i].thread \in board[queue[i].state]

\* The digest a backend assembles mirrors the one the service would have answered with
\* (digest.ts, assembleDigestMetadata), where no write and no failure came between.
DigestMirrorsTheService ==
  (Answered("digest") /\ lost = {} /\ steady) => answer[1] = ServiceDigest(request.at)

\* A tile counts the promises of its direction that are past due (shared/src/today.ts).
\* Does not hold: it counts the stored status, which time alone does not change.
TilesCountThePastDue ==
  (Answered("today") /\ lost = {} /\ steady) =>
    \A d \in Direction :
      answer[1].metrics[d].overdue >=
        Cardinality({t \in Thread : \E p \in Of(promises, t, d) : p.due # None /\ p.due < request.at})

=============================================================================
