# A verification project for Mailordomo

Mailordomo is a shared-mailbox assistant for two people. Each person runs a
**local app** (`packages/backend` + `packages/frontend`) that mirrors the IMAP
mailbox into a disposable SQLite cache, triages new mail with Claude, and
drafts replies; a small hosted **metadata service** (`packages/server`) holds
what the two share: tasks, promises, locks, draft metadata, tone files. No mail
content is stored on the server. The program therefore is a distributed system
of two daemons, several browser tabs, one IMAP provider and one metadata
service, in which no step spans two of them atomically. The modules here model
that: what happens between two awaits, when a call is lost, when a process
dies, when the other person acts in between.

Contents: [inventory](#inventory) · [modules](#modules) · [runs](#runs) ·
[fairness](#fairness) · [proofs](#proofs) ·
[seen while modelling](#seen-while-modelling) ·
[limits](#what-is-not-modelled)

All paths below are relative to `packages/`.

## Inventory

| component | state | operations | what is hard | what makes it correct | module |
|---|---|---|---|---|---|
| **Thread locks**: `server/src/repo/sqlite.ts`, `routes/locks.ts`, the lock routes of `backend/src/api/app.ts`, `useThreadLock` in the frontend | one row per thread (holder, expiry); per open work surface: presence, heartbeat | acquire, refresh, release, expiry; mount, heartbeat, unmount | replies arrive late, out of order or never; expiry races refresh; two tabs of one person share the row | who sees "held" is backed by the row, so two people never edit at once; no lock stays behind; a grab ends | `ThreadLock` |
| **IMAP connection**: `backend/src/imap/connection.ts`, `backoff.ts` | current client, attempt counter, stopped flag, reconnect timer | start, stop, drop, failure, reconnect | late events of replaced clients; stop/start during a pending `connect()` | never left without client and timer; one socket; no early give-up; recovers | `ImapConnection` |
| **Mailbox sync, cache source**: `imap/mailbox-sync.ts`, `sync-plan.ts`, `cache/cache.ts`, `source/cache-source.ts` | folder row (UIDVALIDITY, UID and modseq cursor), message rows | SELECT, initial, resync and incremental fetch, flag deltas, selection of the new rows | the mailbox changes under the poll; fetches cut short; crash between store and processing; renumbering | the cursor never passes mail that is not cached; the cache mirrors the server; each message is processed once and none is skipped | `MailSync` |
| **Threading**: `threading/jwz.ts`, `source/cache-source.ts`, `api/thread-detail-view.ts` | the root of each row; the thread it was filed under | poll, reply | references that are trimmed, missing, repeated, looping; the tree is rebuilt at every poll | one conversation, one thread; a reply goes to whom it answers; roots settle | `Threading` |
| **Daemon cycle**: `daemon/cycle.ts`, `claude/triage.ts`, `extract-promises.ts`, `nudge.ts`, `engines/stale.ts`, `overdue-nudge.ts` | the poll's messages with the task context read at poll time | triage, promise extraction, stale pass, nudge | each metadata call is separate; a second daemon and users act in between; calls fail | idempotence, a person's action is not overridden, every message gets a task | `DaemonCycle`, `TaskStates` |
| **Reconciler, deadlines**: `engines/promise-reconciler.ts`, `relative-deadline.ts` | none | phrase to instant, status | clock changes, ends of days | the last second of the right day; not born overdue | `Deadlines` |
| **Daemon loop, live page**: `daemon/loop.ts`, `api/server.ts`, `api/ws.ts`, `frontend/src/lib/useWs.ts`, `today-hooks.ts` | `running` flag, link, socket, query | tick, interval, IDLE, "Sync now", push, refetch, task actions | ticks during a cycle are dropped; pushes while the socket is down are lost | mail is taken in the end; the page shows what is | `DaemonLoop`, `LiveView` |
| **Claude queue, throttle, runner**: `claude/queue.ts`, `throttle.ts`, `runner.ts` | waiting, active, children, timers, usage window | enqueue, pump, timeout, kill, record | limit checked at dispatch, usage recorded at completion; killed children linger | bounds on processes and on overshoot, every promise settles | `ClaudeQueue` |
| **Drafts, manual send**: `drafts/store.ts`, `claude/draft.ts`, `smtp/send.ts`, `api/app.ts`, `draft-pane.tsx` | draft and transcript of a thread; the pane and its query | generate, refine, send, edit, leave, open | model call between read and write; replies that cross; retry of a mail that went out | no turn lost, no confirmed reply sent again, the editor shows the draft | `WorkSurface` |
| **Tone files, sync**: `tone/*.ts`, `sqlite.ts` | file, index entry, server row | edit, push, pull, adopt | edits during a pass; clocks that differ | a last-write-wins register; no edit lost to one that loses | `ToneSync`, `LastWriteWins` |
| **Learning**: `learning/*.ts`, the routes of `app.ts` | server's changelog, local log, tone file | learn, revert | calls between read and write of a file | the file is what the log says | `Learning` |
| **Today, board, digest**: `api/today-view.ts`, `projects-board-view.ts`, `engines/ranker.ts`, `claude/digest.ts`, `sqlite.ts` | none but the service's rows | assembly from several lists | lists read at different moments, failing lists, two implementations of one window | nothing dropped, label and order agree, board and page agree, local digest equals the service's | `Views` |
| **Metadata service**: `server/src` | projects, threads, rows, task history | every route | several apps, ids of another project, rows keyed by a root | isolation, rows stay listed, history without gaps | `MetadataService` |
| **Setup**: `api/wizard.ts`, `config/*`, `credentials/*`, `components/setup/*` | config file, credential store, the page's list and forms | add, patch, remove, list | three stores written one after the other; calls overlap | passwords belong to configured mailboxes; the list shows the file | `Setup` |
| **Mailbox watcher**, **folder mapper**, **ranking judge**, **repository mirrors**, **shared contract** | see [limits](#what-is-not-modelled) | | | | — |

How they interact: the connection's `onReady` and IDLE events kick the daemon
loop; a cycle calls the cache source (`poll`, `buildMessage`), which runs the
mailbox sync and the threading, and then the metadata service and Claude, one
awaited call after the other; the end of a cycle is pushed to the browser, whose
queries fetch the views again; the browser calls the local API, which forwards
to the metadata service, drafts with Claude, sends through SMTP and learns from
what was sent. Nothing is shared in memory between two people: they meet in the
rows of the metadata service and in the IMAP folder.

`PROJECT.json` lists every component with its status, and every hazard found in
the code at its line, with the properties that cover it.

## Modules

| module | models | uses |
|---|---|---|
| `ExclusiveEditing` | the abstract promise of locks: at most one editor of a thread | — |
| `ThreadLock` | lock row, lock routes, `useThreadLock` of every work surface on one thread | instance of `ExclusiveEditing` |
| `ImapConnection` | `ResilientImapConnection` | — |
| `MailSync` | one watched folder from SELECT to the processed message | — |
| `Threading` | JWZ, the roots of the cache, the threads rows are filed under, the addressee of a reply | — |
| `TaskStates` | the edge table and `resolveEvent` | — |
| `DaemonCycle` | daemons, users and the metadata service on the tasks of a few threads | `TaskStates` |
| `Deadlines` | the calendar of Prague, deadline phrases, the reconciler's status | — |
| `DaemonLoop` | start of the daemon, what ticks, a cycle as a whole | — |
| `LiveView` | pushes, socket and query of the Today page, task actions | extends `DaemonLoop` |
| `ClaudeQueue` | queue, runner and throttle | — |
| `WorkSurface` | draft store, draft and send routes, draft pane | — |
| `LastWriteWins` | the abstract register of a tone file | — |
| `ToneSync` | tone store and sync of several machines, the server's arbitration | — |
| `Learning` | lessons, changelog, revert over the synced file | extends `ToneSync`, instance of `LastWriteWins` |
| `Views` | rows and the three pages assembled from them | `TaskStates` |
| `MetadataService` | projects, tokens, threads, rows and task history of the service | — |
| `Setup` | mailboxes, config file, credential store, the setup page | — |
| `ClaudeQueue_proofs`, `WorkSurface_proofs`, `Setup_proofs`, `Learning_proofs` | theorems (those of `Learning` are about `ToneSync` too) | the module and TLAPS |
| `MailSync_proofs` | theorems about the mailbox in the cache and its threads | `MailSync`, `Threading` and TLAPS |
| `MetadataService_proofs` | theorems about the two parts of the service: its rows, and the thread locks | `MetadataService`, `ThreadLock` and TLAPS |
| `LiveView_proofs` | theorems about the daemon's connection, its loop, the page it pushes to and what the pages show | `LiveView`, `ImapConnection`, `Views` and TLAPS |
| `DaemonCycle_proofs` | theorems about the daemon and the deadlines it records | `DaemonCycle`, `Deadlines` and TLAPS |
| `MC*` | constants of the runs; `MCDaemonCycle` also evaluates `Deadlines` | the module after `MC` |

Definitions named `mutant:` in a comment are plausible slips kept beside the
definition they vary; no specification uses them. Variables called history are
read by properties only.

A convention of all modules: a step is what the code does between two awaits (or
in one request of the service, or one transaction of SQLite), a call in flight
is a record, and a failure is an action of its own that is counted. Where a
property can only hold as long as certain things do not happen together, a
history variable (`crossed`, `excused`, `torn`, `behind`, `steady`) records that
they did, and the property names the ones it needs to exclude; what those
exclusions hide is told under [seen while modelling](#seen-while-modelling).

### ThreadLock

One thread. `lock` is the row (`by`, and `left` = expiry minus now: time is
relative, `Tick` lowers every copy of an expiry). A session is a tab's work
surface, and an actor may have several. `session[s]` is the hook's state there:
presence, the expiry it was told, whether the heartbeat interval runs
(`beating`), whether the current run of the effect remembers to hold the lock
(`holding`) and whether the page has its settings (`settled`). `calls[s][k]` are
the calls in flight, those of earlier runs of the effect included: the cleanup of
a run marks its calls `cancelled`, while the next run makes its own. `undercut`
is history: the actor has released the lock since this lease was granted.

| code | action |
|---|---|
| effect runs, grab | `Mount`, `AcquireReturns` (a cancelled run gives back what it was granted) |
| settings arrive, `heartbeatMs` changes: cleanup, and the effect runs again | `SettingsArrive` |
| interval callback, its reply | `HeartbeatFires`, `RefreshReturns` (a 409 is `LockLost`: stop the heartbeat, grab again) |
| effect cleanup | `CleanUp`, in `Unmount` and `SettingsArrive` |
| `acquireLock`, `refreshLock`, `releaseLock` of the repository | `AcquireLock`, `RefreshLock`, `ReleaseLock`, each one transaction that serves one call |
| lost request or reply | `CallFails` |
| tab killed | `Kill`; a reply to it is `ReplyDropped` |
| passing of time | `Tick` |

`CanTake` is the server's test for an acquire (absent, expired, or the same
actor), `MayFree` that for a release (the same actor, or expired). Both compare
actors, not tabs, as the code does: a release of one tab, or of an earlier run of
the effect, takes the lock from under the open gate of another. `LeaseSafety` and
the refinement say that this is the only way a lease ends before its time: they
speak of the leases that are not `undercut`. `OneEditor` leaves that out and
[does not hold](#seen-while-modelling).

### ImapConnection

`current`, `attempt`, `stopped`, `timer` are the class's fields; `run[c]` is
where the `openOnce` of client `c` stands at its await; `sock[c]` the socket;
`heard` the clients with listeners attached; `network` whether the provider can
be reached. Callbacks run before timers and new events (`Drained`), as
microtasks do. `failed` is history: consecutive failures, to state
`NoEarlyGiveUp` without reading the counter under test. The delay of a timer is
abstracted; the give-up threshold is kept.

### MailSync

`box` is the server's folder (UID → message, modseq, flag), with `uidValidity`
and `uidNext`; `folder` and `rows` are the cache; `pc`, `poll`, `wire`, `top`,
`todo`, `out` are the local variables of `pollFolder` and `syncOnce` across
their awaits. A FETCH is a snapshot of the server taken when it answers and
then delivered message by message in UID order, each store a step, so that a
lost connection or a crash leaves a prefix. `archive`, `triaged`, `excused` are
history. The plans of `computeSyncPlan` (full resync, incremental with new
messages and flag changes, up to date) are `SyncPlan`. `Renumber` numbers the
messages anew in their order, while no session has the mailbox open.

### Threading

A message is its position in the folder and a header; Message-IDs are numbers
in the order the mails were written. `answers` fixes the conversation the
headers come from, or leaves them arbitrary (`Wild`). `MailArrives` is a
delivery, `PollAndFile` one poll: `BuildThreads` transcribes the two passes of
`jwz.ts` over all cached rows (containers, reference chains with the loop check,
reparenting, splicing of empty roots), `ResolveThreadRoots` writes the roots,
`Upserted` files the new rows and updates the service's thread. `Parent` and
`Addressee` are what the send route takes for a reply. The reference definition,
`Together`, knows nothing of trees: rows that name each other or a message in
common, through any number of rows, belong together. That rows of one root do
so holds of any headers; the converse, and that roots settle, of those that mail
programs write, and only when every reply names the message that began its
conversation (`Complete`). A reply goes to whom it answers in a thread that is
`Regular`: its rows came once, in the order of their dates, and were filed under
the root they have now. Each of these is needed, as the comments say.

The recursions (the walk up, the hops of a chain, the rows of a folder, the
chain of a conversation) are recursive functions, so that they can be proved about.

### TaskStates, DaemonCycle

`TaskStates` transcribes the edges and the event table. In `DaemonCycle` every
await of `processMessage` ends an action: what a daemon reads (`TaskContext` at
the poll, `known` promises) may be stale when it writes. `tasks[t]` is the list
`listTasks` would return (latest update first), `promises` counts rows, `drafts`
the threads with a `DraftMeta`, `filed` the nudges filed in the mailbox. A user
action is two steps, `Ask` and `Answer`, as the handlers read and then write.
What Claude answers is any disposition.

### Deadlines

Operators over seconds of the epoch and civil days. `PragueOffset` is
`pragueOffsetMinutes` (summer time by the last Sundays of March and October),
`LocalDayToUtc` the two passes of `localDayToUtc`, `DaysAhead` the branches of
`resolveRelativeDeadline`, `Reconciled` the fields of a promise the properties
are about. A phrase is a record of its kind and number: splitting its text is
left out. `Date.UTC` and the UTC fields of a `Date` are modelled as external
functions (the usual conversion of a civil date to a day number).

### DaemonLoop, LiveView

`DaemonLoop` counts messages: `waiting` in the mailbox, `batch` in the cycle.
`tick` is `tick()`: dropped while `cycle` is not "none". `OnReady`, `OnExists`,
`Interval` and `RunCycleNow` are what ticks; `Drop`, `Reconnect`, `Crash`,
`Hang` and `PollFails` what goes wrong. `LiveView` extends it by one browser:
`socket` and `frames` (the WebSocket and a push on its way), `query`, `read`,
`shown` (React Query: an invalidation refetches, and joins a fetch under way
only while there is no data), a task action of the user in its stages, and
`behind`, the first reason since the last fetch began why the page may be old.

### ClaudeQueue

`waiting`, `active` are the queue's fields, `promise[c]` what the caller was
told, `child[c]` the process ("exited": gone, but its pipes not known to be
closed; "dying": told to stop, not gone), `timer` the
armed hang guards, `entries` the usage window. `Pump` takes as many jobs as
slots are free and refuses those over the throttle, in order. `CallDirectly` is
a call past the queue, between a check and a record of the same throttle.
`Exit` and `Close` are the two events of a child; between them another process
may hold the pipes. `Timeout` of a child that has not exited settles the promise
and frees the slot before the child is gone. Of one that has exited, the abort
reaches nobody: the guard is used up, and the call waits for a 'close' that need
not come (`Hung`).

### WorkSurface

`store` is the draft row, `calls` the handlers in flight with their stage
between two awaits (`model`, `look`, `transport`, `file`, `move`, `learn`,
`reply`), `tab` the cached query, the editor with the version it was seeded from
and the state of its mutation. A body is the number of the generation that
produced it; `clicks` records what was sent, what was on the screen, and how it
ended; `crossed` which kinds of calls overlapped.

### ToneSync, LastWriteWins, Learning

A tone file is its Markdown and its index entry, written one after the other.
`pass[m]` is where `syncToneFiles` of machine `m` stands; `PutServed` is the
server's `putToneFile`, `Adopt` what a machine does with an answer. The clock of
a machine is the time plus its `Skew`. `Learning` adds the calls of
`applyLearning` and of the revert route, the server's changelog and the local
log. The server's row implements `LastWriteWins` under the mapping "the row, if
there is one". Nothing but tests calls `syncToneFiles` at this commit; the run
shows what it will do to a file that also learns.

### Views

The rows the three pages read, changed by the operations of the service that
write them. A page is asked for, its lists are read one by one (`Read`,
`ReadFails`), and what was got is assembled by `Today`, `Board` or `Digest`.
`ServiceDigest` is `getDigestMetadata` of the service on the same rows.

### MetadataService

`tokens` maps a project to its token's hash; `threads` and `rows` are the
tables, `moves` the history of tasks. `Request(p, token)` is the middleware and
one handler: any row id may be named, as an app that was paired with another
project keeps ids. `maker` and `served` are history.

### Setup

`boxes` is the config file, `secrets` the credential store (which submission a
password came from), `calls` the requests under way: a handler updates the file
in one step and then awaits each password in turn. The page is the list query,
the forms of the rows and the mailbox the wizard carries on with.

## Runs

| run | checks | bounds, and why they suffice |
|---|---|---|
| `locks` | `LeaseSafety`, `EditingSpec` (refinement of `ExclusiveEditing`), `NoAbandonedLock`, `PresenceSettles` | two people, a tab each. Jan has two calls in flight, which overtake each other (any but two heartbeats or two releases), and a timeout of 1 tick that is not the default, so that his effect runs again when the settings arrive; Simona has one call and a timeout of 2: one lock expires while the other's reply is on its way. `MCThreadLockTabs.cfg` checks the two safety properties with a second tab of Jan; the proofs cover any number of tabs and calls |
| `imap` | `NeverStranded`, `OneSocket`, `NoEarlyGiveUp`, `Recovers` | three clients: a current one, a replaced one still settling, and a third for a restart meanwhile; give-up at 2 failures, the counter capped above it |
| `sync` | `CursorIsHonest`, `CacheIsMirror`, `TriagedOnce`, `NothingSkipped` | three messages, backlog 1, five mailbox changes, two failures of any kind: an interrupted sync, its retry, and a change in between, also interrupted |
| `threads` | `ThreadsAreConversations`, `ReplyAnswersItsAddressee`, `RootsSettle` | four Message-IDs and three mails of one conversation forest, so that a mail may be missing between two others; two mails with any headers, which is enough for a loop, a duplicate and a mail that names itself |
| `cycle` | `PromiseOnce`, `DaemonKeepsToAutoEdges`, `TaskForEveryMessage` | one daemon, one user with two operations (snooze and send together make a follow-up), two messages of one thread with the same promise, one failure (call, crash or redelivery), a deadline that passes and a snooze set after it |
| `daemon` | `PageIsCurrent`, `MailIsTaken` | two messages (one in the cycle, one that comes meanwhile), one fault of any kind |
| `queue` | `ProcessesBounded`, `OvershootBounded`, `JobsSettle` | four jobs on two slots, one of them essential, and a digest past the queue; throttle 1 in a window of 1: a refused job, a job that waits, usage that leaves the window, one or both slots held by a child whose pipes stay open |
| `work` | `SentOnce`, `LessonIsAboutTheEdit`, `EditorShowsDraft`, `TurnsSurvive` | one tab, two calls in flight, three generations, two clicks, the surface opened twice, one failure: two refines overlap, a refine overlaps a send, a pane is left and opened during either |
| `learning` | `ToneIsTheLog`, `SyncKeepsEdits`, `LastWriteWinsSpec`, `PassConverges` | two machines with a skew, two calls, two lessons, one revert, two passes, one fault: a pass of each machine around a lesson of the other |
| `service` | `TodayDropsNothing`, `LabelsFollowTheOrder`, `BoardAgreesWithToday`, `DigestMirrorsTheService` | two threads with any two tasks, or with a promise each of any deadline; two cards, one write or failed list, three moments |
| `metadata` | `Isolation`, `RowsStayListed`, `MovesAreTheHistory` | two projects, two tokens, two roots, two threads and two rows: each project has one, or one has both |
| `setup` | `SecretsFollowMailboxes`, `ListIsTrue` | one mailbox from an earlier visit and two more submissions, one fault |

Bounds that are not in the code are constants named in the modules (`Slots`,
`Ceiling`, and everything called `Max…`). Each caps the environment, never the
code: when a bound is used up the program goes on without further failures,
changes or users. Deadlock is checked in the runs of components that go on for
ever (a daemon polls again, a surface can be opened again, a connection started
again, a page asked again); it is off in `queue`, `work`, `learning` and
`service`, whose behaviours end when the bounded jobs, clicks, calls or the clock
are used up. Symmetry is used in safety runs only, over messages, ids or
addresses that nothing but equality tells apart.

Every module also has a `TypeOK` (`LocksTypeOK`, `ConnectionTypeOK`, `ViewsTypeOK` and
`ThreadingTypeOK` where another module's proofs meet it). It, and further properties stated in the
modules (`StoppedIsQuiet`, `BacklogKept`, `NudgesDoNotPile`, `OneMailPerClick`,
`SentDraftIsGone`, `ClearedWasSent`, `LessonsAreRecorded`, `RevertedIsGone`,
`RevertIsOffered`, `HashIsOfContent`, `StampsGrow`, `AnnouncedIsTaken`,
`SocketReturns`, `SettledOnce`, `EachMailOnce`), hold on the same instances; to
check one, add it to the `.cfg`. The runs keep to those that tell most.

In `sync`, `NothingSkipped` says where a message behind the cursor may be: the
set `excused` collects those a failure cost (the program's choice, decision D36
of `PLAN.md`), those of the archive beyond the backlog, and nothing else. It and
`TriagedOnce` speak of the first numbering; after a renumbering the code leaves
open what new mail is.

In `queue`, the two bounds are what the code gives, not what one would guess
from its names: a killed child still runs while its slot is used again
(`ProcessesBounded` counts the children that were not told to stop), and
everything that is under way when the limit is reached counts on top of it
(`OvershootBounded`). `JobsSettle` names the jobs that need not settle: those
whose child exited and left its pipes to another process, and those that wait
while every slot is held by such a one.

## Fairness

* `ThreadLock!FairLocksSpec`: time passes and each call in flight is served or fails.
  Nobody has to mount or unmount, no heartbeat has to fire and no settings have to
  arrive.
* `ImapConnection!FairConnectionSpec`: a pending timer fires, an awaited `connect()` or
  `onReady()` settles (weak); a provider that can be reached over and over does
  not break off each single attempt (strong, on `Connected` and
  `ReadyContinues`). That the network returns is the premise of `Recovers`.
* `MailSync!FairSpec` (for `NewMailAppears`): polling goes on: `startDaemon`'s
  interval fires and awaited IMAP calls settle, with an answer or (in `Drop`,
  bounded) an error.
* `DaemonCycle!FairSpec`: each daemon process runs its cycle, and a request a
  user has made is answered. A crash in the middle of a cycle is followed by a
  restart, which polls again.
* `LiveView!FairSpec`: launchd starts the process again, the interval and the
  reconnect timers fire, and the steps of a cycle happen; a call that hangs is a
  fault after which the cycle has no step, and `MailIsTaken` excepts it.
* `ClaudeQueue!FairSpec`: the hang guards fire and SIGKILL works. No child has
  to exit of itself, and no pipe has to close.

No fairness is assumed of users, new mail, failures or mailbox changes.
`WorkSurface`, `Learning`, `Threading`, `Views`, `MetadataService` and `Setup`
are safety specifications: their liveness would only repeat that awaited calls
return.

## Proofs

TLAPS checks these for every value of the constants that satisfies the named
assumptions of the module.

| theorem | says | argument |
|---|---|---|
| `LocksTypeCorrect`, `ConnectionTypeCorrect`, `ViewsTypeCorrect`, `ThreadingTypeCorrect` (each in the module that proves about its component) | the type invariants | inductive, or a consequence of the invariants below |
| `MetadataService_proofs!LeaseInvariant`, `LeaseSafetyHolds` | who counts on an unexpired lease has it on the server, unless its own actor has released it, with any number of tabs, runs of the effect and calls in flight | `LeaseInv`: every positive expiry a session shows or a reply in flight carries, unless undercut, is at most the row's, and the row is that actor's. `LeaseSafety` alone is not inductive, as it does not speak of replies that are still on their way. A step that moves no lock carries leases along (`CarriedSafe`) |
| `MetadataService_proofs!LocksImplementExclusiveEditing` | `ThreadLock` implements `ExclusiveEditing` under the mapping "the actors whose gate is open on an unexpired lease they have not released" | from `LeaseInv`, and from the fact that a step that changes the row's holder makes nobody an editor |
| `LiveView_proofs!ConnectionInvariance` and `NeverStrandedHolds`, `OneSocketHolds`, `StoppedIsQuietHolds` | the three safety properties | `ConnectionInv` adds that the current client is heard (`CurrentHeard`), that a run's stage agrees with its socket and a dead current client is about to be handled (`Progressing`), and that a connect whose continuation is still queued belongs to the current client or to one replaced just now (`QueuedConnect`), so that its reset of `attempt` cannot hide that a later client gave up |
| `LiveView_proofs!TallyHolds`, `NoEarlyGiveUpHolds` | it gives up only after as many failures in a row as configured | `Tally`: the counter is at most the failures in a row, plus one while the failure it already counted is still being handled. `NoEarlyGiveUp` says nothing of the counter below its limit |
| `MailSync_proofs!Invariance`, `CursorIsHonestHolds`, `CacheIsMirrorHolds` | the two cache properties, with any number of messages, changes and failures | `Consistent`: types; the folder row and the poll agree on the numbering; what a FETCH has yet to deliver is a suffix of its range; every message of the range at or below what has been delivered is stored |
| `MailSync_proofs!TrackedHolds`, `TriagedOnceHolds`, `NothingSkippedHolds` | a message is processed once, and none is forgotten but by the failures that excuse it | `Tracked`, on top of `Consistent`: in the first numbering a message of the server is still above the cursor, or in the hands of the one poll that stored it, or processed. The two properties look at the end of that way only |
| `MailSync_proofs!EachMailOnceHolds` | whatever the headers say, every message has one place in the forest and one root above it | no state is involved: a container hangs from nothing or an id, and a rank falls on the way up (`Forest`). The loop check of each link keeps that (`HangingKeepsTheForest`), so every hop and every row does (`WiringKeepsTheForest`, `PlacingHolds`) |
| `MailSync_proofs!ThreadedHolds`, `ThreadsAreConversationsHolds` | rows of one root are linked by names; rows of one conversation have one root when the headers are honest and complete | `Threaded`: the roots are those of the cached rows. A set of rows closed under shared names keeps all it touches, for a link joins two ids one row names and a root lies on the way up (`RootsStayWithTheirRows`). For the converse: ids hang under older ones, so no honest link is refused (`WiringClimbs`), and all of a conversation but its beginning hangs from something (`HonestTreesGrow`) |
| `MailSync_proofs!RootsSettleHolds` | later mail moves no row away from the message that began its conversation | the root of a row belongs to its conversation (`RootsKeepTheBeginning`), and in the next forest too that conversation has one root, its beginning when that is there (`OneConversationOneRoot`) |
| `MailSync_proofs!ReplyAnswersItsAddresseeHolds` | a reply in a regular thread goes to whom it answers | `Threaded`: a thread knows the last row filed under it, and rows never handed on come first. A row with the thread's id has its root: of the rows with an id that is a root, one has that root (`TheRootIsAmongItsRows`) |
| `ClaudeQueue_proofs!GuardedHolds`, `TypeCorrect`, `ProcessesBoundedHolds`, `SettledOnceHolds` | bound on processes; a call settles once and is charged if and only if it was answered | `Guarded`: a job waits once and has no process; `active` is the number of jobs that run, each guarded by its timer unless its child has exited. The bound alone does not say that `active` is right, which is what the pump goes by |
| `ClaudeQueue_proofs!OvershootBoundedHolds` | background work overshoots the throttle by at most what was under way | `Within`: charged and under way together are below the limit by the time the last of them was admitted, plus the room there is. By counting: a pump admits no more than it has slots, and one that finds the throttle closed admits no background job (`FirstEnough`) |
| `WorkSurface_proofs!TypeCorrect` | types of store, calls, tabs, clicks, mails, lessons | inductive; a call's stage fixes what it carries |
| `WorkSurface_proofs!OneMailPerClickHolds` | a click puts at most one mail on its way, from however many tabs | `Mailed`: a send that has not reached the transport has no mail, and no two sends have the same click |
| `WorkSurface_proofs!SentOnceHolds` | a confirmed reply is not sent again | `Sends`: bodies are new when they are generated (`Fresh`); while a send is in flight nothing else of its tab is (`Quiet`); what an editor, a draft or a query can still show of a body that was mailed is either in flight or not confirmed (`Ordered`, `Spent`, `NoResend`). Needed because what is sent next comes from the editor, which holds what a query brought, which a handler read before |
| `WorkSurface_proofs!LessonIsAboutTheEditHolds`, `EditorShowsDraftHolds`, `TurnsSurviveHolds` | a lesson is about the edit; an untouched editor shows its draft; no turn is lost | `Sends` and, as long as what the property excludes has not happened: the draft a send has looked up is the one on the screen (`Single`); of two drafts the tab can meet, equal versions are equal drafts (`Numbered`); the transcript a refine carries begins with the stored one (`Known`) |
| `DaemonCycle_proofs!KeptHolds`, `TypeCorrect`, `AutoEdgesHold` | types; a daemon moves a task only along an auto edge from the state it has then | `Kept`: the ids of a thread's rows are 1, 2, ... in some order, and what a poll or a handler has read names one of them. An update puts its row first (`Updated` says where each row comes from), so rows have to be told by their ids; that the ids are unique and stay is what `Kept` adds |
| `DaemonCycle_proofs!PromiseOnceHolds` | one daemon records a promise of a thread once | `Recorded`: from `listPromises` to `createPromise` the daemon knows every row there is |
| `DaemonCycle_proofs!NudgesDoNotPileHolds` | at most one nudge more than there were faults | `Piled`: without a `DraftMeta`, written or about to be, every nudge of a thread has cost a fault; while one is being filed that holds whether or not the user has drafted since |
| `MetadataService_proofs!Hanging`, `StaysListed`, `Isolated` | no request changes or makes a row of another project (`Isolated`); a row stays in the lists of its project and thread, and in no others (`StaysListed`) | `RowsHang`: every row hangs on the project that made it, through its thread if it has one, and a thread keeps its project. One lemma per write says that it keeps the rows it does not name; `RoutesHang` combines them over the routes |
| `MetadataService_proofs!KeptHolds`, `TypeCorrect`, `HistoryHolds` | the history of a task leads without a gap to its state | `Kept`: the types, and the property itself, stated by the last move after each move (`Later`) so that an appended move is compared with one other move only |
| `Setup_proofs!FollowedHolds`, `SecretsFollow` | a configured mailbox has the passwords of its last submission, a removed one none | `Followed`: one call at a time writes a slot of the store (`OneWriter`), what it has yet to write is what config and last submission ask for (`HalfWritten`), and the rest is as they ask already (`Written`) |
| `Setup_proofs!ListIsTrueHolds` | when nothing is under way the page shows what there is | `Fresh`: until a call gets beyond being sent, what a fetch has read, and what the page shows, is the config |
| `LiveView_proofs!TypeCorrect`, `AnnouncedHolds`, `PageIsCurrentHolds` | when nothing is under way the page shows the project as it is, or one of the seven things `behind` names has happened | `Announced`: as long as none has, an open page with no announcement on its way and no cycle under way shows what there is, or waits for an answer that was read since the last write. `PageIsCurrent` does not speak of an answer that waits |
| `LiveView_proofs!AnnouncedIsTakenHolds` | mail the daemon was told of has been taken when its cycles are over | `Told`: mail waits only if it is about to be told of, or a poll is about to list it |
| `LiveView_proofs!PagesHold`, `TodayDropsNothingHolds` | a thread with work to do all through a Today request is in the queue exactly once | `PagesInv`: a page is that of the lists that came; each of these shows the threads that were open all along, and is current as long as nothing was written. The queue has one card a thread (`QueueIsOneTaskAThread`), and ranking it loses and repeats none (`RankingIsAPermutation`) |
| `LiveView_proofs!LabelsFollowTheOrderHolds` | the labels agree with the order of the cards | the ranker's key begins with the most urgent promise, and the label is monotone in it (`LabelByUrgency`, `LabelIsMonotone`); equal keys fall back to the id, so the ranking is an order (`AheadIsAnOrder`) |
| `LiveView_proofs!BoardAgreesWithTodayHolds`, `DigestMirrorsTheServiceHolds` | every thread is once on the board, in Today's state; the backend's digest is the service's when nothing was written meanwhile | from `PagesInv`; the two ways to choose a thread's task and to cut the window are compared as they are |
| `Learning_proofs!TypeCorrect` | types; what is flagged is an entry; the records of a log are of different entries | types, and `Ids`: a lesson about to be written has an entry that no other call, no log and no revert names |
| `Learning_proofs!RowIsARegister` | the server's row implements `LastWriteWins`, in whatever order machines put and whatever fails | `Served`: the row was put and nothing that was put beats it; what a pass sends is never the empty version. Then from the order of versions (`Order`), put by put |
| `Learning_proofs!SyncKeepsEditsHolds`, `PassConvergesHolds` | a pass replaces nothing by what loses to it; it leaves the server's row | `Undisturbed`: until a call meets a pass, what a machine has sent is what it has, and the answer is not beaten by it. `Alone`, until two passes meet: the answers a pass has are the row, and after its first half the machine has that row or no entry |
| `Learning_proofs!ToneIsTheLogHolds` | the file holds the logged lessons but for the reverted ones, in their order | `Logged`: the property does not say what a revert would restore, so the invariant adds that each record not marked carries the lessons before it that stand, that a marked one was taken out, and that a call in flight still has the file it has read |
| `DaemonCycle_proofs!EndOfDayIsLast` | the instant taken for the end of a local day is the last second of that day, every day of every year | `OneOffset`: the offset of Prague changes only at 01:00 UTC of a Sunday, so it is the same at 22:59:59 and 21:59:59; the second pass therefore finds its fixed point (`SecondPass`). `Civil` need only be a function into the integers |
| `DaemonCycle_proofs!BornOpen`, `NextIsLater` | a promise is not overdue on the local day of its mail; "next" never makes a weekday earlier | ends of days are in the order of the days (`DaysEndInOrder`), and every phrase but "yesterday" looks ahead (`Ahead`) |
| `DaemonCycle_proofs!LaterIsTheSame` | a stored promise evaluated again later is the one its mail would give if reconciled only then, so settling the status early loses nothing | once past due, past due at every later time; a signal settles the status for good |

Hypotheses besides the assumptions on the constants: `LessonIsAboutTheEditHolds`,
`EditorShowsDraftHolds` and `TurnsSurviveHolds` assume `OneTab`: a second tab
keeps a draft of its own, which their invariants do not follow. `PromiseOnceHolds`
and `NudgesDoNotPileHolds` assume `OneDaemon`: two daemons on one mailbox both
find the promise, or the `DraftMeta`, missing. The runs have one of each, too.

The theorems about `Learning` assume `NumberedHash`: the hash of a content, a fold
over its paragraphs, is a number. That holds of every content, and takes an
induction over sequences to prove.

Every safety invariant and action property of the runs is the subject of a
theorem, the refinements included. Only model-checked are the liveness properties:
temporal reasoning under fairness is beyond this prover. Facts about sequences of
any length that need an induction are proved where a number, an id or the height
of a tree can stand for it (`NumberByNumber`, `IdById`, `FromTheTop`, each from the
least element of a set of numbers); a fold over a sequence (`NumberedHash`) is not.

## Seen while modelling

Sentences of a document or comment, or of a screen, that the code does not keep.
Each is stated as a property (where one is named) whose comment says that it
does not hold; the last column says which constants, put into the run's `.cfg`
together with that property, give the counterexample.

| property | the text | the code | to see it |
|---|---|---|---|
| `ThreadLock!OneEditor` | `PROJECT.md:287` "Locks prevent Jan and Simona double-handling a thread" | `sqlite.ts:744` compares the actor only: closing one tab releases the lock under the person's other tab. In one tab, the settings that arrive late make the effect run again (`work-surface-hooks.ts:220`), and the release of the first run may be served after the acquire of the second | `locks`; `MCThreadLockTabs.cfg` |
| `MailSync!NewMailAppears` | `RUNBOOK.md:204` "New mail appears within seconds (IDLE) or within the cold-poll interval." | `mailbox-sync.ts:129`: a connection lost during the flag fetch, after the cursor was advanced, loses the mail just stored. Without CONDSTORE there is no second fetch, and the property holds | `sync` with `FairSpec`, `Faults = {"drop"}`, no symmetry; holds with `Condstore = FALSE` |
| `MailSync!ModseqIsSynced` | `sync-plan.ts:20` "Highest modseq already synced" | `mailbox-sync.ts:181` takes the modseq of the newest fetched message and may jump over a flag change of another | `sync` with `MaxFaults = 0` |
| `DaemonCycle!OneTask` | `cycle.ts:191` "existing task → record ONLY an `auto` transition" | two new messages of one thread in one poll open two tasks (`cycle.ts:201`): the context of both was read before | `cycle` with `MaxFaults = 0` |
| `DaemonCycle!PromisesTracked` | `PROJECT.md:271` "3-way promise tracking" | the second of two messages of a poll expects the state the first has just moved; the 409 ends its processing before its promises are extracted (`cycle.ts:209`) | `cycle` with `MaxFaults = 0`, `Says <- FirstPromises` |
| `DaemonCycle!NudgeComes` | `PROJECT.md:273` "when an inbound promise lapses … it auto-drafts a nudge" | staleness and lapses are looked at only when a message of the thread arrives (`cycle.ts:186`) | `cycle` with `MaxFaults = 0` |
| `Threading!LoneReplyMerges` | `cache-source.ts:112-115` a lone reply "merges correctly once the original or a sibling syncs" | the rows get one root, but each was filed under the service's thread of its first root and nothing moves tasks between threads | `threads` with `MaxWild = 0` |
| `WorkSurface!EditorFollows` | `draft-pane.tsx:119` the body is "RE-seeded whenever a new version arrives (refine)" | versions start at 1 again after a send, and an editor left open takes the new draft for the one it has | `work` |
| `LiveView!PageFollows` | `queryClient.ts:7-9` the push "invalidates `['today']` the instant the backend's data changes, so the polling interval can stay off" | a push while the socket is down or the first fetch is in flight is lost; nothing is fetched when the socket comes back (`useWs.ts:50`) | `daemon` |
| `Views!TilesCountThePastDue` | `shared/src/today.ts:26` "how many of those are past due" | `today-view.ts:110` counts the stored status, which is derived when a promise is recorded: time alone makes none overdue, and `reconcileExisting` (`engines/promise-reconciler.ts:194`), written for that, is called nowhere | `service` |
| `Setup!CarriedIsConfigured` | the last step of the wizard ticks the mailbox as set up (`done-step.tsx`) | the wizard keeps the mailbox it added (`setup-wizard.tsx`) when it is removed in the list of the same page | `setup` |

Also seen, where no property was stated:

* `app.ts:379` calls a tick during a running cycle "coalesced"; `loop.ts:69` drops
  it. Mail announced then waits for the interval (`MailIsTaken` is what remains).
* `runner.ts:10-11`: "on timeout we SIGTERM (then SIGKILL) the child and reject".
  A child that has exited while another process holds its pipes is told nothing:
  the abort emits no 'error', 'close' does not come, so the call stays pending and
  keeps its slot (`JobsSettle` names such calls).
* `draft-pane.tsx:262` tells the person that "the thread moved to waiting"; the
  transition is best effort and its failure is only logged (`app.ts:635`).
* `relative-deadline.ts:235`: "next `<weekday>`" is to be "that weekday in the
  week AFTER the anchor's week"; on a Friday "next Monday" is ten days on
  (`NextIsLater` says what it is). The stripping of leading words (`:179`) takes
  "due" before it tries "due by", so that "due by Friday" has no deadline, and an
  ISO date is looked for before the words are stripped (`:170`), so that
  "by 2026-06-12" has none.
* Two daemons on one mailbox both find a promise missing and record it twice
  (`PromiseOnce` is checked with one daemon).
* After an interrupted first sync the next poll takes itself for a later one and
  hands on the whole archive; a row above the cursor whose message was expunged
  is handed on at every poll (`TriagedOnce` is about messages the server holds).
* The edit gate stays open after a lease has run out without a heartbeat's
  answer (`LeaseSafety` speaks of leases that have not).
* Two drafting calls of one thread lose a turn of the transcript, and one that
  crosses a send brings the sent draft back (`TurnsSurvive`, `SentOnce` and
  `LessonIsAboutTheEdit` name these crossings); when the copy for the Sent folder
  fails the mail is out, but the answer is 500 and the draft stays.
* A lost answer to a lesson leaves it in the changelog without a file or a log
  that has it; a lost answer to a revert leaves an entry no older lesson can be
  reverted past (`ToneIsTheLog` names both).
* A PATCH in flight when its mailbox is removed stores a password nothing refers
  to any more; a config file that does not parse counts as empty, and the next
  change overwrites it (`SecretsFollowMailboxes` excepts both).

## What is not modelled

* Message bodies, attachments, full-text search, wording and rendering: data
  without control. What the language model answers is any answer of the schema.
* The length of delays, and a change of `lockTimeoutMinutes` while a lock is held.
* Settings (`settings/store.ts`: whole-file writes of one user), projects and
  repositories of the config (only appended), the test of a connection (reads).
* The watcher of `imap/watcher.ts`, `engines/folder-mapper.ts`, the thread
  reconciliation and the judge of `engines/ranker.ts`, `repos/scheduler.ts`: no
  running code calls them. The mirrors (`repos/mirror.ts`): a clone or a fetch on
  a button, into a directory nothing reads.
* The shared contract and the client's parsing of it: schemas. The entities appear
  as the rows of `MetadataService`, a failing parse as a failing call.
* The summary of a thread, remembered in memory until the process ends
  (`app.ts:764`): a cache that is never invalidated and of which no document says
  how fresh it is.
* Two steps of one component that never overlap are one step; a metadata request
  is one step (`better-sqlite3` is synchronous); a hash is injective.

The components are composed where they share state: `LiveView` with
`DaemonLoop`, `Learning` with `ToneSync`, `DaemonCycle` and `Views` with
`TaskStates`. The others meet in a call whose outcome the other module leaves
open: the poll of `DaemonCycle` may find any messages (`MailSync` says which),
the tick of `DaemonLoop` finds the link in any state (`ImapConnection` says
which), and `WorkSurface` takes it that its tab holds the lock (`ThreadLock`).
What is left of the plan is a composition of `MailSync` and `DaemonCycle` in
which the messages of a poll come from the cache.
