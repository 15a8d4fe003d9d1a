------------------------------- MODULE LiveView -------------------------------
(***************************************************************************)
(* How a change of the project reaches the Today page: the daemon and the  *)
(* handlers of the API broadcast `today:changed` over a WebSocket          *)
(* (backend/src/api/ws.ts), the page's socket (frontend/src/lib/useWs.ts)  *)
(* hears it and invalidates the query, and the query fetches GET           *)
(* /api/today again (frontend/src/lib/today-hooks.ts).  There is no        *)
(* polling (frontend/src/lib/queryClient.ts): what the push does not bring *)
(* stays unseen.                                                           *)
(*                                                                         *)
(* The query is React Query's (external): an invalidation refetches a      *)
(* mounted query, replacing a fetch under way once there is data, and      *)
(* joining it while there is none.                                         *)
(***************************************************************************)
EXTENDS DaemonLoop

VARIABLES
  page,     \* "today" or "away"
  socket,   \* the page's WebSocket
  frames,   \* a `today:changed` is on its way to the page
  query,    \* the fetch of ['today'] under way
  read,     \* what the handler read for it, as an Answer
  shown,    \* the query's data, as an Answer
  fresh,    \* within staleTime and not invalidated
  act,      \* a task action of the user, as far as it has come
  behind    \* history: the first reason to be behind since the last fetch began

viewVars == <<page, socket, frames, query, read, shown, fresh, behind>>
vars == <<loopVars, viewVars, act>>

\* An answer is told apart by whether the metadata has changed since it was read.
Answer == {"nothing", "current", "old", "partial"}

Aged(answer) == IF answer = "current" THEN "old" ELSE answer

\* A write of the metadata.
Written == read' = Aged(read) /\ shown' = Aged(shown)

Mounted == page = "today"

Since(cause) == IF behind = "nothing" THEN cause ELSE behind

Init ==
  /\ LoopInit
  /\ page = "away" /\ socket = "none" /\ frames = FALSE
  /\ query = "idle" /\ read = "nothing" /\ shown = "nothing" /\ fresh = FALSE
  /\ act = "none" /\ behind = "nothing"

-----------------------------------------------------------------------------
(* broadcast(): a frame to every open socket.  A page that has none does   *)
(* not hear of it later.                                                   *)

BroadcastNothing ==         \* mutant: the change is not announced
  UNCHANGED <<frames, behind>>

Broadcast ==
  /\ frames' = (frames \/ socket = "open")
  /\ behind' = IF socket = "open" \/ ~Mounted THEN behind ELSE Since("offline")

Fetch == query' = "asked" /\ read' = "nothing" /\ behind' = "nothing"

InvalidateJoins ==          \* mutant: joins a fetch under way even when there is data
  IF ~Mounted \/ query # "idle"
    THEN fresh' = FALSE /\ UNCHANGED <<query, read, behind>>
    ELSE fresh' = FALSE /\ Fetch

\* invalidateQueries(['today']).
Invalidate ==
  /\ fresh' = FALSE
  /\ IF ~Mounted
       THEN UNCHANGED <<query, read, behind>>
       ELSE IF query # "idle" /\ shown = "nothing"
         THEN /\ behind' = IF read = "old" THEN Since("joined") ELSE behind
              /\ UNCHANGED <<query, read>>
         ELSE Fetch

-----------------------------------------------------------------------------
(* The page.                                                               *)

\* The page opens: useWsToday connects, the query fetches unless its data is fresh; a
\* fetch left under way by the last visit is joined.
MountToday ==
  /\ ~Mounted
  /\ page' = "today" /\ socket' = "connecting"
  /\ IF query = "idle" /\ ~fresh
       THEN Fetch
       ELSE /\ behind' = IF "old" = (IF query = "idle" THEN shown ELSE read)
                           THEN Since("remount") ELSE behind
            /\ UNCHANGED <<query, read>>
  /\ UNCHANGED <<loopVars, frames, shown, fresh, act>>

\* The effect's cleanup disposes of the socket and its timer; the query stays cached.
UnmountToday ==
  /\ Mounted
  /\ page' = "away" /\ socket' = "none" /\ frames' = FALSE
  /\ UNCHANGED <<loopVars, query, read, shown, fresh, behind, act>>

\* connect(): the handshake succeeds if the backend is up, else onclose follows.
Connect ==
  /\ socket = "connecting"
  /\ socket' = IF daemon = "off" THEN "waiting" ELSE "open"
  /\ UNCHANGED <<loopVars, page, frames, query, read, shown, fresh, behind, act>>

SocketCloses ==
  /\ socket = "open" /\ Fault("socket")
  /\ socket' = "waiting" /\ frames' = FALSE
  /\ behind' = IF frames THEN Since("offline") ELSE behind
  /\ UNCHANGED <<configured, daemon, link, exists, cycle, waiting, batch, overlooked,
                 page, query, read, shown, fresh, act>>

\* scheduleReconnect(): the backoff timer connects again; nothing is fetched.
SocketGivesUp ==            \* mutant: onclose does not schedule a reconnect
  FALSE /\ UNCHANGED vars

SocketRetries ==
  /\ socket = "waiting" /\ socket' = "connecting"
  /\ UNCHANGED <<loopVars, page, frames, query, read, shown, fresh, behind, act>>

\* onmessage: the page invalidates its query.
Hear ==
  /\ frames /\ frames' = FALSE
  /\ Invalidate
  /\ UNCHANGED <<loopVars, page, socket, shown, act>>

-----------------------------------------------------------------------------
(* The fetch.                                                              *)

\* GET /api/today reads the lists of the metadata service.  A list that fails is
\* left out, and the answer is a 200 like any other.
TodayServed ==
  /\ query = "asked" /\ query' = "served" /\ daemon # "off"
  /\ \/ read' = "current" /\ UNCHANGED <<behind, faults>>
     \/ read' = "partial" /\ Fault("list") /\ behind' = Since("partial")
  /\ UNCHANGED <<configured, daemon, link, exists, cycle, waiting, batch, overlooked,
                 page, socket, frames, shown, fresh, act>>

TodayArrives ==
  /\ query = "served"
  /\ query' = "idle" /\ shown' = read /\ read' = "nothing" /\ fresh' = TRUE
  /\ UNCHANGED <<loopVars, page, socket, frames, behind, act>>

\* The fetch and its one retry fail: the old data stays, with an error.
TodayFails ==
  /\ query # "idle"
  /\ \/ daemon = "off" /\ UNCHANGED faults
     \/ Fault("fetch")
  /\ query' = "idle" /\ read' = "nothing" /\ behind' = Since("failed")
  /\ UNCHANGED <<configured, daemon, link, exists, cycle, waiting, batch, overlooked,
                 page, socket, frames, shown, fresh, act>>

\* staleTime passes.
Expire ==
  /\ fresh /\ fresh' = FALSE
  /\ UNCHANGED <<loopVars, page, socket, frames, query, read, shown, behind, act>>

-----------------------------------------------------------------------------
(* Those who change the data.                                              *)

\* The user marks a card done, or snoozes it.
Act ==
  /\ Mounted /\ act = "none" /\ act' = "asked"
  /\ UNCHANGED <<loopVars, viewVars>>

\* The handler's write is served; if its reply is lost the handler fails, and nothing
\* is broadcast.
ActServed ==
  /\ act = "asked" /\ daemon # "off"
  /\ Written
  /\ \/ act' = "replied" /\ Broadcast /\ UNCHANGED faults
     \/ act' = "failed" /\ Fault("reply") /\ behind' = Since("unsaid") /\ UNCHANGED frames
  /\ UNCHANGED <<configured, daemon, link, exists, cycle, waiting, batch, overlooked,
                 page, socket, query, fresh>>

\* The mutation's onSuccess invalidates; its failure does not.
ActSettles ==
  /\ \/ act = "replied" /\ Invalidate
     \/ /\ act = "failed" \/ (act = "asked" /\ daemon = "off")
        /\ UNCHANGED <<query, read, fresh, behind>>
  /\ act' = "none"
  /\ UNCHANGED <<loopVars, page, socket, frames, shown>>

\* "Sync now": on the 202 the query is invalidated, whatever the tick does.
SyncNow ==
  /\ Mounted
  /\ RunCycleNow
  /\ Invalidate
  /\ UNCHANGED <<page, socket, frames, shown, act>>

\* The other machine's app or daemon writes to the shared metadata.
RemoteWrite ==
  /\ Written /\ behind' = Since("remote")
  /\ UNCHANGED <<configured, daemon, link, exists, cycle, waiting, batch, overlooked, faults,
                 page, socket, frames, query, fresh, act>>

ProcessWrites ==
  /\ Process /\ Written
  /\ UNCHANGED <<page, socket, frames, query, fresh, behind, act>>

CycleAnnounced ==
  /\ CycleEnds /\ Broadcast
  /\ UNCHANGED <<page, socket, query, read, shown, fresh, act>>

\* With the process its sockets close, and what it had not announced is not announced.
CrashSeen ==
  /\ Crash
  /\ socket' = IF socket = "open" THEN "waiting" ELSE socket
  /\ frames' = FALSE
  /\ behind' = IF Mounted THEN Since("offline") ELSE behind
  /\ UNCHANGED <<page, query, read, shown, fresh, act>>

-----------------------------------------------------------------------------
Background ==
  /\ \/ Configure \/ Main \/ StartDaemon
     \/ OnReady \/ OnExists \/ Interval
     \/ Poll \/ PollFails \/ Hang
     \/ Arrive \/ Drop \/ Reconnect
  /\ UNCHANGED <<viewVars, act>>

Next ==
  \/ Background \/ ProcessWrites \/ CycleAnnounced \/ CrashSeen
  \/ MountToday \/ UnmountToday \/ Connect \/ SocketCloses \/ SocketRetries \/ Hear
  \/ TodayServed \/ TodayArrives \/ TodayFails \/ Expire
  \/ Act \/ ActServed \/ ActSettles \/ SyncNow \/ RemoteWrite

Spec == Init /\ [][Next]_vars

CycleStep == (Background /\ (Poll \/ PollFails)) \/ ProcessWrites \/ CycleAnnounced

\* launchd, the timers, the network and the calls of a cycle that do not hang.
Fairness ==
  /\ WF_vars(Background /\ (Main \/ StartDaemon \/ OnReady \/ Reconnect))
  /\ WF_vars(Background /\ Interval)
  /\ WF_vars(CycleStep)
  /\ WF_vars(Connect) /\ WF_vars(SocketRetries)

FairSpec == Spec /\ Fairness

-----------------------------------------------------------------------------
\* Types; a frame is on its way on an open socket only, data that is fresh is there.
PageTypeOK ==
  /\ page \in {"today", "away"} /\ (socket = "none") = ~Mounted
  /\ socket \in {"none", "connecting", "open", "waiting"}
  /\ frames \in BOOLEAN /\ (frames => socket = "open")
  /\ query \in {"idle", "asked", "served"} /\ act \in {"none", "asked", "replied", "failed"}
  /\ {read, shown} \subseteq Answer /\ fresh \in BOOLEAN /\ (fresh => shown # "nothing")
  /\ (read # "nothing") = (query = "served")
  /\ behind \in {"nothing", "offline", "joined", "remount", "partial", "failed", "remote", "unsaid"}

TypeOK == LoopTypeOK /\ PageTypeOK

\* Mail the daemon was told of, or that waited for a connection, has been taken by
\* the time its cycles are over, unless since the last listing a tick fell into a
\* running cycle (loop.ts) or a poll failed.
AnnouncedIsTaken ==
  link = "up" /\ ~exists /\ ~running /\ overlooked = {} => waiting = 0

\* When nothing is under way, the open page shows the project as it is, or since its
\* last fetch began one of the seven things named in `behind` happened.  Nothing else
\* is lost between a write and the screen.
PageIsCurrent ==
  Mounted /\ socket = "open" /\ ~frames /\ query = "idle" /\ act = "none" /\ ~running
    => shown = "current" \/ behind # "nothing"

\* queryClient.ts:7-9: freshness comes from the push, so polling can stay off.
\* Does not hold: what is pushed while the socket is down is not asked for later.
PageFollows ==
  Mounted /\ socket = "open" /\ ~frames /\ query = "idle" /\ act = "none" /\ ~running
    /\ behind \notin {"partial", "failed", "remote", "unsaid"}
    => shown = "current"

\* The cold poll makes up for every skipped tick, lost connection and crash: mail of a
\* live daemon is taken in the end, or a cycle hangs.
MailIsTaken == daemon = "live" /\ waiting > 0 ~> waiting = 0 \/ cycle = "hung"

\* An open page has its socket back in the end.
SocketReturns == Mounted ~> socket = "open" \/ ~Mounted
=============================================================================
