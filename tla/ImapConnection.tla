---------------------------- MODULE ImapConnection ----------------------------
(***************************************************************************)
(* ResilientImapConnection (backend/src/imap/connection.ts): the one IMAP  *)
(* connection of a watched mailbox and its reconnection.  ImapFlow does    *)
(* not reconnect by itself; this class opens a client, hears its 'close'   *)
(* and 'error' events, tears it down and schedules the next attempt.       *)
(*                                                                         *)
(* Everything between two awaits is one step: openOnce() is the steps      *)
(* OpenOnce, ConnectContinues and ReadyContinues, with the outcome of      *)
(* connect() settled before its continuation runs, so that a stop(), a     *)
(* restart or a drop may come in between.                                  *)
(***************************************************************************)
EXTENDS Integers

CONSTANTS
  Clients,      \* bound: client objects alive at once (ids are reused)
  NoClient,     \* `null`
  MaxAttempts,  \* options.maxAttempts; above Ceiling it never gives up
  Ceiling       \* bound: the attempt at which backoffDelay stays at maxMs

ASSUME NoClientAssumption == NoClient \notin Clients
ASSUME AttemptsAssumption == MaxAttempts \in Nat /\ Ceiling \in Nat

VARIABLES
  current,    \* this.current
  attempt,    \* this.attempt
  stopped,    \* this.stopped
  timer,      \* this.reconnectTimer is pending
  run,        \* where each client's openOnce() stands
  sock,       \* each client's socket (external: ImapFlow)
  heard,      \* the clients with listeners in this.unsubscribers
  network,    \* the provider can be reached and accepts the login (external)
  failed      \* history: connects that failed since the last one succeeded

conn == <<current, attempt, stopped, timer>>
connectionVars == <<current, attempt, stopped, timer, run, sock, heard, network, failed>>

Stages == {"none", "connecting", "connected", "rejected", "preparing"}

ConnectionTypeOK ==
  /\ current \in Clients \union {NoClient}
  /\ attempt \in 0..Ceiling /\ attempt <= MaxAttempts
  /\ stopped \in BOOLEAN
  /\ timer \in BOOLEAN
  /\ run \in [Clients -> Stages]
  /\ sock \in [Clients -> {"closed", "opening", "open"}]
  /\ heard \subseteq Clients
  /\ network \in BOOLEAN
  /\ failed \in 0..Ceiling

ConnectionInit ==
  /\ current = NoClient
  /\ attempt = 0
  /\ stopped = TRUE
  /\ timer = FALSE
  /\ run = [c \in Clients |-> "none"]
  /\ sock = [c \in Clients |-> "closed"]
  /\ heard = {}
  /\ network = TRUE
  /\ failed = 0

-----------------------------------------------------------------------------
(* The private methods.                                                    *)

\* teardownCurrent(): drop every listener, close the current client.
TeardownNoClose(sk) ==      \* mutant: the current client is forgotten, not closed
  heard' = {} /\ sock' = sk /\ current' = NoClient

Teardown(sk) ==
  /\ heard' = {}
  /\ sock' = [c \in Clients |-> IF c = current THEN "closed" ELSE sk[c]]
  /\ current' = NoClient

\* openOnce() up to its first await: a fresh client, listeners before connect.
OpenOnce ==
  \E c \in Clients :
    /\ run[c] = "none" /\ sock[c] = "closed" /\ c # current
    /\ current' = c
    /\ heard' = heard \union {c}
    /\ run' = [run EXCEPT ![c] = "connecting"]
    /\ sock' = [sock EXCEPT ![c] = "opening"]

OneMore(n) == IF n < Ceiling THEN n + 1 ELSE n

\* scheduleReconnect(): give up at maxAttempts, else arm the timer.
ScheduleNone ==             \* mutant: a drop is not followed by an attempt
  UNCHANGED <<attempt, timer>>

ScheduleOneMore ==          \* mutant: off by one at the limit
  IF attempt > MaxAttempts
    THEN UNCHANGED <<attempt, timer>>
    ELSE attempt' = OneMore(attempt) /\ timer' = TRUE

ScheduleReconnect ==
  IF attempt >= MaxAttempts
    THEN UNCHANGED <<attempt, timer>>
    ELSE attempt' = OneMore(attempt) /\ timer' = TRUE

\* handleDrop(): ignored once stopped, and for a client that was replaced.
\* `sk` is what the drop itself did to the sockets.
HandleDrop(c, sk) ==
  IF stopped \/ current # c
    THEN sock' = sk /\ UNCHANGED <<current, heard, attempt, timer>>
    ELSE Teardown(sk) /\ ScheduleReconnect

-----------------------------------------------------------------------------
(* The public methods.  The daemon starts its connection once; a restart   *)
(* follows a stop.                                                         *)

Start ==
  /\ stopped
  /\ stopped' = FALSE
  /\ attempt' = 0
  /\ OpenOnce
  /\ UNCHANGED <<timer, network, failed>>

StopKeepsTimer ==           \* mutant: the pending reconnect is not cancelled
  /\ ~stopped
  /\ stopped' = TRUE
  /\ Teardown(sock)
  /\ UNCHANGED <<timer, attempt, run, network, failed>>

Stop ==
  /\ ~stopped
  /\ stopped' = TRUE
  /\ timer' = FALSE
  /\ Teardown(sock)
  /\ UNCHANGED <<attempt, run, network, failed>>

-----------------------------------------------------------------------------
(* Timers, ImapFlow and the provider.                                      *)

\* Promise continuations run before the next timer or socket event: those wait
\* until no continuation of a settled connect() is queued.  stop() and start()
\* do not wait, since another continuation may call them.
Drained == \A c \in Clients : run[c] \notin {"connected", "rejected"}

\* The reconnect timer fires and calls openOnce().
TimerFires ==
  /\ Drained
  /\ timer
  /\ timer' = FALSE
  /\ OpenOnce
  /\ UNCHANGED <<attempt, stopped, network, failed>>

\* connect() succeeds, and its continuation is queued.
Connected(c) ==
  /\ Drained
  /\ run[c] = "connecting" /\ sock[c] = "opening" /\ network
  /\ run' = [run EXCEPT ![c] = "connected"]
  /\ sock' = [sock EXCEPT ![c] = "open"]
  /\ UNCHANGED <<conn, heard, network, failed>>

\* connect() rejects: the provider refused, or the client was closed.
Rejected(c) ==
  /\ Drained
  /\ run[c] = "connecting" /\ (~network \/ sock[c] = "closed")
  /\ run' = [run EXCEPT ![c] = "rejected"]
  /\ sock' = [sock EXCEPT ![c] = "closed"]
  /\ failed' = IF sock[c] = "opening" THEN OneMore(failed) ELSE failed
  /\ UNCHANGED <<conn, heard, network>>

\* A 'close' or 'error' event: the socket dies, and a listener hears it.
Dropped(c) ==
  /\ Drained
  /\ sock[c] # "closed"
  /\ IF c \in heard
       THEN HandleDrop(c, [sock EXCEPT ![c] = "closed"])
       ELSE sock' = [sock EXCEPT ![c] = "closed"] /\ UNCHANGED <<current, heard, attempt, timer>>
  /\ failed' = IF sock[c] = "opening" THEN OneMore(failed) ELSE failed
  /\ UNCHANGED <<stopped, run, network>>

NetworkChanges == network' = ~network /\ UNCHANGED <<conn, run, sock, heard, failed>>

-----------------------------------------------------------------------------
(* The continuations of openOnce().                                        *)

\* After `await client.connect()`.
ConnectedNoReset(c) ==      \* mutant: a clean connect does not reset the backoff
  /\ run[c] = "connected"
  /\ IF stopped
       THEN /\ run' = [run EXCEPT ![c] = "none"]
            /\ Teardown(sock)
            /\ UNCHANGED <<attempt, failed>>
       ELSE /\ run' = [run EXCEPT ![c] = "preparing"]
            /\ failed' = 0
            /\ UNCHANGED <<attempt, current, heard, sock>>
  /\ UNCHANGED <<stopped, timer, network>>

ConnectContinues(c) ==
  /\ run[c] = "connected"
  /\ IF stopped
       THEN /\ run' = [run EXCEPT ![c] = "none"]
            /\ Teardown(sock)
            /\ UNCHANGED <<attempt, failed>>
       ELSE /\ run' = [run EXCEPT ![c] = "preparing"]
            /\ attempt' = 0
            /\ failed' = 0
            /\ UNCHANGED <<current, heard, sock>>
  /\ UNCHANGED <<stopped, timer, network>>

\* The catch of connect(), or of onReady(): handleDrop.
FailureContinues(c) ==
  /\ \/ run[c] = "rejected"
     \/ run[c] = "preparing" /\ (~network \/ sock[c] = "closed")
  /\ run' = [run EXCEPT ![c] = "none"]
  /\ HandleDrop(c, sock)
  /\ UNCHANGED <<stopped, network, failed>>

\* onReady() succeeds: the mailbox is watched.
ReadyContinues(c) ==
  /\ run[c] = "preparing" /\ network /\ sock[c] = "open"
  /\ run' = [run EXCEPT ![c] = "none"]
  /\ UNCHANGED <<conn, sock, heard, network, failed>>

Settle(c) ==
  \/ Connected(c) \/ Rejected(c)
  \/ ConnectContinues(c) \/ FailureContinues(c) \/ ReadyContinues(c)

ConnectionNext ==
  \/ Start \/ Stop \/ TimerFires \/ NetworkChanges
  \/ \E c \in Clients : Settle(c) \/ Dropped(c)

ConnectionSpec == ConnectionInit /\ [][ConnectionNext]_connectionVars

\* Timers fire, and a pending connect() or onReady() settles; a provider that
\* can be reached does not break every single attempt off.  Nobody has to start
\* or stop the connection, and the network need not come back.
FairConnectionSpec ==
  /\ ConnectionSpec
  /\ WF_connectionVars(TimerFires)
  /\ \A c \in Clients : WF_connectionVars(Settle(c))
  /\ SF_connectionVars(\E c \in Clients : Connected(c))
  /\ SF_connectionVars(\E c \in Clients : ReadyContinues(c))

-----------------------------------------------------------------------------
Watching == current # NoClient /\ sock[current] = "open" /\ run[current] = "none"

\* The connection gave up after maxAttempts, which the live daemon never does.
GaveUp == attempt >= MaxAttempts

\* While the connection is meant to be up, something always carries it on: a
\* client whose death will be noticed (its listeners are on, or its failed
\* connect is about to be handled) or a pending timer.  Otherwise it gave up.
NeverStranded ==
  ~stopped =>
    \/ current # NoClient /\ (sock[current] = "closed" => run[current] = "rejected")
                          /\ current \in heard
    \/ timer
    \/ GaveUp

\* At most one socket to the provider, whose connection caps are tight: none
\* leaks when a drop, a stop or a restart overlaps an attempt in flight, and
\* no attempt is scheduled beside a live client.
OneSocket ==
  /\ \A c \in Clients : sock[c] # "closed" => c = current
  /\ timer => current = NoClient

\* After stop() nothing is open, nothing is scheduled, and a continuation that
\* was in flight does not revive the connection.
StoppedIsQuiet == stopped => current = NoClient /\ ~timer /\ heard = {}

\* "Give up after this many consecutive failed attempts": never after fewer.
NoEarlyGiveUp ==
  ~stopped /\ current = NoClient /\ ~timer => failed >= MaxAttempts

\* Once the provider stays reachable, the mailbox is watched again and again
\* whatever drops occur, unless the connection is stopped or gave up.
Recovers == <>[]network => []<>(Watching \/ stopped \/ GaveUp)

=============================================================================
