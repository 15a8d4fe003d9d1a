---------------------------- MODULE LiveView_proofs ----------------------------
(***************************************************************************)
(* Theorems about the way from the provider to the page: the IMAP          *)
(* connection (ImapConnection), for any set of client objects and any      *)
(* give-up threshold; the daemon's loop over it (DaemonLoop) and the live  *)
(* Today page (LiveView), for any amount of mail and of faults; and what   *)
(* the pages show (Views), for any rows, any writes between the calls and  *)
(* any cap on the cards.                                                   *)
(*                                                                         *)
(* Of the page: a fetch that began after the last write brings the project *)
(* as it is, and what was written since is announced or the write's cycle  *)
(* is still running; every way out of that is named in `behind`            *)
(* (Announced).                                                            *)
(***************************************************************************)
EXTENDS LiveView, ImapConnection, Views, FiniteSetTheorems, SequenceTheorems,
        WellFoundedInduction, TLAPS

(* The connection.                                                         *)

\* The inductive invariant.  What NeverStranded needs of the steps in between:
\* a client is current only while the connection is started and its listeners
\* are on, and a queued continuation agrees with its client's socket.
CurrentHeard == current # NoClient => ~stopped /\ current \in heard

\* A socket closed by an event belongs to no current client; the only closed
\* current client is one whose rejected connect is about to be handled.
Progressing ==
  \A c \in Clients :
    /\ run[c] = "connecting" => sock[c] # "open"
    /\ run[c] # "connecting" => sock[c] # "opening"
    /\ c = current /\ sock[c] = "closed" => run[c] = "rejected"

\* A connect that succeeded and still awaits its continuation belongs to the
\* current client, or to one that a stop() and a start() replaced just now: its
\* continuation, which resets `attempt`, cannot hide that a later client gave up.
QueuedConnect ==
  \A c \in Clients : run[c] = "connected" /\ ~stopped =>
    \/ c = current
    \/ current # NoClient /\ run[current] = "connecting"

ConnectionInv ==
  /\ CurrentHeard
  /\ QueuedConnect
  /\ Progressing
  /\ NeverStranded
  /\ OneSocket
  /\ StoppedIsQuiet

-----------------------------------------------------------------------------
LEMMA OneMoreFacts == ASSUME NEW n \in 0..Ceiling PROVE OneMore(n) \in 0..Ceiling
  BY AttemptsAssumption DEF OneMore

\* Every variable keeps its type, and the attempt counter stays at or below the
\* give-up threshold.
THEOREM ConnectionTypeCorrect == ConnectionSpec => []ConnectionTypeOK
<1>1. ConnectionInit => ConnectionTypeOK
  <2> SUFFICES ASSUME ConnectionInit PROVE ConnectionTypeOK
    OBVIOUS
  <2>1. attempt \in 0..Ceiling /\ attempt <= MaxAttempts /\ failed \in 0..Ceiling
    BY AttemptsAssumption DEF ConnectionInit
  <2>2. run \in [Clients -> Stages] /\ sock \in [Clients -> {"closed", "opening", "open"}]
    BY DEF ConnectionInit, Stages
  <2> QED BY <2>1, <2>2 DEF ConnectionInit, ConnectionTypeOK
<1>2. ConnectionTypeOK /\ [ConnectionNext]_connectionVars => ConnectionTypeOK'
  <2> SUFFICES ASSUME ConnectionTypeOK, [ConnectionNext]_connectionVars PROVE ConnectionTypeOK'
    OBVIOUS
  <2> USE AttemptsAssumption, OneMoreFacts DEF ConnectionTypeOK, Stages
  <2>1. CASE Start
    <3>1. run' \in [Clients -> Stages] /\ sock' \in [Clients -> {"closed", "opening", "open"}]
      BY <2>1 DEF Start, OpenOnce
    <3>2. current' \in Clients /\ heard' \subseteq Clients
      BY <2>1 DEF Start, OpenOnce
    <3>3. attempt' \in 0..Ceiling /\ attempt' <= MaxAttempts
      BY <2>1 DEF Start
    <3> QED BY <2>1, <3>1, <3>2, <3>3 DEF Start
  <2>2. CASE Stop
    BY <2>2 DEF Stop, Teardown
  <2>3. CASE TimerFires
    BY <2>3 DEF TimerFires, OpenOnce
  <2>4. CASE NetworkChanges
    BY <2>4 DEF NetworkChanges, conn
  <2>5. ASSUME NEW c \in Clients, NEW sk \in [Clients -> {"closed", "opening", "open"}],
               HandleDrop(c, sk)
        PROVE  /\ current' \in Clients \union {NoClient} /\ heard' \subseteq Clients
               /\ sock' \in [Clients -> {"closed", "opening", "open"}]
               /\ attempt' \in 0..Ceiling /\ attempt' <= MaxAttempts /\ timer' \in BOOLEAN
    <3>1. attempt' \in 0..Ceiling /\ attempt' <= MaxAttempts
      BY <2>5 DEF HandleDrop, ScheduleReconnect, OneMore
    <3>2. timer' \in BOOLEAN
      BY <2>5 DEF HandleDrop, ScheduleReconnect
    <3> QED BY <2>5, <3>1, <3>2 DEF HandleDrop, Teardown
  <2>6. ASSUME NEW c \in Clients, Dropped(c) PROVE ConnectionTypeOK'
    BY <2>5, <2>6 DEF Dropped
  <2>7. ASSUME NEW c \in Clients, Settle(c) PROVE ConnectionTypeOK'
    <3>1. CASE Connected(c) \/ Rejected(c) \/ ReadyContinues(c)
      BY <3>1 DEF Connected, Rejected, ReadyContinues, conn
    <3>2. CASE ConnectContinues(c)
      BY <3>2 DEF ConnectContinues, Teardown
    <3>3. CASE FailureContinues(c)
      BY <2>5, <3>3 DEF FailureContinues
    <3> QED BY <2>7, <3>1, <3>2, <3>3 DEF Settle
  <2>8. CASE UNCHANGED connectionVars
    BY <2>8 DEF connectionVars
  <2> QED BY <2>1, <2>2, <2>3, <2>4, <2>6, <2>7, <2>8 DEF ConnectionNext
<1>3. QED BY <1>1, <1>2, PTL DEF ConnectionSpec

\* What an attempt establishes, from start() or from the timer.
LEMMA OpenKeepsInv ==
  ASSUME ConnectionTypeOK, ConnectionInv, OpenOnce, current = NoClient, ~stopped', ~timer'
  PROVE  ConnectionInv'
  BY NoClientAssumption
  DEF ConnectionTypeOK, ConnectionInv, OpenOnce, CurrentHeard, QueuedConnect, Progressing, NeverStranded,
      OneSocket, StoppedIsQuiet

\* What a drop leaves behind: a timer, or the give-up.
LEMMA DropKeepsInv ==
  ASSUME ConnectionTypeOK, ConnectionInv, NEW c \in Clients,
         \/ Dropped(c)
         \/ FailureContinues(c)
  PROVE  ConnectionInv'
  BY NoClientAssumption
  DEF ConnectionTypeOK, ConnectionInv, Dropped, FailureContinues, HandleDrop, Teardown, ScheduleReconnect,
      Drained, CurrentHeard, QueuedConnect, Progressing, NeverStranded, OneSocket,
      StoppedIsQuiet, GaveUp

THEOREM ConnectionInvariance == ConnectionSpec => []ConnectionInv
<1>1. ConnectionInit => ConnectionInv
  BY NoClientAssumption
  DEF ConnectionInit, ConnectionInv, CurrentHeard, QueuedConnect, Progressing, NeverStranded, OneSocket, StoppedIsQuiet
<1>2. ConnectionTypeOK /\ ConnectionInv /\ [ConnectionNext]_connectionVars => ConnectionInv'
  <2> SUFFICES ASSUME ConnectionTypeOK, ConnectionInv, [ConnectionNext]_connectionVars PROVE ConnectionInv'
    OBVIOUS
  <2>a. /\ stopped => current = NoClient /\ ~timer /\ heard = {}
        /\ timer => current = NoClient
    BY DEF ConnectionInv, OneSocket, StoppedIsQuiet
  <2>1. CASE Start
    BY <2>1, <2>a, OpenKeepsInv DEF Start
  <2>2. CASE Stop
    BY <2>2, NoClientAssumption
    DEF ConnectionTypeOK, ConnectionInv, Stop, Teardown, CurrentHeard, QueuedConnect, Progressing, NeverStranded,
        OneSocket, StoppedIsQuiet
  <2>3. CASE TimerFires
    BY <2>3, <2>a, OpenKeepsInv DEF TimerFires
  <2>4. CASE NetworkChanges \/ UNCHANGED connectionVars
    BY <2>4 DEF NetworkChanges, conn, connectionVars, ConnectionInv, CurrentHeard, QueuedConnect, Progressing,
                NeverStranded, OneSocket, StoppedIsQuiet, GaveUp
  <2>5. ASSUME NEW c \in Clients, Dropped(c) PROVE ConnectionInv'
    BY <2>5, DropKeepsInv
  <2>6. ASSUME NEW c \in Clients, Settle(c) PROVE ConnectionInv'
    <3>1. CASE Connected(c)
      <4>1. run' \in [Clients -> Stages] /\ run'[c] # "connecting"
        BY <3>1 DEF ConnectionTypeOK, Connected, Stages
      <4>2. QueuedConnect'
        <5>1. c = current'
          BY <3>1 DEF Connected, conn, ConnectionInv, OneSocket
        <5>2. \A d \in Clients : d # c => run'[d] # "connected"
          BY <3>1 DEF Connected, Drained, ConnectionTypeOK
        <5> QED BY <5>1, <5>2 DEF QueuedConnect
      <4>3. Progressing'
        BY <3>1 DEF ConnectionTypeOK, ConnectionInv, Connected, conn, Progressing
      <4> QED BY <3>1, <4>2, <4>3
              DEF ConnectionTypeOK, ConnectionInv, Connected, conn, CurrentHeard, NeverStranded, Progressing,
                  OneSocket, StoppedIsQuiet, GaveUp
    <3>5. CASE Rejected(c)
      <4>1. run' \in [Clients -> Stages] /\ run'[c] # "connecting"
        BY <3>5 DEF ConnectionTypeOK, Rejected, Stages
      <4>2. QueuedConnect'
        BY <3>5 DEF ConnectionTypeOK, ConnectionInv, Rejected, Drained, conn, QueuedConnect, OneSocket
      <4>3. Progressing'
        BY <3>5 DEF ConnectionTypeOK, ConnectionInv, Rejected, conn, Progressing
      <4> QED BY <3>5, <4>2, <4>3
              DEF ConnectionTypeOK, ConnectionInv, Rejected, conn, CurrentHeard, NeverStranded, Progressing,
                  OneSocket, StoppedIsQuiet, GaveUp
    <3>2. CASE ConnectContinues(c)
      BY <3>2, <2>a, NoClientAssumption
      DEF ConnectionTypeOK, ConnectionInv, ConnectContinues, Teardown, CurrentHeard, QueuedConnect, Progressing,
          NeverStranded, OneSocket, StoppedIsQuiet, GaveUp
    <3>3. CASE FailureContinues(c)
      BY <3>3, DropKeepsInv
    <3>4. CASE ReadyContinues(c)
      BY <3>4 DEF ConnectionTypeOK, ConnectionInv, ReadyContinues, conn, CurrentHeard, QueuedConnect, Progressing,
                  NeverStranded, OneSocket, StoppedIsQuiet, GaveUp
    <3> QED BY <2>6, <3>1, <3>2, <3>3, <3>4, <3>5 DEF Settle
  <2> QED BY <2>1, <2>2, <2>3, <2>4, <2>5, <2>6 DEF ConnectionNext
<1>3. QED BY <1>1, <1>2, ConnectionTypeCorrect, PTL DEF ConnectionSpec

-----------------------------------------------------------------------------
\* While it is meant to be up, the connection is heard, retried, or given up.
THEOREM NeverStrandedHolds == ConnectionSpec => []NeverStranded
  BY ConnectionInvariance, PTL DEF ConnectionInv

\* No drop, stop or restart in the middle of an attempt leaks a second socket.
THEOREM OneSocketHolds == ConnectionSpec => []OneSocket
  BY ConnectionInvariance, PTL DEF ConnectionInv

\* A continuation in flight at stop() does not revive the connection.
THEOREM StoppedIsQuietHolds == ConnectionSpec => []StoppedIsQuiet
  BY ConnectionInvariance, PTL DEF ConnectionInv

-----------------------------------------------------------------------------
(* Giving up.                                                              *)

\* What the attempt counter may owe to failures: it is one ahead of them while
\* an attempt runs, level with them once it was rejected, and back at zero from
\* the moment a connect succeeded.
Counted ==
  ~stopped =>
    /\ attempt <= failed + 1
    /\ current # NoClient =>
         /\ run[current] = "rejected" => attempt <= failed
         /\ run[current] \in {"none", "preparing"} => attempt = 0

Tally == Counted /\ NoEarlyGiveUp

LEMMA CaughtUp ==
  ASSUME NEW a \in 0..Ceiling, NEW f \in 0..Ceiling, a <= f + 1
  PROVE  a <= OneMore(f)
  BY AttemptsAssumption DEF OneMore

\* The handling of a drop or a rejection, if the failure has been counted.
LEMMA HandleDropTally ==
  ASSUME ConnectionTypeOK, ConnectionTypeOK', ConnectionInv, Tally, NEW c \in Clients, NEW sk, HandleDrop(c, sk),
         UNCHANGED stopped, failed <= failed',
         c = current => run'[c] = "none" \/ run' = run,
         \A d \in Clients : d # c => run'[d] = run[d],
         current = c /\ ~stopped => attempt <= failed',
         current # c /\ ~stopped => failed' = failed
  PROVE  Tally'
  <1>1. attempt \in 0..Ceiling /\ failed \in 0..Ceiling /\ failed' \in 0..Ceiling
    BY DEF ConnectionTypeOK
  <1> SUFFICES ASSUME ~stopped PROVE Tally'
    BY DEF Tally, Counted, NoEarlyGiveUp
  <1>2. CASE current # c
    <2>1. UNCHANGED <<current, attempt, timer, stopped, failed>>
      BY <1>2 DEF HandleDrop
    <2>2. current # NoClient => run'[current] = run[current]
      BY <1>2 DEF ConnectionTypeOK
    <2> QED BY <2>1, <2>2 DEF Tally, Counted, NoEarlyGiveUp
  <1>3. CASE current = c
    <2>1. current' = NoClient /\ ScheduleReconnect
      BY <1>3 DEF HandleDrop, Teardown
    <2>2. attempt <= failed' /\ ~stopped'
      BY <1>3
    <2>3. attempt >= MaxAttempts \/ (attempt' = OneMore(attempt) /\ timer')
      BY <2>1 DEF ScheduleReconnect
    <2>4. attempt' = attempt \/ attempt' = OneMore(attempt)
      BY <2>1 DEF ScheduleReconnect
    <2>5. attempt' <= failed' + 1
      BY <1>1, <2>2, <2>4 DEF OneMore
    <2>6. ~timer' => failed' >= MaxAttempts
      BY <1>1, <2>2, <2>3, AttemptsAssumption
    <2> QED BY <2>1, <2>2, <2>5, <2>6 DEF Tally, Counted, NoEarlyGiveUp
  <1> QED BY <1>2, <1>3

LEMMA DroppedTally ==
  ASSUME ConnectionTypeOK, ConnectionTypeOK', ConnectionInv, Tally, NEW c \in Clients, Dropped(c)
  PROVE  Tally'
  <1>1. /\ run[c] \notin {"connected", "rejected"} /\ sock[c] # "closed" /\ run' = run
        /\ UNCHANGED stopped
        /\ failed' = IF sock[c] = "opening" THEN OneMore(failed) ELSE failed
    BY DEF Dropped, Drained
  <1>2. attempt \in 0..Ceiling /\ failed \in 0..Ceiling
    BY DEF ConnectionTypeOK
  <1>3. failed <= failed'
    BY <1>1, <1>2 DEF OneMore
  <1>4. c = current
    BY <1>1 DEF ConnectionInv, OneSocket
  <1>5. ~stopped => attempt <= failed'
    <2>1. CASE sock[c] = "opening"
      BY <1>1, <1>2, <2>1, CaughtUp DEF Tally, Counted
    <2>2. CASE sock[c] # "opening"
      <3>1. run[c] \in {"none", "preparing"}
        BY <1>1, <2>2 DEF ConnectionTypeOK, Stages, ConnectionInv, Progressing
      <3>2. c # NoClient
        BY NoClientAssumption
      <3>3. ~stopped => attempt = 0
        BY <1>4, <3>1, <3>2 DEF Tally, Counted
      <3> QED BY <1>1, <1>2, <2>2, <3>3, AttemptsAssumption
    <2> QED BY <2>1, <2>2
  <1>6. CASE c \in heard
    <2>1. HandleDrop(c, [sock EXCEPT ![c] = "closed"])
      BY <1>6 DEF Dropped
    <2> QED BY <1>1, <1>3, <1>4, <1>5, <2>1, HandleDropTally
  <1>7. CASE c \notin heard
    BY <1>4, <1>7, NoClientAssumption DEF ConnectionInv, CurrentHeard
  <1> QED BY <1>6, <1>7

LEMMA SettleTally ==
  ASSUME ConnectionTypeOK, ConnectionTypeOK', ConnectionInv, Tally, NEW c \in Clients, Settle(c)
  PROVE  Tally'
  <1>1. /\ attempt \in 0..Ceiling /\ failed \in 0..Ceiling /\ failed' \in 0..Ceiling
        /\ run \in [Clients -> Stages] /\ c # NoClient
    BY NoClientAssumption DEF ConnectionTypeOK
  <1>2. CASE Connected(c) \/ Rejected(c)
    <2>1. /\ UNCHANGED <<current, attempt, stopped, timer>>
          /\ run[c] = "connecting"
          /\ \A d \in Clients : d # c => run'[d] = run[d]
          /\ run'[c] \in {"connected", "rejected"}
      BY <1>1, <1>2 DEF Connected, Rejected, conn
    <2>2. failed <= failed'
      BY <1>1, <1>2 DEF Connected, Rejected, OneMore
    <2>3. run'[c] = "rejected" /\ c = current /\ ~stopped => attempt <= failed'
      <3> SUFFICES ASSUME run'[c] = "rejected", c = current, ~stopped
                   PROVE  attempt <= failed'
        OBVIOUS
      <3>1. Rejected(c)
        BY <1>1, <1>2 DEF Connected
      <3>2. sock[c] = "opening"
        BY <2>1 DEF ConnectionTypeOK, ConnectionInv, Progressing
      <3> QED BY <1>1, <3>1, <3>2, CaughtUp DEF Rejected, Tally, Counted
    <2>4. NoEarlyGiveUp'
      BY <1>1, <2>1, <2>2, AttemptsAssumption DEF Tally, NoEarlyGiveUp
    <2>5. Counted'
      <3> SUFFICES ASSUME ~stopped PROVE Counted'
        BY <2>1 DEF Counted
      <3>1. attempt' <= failed' + 1
        BY <1>1, <2>1, <2>2 DEF Tally, Counted
      <3>2. ASSUME current # NoClient
            PROVE  /\ run'[current] = "rejected" => attempt <= failed'
                   /\ run'[current] \in {"none", "preparing"} => attempt = 0
        <4>1. CASE current = c
          BY <2>1, <2>3, <4>1
        <4>2. CASE current # c
          <5>1. run'[current] = run[current]
            BY <2>1, <3>2, <4>2 DEF ConnectionTypeOK
          <5> QED BY <1>1, <2>2, <3>2, <5>1 DEF Tally, Counted
        <4> QED BY <4>1, <4>2
      <3> QED BY <2>1, <3>1, <3>2 DEF Counted
    <2> QED BY <2>4, <2>5 DEF Tally
  <1>3. CASE ConnectContinues(c)
    <2>1. CASE stopped
      BY <1>3, <2>1 DEF ConnectContinues, Tally, Counted, NoEarlyGiveUp
    <2>2. CASE ~stopped
      <3>1. attempt' = 0 /\ failed' = 0 /\ UNCHANGED <<current, stopped, timer>>
            /\ run' = [run EXCEPT ![c] = "preparing"] /\ run[c] = "connected"
        BY <1>3, <2>2 DEF ConnectContinues
      <3>2. current # NoClient
        BY <1>1, <2>2, <3>1 DEF ConnectionInv, QueuedConnect
      <3> QED BY <3>1, <3>2 DEF Tally, Counted, NoEarlyGiveUp
    <2> QED BY <2>1, <2>2
  <1>4. CASE FailureContinues(c)
    <2>1. /\ HandleDrop(c, sock) /\ UNCHANGED <<stopped, failed>>
          /\ run' = [run EXCEPT ![c] = "none"] /\ run[c] \in {"rejected", "preparing"}
      BY <1>4 DEF FailureContinues
    <2>2. run'[c] = "none" /\ \A d \in Clients : d # c => run'[d] = run[d]
      BY <1>1, <2>1
    <2>3. failed <= failed'
      BY <1>1, <2>1
    <2>4. current = c /\ ~stopped => attempt <= failed'
      BY <1>1, <2>1 DEF Tally, Counted
    <2> QED BY <2>1, <2>2, <2>3, <2>4, HandleDropTally
  <1>5. CASE ReadyContinues(c)
    <2>1. /\ UNCHANGED <<current, attempt, stopped, timer, failed>>
          /\ run[c] = "preparing" /\ run'[c] = "none"
          /\ \A d \in Clients : d # c => run'[d] = run[d]
      BY <1>1, <1>5 DEF ReadyContinues, conn
    <2>2. current # NoClient => current \in Clients
      BY DEF ConnectionTypeOK
    <2> QED BY <2>1, <2>2 DEF Tally, Counted, NoEarlyGiveUp
  <1> QED BY <1>2, <1>3, <1>4, <1>5 DEF Settle

LEMMA NextTally ==
  ASSUME ConnectionTypeOK, ConnectionTypeOK', ConnectionInv, Tally, [ConnectionNext]_connectionVars
  PROVE  Tally'
  <1>1. attempt \in 0..Ceiling /\ failed \in 0..Ceiling /\ run \in [Clients -> Stages]
    BY DEF ConnectionTypeOK
  <1>2. CASE Start \/ TimerFires
    <2>1. OpenOnce /\ ~stopped' /\ failed' = failed /\ (attempt' = 0 \/ attempt' = attempt)
          /\ attempt' <= failed + 1
      <3>1. CASE Start
        BY <1>1, <3>1 DEF Start
      <3>2. CASE TimerFires
        <4>1. ~stopped
          BY <3>2 DEF TimerFires, ConnectionInv, StoppedIsQuiet
        <4> QED BY <3>2, <4>1 DEF TimerFires, Tally, Counted
      <3> QED BY <1>2, <3>1, <3>2
    <2>2. current' \in Clients /\ run'[current'] = "connecting" /\ current' # NoClient
      BY <1>1, <2>1, NoClientAssumption DEF OpenOnce
    <2> QED BY <2>1, <2>2 DEF Tally, Counted, NoEarlyGiveUp
  <1>3. CASE Stop
    BY <1>3 DEF Stop, Tally, Counted, NoEarlyGiveUp
  <1>4. CASE NetworkChanges \/ UNCHANGED connectionVars
    BY <1>4 DEF NetworkChanges, conn, connectionVars, Tally, Counted, NoEarlyGiveUp
  <1>5. CASE \E c \in Clients : Settle(c) \/ Dropped(c)
    BY <1>5, SettleTally, DroppedTally
  <1> QED BY <1>2, <1>3, <1>4, <1>5 DEF ConnectionNext

\* The attempt counter never runs ahead of the failures it stands for.
THEOREM TallyHolds == ConnectionSpec => []Tally
<1>1. ConnectionInit => Tally
  BY DEF ConnectionInit, Tally, Counted, NoEarlyGiveUp
<1>2. ConnectionTypeOK /\ ConnectionTypeOK' /\ ConnectionInv /\ Tally /\ [ConnectionNext]_connectionVars => Tally'
  BY NextTally
<1>3. QED BY <1>1, <1>2, ConnectionTypeCorrect, ConnectionInvariance, PTL DEF ConnectionSpec

\* scheduleReconnect gives up only after that many connects failed in a row,
\* also when drops, stops and restarts fall into an attempt.
THEOREM NoEarlyGiveUpHolds == ConnectionSpec => []NoEarlyGiveUp
  BY TallyHolds, PTL DEF Tally

-----------------------------------------------------------------------------
(* The loop.                                                               *)

\* A fault is one more of a bounded number.
LEMMA Faulted ==
  ASSUME faults \in 0..MaxFaults, NEW f, Fault(f)
  PROVE  faults' \in 0..MaxFaults
BY BoundsAssumption DEF Fault

\* What a step of the loop may do, told without the page.
LoopStep ==
  \/ Configure \/ Main \/ StartDaemon \/ OnReady \/ OnExists \/ Interval \/ RunCycleNow
  \/ Poll \/ PollFails \/ Process \/ CycleEnds \/ Hang
  \/ Arrive \/ Drop \/ Reconnect \/ Crash

\* Every step of LiveView is one of the loop, or leaves it alone but for a fault.
LEMMA LoopSteps ==
  TypeOK /\ [Next]_vars =>
    \/ LoopStep
    \/ /\ UNCHANGED <<configured, daemon, link, exists, cycle, waiting, batch, overlooked>>
       /\ faults' = faults \/ \E f \in Faults : Fault(f)
<1> SUFFICES ASSUME TypeOK, [Next]_vars
             PROVE  \/ LoopStep
                    \/ /\ UNCHANGED <<configured, daemon, link, exists, cycle, waiting, batch, overlooked>>
                       /\ faults' = faults \/ \E f \in Faults : Fault(f)
  OBVIOUS
<1>1. CASE Background \/ ProcessWrites \/ CycleAnnounced \/ CrashSeen \/ SyncNow
  BY <1>1, Zenon DEF Background, ProcessWrites, CycleAnnounced, CrashSeen, SyncNow, LoopStep
<1>2. CASE SocketCloses \/ TodayServed \/ TodayFails \/ ActServed
  BY <1>2, Zenon DEF SocketCloses, TodayServed, TodayFails, ActServed, Fault
<1>3. CASE \/ MountToday \/ UnmountToday \/ Connect \/ SocketRetries \/ Hear \/ TodayArrives
           \/ Expire \/ Act \/ ActSettles \/ RemoteWrite \/ UNCHANGED vars
  BY <1>3 DEF MountToday, UnmountToday, Connect, SocketRetries, Hear, TodayArrives, Expire, Act,
              ActSettles, RemoteWrite, vars, loopVars
<1> QED
  BY <1>1, <1>2, <1>3 DEF Next

LEMMA LoopTyped == TypeOK /\ [Next]_vars => LoopTypeOK'
<1> SUFFICES ASSUME LoopTypeOK, TypeOK, [Next]_vars
             PROVE  LoopTypeOK'
  BY DEF TypeOK
<1> USE DEF LoopTypeOK, running
<1>1. CASE Configure
  BY <1>1 DEF Configure
<1>2. CASE Main
  BY <1>2 DEF Main
<1>3. CASE StartDaemon
  BY <1>3 DEF StartDaemon
<1>4. CASE Reconnect
  BY <1>4 DEF Reconnect
<1>5. CASE OnReady
  BY <1>5 DEF OnReady, tick, TickWith
<1>6. CASE OnExists
  BY <1>6 DEF OnExists, tick, TickWith
<1>7. CASE Interval
  BY <1>7 DEF Interval, tick, TickWith
<1>8. CASE RunCycleNow
  BY <1>8 DEF RunCycleNow, tick, TickWith
<1>9. CASE Poll
  BY <1>9 DEF Poll
<1>10. CASE Process
  BY <1>10, BoundsAssumption DEF Process
<1>11. CASE CycleEnds
  BY <1>11 DEF CycleEnds
<1>12. CASE Arrive
  BY <1>12, BoundsAssumption DEF Arrive
<1>13. CASE PollFails
  <2>1. faults' \in 0..MaxFaults
    BY <1>13, Faulted DEF PollFails
  <2> QED
    BY <1>13, <2>1, BoundsAssumption DEF PollFails
<1>14. CASE Hang
  <2>1. faults' \in 0..MaxFaults
    BY <1>14, Faulted DEF Hang
  <2> QED
    BY <1>14, <2>1, BoundsAssumption DEF Hang
<1>15. CASE Drop
  <2>1. faults' \in 0..MaxFaults
    BY <1>15, Faulted DEF Drop
  <2> QED
    BY <1>15, <2>1, BoundsAssumption DEF Drop
<1>16. CASE Crash
  <2>1. faults' \in 0..MaxFaults
    BY <1>16, Faulted DEF Crash
  <2>2. /\ daemon' = "off" /\ link' = "down" /\ exists' = FALSE /\ cycle' = "none"
        /\ batch' \in 0..MaxMail /\ ~(batch' > 0) /\ overlooked' = {}
        /\ configured' = configured /\ waiting' = waiting
    BY <1>16, BoundsAssumption DEF Crash
  <2> QED
    BY <2>1, <2>2
<1>17. ASSUME UNCHANGED <<configured, daemon, link, exists, cycle, waiting, batch, overlooked>>,
             faults' = faults \/ \E f \in Faults : Fault(f)
      PROVE  LoopTypeOK'
  <2>1. faults' \in 0..MaxFaults
    BY <1>17, Faulted
  <2> QED
    BY <1>17, <2>1
<1> QED
  BY <1>1, <1>2, <1>3, <1>4, <1>5, <1>6, <1>7, <1>8, <1>9, <1>10, <1>11, <1>12, <1>13, <1>14,
     <1>15, <1>16, <1>17, LoopSteps DEF LoopStep

-----------------------------------------------------------------------------
(* The page.                                                               *)

\* An answer that ages stays one, and is there if it was.
LEMMA Aging ==
  ASSUME NEW a \in Answer
  PROVE  Aged(a) \in Answer /\ (Aged(a) # "nothing") = (a # "nothing")
BY DEF Answer, Aged

\* What an invalidation leaves: data that is not fresh, and the fetch, if any, in type.
LEMMA Invalidated ==
  ASSUME PageTypeOK, Invalidate
  PROVE  /\ fresh' = FALSE /\ query' \in {"idle", "asked", "served"}
         /\ read' \in Answer /\ (read' # "nothing") = (query' = "served")
         /\ behind' \in {"nothing", "offline", "joined", "remount", "partial", "failed",
                         "remote", "unsaid"}
BY DEF PageTypeOK, Invalidate, Fetch, Since, Answer

\* What an announcement leaves.
LEMMA Announcing ==
  ASSUME PageTypeOK, Broadcast
  PROVE  /\ frames' \in BOOLEAN /\ (frames' => socket = "open")
         /\ behind' \in {"nothing", "offline", "joined", "remount", "partial", "failed",
                         "remote", "unsaid"}
BY DEF PageTypeOK, Broadcast, Since

LEMMA PageTyped == TypeOK /\ [Next]_vars => PageTypeOK'
<1> SUFFICES ASSUME PageTypeOK, [Next]_vars
             PROVE  PageTypeOK'
  BY DEF TypeOK
<1> USE DEF PageTypeOK, Mounted
<1>1. CASE UNCHANGED viewVars /\ act' = act
  BY <1>1 DEF viewVars
<1>2. CASE ProcessWrites
  BY <1>2, Aging DEF ProcessWrites, Written
<1>3. CASE CycleAnnounced
  BY <1>3, Announcing DEF CycleAnnounced
<1>4. CASE CrashSeen
  BY <1>4 DEF CrashSeen, Since
<1>5. CASE MountToday
  BY <1>5 DEF MountToday, Fetch, Since, Answer
<1>6. CASE UnmountToday
  BY <1>6 DEF UnmountToday
<1>7. CASE Connect
  BY <1>7 DEF Connect
<1>8. CASE SocketCloses
  BY <1>8 DEF SocketCloses, Since
<1>9. CASE SocketRetries
  BY <1>9 DEF SocketRetries
<1>10. CASE Hear
  BY <1>10, Invalidated DEF Hear
<1>11. CASE TodayServed
  BY <1>11 DEF TodayServed, Since, Answer
<1>12. CASE TodayArrives
  BY <1>12 DEF TodayArrives, Answer
<1>13. CASE TodayFails
  BY <1>13 DEF TodayFails, Since, Answer
<1>14. CASE Expire
  BY <1>14 DEF Expire
<1>15. CASE Act
  BY <1>15 DEF Act, viewVars
<1>16. CASE ActServed
  <2>1. CASE act' = "replied" /\ Broadcast
    BY <1>16, <2>1, Announcing, Aging DEF ActServed, Written
  <2>2. CASE act' = "failed" /\ behind' = Since("unsaid") /\ UNCHANGED frames
    BY <1>16, <2>2, Aging DEF ActServed, Written, Since
  <2> QED
    BY <1>16, <2>1, <2>2 DEF ActServed
<1>17. CASE ActSettles
  <2>1. CASE Invalidate
    BY <1>17, <2>1, Invalidated DEF ActSettles
  <2>2. CASE UNCHANGED <<query, read, fresh, behind>>
    BY <1>17, <2>2 DEF ActSettles
  <2> QED
    BY <1>17, <2>1, <2>2, Zenon DEF ActSettles
<1>18. CASE SyncNow
  BY <1>18, Invalidated DEF SyncNow
<1>19. CASE RemoteWrite
  BY <1>19, Aging DEF RemoteWrite, Written, Since
<1> QED
  BY <1>1, <1>2, <1>3, <1>4, <1>5, <1>6, <1>7, <1>8, <1>9, <1>10, <1>11, <1>12, <1>13, <1>14,
     <1>15, <1>16, <1>17, <1>18, <1>19, Zenon DEF Next, Background, vars

\* Every variable of the loop and of the page keeps its type: a tick, a push or a fault
\* finds a state the code has, a connection under a live daemon only, a batch in a cycle
\* only, a frame on an open socket only.
THEOREM TypeCorrect == Spec => []TypeOK
<1>1. Init => TypeOK
  <2>1. ASSUME Init PROVE LoopTypeOK
    <3>1. 0 \in 0..MaxMail /\ 0 \in 0..MaxFaults /\ ~(0 > 0)
      BY BoundsAssumption
    <3> QED
      BY <2>1, <3>1 DEF Init, LoopInit, LoopTypeOK, running
  <2>2. Init => PageTypeOK
    BY DEF Init, PageTypeOK, Answer, Mounted
  <2> QED
    BY <2>1, <2>2 DEF TypeOK
<1>2. TypeOK /\ [Next]_vars => TypeOK'
  BY LoopTyped, PageTyped DEF TypeOK
<1> QED
  BY <1>1, <1>2, PTL DEF Spec

-----------------------------------------------------------------------------
(* The page is current: what was written since its last fetch is announced. *)

\* Unless something happened that `behind` names: no answer is partial, and while the
\* page is open with no announcement on its way and no cycle under way, an answer that
\* waits or is shown is of the project as it is.
Announced ==
  behind = "nothing" =>
    /\ read # "partial" /\ (query = "idle" => shown # "partial")
    /\ Mounted /\ ~frames /\ ~running =>
         /\ query = "idle" => shown = "current"
         /\ query = "served" => read = "current"

\* An invalidation that finds nothing announced any more leaves nothing to announce: it
\* fetches, or what it joins has been read since.
LEMMA InvalidatedAnnounced ==
  ASSUME PageTypeOK, Invalidate,
         behind = "nothing" => read # "partial" /\ (query = "idle" => shown # "partial"),
         shown' = shown, behind' = "nothing"
  PROVE  /\ read' # "partial" /\ (query' = "idle" => shown' # "partial")
         /\ Mounted => (query' = "idle" => shown' = "current") /\ (query' = "served" => read' = "current")
BY DEF PageTypeOK, Invalidate, Fetch, Since, Answer

\* A tick does not end a cycle.
LEMMA TicksOn == ASSUME NEW client, TickWith(client), running PROVE running'
BY DEF TickWith, running

LEMMA BackgroundRuns ==
  ASSUME LoopTypeOK, Background \/ RunCycleNow \/ ProcessWrites, running
  PROVE  running'
<1>1. CASE Configure \/ Main \/ StartDaemon \/ Arrive \/ Reconnect
  BY <1>1 DEF Configure, Main, StartDaemon, Arrive, Reconnect, running
<1>2. CASE OnReady \/ OnExists \/ Interval \/ RunCycleNow
  BY <1>2, TicksOn DEF OnReady, OnExists, Interval, RunCycleNow, tick
<1>3. CASE Poll \/ PollFails \/ Hang \/ Drop
  BY <1>3 DEF Poll, PollFails, Hang, Drop, running
<1>4. CASE ProcessWrites
  BY <1>4 DEF ProcessWrites, Process, running
<1> QED
  BY <1>1, <1>2, <1>3, <1>4 DEF Background

LEMMA NextAnnounced == TypeOK /\ Announced /\ [Next]_vars => Announced'
<1> SUFFICES ASSUME LoopTypeOK, PageTypeOK, Announced, [Next]_vars, behind' = "nothing"
             PROVE  /\ read' # "partial" /\ (query' = "idle" => shown' # "partial")
                    /\ Mounted' /\ ~frames' /\ ~running' =>
                         /\ query' = "idle" => shown' = "current"
                         /\ query' = "served" => read' = "current"
  BY DEF Announced, TypeOK
<1> USE DEF Announced, PageTypeOK, Mounted
<1>1. CASE Background /\ UNCHANGED <<viewVars, act>>
  <2>1. running => running'
    BY <1>1, BackgroundRuns
  <2> QED
    BY <1>1, <2>1 DEF viewVars
<1>2. CASE ProcessWrites
  <2>1. running'
    BY <1>2 DEF ProcessWrites, Process, running
  <2> QED
    BY <1>2, <2>1 DEF ProcessWrites, Written, Aged
<1>3. CASE CycleAnnounced
  BY <1>3 DEF CycleAnnounced, Broadcast, Since
<1>4. CASE CrashSeen
  BY <1>4 DEF CrashSeen, Since
<1>5. CASE MountToday
  BY <1>5 DEF MountToday, Fetch, Answer, Since
<1>6. CASE UnmountToday
  BY <1>6 DEF UnmountToday
<1>7. CASE UNCHANGED <<loopVars, page, frames, query, read, shown, behind>>
  BY <1>7 DEF loopVars, running
<1>8. CASE SocketCloses
  BY <1>8 DEF SocketCloses, running, Since
<1>9. CASE Hear
  BY <1>9, InvalidatedAnnounced DEF Hear
<1>10. CASE TodayServed
  BY <1>10 DEF TodayServed, Since
<1>11. CASE TodayArrives
  BY <1>11 DEF TodayArrives, loopVars, running
<1>12. CASE TodayFails
  BY <1>12 DEF TodayFails, Since
<1>13. CASE ActServed
  <2>1. CASE act' = "replied" /\ Broadcast
    BY <1>13, <2>1 DEF ActServed, Written, Broadcast, Aged, Since
  <2>2. CASE behind' = Since("unsaid")
    BY <2>2 DEF Since
  <2> QED
    BY <1>13, <2>1, <2>2 DEF ActServed
<1>14. CASE ActSettles
  <2>1. CASE Invalidate
    BY <1>14, <2>1, InvalidatedAnnounced DEF ActSettles
  <2>2. CASE UNCHANGED <<query, read, fresh, behind>>
    BY <1>14, <2>2 DEF ActSettles, loopVars, running
  <2> QED
    BY <1>14, <2>1, <2>2, Zenon DEF ActSettles
<1>15. CASE SyncNow
  BY <1>15, InvalidatedAnnounced DEF SyncNow
<1>16. CASE RemoteWrite
  BY <1>16 DEF RemoteWrite, Since
<1>17. CASE Connect \/ SocketRetries \/ Expire \/ Act \/ UNCHANGED vars
  BY <1>7, <1>17 DEF Connect, SocketRetries, Expire, Act, viewVars, vars
<1> QED
  BY <1>1, <1>2, <1>3, <1>4, <1>5, <1>6, <1>8, <1>9, <1>10, <1>11, <1>12, <1>13, <1>14, <1>15,
     <1>16, <1>17, Zenon DEF Next, Background

\* Between a write and the screen nothing is lost but what `behind` names.
THEOREM AnnouncedHolds == Spec => []Announced
<1>1. Init => Announced
  BY DEF Init, Announced, Mounted
<1>2. TypeOK /\ Announced /\ [Next]_vars => Announced'
  BY NextAnnounced
<1> QED
  BY <1>1, <1>2, TypeCorrect, PTL DEF Spec

\* When nothing is under way, the open page shows the project as it is, or one of the
\* seven things named in `behind` happened since its last fetch began (useWs.ts,
\* today-hooks.ts).
THEOREM PageIsCurrentHolds == Spec => []PageIsCurrent
<1>1. Announced => PageIsCurrent
  BY DEF Announced, PageIsCurrent
<1> QED
  BY <1>1, AnnouncedHolds, PTL

-----------------------------------------------------------------------------
(* What the loop is told of, it takes.                                     *)

\* Mail waits under a connection only if it is about to be told of, a tick was
\* overlooked since the last poll, or a poll is about to list it.
Told ==
  link = "up" /\ ~exists /\ overlooked = {} /\ waiting > 0 => cycle \in {"poll", "hung"}

LEMMA NextTold == TypeOK /\ Told /\ [Next]_vars => Told'
<1> SUFFICES ASSUME LoopTypeOK, Told, [Next]_vars, TypeOK
             PROVE  Told'
  BY DEF TypeOK
<1> USE DEF LoopTypeOK, Told, running
<1>1. CASE Configure \/ Main \/ StartDaemon \/ Reconnect
  BY <1>1 DEF Configure, Main, StartDaemon, Reconnect
<1>2. CASE OnReady
  BY <1>2 DEF OnReady, TickWith
<1>3. CASE OnExists \/ Interval \/ RunCycleNow
  BY <1>3 DEF OnExists, Interval, RunCycleNow, tick, TickWith
<1>4. CASE Poll
  BY <1>4 DEF Poll
<1>5. CASE PollFails
  BY <1>5 DEF PollFails
<1>6. CASE Process \/ CycleEnds
  BY <1>6 DEF Process, CycleEnds
<1>7. CASE Hang \/ Crash
  BY <1>7 DEF Hang, Crash
<1>8. CASE Arrive
  BY <1>8 DEF Arrive
<1>9. CASE Drop
  BY <1>9 DEF Drop
<1>10. CASE UNCHANGED <<configured, daemon, link, exists, cycle, waiting, batch, overlooked>>
  BY <1>10
<1> QED
  BY <1>1, <1>2, <1>3, <1>4, <1>5, <1>6, <1>7, <1>8, <1>9, <1>10, LoopSteps DEF LoopStep

\* Mail the daemon was told of, or that waited for a connection, has been taken by the
\* time its cycles are over, unless a tick fell into a running cycle (loop.ts) or a poll
\* failed since the last listing.
THEOREM AnnouncedIsTakenHolds == Spec => []AnnouncedIsTaken
<1>1. Init => Told
  BY DEF Init, LoopInit, Told
<1>2. TypeOK /\ Told /\ [Next]_vars => Told'
  BY NextTold
<1>3. TypeOK /\ Told => AnnouncedIsTaken
  BY DEF TypeOK, LoopTypeOK, Told, AnnouncedIsTaken, running
<1> QED
  BY <1>1, <1>2, <1>3, TypeCorrect, PTL DEF Spec

-----------------------------------------------------------------------------
(* The pages that are assembled from lists.                                *)

\* A set of numbers that is not empty has a least one, and Min is it.
LEMMA Least ==
  ASSUME NEW S \in SUBSET Nat, S # {}
  PROVE  Min(S) \in S /\ \A x \in S : Min(S) <= x
<1>1. PICK n \in S : \A m \in S : <<m, n>> \notin OpToRel(<, Nat)
  BY WFMin, NatLessThanWellFounded
<1>2. \A m \in S : ~(m < n)
  BY <1>1 DEF OpToRel
<1>3. \E x \in S : \A y \in S : x <= y
  BY <1>2
<1> QED
  BY Zenon, <1>3 DEF Min

\* A set of integers with a bound has a greatest one, and Max is it.
LEMMA Greatest ==
  ASSUME NEW S \in SUBSET Int, S # {}, NEW b \in Int, \A x \in S : x <= b
  PROVE  Max(S) \in S /\ \A x \in S : Max(S) >= x
<1> DEFINE Below == {b - x : x \in S}
<1>1. Below \in SUBSET Nat /\ Below # {}
  <2>1. \A x \in S : b - x \in Nat
    OBVIOUS
  <2> QED BY <2>1
<1> HIDE DEF Below
<1>2. Min(Below) \in Below /\ \A y \in Below : Min(Below) <= y
  BY <1>1, Least
<1>3. PICK x \in S : Min(Below) = b - x
  BY <1>2 DEF Below
<1>4. \A y \in S : b - y \in Below
  BY DEF Below
<1>5. \A y \in S : x >= y
  BY <1>2, <1>3, <1>4
<1>6. \E y \in S : \A z \in S : y >= z
  BY <1>5
<1> QED
  BY Zenon, <1>6 DEF Max

\* In a finite set under a strict total order the elements that come before one
\* number 0, 1, 2 ... : every place is taken, and whoever comes before another has
\* the lower place.
LEMMA EveryPlaceIsTaken ==
  ASSUME NEW Q, IsFiniteSet(Q), NEW R,
         \A i \in Q : <<i, i>> \notin R,
         \A i, j \in Q : i # j => <<i, j>> \in R \/ <<j, i>> \in R,
         \A i, j, k \in Q : <<i, j>> \in R /\ <<j, k>> \in R => <<i, k>> \in R
  PROVE  /\ \A n \in 1 .. Cardinality(Q) :
              \E i \in Q : Cardinality({j \in Q : <<j, i>> \in R}) = n - 1
         /\ \A i \in Q : Cardinality({j \in Q : <<j, i>> \in R}) + 1 \in 1 .. Cardinality(Q)
         /\ \A i, j \in Q : <<i, j>> \in R =>
              Cardinality({k \in Q : <<k, i>> \in R}) < Cardinality({k \in Q : <<k, j>> \in R})
         /\ \A i, j \in Q :
              Cardinality({k \in Q : <<k, i>> \in R}) = Cardinality({k \in Q : <<k, j>> \in R})
                => i = j
<1> DEFINE Pred(i) == {j \in Q : <<j, i>> \in R}
           N == Cardinality(Q)
<1>1. N \in Nat
  BY FS_CardinalityType
<1>2. \A i \in Q : IsFiniteSet(Pred(i)) /\ Cardinality(Pred(i)) \in Nat
  <2>1. \A i \in Q : Pred(i) \in SUBSET Q
    OBVIOUS
  <2> QED BY <2>1, FS_Subset, FS_CardinalityType
<1>3. ASSUME NEW i \in Q, NEW j \in Q, <<i, j>> \in R
      PROVE  Cardinality(Pred(i)) < Cardinality(Pred(j))
  <2>1. Pred(i) \in SUBSET Pred(j) /\ i \in Pred(j) /\ i \notin Pred(i)
    BY <1>3
  <2> HIDE DEF Pred
  <2> QED BY <1>2, <2>1, FS_Subset
<1>4. ASSUME NEW i \in Q
      PROVE  Cardinality(Pred(i)) + 1 \in 1 .. N
  <2>1. Pred(i) \in SUBSET Q /\ i \in Q /\ i \notin Pred(i)
    OBVIOUS
  <2> HIDE DEF Pred
  <2>2. Cardinality(Pred(i)) <= N /\ Cardinality(Pred(i)) # N
    BY <2>1, FS_Subset DEF N
  <2> QED BY <1>1, <1>2, <2>2
<1> DEFINE place == [i \in Q |-> Cardinality(Pred(i)) + 1]
<1>5. place \in [Q -> 1 .. N]
  BY <1>4
<1>6. ASSUME NEW i \in Q, NEW j \in Q, i # j
      PROVE  Cardinality(Pred(i)) # Cardinality(Pred(j))
  <2>1. Cardinality(Pred(i)) < Cardinality(Pred(j)) \/ Cardinality(Pred(j)) < Cardinality(Pred(i))
    <3>1. CASE <<i, j>> \in R
      BY <1>3, <3>1
    <3>2. CASE <<j, i>> \in R
      BY <1>3, <3>2
    <3> QED BY <1>6, <3>1, <3>2
  <2> HIDE DEF Pred
  <2> QED BY <1>2, <2>1
<1>7. place \in Injection(Q, 1 .. N)
  <2>1. \A i, j \in Q : place[i] = place[j] => i = j
    <3> HIDE DEF Pred
    <3> QED BY <1>2, <1>6
  <2> HIDE DEF place
  <2> QED BY <1>5, <2>1 DEF Injection, IsInjective
<1>8. IsFiniteSet(1 .. N) /\ Cardinality(1 .. N) = N
  BY <1>1, FS_Interval
<1>9. place \in Surjection(Q, 1 .. N)
  <2> HIDE DEF place, N
  <2> QED BY <1>7, <1>8, FS_Injection DEF N
<1>10. \A n \in 1 .. N : \E i \in Q : place[i] = n
  <2> HIDE DEF place
  <2> QED BY <1>9 DEF Surjection
<1>11. \A n \in 1 .. N : \E i \in Q : Cardinality(Pred(i)) = n - 1
  <2> HIDE DEF Pred
  <2> QED BY <1>1, <1>2, <1>10
<1>12. \A i, j \in Q : Cardinality(Pred(i)) = Cardinality(Pred(j)) => i = j
  <2> HIDE DEF Pred
  <2> QED BY <1>6
<1>13. \A i, j \in Q : <<i, j>> \in R => Cardinality(Pred(i)) < Cardinality(Pred(j))
  <2> HIDE DEF Pred
  <2> QED BY <1>3
<1> QED
  BY <1>4, <1>11, <1>12, <1>13

-----------------------------------------------------------------------------
(* The keys.                                                               *)

Key == [1 .. 6 -> Int]

\* compareRankKeys() is a strict order, and of two different keys one is before.
LEMMA KeysAreOrdered ==
  ASSUME NEW a \in Key, NEW b \in Key, NEW c \in Key
  PROVE  /\ ~Before(a, a)
         /\ Before(a, b) /\ Before(b, c) => Before(a, c)
         /\ a # b => Before(a, b) \/ Before(b, a)
<1>1. ~Before(a, a)
  BY DEF Before, Key
<1>2. ASSUME Before(a, b), Before(b, c) PROVE Before(a, c)
  <2>1. PICK k \in 1 .. 6 : a[k] > b[k] /\ \A j \in 1 .. k - 1 : a[j] = b[j]
    BY <1>2 DEF Before, Key
  <2>2. PICK l \in 1 .. 6 : b[l] > c[l] /\ \A j \in 1 .. l - 1 : b[j] = c[j]
    BY <1>2 DEF Before, Key
  <2> DEFINE m == IF k <= l THEN k ELSE l
  <2>3. m \in 1 .. 6 /\ a[m] > c[m]
    BY <2>1, <2>2 DEF Key
  <2>4. \A j \in 1 .. m - 1 : a[j] = c[j]
    BY <2>1, <2>2
  <2> HIDE DEF m
  <2> QED BY <2>3, <2>4 DEF Before, Key
<1>3. ASSUME a # b PROVE Before(a, b) \/ Before(b, a)
  <2> DEFINE D == {k \in 1 .. 6 : a[k] # b[k]}
  <2>1. D \in SUBSET Nat /\ D # {}
    BY <1>3 DEF Key
  <2>2. Min(D) \in D /\ \A k \in D : Min(D) <= k
    <3> HIDE DEF D
    <3> QED BY <2>1, Least
  <2>3. PICK k \in 1 .. 6 : a[k] # b[k] /\ \A j \in 1 .. k - 1 : a[j] = b[j]
    BY <2>2
  <2>4. a[k] > b[k] \/ b[k] > a[k]
    BY <2>3 DEF Key
  <2> QED BY <2>3, <2>4 DEF Before, Key
<1> QED BY <1>1, <1>2, <1>3

Moment == 0 .. MaxNow

\* The most urgent promise of a tier is its key.
LEMMA MostUrgent ==
  ASSUME NEW ps \in SUBSET PromiseRow, ps # {}, NEW at \in Moment
  PROVE  \E p \in ps : /\ TierKey(ps, at) = <<1, Urgency(p, at)>>
                       /\ \A q \in ps : Urgency(q, at) <= Urgency(p, at)
<1> DEFINE U == {Urgency(p, at) : p \in ps}
<1>1. \A p \in ps : Urgency(p, at) \in Int /\ Urgency(p, at) <= Far + at + 1
  BY LimitsAssumption DEF Urgency, Far, PromiseRow, Times, None, Moment
<1>2. U \in SUBSET Int /\ U # {} /\ (\A x \in U : x <= Far + at + 1) /\ Far + at + 1 \in Int
  BY <1>1, LimitsAssumption DEF Far, Moment
<1>3. Max(U) \in U /\ \A x \in U : Max(U) >= x
  <2> HIDE DEF U
  <2> QED BY <1>2, Greatest
<1>4. TierKey(ps, at) = <<1, Max(U)>>
  BY DEF TierKey
<1>5. PICK p \in ps : Max(U) = Urgency(p, at)
  BY <1>3
<1>6. \A q \in ps : Urgency(q, at) \in U
  OBVIOUS
<1> HIDE DEF U
<1> QED BY <1>1, <1>3, <1>4, <1>5, <1>6

LEMMA TierKeyType ==
  ASSUME NEW ps \in SUBSET PromiseRow, NEW at \in Moment
  PROVE  /\ TierKey(ps, at)[1] \in Int /\ TierKey(ps, at)[2] \in Int
         /\ ps = {} <=> TierKey(ps, at)[1] = 0
         /\ ps # {} <=> TierKey(ps, at)[1] = 1
<1>1. CASE ps = {}
  BY <1>1 DEF TierKey
<1>2. CASE ps # {}
  <2>1. PICK p \in ps : TierKey(ps, at) = <<1, Urgency(p, at)>>
    BY <1>2, MostUrgent
  <2>2. Urgency(p, at) \in Int
    BY LimitsAssumption DEF Urgency, Far, PromiseRow, Times, None, Moment
  <2> QED BY <1>2, <2>1, <2>2
<1> QED BY <1>1, <1>2

\* The label of a tier read off its most urgent promise.
LEMMA LabelByUrgency ==
  ASSUME NEW ps \in SUBSET PromiseRow, NEW at \in Moment, NEW p \in ps,
         \A q \in ps : Urgency(q, at) <= Urgency(p, at)
  PROVE  UrgencyLabel(ps, at) =
           LET u == Urgency(p, at)
           IN IF u > 0 THEN 4
              ELSE IF u > -Far /\ -u <= DueSoon THEN 3
              ELSE IF u > -Far THEN 2 ELSE 1
<1> DEFINE dated == {q \in ps : q.due # None}
<1>1. \A q \in ps : q.due \in Int /\ q.due >= -1 /\ q.due <= MaxNow
  BY LimitsAssumption DEF PromiseRow, Times, None
<1>2. at \in Int /\ at >= 0 /\ at <= MaxNow /\ MaxNow \in Nat /\ DueSoon \in Nat
  BY LimitsAssumption DEF Moment
<1>3. \A q \in ps : /\ Urgency(q, at) \in Int
                    /\ Urgency(q, at) > 0 <=> q.due # None /\ q.due < at
                    /\ Urgency(q, at) > -Far <=> q.due # None
                    /\ q.due # None /\ ~(q.due < at) => Urgency(q, at) = at - q.due
  BY <1>1, <1>2 DEF Urgency, Far, None
<1>4. (\E q \in dated : q.due < at) <=> Urgency(p, at) > 0
  BY <1>3
<1>5. (dated # {}) <=> Urgency(p, at) > -Far
  BY <1>2, <1>3 DEF Far
<1>6. ASSUME ~(Urgency(p, at) > 0)
      PROVE  (\E q \in dated : q.due - at <= DueSoon)
               <=> Urgency(p, at) > -Far /\ -Urgency(p, at) <= DueSoon
  <2>1. \A q \in dated : Urgency(q, at) = at - q.due
    BY <1>3, <1>4, <1>6
  <2>2. ASSUME NEW q \in dated, q.due - at <= DueSoon
        PROVE  Urgency(p, at) > -Far /\ -Urgency(p, at) <= DueSoon
    BY <1>1, <1>2, <1>3, <1>5, <2>1, <2>2 DEF Far
  <2>3. ASSUME Urgency(p, at) > -Far /\ -Urgency(p, at) <= DueSoon
        PROVE  p \in dated /\ p.due - at <= DueSoon
    BY <1>1, <1>2, <1>3, <2>1, <2>3
  <2> QED BY <2>2, <2>3
<1> HIDE DEF dated
<1>7. ps # {}
  OBVIOUS
<1> QED BY <1>4, <1>5, <1>6, <1>7 DEF UrgencyLabel, dated

LEMMA LabelType ==
  ASSUME NEW ps, NEW at
  PROVE  UrgencyLabel(ps, at) \in 0 .. 4 /\ (UrgencyLabel(ps, at) = 0 => ps = {})
BY DEF UrgencyLabel

\* "The label and the ordering can never disagree."
LEMMA LabelIsMonotone ==
  ASSUME NEW ps \in SUBSET PromiseRow, NEW qs \in SUBSET PromiseRow, NEW at \in Moment,
         \/ TierKey(ps, at)[1] > TierKey(qs, at)[1]
         \/ /\ TierKey(ps, at)[1] = TierKey(qs, at)[1]
            /\ TierKey(ps, at)[2] >= TierKey(qs, at)[2]
  PROVE  UrgencyLabel(ps, at) >= UrgencyLabel(qs, at)
<1>1. CASE qs = {}
  BY <1>1, LabelType DEF UrgencyLabel
<1>2. CASE qs # {}
  <2>1. TierKey(qs, at)[1] = 1
    BY <1>2, TierKeyType
  <2>2. ps # {} /\ TierKey(ps, at)[1] = 1
    BY <2>1, TierKeyType
  <2>3. PICK p \in ps : /\ TierKey(ps, at) = <<1, Urgency(p, at)>>
                        /\ \A q \in ps : Urgency(q, at) <= Urgency(p, at)
    BY <2>2, MostUrgent
  <2>4. PICK r \in qs : /\ TierKey(qs, at) = <<1, Urgency(r, at)>>
                        /\ \A q \in qs : Urgency(q, at) <= Urgency(r, at)
    BY <1>2, MostUrgent
  <2>5. Urgency(p, at) >= Urgency(r, at)
    BY <2>1, <2>2, <2>3, <2>4
  <2>6. Urgency(p, at) \in Int /\ Urgency(r, at) \in Int
    BY <2>3, <2>4, TierKeyType
  <2> DEFINE label(u) == IF u > 0 THEN 4
                         ELSE IF u > -Far /\ -u <= DueSoon THEN 3
                         ELSE IF u > -Far THEN 2 ELSE 1
  <2>7. UrgencyLabel(ps, at) = label(Urgency(p, at))
    BY <2>3, LabelByUrgency
  <2>8. UrgencyLabel(qs, at) = label(Urgency(r, at))
    BY <2>4, LabelByUrgency
  <2>9. Far \in Int /\ DueSoon \in Int
    BY LimitsAssumption DEF Far
  <2>10. \A u, v \in Int : u >= v => label(u) >= label(v)
    BY <2>9
  <2> HIDE DEF label
  <2> QED BY <2>5, <2>6, <2>7, <2>8, <2>10
<1> QED BY <1>1, <1>2

-----------------------------------------------------------------------------
(* The queue.                                                              *)

ListsTyped(lists) ==
  /\ lists.threads \in [Thread -> Times] /\ lists.tasks \in Seq(TaskRow)
  /\ lists.promises \in SUBSET PromiseRow

LEMMA RankKeyType ==
  ASSUME NEW lists, ListsTyped(lists), NEW at \in Moment, NEW t \in Thread
  PROVE  RankKey(t, lists, at) \in Key
<1> DEFINE my == TierKey(Of(lists.promises, t, "my-promise"), at)
           they == TierKey(Of(lists.promises, t, "they-asked"), at)
           age == Age(lists.threads[t], at)
<1>1. /\ Of(lists.promises, t, "my-promise") \in SUBSET PromiseRow
      /\ Of(lists.promises, t, "they-asked") \in SUBSET PromiseRow
  BY DEF Of, ListsTyped
<1>2. my[1] \in Int /\ my[2] \in Int /\ they[1] \in Int /\ they[2] \in Int
  BY <1>1, TierKeyType
<1>3. ImportanceOf[t] \in Int
  BY LimitsAssumption
<1>4. age \in Int
  BY LimitsAssumption DEF Age, Far, ListsTyped, Times, None, Moment
<1>5. RankKey(t, lists, at) = <<my[1], my[2], they[1], they[2], ImportanceOf[t], age>>
  BY DEF RankKey
<1> HIDE DEF my, they, age
<1> QED BY <1>2, <1>3, <1>4, <1>5 DEF Key

\* Ahead is a strict total order on the tasks of a list.
LEMMA AheadIsAnOrder ==
  ASSUME NEW lists, ListsTyped(lists), NEW at \in Moment,
         NEW i \in DOMAIN lists.tasks, NEW j \in DOMAIN lists.tasks, NEW k \in DOMAIN lists.tasks
  PROVE  /\ ~Ahead(i, i, lists, at)
         /\ i # j => Ahead(i, j, lists, at) \/ Ahead(j, i, lists, at)
         /\ Ahead(i, j, lists, at) /\ Ahead(j, k, lists, at) => Ahead(i, k, lists, at)
<1> DEFINE key(n) == RankKey(lists.tasks[n].thread, lists, at)
<1>1. \A n \in DOMAIN lists.tasks : n \in Nat /\ lists.tasks[n].thread \in Thread
  <2>1. \A n \in DOMAIN lists.tasks : n \in Nat /\ lists.tasks[n] \in TaskRow
    BY DEF ListsTyped
  <2> QED BY <2>1 DEF TaskRow
<1>2. key(i) \in Key /\ key(j) \in Key /\ key(k) \in Key
  BY <1>1, RankKeyType
<1>3. \A m, n : Ahead(m, n, lists, at) <=> Before(key(m), key(n)) \/ (key(m) = key(n) /\ m < n)
  BY DEF Ahead
<1> HIDE DEF key
<1>4. ~Before(key(i), key(i))
  BY <1>2, KeysAreOrdered
<1>5. key(i) # key(j) => Before(key(i), key(j)) \/ Before(key(j), key(i))
  BY <1>2, KeysAreOrdered
<1>6. Before(key(i), key(j)) /\ Before(key(j), key(k)) => Before(key(i), key(k))
  BY <1>2, KeysAreOrdered
<1>7. i \in Nat /\ j \in Nat /\ k \in Nat
  BY <1>1
<1> QED BY <1>3, <1>4, <1>5, <1>6, <1>7

\* rankTasks() shows every task of the queue in one place, and the order of the
\* places is that of the keys.
LEMMA RankingIsAPermutation ==
  ASSUME NEW lists, ListsTyped(lists), NEW at \in Moment,
         NEW Q \in SUBSET (DOMAIN lists.tasks)
  PROVE  LET ranked == RankTasks(Q, lists, at)
         IN /\ Cardinality(Q) \in Nat /\ DOMAIN ranked = 1 .. Cardinality(Q)
            /\ \A n \in DOMAIN ranked : ranked[n] \in Q
            /\ \A i \in Q : \E n \in DOMAIN ranked : ranked[n] = i
            /\ \A m, n \in DOMAIN ranked : m < n => Ahead(ranked[m], ranked[n], lists, at)
<1> DEFINE ranked == RankTasks(Q, lists, at)
           R == {x \in Q \X Q : Ahead(x[1], x[2], lists, at)}
           N == Cardinality(Q)
           before(i) == Cardinality({j \in Q : Ahead(j, i, lists, at)})
<1>1. IsFiniteSet(Q) /\ N \in Nat
  <2>1. DOMAIN lists.tasks = 1 .. Len(lists.tasks) /\ Len(lists.tasks) \in Nat
    BY DEF ListsTyped
  <2>2. IsFiniteSet(1 .. Len(lists.tasks))
    BY <2>1, FS_Interval
  <2>3. IsFiniteSet(DOMAIN lists.tasks)
    BY <2>1, <2>2
  <2>4. IsFiniteSet(Q)
    BY <2>3, FS_Subset
  <2> QED BY <2>4, FS_CardinalityType
<1>2. \A i, j \in Q : <<i, j>> \in R <=> Ahead(i, j, lists, at)
  OBVIOUS
<1>3. \A i \in Q : {j \in Q : <<j, i>> \in R} = {j \in Q : Ahead(j, i, lists, at)}
  BY <1>2
<1>4. /\ \A i \in Q : ~Ahead(i, i, lists, at)
      /\ \A i, j \in Q : i # j => Ahead(i, j, lists, at) \/ Ahead(j, i, lists, at)
      /\ \A i, j, k \in Q : Ahead(i, j, lists, at) /\ Ahead(j, k, lists, at)
                              => Ahead(i, k, lists, at)
  BY AheadIsAnOrder
<1>5. /\ \A i \in Q : <<i, i>> \notin R
      /\ \A i, j \in Q : i # j => <<i, j>> \in R \/ <<j, i>> \in R
      /\ \A i, j, k \in Q : <<i, j>> \in R /\ <<j, k>> \in R => <<i, k>> \in R
  BY <1>2, <1>4
<1> HIDE DEF R
<1>6. /\ \A n \in 1 .. N : \E i \in Q : Cardinality({j \in Q : <<j, i>> \in R}) = n - 1
      /\ \A i \in Q : Cardinality({j \in Q : <<j, i>> \in R}) + 1 \in 1 .. N
      /\ \A i, j \in Q : <<i, j>> \in R =>
           Cardinality({k \in Q : <<k, i>> \in R}) < Cardinality({k \in Q : <<k, j>> \in R})
      /\ \A i, j \in Q :
           Cardinality({k \in Q : <<k, i>> \in R}) = Cardinality({k \in Q : <<k, j>> \in R})
             => i = j
  BY <1>1, <1>5, EveryPlaceIsTaken
<1>6a. \A i \in Q : Cardinality({j \in Q : <<j, i>> \in R}) = before(i)
  BY <1>3
<1>7. /\ \A n \in 1 .. N : \E i \in Q : before(i) = n - 1
      /\ \A i \in Q : before(i) + 1 \in 1 .. N
      /\ \A i, j \in Q : Ahead(i, j, lists, at) => before(i) < before(j)
      /\ \A i, j \in Q : before(i) = before(j) => i = j
  BY <1>2, <1>6, <1>6a
<1>8. ranked = [n \in 1 .. N |-> CHOOSE i \in Q : before(i) = n - 1]
  BY DEF RankTasks
<1>8a. \A i \in Q : before(i) \in Nat
  <2>1. \A i \in Q : {j \in Q : Ahead(j, i, lists, at)} \in SUBSET Q
    OBVIOUS
  <2> QED BY <1>1, <2>1, FS_Subset, FS_CardinalityType
<1> HIDE DEF before, ranked
<1>9. \A n \in 1 .. N : ranked[n] \in Q /\ before(ranked[n]) = n - 1
  BY <1>7, <1>8
<1>10. ASSUME NEW i \in Q PROVE \E n \in 1 .. N : ranked[n] = i
  <2>1. before(i) + 1 \in 1 .. N
    BY <1>7
  <2>2. before(ranked[before(i) + 1]) = before(i) /\ ranked[before(i) + 1] \in Q
    BY <1>8a, <1>9, <2>1
  <2> QED BY <1>7, <2>1, <2>2
<1>11. ASSUME NEW m \in 1 .. N, NEW n \in 1 .. N, m < n
       PROVE  Ahead(ranked[m], ranked[n], lists, at)
  <2>1. before(ranked[m]) < before(ranked[n])
    BY <1>1, <1>9, <1>11
  <2>2. ranked[m] \in Q /\ ranked[n] \in Q /\ ranked[m] # ranked[n]
    BY <1>9, <1>11
  <2>3. ~Ahead(ranked[n], ranked[m], lists, at)
    BY <1>7, <1>8a, <2>1, <2>2
  <2> QED BY <1>4, <2>2, <2>3
<1>12. DOMAIN ranked = 1 .. N
  BY <1>8
<1> HIDE DEF N
<1>13. (\A n \in DOMAIN ranked : ranked[n] \in Q) /\ (\A i \in Q : \E n \in DOMAIN ranked : ranked[n] = i)
  BY <1>9, <1>10, <1>12
<1>14. \A m, n \in DOMAIN ranked : m < n => Ahead(ranked[m], ranked[n], lists, at)
  BY <1>11, <1>12
<1> QED BY <1>1, <1>12, <1>13, <1>14 DEF N, ranked

\* Of a set of places of a list, First is the least, and 0 only of none.
LEMMA FirstIsLeast ==
  ASSUME NEW S \in SUBSET (Nat \ {0})
  PROVE  /\ First(S) = 0 <=> S = {}
         /\ S # {} => First(S) \in S /\ \A x \in S : First(S) <= x
<1>1. CASE S = {}
  BY <1>1 DEF First
<1>2. CASE S # {}
  <2>1. Min(S) \in S /\ \A x \in S : Min(S) <= x
    BY <1>2, Least
  <2> QED BY <1>2, <2>1 DEF First
<1> QED BY <1>1, <1>2

\* The queue holds one task of every known thread with work to do, and of no other.
LEMMA QueueIsOneTaskAThread ==
  ASSUME NEW ts \in Seq(TaskRow), NEW known \in SUBSET Thread
  PROVE  /\ Queued(ts, known) \in SUBSET (DOMAIN ts)
         /\ \A i, j \in Queued(ts, known) : ts[i].thread = ts[j].thread => i = j
         /\ \A i \in Queued(ts, known) :
              ts[i].thread \in known /\ ts[i].state # "done" /\ i = FirstUndone(ts, ts[i].thread)
         /\ \A t \in Todo(ts, known) : \E i \in Queued(ts, known) : ts[i].thread = t
<1> DEFINE undone(t) == {i \in DOMAIN ts : ts[i].thread = t /\ ts[i].state # "done"}
<1>1. \A t : undone(t) \in SUBSET (Nat \ {0})
  OBVIOUS
<1>2. \A t : FirstUndone(ts, t) = First(undone(t))
  BY DEF FirstUndone
<1>3. \A t : /\ First(undone(t)) = 0 <=> undone(t) = {}
             /\ undone(t) # {} => First(undone(t)) \in undone(t)
  <2> HIDE DEF undone
  <2> QED BY <1>1, FirstIsLeast
<1>4. \A i \in Queued(ts, known) :
         i \in DOMAIN ts /\ ts[i].thread \in known /\ i = First(undone(ts[i].thread))
  BY <1>2 DEF Queued
<1>5. ASSUME NEW i \in Queued(ts, known) PROVE ts[i].state # "done"
  <2>1. First(undone(ts[i].thread)) # 0
    BY <1>4
  <2>2. i \in undone(ts[i].thread)
    BY <1>3, <1>4, <2>1
  <2> QED BY <2>2
<1>6. \A i, j \in Queued(ts, known) : ts[i].thread = ts[j].thread => i = j
  <2> HIDE DEF undone
  <2> QED BY <1>4
<1>7. ASSUME NEW t \in Todo(ts, known) PROVE \E i \in Queued(ts, known) : ts[i].thread = t
  <2>1. t \in known /\ undone(t) # {}
    BY DEF Todo
  <2>2. First(undone(t)) \in undone(t)
    BY <1>3, <2>1
  <2>3. First(undone(t)) \in Queued(ts, known) /\ ts[First(undone(t))].thread = t
    BY <1>2, <2>1, <2>2 DEF Queued
  <2> QED BY <2>3
<1>8. \A i \in Queued(ts, known) : i = FirstUndone(ts, ts[i].thread)
  BY DEF Queued
<1> HIDE DEF undone
<1> QED BY <1>4, <1>5, <1>6, <1>7, <1>8

\* What the do-next queue of Today is.
LEMMA DoNextQueue ==
  ASSUME NEW lists, ListsTyped(lists), NEW at \in Moment
  PROVE  LET queue == DoNext(lists, at)
         IN /\ Len(queue) \in Nat /\ DOMAIN queue = 1 .. Len(queue)
            /\ \A n \in DOMAIN queue :
                 \E i \in Queued(lists.tasks, KnownIn(lists)) :
                   queue[n] = Card(lists.tasks[i].thread, lists, at)
            /\ \A m, n \in DOMAIN queue : m < n =>
                 \E i, j \in Queued(lists.tasks, KnownIn(lists)) :
                   /\ Ahead(i, j, lists, at)
                   /\ queue[m] = Card(lists.tasks[i].thread, lists, at)
                   /\ queue[n] = Card(lists.tasks[j].thread, lists, at)
            /\ \/ Len(queue) = MaxCards
               \/ \A i \in Queued(lists.tasks, KnownIn(lists)) : \E n \in DOMAIN queue :
                    queue[n] = Card(lists.tasks[i].thread, lists, at)
<1> DEFINE Q == Queued(lists.tasks, KnownIn(lists))
           ranked == RankTasks(Q, lists, at)
           N == Cardinality(Q)
           capped == IF N <= MaxCards THEN N ELSE MaxCards
           card(i) == Card(lists.tasks[i].thread, lists, at)
           queue == DoNext(lists, at)
<1>1. lists.tasks \in Seq(TaskRow) /\ KnownIn(lists) \in SUBSET Thread
  BY DEF ListsTyped, KnownIn
<1>2. Q \in SUBSET (DOMAIN lists.tasks)
  BY <1>1, QueueIsOneTaskAThread
<1> HIDE DEF Q
<1>3. /\ N \in Nat /\ DOMAIN ranked = 1 .. N
      /\ \A n \in 1 .. N : ranked[n] \in Q
      /\ \A i \in Q : \E n \in 1 .. N : ranked[n] = i
      /\ \A m, n \in 1 .. N : m < n => Ahead(ranked[m], ranked[n], lists, at)
  BY <1>2, RankingIsAPermutation
<1>4. capped \in Nat /\ {k \in DOMAIN ranked : k <= MaxCards} = 1 .. capped
  BY <1>3, LimitsAssumption
<1>5. queue = [n \in {k \in DOMAIN ranked : k <= MaxCards} |-> card(ranked[n])]
  BY DEF DoNext, Q
<1> HIDE DEF ranked, card, N, queue
<1>6. queue = [n \in 1 .. capped |-> card(ranked[n])]
  BY <1>4, <1>5
<1>7. DOMAIN queue = 1 .. capped /\ Len(queue) = capped /\ Len(queue) \in Nat
  <2> HIDE DEF capped
  <2> QED BY <1>4, <1>6
<1>8. capped <= N
  BY <1>3, LimitsAssumption
<1>9. \A n \in DOMAIN queue : ranked[n] \in Q /\ queue[n] = card(ranked[n])
  <2> HIDE DEF capped
  <2> QED BY <1>3, <1>4, <1>6, <1>7, <1>8
<1>10. \A m, n \in DOMAIN queue : m < n => Ahead(ranked[m], ranked[n], lists, at)
  <2> HIDE DEF capped
  <2> QED BY <1>3, <1>4, <1>7, <1>8
<1>11. Len(queue) = MaxCards \/ (\A i \in Q : \E n \in DOMAIN queue : queue[n] = card(i))
  <2>1. ASSUME Len(queue) # MaxCards PROVE capped = N
    BY <1>7, <2>1
  <2> HIDE DEF capped
  <2> QED BY <1>3, <1>7, <1>9, <2>1
<1>12. \A n \in DOMAIN queue : \E i \in Q : queue[n] = card(i)
  BY <1>9
<1>13. \A m, n \in DOMAIN queue : m < n =>
         \E i, j \in Q : Ahead(i, j, lists, at) /\ queue[m] = card(i) /\ queue[n] = card(j)
  BY <1>9, <1>10
<1>14. Len(queue) \in Nat /\ DOMAIN queue = 1 .. Len(queue)
  BY <1>7
<1> HIDE DEF capped
<1> QED BY <1>11, <1>12, <1>13, <1>14 DEF Q, card, queue

CardsOf(queue, t) == {n \in DOMAIN queue : queue[n].thread = t}

\* The queue shows every thread with work to do, once, or it is full.
LEMMA QueueDropsNothing ==
  ASSUME NEW lists, ListsTyped(lists), NEW at \in Moment,
         NEW t \in Todo(lists.tasks, KnownIn(lists)), Len(DoNext(lists, at)) # MaxCards
  PROVE  Cardinality(CardsOf(DoNext(lists, at), t)) = 1
<1> DEFINE Q == Queued(lists.tasks, KnownIn(lists))
           queue == DoNext(lists, at)
<1>1. lists.tasks \in Seq(TaskRow) /\ KnownIn(lists) \in SUBSET Thread
  BY DEF ListsTyped, KnownIn
<1>2. /\ \A i, j \in Q : lists.tasks[i].thread = lists.tasks[j].thread => i = j
      /\ \E i \in Q : lists.tasks[i].thread = t
  BY <1>1, QueueIsOneTaskAThread
<1>3. PICK i \in Q : lists.tasks[i].thread = t
  BY <1>2
<1> HIDE DEF Q
<1>4. /\ Len(queue) \in Nat /\ DOMAIN queue = 1 .. Len(queue)
      /\ \A m, n \in DOMAIN queue : m < n =>
           \E k, j \in Q : /\ Ahead(k, j, lists, at)
                           /\ queue[m] = Card(lists.tasks[k].thread, lists, at)
                           /\ queue[n] = Card(lists.tasks[j].thread, lists, at)
      /\ \A k \in Q : \E n \in DOMAIN queue : queue[n] = Card(lists.tasks[k].thread, lists, at)
  BY DoNextQueue DEF Q
<1> HIDE DEF queue
<1>5. \A s : Card(s, lists, at).thread = s
  BY DEF Card
<1>6. PICK n \in DOMAIN queue : queue[n].thread = t
  BY <1>3, <1>4, <1>5
<1>7. \A k \in Q : ~Ahead(k, k, lists, at)
  <2>1. \A k \in Q : k \in DOMAIN lists.tasks
    BY <1>1, QueueIsOneTaskAThread DEF Q
  <2> QED BY <2>1, AheadIsAnOrder
<1>8. ASSUME NEW l \in DOMAIN queue, NEW m \in DOMAIN queue, l < m
      PROVE  queue[l].thread # queue[m].thread
  <2>1. PICK k \in Q, j \in Q : /\ Ahead(k, j, lists, at)
                                /\ queue[l] = Card(lists.tasks[k].thread, lists, at)
                                /\ queue[m] = Card(lists.tasks[j].thread, lists, at)
    BY <1>4, <1>8
  <2>2. k # j
    BY <1>7, <2>1
  <2> QED BY <1>2, <1>5, <2>1, <2>2
<1>9. \A m \in DOMAIN queue : queue[m].thread = t => m = n
  <2>1. n \in Nat /\ \A m \in DOMAIN queue : m \in Nat
    BY <1>4
  <2> QED BY <1>6, <1>8, <2>1
<1>10. CardsOf(queue, t) = {n}
  BY <1>6, <1>9 DEF CardsOf
<1> QED BY <1>10, FS_Singleton DEF queue

\* A card that stands before another has a label at least as urgent for my promises,
\* and where neither has one, for what they asked.
LEMMA QueueFollowsTheLabels ==
  ASSUME NEW lists, ListsTyped(lists), NEW at \in Moment,
         NEW m \in DOMAIN DoNext(lists, at), NEW n \in DOMAIN DoNext(lists, at), m < n
  PROVE  LET queue == DoNext(lists, at)
         IN /\ queue[m].my >= queue[n].my
            /\ (queue[m].my = 0) => (queue[m].they >= queue[n].they)
<1> DEFINE queue == DoNext(lists, at)
           my(t) == Of(lists.promises, t, "my-promise")
           they(t) == Of(lists.promises, t, "they-asked")
<1>1. PICK i \in Queued(lists.tasks, KnownIn(lists)), j \in Queued(lists.tasks, KnownIn(lists)) :
         /\ Ahead(i, j, lists, at)
         /\ queue[m] = Card(lists.tasks[i].thread, lists, at)
         /\ queue[n] = Card(lists.tasks[j].thread, lists, at)
  BY DoNextQueue
<1>2. PICK s \in Thread, t \in Thread : s = lists.tasks[i].thread /\ t = lists.tasks[j].thread
  <2>1. lists.tasks \in Seq(TaskRow) /\ KnownIn(lists) \in SUBSET Thread
    BY DEF ListsTyped, KnownIn
  <2> QED BY <2>1, QueueIsOneTaskAThread
<1>3. /\ queue[m].my = UrgencyLabel(my(s), at) /\ queue[m].they = UrgencyLabel(they(s), at)
      /\ queue[n].my = UrgencyLabel(my(t), at) /\ queue[n].they = UrgencyLabel(they(t), at)
  BY <1>1, <1>2 DEF Card
<1>4. \A u \in Thread : my(u) \in SUBSET PromiseRow /\ they(u) \in SUBSET PromiseRow
  BY DEF Of, ListsTyped
<1>5. Before(RankKey(s, lists, at), RankKey(t, lists, at)) \/ RankKey(s, lists, at) = RankKey(t, lists, at)
  BY <1>1, <1>2 DEF Ahead
<1> DEFINE ms == TierKey(my(s), at)  ts == TierKey(they(s), at)
           mt == TierKey(my(t), at)  tt == TierKey(they(t), at)
           a == RankKey(s, lists, at)
           b == RankKey(t, lists, at)
<1>6. /\ a[1] = ms[1] /\ a[2] = ms[2] /\ a[3] = ts[1] /\ a[4] = ts[2]
      /\ b[1] = mt[1] /\ b[2] = mt[2] /\ b[3] = tt[1] /\ b[4] = tt[2]
  BY DEF RankKey
<1>7. a \in Key /\ b \in Key
  BY RankKeyType
<1>8. /\ ms[1] \in Int /\ ms[2] \in Int /\ ts[1] \in Int /\ ts[2] \in Int
      /\ mt[1] \in Int /\ mt[2] \in Int /\ tt[1] \in Int /\ tt[2] \in Int
  BY <1>4, TierKeyType
<1> HIDE DEF a, b, ms, ts, mt, tt
<1>9. \/ a[1] > b[1]
      \/ a[1] = b[1] /\ a[2] > b[2]
      \/ a[1] = b[1] /\ a[2] = b[2] /\ a[3] > b[3]
      \/ a[1] = b[1] /\ a[2] = b[2] /\ a[3] = b[3] /\ a[4] >= b[4]
  <2>1. CASE a = b
    BY <1>7, <2>1 DEF Key
  <2>2. CASE Before(a, b)
    <3>1. PICK k \in 1 .. 6 : a[k] > b[k] /\ \A l \in 1 .. k - 1 : a[l] = b[l]
      BY <1>7, <2>2 DEF Before, Key
    <3> QED BY <1>7, <3>1 DEF Key
  <2> QED BY <1>5, <2>1, <2>2 DEF a, b
<1>10. ms[1] > mt[1] \/ (ms[1] = mt[1] /\ ms[2] >= mt[2])
  BY <1>6, <1>8, <1>9
<1>11. UrgencyLabel(my(s), at) >= UrgencyLabel(my(t), at)
  <2> HIDE DEF my
  <2> QED BY <1>4, <1>10, LabelIsMonotone DEF ms, mt
<1>12. ASSUME UrgencyLabel(my(s), at) = 0
       PROVE  UrgencyLabel(they(s), at) >= UrgencyLabel(they(t), at)
  <2>1. my(s) = {} /\ my(t) = {}
    <3>1. UrgencyLabel(my(t), at) = 0
      BY <1>11, <1>12, LabelType
    <3> QED BY <1>12, <3>1, LabelType
  <2>2. ms[1] = mt[1] /\ ms[2] = mt[2]
    BY <2>1 DEF ms, mt
  <2>3. ts[1] > tt[1] \/ (ts[1] = tt[1] /\ ts[2] >= tt[2])
    BY <1>6, <1>8, <1>9, <2>2
  <2> HIDE DEF they
  <2> QED BY <1>4, <2>3, LabelIsMonotone DEF ts, tt
<1> HIDE DEF my, they
<1> QED BY <1>3, <1>11, <1>12

-----------------------------------------------------------------------------
(* The rows and the lists.                                                 *)

LEMMA SeqOfMore ==
  ASSUME NEW S, NEW T, S \subseteq T, NEW s \in Seq(S)
  PROVE  s \in Seq(T)
OBVIOUS

LEMMA SeqByElements ==
  ASSUME NEW S, NEW T, NEW s \in Seq(S), \A i \in DOMAIN s : s[i] \in T
  PROVE  s \in Seq(T)
OBVIOUS

LEMMA TouchedType ==
  ASSUME NEW S, NEW s \in Seq(S), NEW i \in DOMAIN s, NEW x \in S
  PROVE  Touched(s, i, x) \in Seq(S)
<1>1. SubSeq(s, 1, i - 1) \in Seq(S)
  BY SubSeqProperties
<1>2. SubSeq(s, i + 1, Len(s)) \in Seq(S)
  BY SubSeqProperties
<1>3. RemoveAt(s, i) \in Seq(S)
  BY <1>1, <1>2, ConcatProperties DEF RemoveAt
<1> QED BY <1>3 DEF Touched

WriteRows ==
  \/ \E t \in Thread : UpsertThread(t) \/ CreateDraftMeta(t)
  \/ \E t \in Thread, state \in TaskState : CreateTask(t, state)
  \/ \E i \in DOMAIN tasks : UpdateTask(i)
  \/ \E i \in DOMAIN tasks, to \in TaskState : CreateTransition(i, to)
  \/ \E t \in Thread, d \in Direction, due \in Times, f \in BOOLEAN : CreatePromise(t, d, due, f)

\* Every write leaves rows of threads that are known, and nothing of the page changes.
LEMMA WritesKeepRows ==
  ASSUME RowsTyped, now \in Moment, WriteRows
  PROVE  RowsTyped' /\ Write
<1> DEFINE Row == [thread : Known, state : TaskState]
<1> USE DEF RowsTyped
<1>0. /\ now \in Times /\ Known \subseteq Thread
      /\ threads \in [Thread -> Times] /\ tasks \in Seq(Row)
  BY LimitsAssumption DEF Moment, Times, None, Known
<1>1. ASSUME NEW t \in Thread, UpsertThread(t) PROVE RowsTyped' /\ Write
  <2>1. threads' = [threads EXCEPT ![t] = now]
    BY <1>1 DEF UpsertThread
  <2>2. threads' \in [Thread -> Times]
    BY <1>0, <2>1
  <2>3. now # None
    BY DEF None, Moment
  <2>4. Known \subseteq Known'
    BY <1>0, <2>1, <2>3 DEF Known
  <2>5. Row \subseteq [thread : Known', state : TaskState]
    BY <2>4
  <2>6. tasks' \in Seq([thread : Known', state : TaskState])
    <3> HIDE DEF Row
    <3>1. tasks' \in Seq(Row)
      BY <1>0, <1>1 DEF UpsertThread
    <3> QED BY <2>5, <3>1, SeqOfMore
  <2> QED BY <1>1, <2>2, <2>4, <2>6 DEF UpsertThread
<1>2. ASSUME NEW t \in Thread, CreateDraftMeta(t) PROVE RowsTyped' /\ Write
  <2>1. [thread |-> t, at |-> now] \in DraftRow
    BY <1>0 DEF DraftRow
  <2>2. Known' = Known
    BY <1>2 DEF CreateDraftMeta, Known
  <2> QED BY <1>2, <2>1, <2>2 DEF CreateDraftMeta
<1>3. ASSUME NEW t \in Thread, NEW state \in TaskState, CreateTask(t, state) PROVE RowsTyped' /\ Write
  <2>1. [thread |-> t, state |-> state] \in Row
    BY <1>3 DEF CreateTask
  <2>2. Known' = Known
    BY <1>3 DEF CreateTask, Known
  <2>3. <<[thread |-> t, state |-> state]>> \in Seq(Row)
    BY <2>1
  <2>4. tasks' \in Seq(Row)
    <3> HIDE DEF Row
    <3> QED BY <1>0, <1>3, <2>3, ConcatProperties DEF CreateTask
  <2> QED BY <1>3, <2>2, <2>4 DEF CreateTask
<1>4. ASSUME NEW i \in DOMAIN tasks, UpdateTask(i) PROVE RowsTyped' /\ Write
  <2>1. tasks[i] \in Row
    <3> HIDE DEF Row
    <3> QED BY <1>0
  <2>2. Known' = Known
    BY <1>4 DEF UpdateTask, Known
  <2>3. tasks' \in Seq(Row)
    <3> HIDE DEF Row
    <3> QED BY <1>0, <1>4, <2>1, TouchedType DEF UpdateTask
  <2> QED BY <1>4, <2>2, <2>3 DEF UpdateTask
<1>5. ASSUME NEW i \in DOMAIN tasks, NEW to \in TaskState, CreateTransition(i, to)
      PROVE  RowsTyped' /\ Write
  <2>1. tasks[i] \in Row
    <3> HIDE DEF Row
    <3> QED BY <1>0
  <2>2. [tasks[i] EXCEPT !.state = to] \in Row /\ tasks[i].thread \in Known
    BY <2>1
  <2>3. Known' = Known
    BY <1>5 DEF CreateTransition, Known
  <2>4. tasks' \in Seq(Row)
    <3> HIDE DEF Row
    <3> QED BY <1>0, <1>5, <2>2, TouchedType DEF CreateTransition
  <2>5. [thread |-> tasks[i].thread, to |-> to, at |-> now] \in TransitionRow
    BY <1>0, <2>2 DEF TransitionRow
  <2> QED BY <1>5, <2>2, <2>3, <2>4, <2>5 DEF CreateTransition
<1>6. ASSUME NEW t \in Thread, NEW d \in Direction, NEW due \in Times, NEW f \in BOOLEAN,
             CreatePromise(t, d, due, f)
      PROVE  RowsTyped' /\ Write
  <2> DEFINE p == [thread |-> t, direction |-> d, due |-> due, status |-> DerivedStatus(due, f)]
  <2>1. DerivedStatus(due, f) \in Status
    BY DEF DerivedStatus, Status
  <2>2. p \in PromiseRow /\ p.thread = t
    BY <2>1 DEF PromiseRow
  <2>3. Known' = Known
    BY <1>6 DEF CreatePromise, Known
  <2>4. promises' = promises \union {p} /\ t \in Known
    BY <1>6 DEF CreatePromise
  <2> HIDE DEF p
  <2>5. promises' \subseteq PromiseRow /\ \A row \in promises' : row.thread \in Known
    BY <2>2, <2>4
  <2> QED BY <1>6, <2>3, <2>5 DEF CreatePromise
<1> QED BY <1>1, <1>2, <1>3, <1>4, <1>5, <1>6 DEF WriteRows

\* What a step does to a page: a write changes rows only, the clock the time only.
LEMMA StepKinds ==
  ASSUME RowsTyped, now \in Moment, ViewsNext
  PROVE  \/ RowsTyped' /\ Write
         \/ UNCHANGED rows /\ Tick
         \/ UNCHANGED rows /\ \E kind \in {"today", "board", "digest"} : Ask(kind)
         \/ UNCHANGED rows /\ \E list \in pending : Read(list) \/ ReadFails(list)
<1>1. CASE WriteRows
  BY <1>1, WritesKeepRows
<1>2. CASE Tick
  BY <1>2 DEF Tick, rows
<1>3. CASE \E kind \in {"today", "board", "digest"} : Ask(kind)
  BY <1>3 DEF Ask, rows
<1>4. CASE \E list \in pending : Read(list) \/ ReadFails(list)
  BY <1>4 DEF Read, ReadFails, Collect, rows
<1> QED BY Zenon, <1>1, <1>2, <1>3, <1>4 DEF ViewsNext, WriteRows

RowLists ==
  [tasks : Seq(TaskRow), threads : [Thread -> Times], promises : SUBSET PromiseRow,
   drafts : SUBSET DraftRow, transitions : SUBSET TransitionRow]

ListNames == {"tasks", "threads", "promises", "drafts", "transitions"}

\* One list of five is replaced.
LEMMA OneListCame ==
  ASSUME NEW g \in RowLists, NEW list \in ListNames, NEW rs
  PROVE  \A l \in ListNames : [g EXCEPT ![list] = rs][l] = IF l = list THEN rs ELSE g[l]
<1>1. DOMAIN g = ListNames
  BY DEF RowLists, ListNames
<1> QED BY Zenon, <1>1

\* What the service lists has the type of that list.
LEMMA ListedType ==
  ASSUME RowsTyped, NEW g \in RowLists, NEW list \in ListNames
  PROVE  [g EXCEPT ![list] = Listed(list)] \in RowLists
<1> USE DEF RowsTyped, RowLists, ListNames
<1>1. CASE list = "tasks"
  <2>1. [thread : Known, state : TaskState] \subseteq TaskRow
    BY DEF TaskRow, Known
  <2>2. tasks \in Seq(TaskRow)
    BY <2>1, SeqOfMore
  <2>3. Listed(list) = tasks
    BY <1>1 DEF Listed
  <2> QED BY <1>1, <2>2, <2>3
<1>2. CASE list = "threads"
  <2>1. Listed(list) = threads
    BY <1>2 DEF Listed
  <2> QED BY <1>2, <2>1
<1>3. CASE list = "promises"
  <2>1. Listed(list) = promises
    BY <1>3 DEF Listed
  <2> QED BY <1>3, <2>1
<1>4. CASE list = "drafts"
  <2>1. Listed(list) = drafts
    BY <1>4 DEF Listed
  <2> QED BY <1>4, <2>1
<1>5. CASE list = "transitions"
  <2>1. Listed(list) \subseteq TransitionRow
    BY <1>5 DEF Listed
  <2> QED BY <1>5, <2>1
<1> QED BY <1>1, <1>2, <1>3, <1>4, <1>5

LEMMA EmptyType == Empty \in RowLists
<1>1. [t \in Thread |-> None] \in [Thread -> Times]
  BY LimitsAssumption DEF None, Times
<1>2. <<>> \in Seq(TaskRow)
  OBVIOUS
<1> QED BY <1>1, <1>2 DEF Empty, RowLists

LEMMA NamesOfLists == \A kind : Lists(kind) \subseteq ListNames
BY DEF Lists, ListNames

LEMMA TypedAtFirst == ViewsInit => ViewsTypeOK
<1> SUFFICES ASSUME ViewsInit PROVE ViewsTypeOK
  OBVIOUS
<1>1. PICK s \in Stock : /\ threads = s.threads /\ tasks = s.tasks /\ promises = s.promises
                         /\ drafts = s.drafts /\ transitions = s.transitions
  BY DEF ViewsInit
<1>2. /\ s.threads \in [Thread -> Times]
      /\ s.tasks \in Seq(TaskRow) /\ s.promises \subseteq PromiseRow
      /\ s.drafts \subseteq DraftRow /\ s.transitions \subseteq TransitionRow
      /\ \A i \in DOMAIN s.tasks : s.threads[s.tasks[i].thread] # None
      /\ \A row \in s.promises \union s.drafts \union s.transitions :
           s.threads[row.thread] # None
  BY StockAssumption
<1>3. tasks \in Seq([thread : Known, state : TaskState])
  <2>1. \A i \in DOMAIN tasks : tasks[i] \in TaskRow /\ threads[tasks[i].thread] # None
    BY <1>1, <1>2
  <2>2. \A i \in DOMAIN tasks : tasks[i] \in [thread : Known, state : TaskState]
    BY <2>1 DEF TaskRow, Known
  <2>3. tasks \in Seq(TaskRow)
    BY <1>1, <1>2
  <2> QED BY <2>2, <2>3, SeqByElements
<1>4. \A row \in promises \union drafts \union transitions : row.thread \in Known
  <2>1. \A row \in promises \union drafts \union transitions :
          row.thread \in Thread /\ threads[row.thread] # None
    BY <1>1, <1>2 DEF PromiseRow, DraftRow, TransitionRow
  <2> QED BY <2>1 DEF Known
<1>5. RowsTyped
  BY <1>1, <1>2, <1>3, <1>4 DEF RowsTyped
<1>6. request \in [kind : {"none", "today", "board", "digest"}, at : 0 .. MaxNow]
  BY LimitsAssumption DEF ViewsInit, NoRequest
<1>7. AssemblyTyped
  BY <1>6, EmptyType, LimitsAssumption DEF ViewsInit, AssemblyTyped, RowLists
<1> QED BY <1>5, <1>7 DEF ViewsTypeOK

LEMMA TypedNext == ViewsTypeOK /\ [ViewsNext]_pagesVars => ViewsTypeOK'
<1> SUFFICES ASSUME ViewsTypeOK, [ViewsNext]_pagesVars PROVE ViewsTypeOK'
  OBVIOUS
<1> USE DEF ViewsTypeOK
<1>1. now \in Moment /\ got \in RowLists
  BY DEF AssemblyTyped, Moment, RowLists
<1>2. CASE RowsTyped' /\ Write
  <2>1. open' \subseteq Thread /\ steady' \in BOOLEAN
    BY <1>2 DEF Write, AssemblyTyped
  <2> QED BY <1>2, <2>1 DEF Write, AssemblyTyped, assembly
<1>a. ASSUME UNCHANGED rows PROVE RowsTyped'
  BY <1>a DEF RowsTyped, rows, Known
<1>3. CASE UNCHANGED rows /\ Tick
  BY <1>3, <1>a, LimitsAssumption DEF Tick, AssemblyTyped, assembly
<1>4. ASSUME NEW kind \in {"today", "board", "digest"}, UNCHANGED rows, Ask(kind)
      PROVE  ViewsTypeOK'
  <2>1. open' \subseteq Thread /\ steady' \in BOOLEAN
    BY <1>4 DEF Ask, Todo, Known
  <2>2. request' \in [kind : {"none", "today", "board", "digest"}, at : 0 .. MaxNow]
    BY <1>1, <1>4 DEF Ask, Moment
  <2>3. got' \in RowLists
    BY <1>4, EmptyType DEF Ask
  <2>4. request'.kind = kind /\ pending' = Lists(kind) /\ lost' = {} /\ answer' = <<>> /\ now' = now
    BY <1>4 DEF Ask
  <2> QED BY <1>1, <1>4, <1>a, <2>1, <2>2, <2>3, <2>4 DEF AssemblyTyped, RowLists, Moment
<1>5. ASSUME NEW list \in pending, UNCHANGED rows, Read(list) \/ ReadFails(list)
      PROVE  ViewsTypeOK'
  <2>1. list \in ListNames /\ list \in Lists(request.kind)
    BY NamesOfLists DEF AssemblyTyped
  <2>2. got' \in RowLists
    BY <1>1, <1>5, <2>1, ListedType DEF Read, ReadFails, Collect
  <2>3. /\ pending' = pending \ {list} /\ (pending' # {} => answer' = answer)
        /\ UNCHANGED <<now, request, steady, open>>
    BY <1>5 DEF Read, ReadFails, Collect
  <2>4. lost' = lost \/ lost' = lost \union {list}
    BY <1>5 DEF Read, ReadFails
  <2>5. pending' \subseteq Lists(request.kind) /\ lost' \subseteq Lists(request.kind)
    BY <2>1, <2>3, <2>4 DEF AssemblyTyped
  <2>6. pending' \intersect lost' = {}
    <3>1. pending \intersect lost = {}
      BY DEF AssemblyTyped
    <3> QED BY <2>3, <2>4, <3>1
  <2>7. request' = request /\ now' = now /\ steady' = steady /\ open' = open
    BY <2>3
  <2>8. pending' # {} => answer' = <<>>
    BY <2>3 DEF AssemblyTyped
  <2>9. AssemblyTyped'
    BY <2>2, <2>5, <2>6, <2>7, <2>8 DEF AssemblyTyped, RowLists
  <2> QED BY <1>5, <1>a, <2>9
<1>6. CASE UNCHANGED pagesVars
  BY <1>6, <1>a DEF pagesVars, assembly, AssemblyTyped
<1> QED BY <1>1, <1>2, <1>3, <1>a, <1>4, <1>5, <1>6, StepKinds DEF ViewsTypeOK, AssemblyTyped

\* Type correctness: the rows of the service keep their types, and every row belongs to a
\* thread the service knows (requireThread of sqlite.ts, the foreign keys of the schema).
THEOREM ViewsTypeCorrect == ViewsSpec => []ViewsTypeOK
BY TypedAtFirst, TypedNext, PTL DEF ViewsSpec

-----------------------------------------------------------------------------
(* The pages.                                                              *)

\* The inductive invariant.  A page is that of the lists that came, ranked by the clock of
\* some moment ...
Assembled ==
  /\ (request.kind = "none") => (pending = {} /\ answer = <<>>)
  /\ Answered("today") => \E at \in 0 .. MaxNow : answer = <<Today(got, at)>>
  /\ Answered("board") => (answer = <<Board(got)>>)
  /\ Answered("digest") => (answer = <<Digest(got, request.at)>>)

\* ... of which each shows what was there all along ...
Came == IF request.kind = "none" THEN {} ELSE Lists(request.kind) \ (pending \union lost)

OpenIsListed ==
  /\ open \subseteq Todo(tasks, Known)
  /\ "tasks" \in Came =>
       \A t \in open : \E i \in DOMAIN got.tasks :
         got.tasks[i].thread = t /\ got.tasks[i].state # "done"
  /\ "threads" \in Came => \A t \in open : got.threads[t] # None

\* ... and what is there now, as long as nothing was written.
ListsAreCurrent == steady => \A list \in Came : got[list] = Listed(list)

PagesInv == ViewsTypeOK /\ Assembled /\ OpenIsListed /\ ListsAreCurrent

LEMMA PagesAtFirst == ViewsInit => PagesInv
<1> SUFFICES ASSUME ViewsInit PROVE PagesInv
  OBVIOUS
<1>1. request.kind = "none" /\ pending = {} /\ answer = <<>> /\ open = {}
  BY DEF ViewsInit, NoRequest
<1>2. Came = {}
  BY <1>1 DEF Came
<1>3. Assembled
  BY <1>1 DEF Assembled, Answered
<1>4. OpenIsListed
  BY <1>1, <1>2 DEF OpenIsListed
<1>5. ListsAreCurrent
  BY <1>2 DEF ListsAreCurrent
<1> QED BY <1>3, <1>4, <1>5, TypedAtFirst DEF PagesInv

\* The last answer assembles the page; before it there is none.
LEMMA CollectAssembles ==
  ASSUME PagesInv, NEW list \in pending, NEW lists, Collect(list, lists)
  PROVE  Assembled'
<1>1. /\ request' = request /\ got' = lists /\ pending' = pending \ {list}
      /\ pending' = {} => answer' = Page(request.kind, lists)
      /\ pending' # {} => answer' = answer
  BY DEF Collect
<1>2. /\ answer = <<>>
      /\ request.kind \in {"today", "board", "digest"}
      /\ now \in 0 .. MaxNow
  BY DEF PagesInv, ViewsTypeOK, AssemblyTyped, Assembled
<1>3. CASE pending' # {}
  BY <1>1, <1>2, <1>3 DEF Assembled, Answered
<1>4. CASE pending' = {}
  <2>1. request.kind = "today" => answer' = <<Today(got', now)>>
    BY <1>1, <1>4 DEF Page
  <2>2. request.kind = "board" => answer' = <<Board(got')>>
    BY <1>1, <1>4 DEF Page
  <2>3. request.kind = "digest" => answer' = <<Digest(got', request'.at)>>
    BY <1>1, <1>4 DEF Page
  <2> QED BY <1>1, <1>2, <2>1, <2>2, <2>3 DEF Assembled, Answered
<1> QED BY <1>3, <1>4

\* A list that came is the service's, one that failed is not among those that came.
LEMMA ListComes ==
  ASSUME PagesInv, NEW list \in pending, UNCHANGED rows, Read(list) \/ ReadFails(list)
  PROVE  /\ list \in ListNames /\ Came' \subseteq ListNames
         /\ \A l \in Came' : \/ l = list /\ got'[l] = Listed(l)
                             \/ l # list /\ l \in Came /\ got'[l] = got[l]
         /\ \A l \in ListNames : Listed(l)' = Listed(l)
         /\ open' = open /\ steady' = steady
<1>1. /\ list \in ListNames /\ got \in RowLists /\ request' = request
      /\ pending' = pending \ {list} /\ open' = open /\ steady' = steady
  BY NamesOfLists DEF PagesInv, ViewsTypeOK, AssemblyTyped, RowLists, Read, ReadFails, Collect
<1>2. Came' \subseteq ListNames
  BY NamesOfLists DEF Came
<1>3. \A l \in ListNames : Listed(l)' = Listed(l)
  BY <1>1 DEF Listed, rows, Known, ListNames
<1>4. CASE Read(list)
  <2>1. got' = [got EXCEPT ![list] = Listed(list)] /\ lost' = lost
    BY <1>4 DEF Read, Collect
  <2>2. \A l \in ListNames : got'[l] = IF l = list THEN Listed(list) ELSE got[l]
    BY <1>1, <2>1, OneListCame
  <2>3. \A l \in Came' : l = list \/ l \in Came
    BY <1>1, <2>1 DEF Came
  <2> QED BY <1>1, <1>2, <1>3, <2>2, <2>3
<1>5. CASE ReadFails(list)
  <2>1. got' = got /\ lost' = lost \union {list}
    BY <1>5 DEF ReadFails, Collect
  <2>2. \A l \in Came' : l # list /\ l \in Came
    BY <1>1, <2>1 DEF Came
  <2> QED BY <1>1, <1>2, <1>3, <2>1, <2>2
<1> QED BY <1>4, <1>5

LEMMA PagesNext == PagesInv /\ [ViewsNext]_pagesVars => PagesInv'
<1> SUFFICES ASSUME PagesInv, [ViewsNext]_pagesVars PROVE PagesInv'
  OBVIOUS
<1>0. ViewsTypeOK' /\ RowsTyped /\ now \in Moment
  BY TypedNext DEF PagesInv, ViewsTypeOK, AssemblyTyped, Moment
<1>1. CASE RowsTyped' /\ Write
  <2>1. /\ UNCHANGED <<request, pending, got, lost, answer>> /\ steady' = FALSE
        /\ open' = open \intersect Todo(tasks, Known)'
    BY <1>1 DEF Write, assembly, Known
  <2>2. Came' = Came
    BY <2>1 DEF Came
  <2>3. Assembled'
    BY <2>1 DEF PagesInv, Assembled, Answered
  <2>4. OpenIsListed'
    BY <2>1, <2>2 DEF PagesInv, OpenIsListed
  <2>5. ListsAreCurrent'
    BY <2>1 DEF ListsAreCurrent
  <2> QED BY <1>0, <2>3, <2>4, <2>5 DEF PagesInv
<1>2. CASE UNCHANGED <<rows, request, pending, got, lost, answer, steady, open>>
  <2>1. Came' = Came /\ Known' = Known /\ \A l \in ListNames : Listed(l)' = Listed(l)
    BY <1>2 DEF Came, Known, rows, Listed, ListNames
  <2>2. Came \subseteq ListNames
    BY NamesOfLists DEF Came
  <2>3. Assembled'
    BY <1>2 DEF PagesInv, Assembled, Answered
  <2>4. OpenIsListed'
    BY <1>2, <2>1 DEF PagesInv, OpenIsListed, rows
  <2>5. ListsAreCurrent'
    BY <1>2, <2>1, <2>2 DEF PagesInv, ListsAreCurrent
  <2> QED BY <1>0, <2>3, <2>4, <2>5 DEF PagesInv
<1>3. ASSUME NEW kind \in {"today", "board", "digest"}, UNCHANGED rows, Ask(kind)
      PROVE  PagesInv'
  <2>1. /\ request'.kind = kind /\ pending' = Lists(kind) /\ answer' = <<>>
        /\ open' = Todo(tasks, Known)
    BY <1>3 DEF Ask
  <2>2. Came' = {}
    BY <2>1 DEF Came
  <2>3. Assembled'
    BY <2>1 DEF Assembled, Answered
  <2>4. open' = Todo(tasks, Known)'
    BY <1>3, <2>1 DEF rows, Known
  <2>5. OpenIsListed' /\ ListsAreCurrent'
    BY <2>2, <2>4 DEF OpenIsListed, ListsAreCurrent
  <2> QED BY <1>0, <2>3, <2>5 DEF PagesInv
<1>4. ASSUME NEW list \in pending, UNCHANGED rows, Read(list) \/ ReadFails(list)
      PROVE  PagesInv'
  <2>1. /\ list \in ListNames /\ Came' \subseteq ListNames
        /\ \A l \in Came' : \/ l = list /\ got'[l] = Listed(l)
                            \/ l # list /\ l \in Came /\ got'[l] = got[l]
        /\ \A l \in ListNames : Listed(l)' = Listed(l)
        /\ open' = open /\ steady' = steady
    BY <1>4, ListComes
  <2>2. Assembled'
    BY <1>4, CollectAssembles DEF Read, ReadFails
  <2>3. ListsAreCurrent'
    BY <2>1 DEF PagesInv, ListsAreCurrent
  <2>4. open' \subseteq Todo(tasks, Known)'
    BY <1>4, <2>1 DEF PagesInv, OpenIsListed, rows, Known
  <2>5. ASSUME "tasks" \in Came', NEW t \in open
        PROVE  \E i \in DOMAIN got'.tasks : got'.tasks[i].thread = t /\ got'.tasks[i].state # "done"
    <3>1. \/ got'.tasks = Listed("tasks")
          \/ "tasks" \in Came /\ got'.tasks = got.tasks
      BY <2>1, <2>5
    <3>2. Listed("tasks") = tasks
      BY DEF Listed
    <3>3. t \in Todo(tasks, Known)
      BY DEF PagesInv, OpenIsListed
    <3>4. \E i \in DOMAIN tasks : tasks[i].thread = t /\ tasks[i].state # "done"
      BY <3>3 DEF Todo
    <3> QED BY <3>1, <3>2, <3>4 DEF PagesInv, OpenIsListed
  <2>6. ASSUME "threads" \in Came', NEW t \in open PROVE got'.threads[t] # None
    <3>1. \/ got'.threads = Listed("threads")
          \/ "threads" \in Came /\ got'.threads = got.threads
      BY <2>1, <2>6
    <3>2. Listed("threads") = threads
      BY DEF Listed
    <3>3. t \in Todo(tasks, Known)
      BY DEF PagesInv, OpenIsListed
    <3>4. threads[t] # None
      BY <3>3 DEF Todo, Known
    <3> QED BY <3>1, <3>2, <3>4 DEF PagesInv, OpenIsListed
  <2>7. OpenIsListed'
    BY <2>1, <2>4, <2>5, <2>6 DEF OpenIsListed
  <2> QED BY <1>0, <2>2, <2>3, <2>7 DEF PagesInv
<1>5. CASE ViewsNext
  <2>1. CASE UNCHANGED rows /\ Tick
    BY <1>2, <2>1 DEF Tick, assembly
  <2> QED BY <1>0, <1>1, <1>3, <1>4, <1>5, <2>1, StepKinds
<1>6. CASE UNCHANGED pagesVars
  BY <1>2, <1>6 DEF pagesVars, assembly
<1> QED BY <1>5, <1>6

THEOREM PagesHold == ViewsSpec => []PagesInv
BY PagesAtFirst, PagesNext, PTL DEF ViewsSpec

LEMMA GotIsTyped == ViewsTypeOK => ListsTyped(got)
BY DEF ViewsTypeOK, AssemblyTyped, ListsTyped

\* However writes fall between the list calls, and for any stock of rows, any number of
\* writes and any cap on the cards: a thread with work to do all along is in the queue of
\* Today exactly once, unless a call failed or the queue is full (assembleTodayView).
THEOREM TodayDropsNothingHolds == ViewsSpec => []TodayDropsNothing
<1>1. PagesInv => TodayDropsNothing
  <2> SUFFICES ASSUME PagesInv, Answered("today"), lost = {}, Len(answer[1].doNext) # MaxCards,
                      NEW t \in open
               PROVE  Cardinality(CardsOf(answer[1].doNext, t)) = 1
    BY DEF TodayDropsNothing, CardsOf
  <2>1. PICK at \in Moment : answer = <<Today(got, at)>>
    BY DEF PagesInv, Assembled, Moment
  <2>2. answer[1].doNext = DoNext(got, at)
    BY <2>1 DEF Today
  <2>a. AssemblyTyped
    BY DEF PagesInv, ViewsTypeOK
  <2>3. request.kind = "today" /\ pending = {}
    BY <2>a DEF Answered, AssemblyTyped
  <2>4. "tasks" \in Came /\ "threads" \in Came
    BY <2>3 DEF Came, Lists
  <2>5. t \in Thread
    BY DEF PagesInv, ViewsTypeOK, AssemblyTyped
  <2>6. t \in Todo(got.tasks, KnownIn(got))
    BY <2>4, <2>5 DEF PagesInv, OpenIsListed, Todo, KnownIn
  <2>7. ListsTyped(got)
    BY GotIsTyped DEF PagesInv
  <2>8. Len(DoNext(got, at)) # MaxCards
    BY <2>2
  <2> QED BY <2>2, <2>6, <2>7, <2>8, QueueDropsNothing
<1> QED BY <1>1, PagesHold, PTL

\* The label a card shows and the place it has are computed apart, from the same promises
\* and the same clock, and never disagree (urgencyLabel, promiseTierKey, rankTasks).
THEOREM LabelsFollowTheOrderHolds == ViewsSpec => []LabelsFollowTheOrder
<1>1. PagesInv => LabelsFollowTheOrder
  <2> SUFFICES ASSUME PagesInv, Answered("today"),
                      NEW i \in DOMAIN answer[1].doNext, NEW j \in DOMAIN answer[1].doNext, i < j
               PROVE  LET queue == answer[1].doNext
                      IN /\ queue[i].my >= queue[j].my
                         /\ (queue[i].my = 0) => (queue[i].they >= queue[j].they)
    BY DEF LabelsFollowTheOrder
  <2>1. PICK at \in Moment : answer = <<Today(got, at)>>
    BY DEF PagesInv, Assembled, Moment
  <2>2. answer[1].doNext = DoNext(got, at)
    BY <2>1 DEF Today
  <2>3. ListsTyped(got)
    BY GotIsTyped DEF PagesInv
  <2> QED BY <2>2, <2>3, QueueFollowsTheLabels
<1> QED BY <1>1, PagesHold, PTL

\* Every thread is in one group of the board, and in that of the state the do-next queue of
\* the same lists shows (groupThreads and assembleTodayView choose a thread's task apart).
THEOREM BoardAgreesWithTodayHolds == ViewsSpec => []BoardAgreesWithToday
<1>1. PagesInv => BoardAgreesWithToday
  <2> SUFFICES ASSUME PagesInv, Answered("board")
               PROVE  LET board == answer[1]
                          queue == DoNext(got, now)
                      IN /\ \A t \in KnownIn(got) : Cardinality({s \in TaskState : t \in board[s]}) = 1
                         /\ \A i \in DOMAIN queue : queue[i].thread \in board[queue[i].state]
    BY DEF BoardAgreesWithToday
  <2> DEFINE queue == DoNext(got, now)
             ts == got.tasks
  <2>1. answer[1] = Board(got)
    BY DEF PagesInv, Assembled
  <2>2. ListsTyped(got) /\ now \in Moment
    BY GotIsTyped DEF PagesInv, ViewsTypeOK, AssemblyTyped, Moment
  <2>3. ts \in Seq(TaskRow) /\ KnownIn(got) \in SUBSET Thread
    BY <2>2 DEF ListsTyped, KnownIn
  <2>4. \A i \in DOMAIN ts : ts[i].state \in TaskState
    <3>1. \A i \in DOMAIN ts : ts[i] \in TaskRow
      BY <2>3
    <3> QED BY <3>1 DEF TaskRow
  <2>5. ASSUME NEW t PROVE Active(ts, t) = 0 \/ Active(ts, t) \in DOMAIN ts
    <3> DEFINE all == {i \in DOMAIN ts : ts[i].thread = t}
               undone == {i \in DOMAIN ts : ts[i].thread = t /\ ts[i].state # "done"}
    <3>1. all \in SUBSET (Nat \ {0}) /\ undone \in SUBSET (Nat \ {0})
      BY <2>3
    <3>2. /\ all \subseteq DOMAIN ts /\ undone \subseteq DOMAIN ts
          /\ FirstOf(ts, t) = First(all) /\ FirstUndone(ts, t) = First(undone)
      BY DEF FirstOf, FirstUndone
    <3> HIDE DEF all, undone
    <3>3. (First(all) = 0 \/ First(all) \in all) /\ (First(undone) = 0 \/ First(undone) \in undone)
      BY <3>1, FirstIsLeast
    <3> QED BY <3>2, <3>3 DEF Active
  <2>6. \A t : Group(got, t) \in TaskState
    BY <2>4, <2>5 DEF Group, TaskState
  <2>7. \A t \in KnownIn(got), s \in TaskState : t \in Board(got)[s] <=> s = Group(got, t)
    BY DEF Board
  <2>8. ASSUME NEW t \in KnownIn(got)
        PROVE  Cardinality({s \in TaskState : t \in Board(got)[s]}) = 1
    <3>1. {s \in TaskState : t \in Board(got)[s]} = {Group(got, t)}
      BY <2>6, <2>7
    <3> QED BY <3>1, FS_Singleton
  <2>9. ASSUME NEW n \in DOMAIN queue PROVE queue[n].thread \in Board(got)[queue[n].state]
    <3>1. PICK i \in Queued(ts, KnownIn(got)) : queue[n] = Card(ts[i].thread, got, now)
      BY <2>2, DoNextQueue
    <3> DEFINE t == ts[i].thread
    <3>2. i \in DOMAIN ts /\ t \in KnownIn(got) /\ i = FirstUndone(ts, t)
      BY <2>3, QueueIsOneTaskAThread
    <3>3. i # 0
      BY <2>3, <3>2
    <3>4. Group(got, t) = ts[i].state
      BY <3>2, <3>3 DEF Group, Active
    <3>5. queue[n].thread = t /\ queue[n].state = ts[i].state
      BY <3>1, <3>2 DEF Card
    <3> QED BY <2>4, <2>7, <3>2, <3>4, <3>5
  <2> QED BY <2>1, <2>8, <2>9
<1> QED BY <1>1, PagesHold, PTL

\* The digest a backend assembles from five lists is the one the service answers with when
\* it reads its tables at once: the two select and cut the window apart (digest.ts,
\* getDigestMetadata of sqlite.ts).
THEOREM DigestMirrorsTheServiceHolds == ViewsSpec => []DigestMirrorsTheService
<1>1. PagesInv => DigestMirrorsTheService
  <2> SUFFICES ASSUME PagesInv, Answered("digest"), lost = {}, steady
               PROVE  answer[1] = ServiceDigest(request.at)
    BY DEF DigestMirrorsTheService
  <2> DEFINE end == request.at
  <2>1. answer[1] = Digest(got, end)
    BY DEF PagesInv, Assembled
  <2>2. request.kind = "digest" /\ pending = {}
    BY DEF Answered, PagesInv, ViewsTypeOK, AssemblyTyped
  <2>3. Came = ListNames
    BY <2>2 DEF Came, Lists, ListNames
  <2>4. \A list \in ListNames : got[list] = Listed(list)
    BY <2>3 DEF PagesInv, ListsAreCurrent
  <2>5. /\ got.tasks = tasks /\ got.threads = threads /\ got.promises = promises
        /\ got.drafts = drafts
        /\ got.transitions = {t \in transitions : t.thread \in Known /\ InWindow(t.at, end)}
    <3>1. /\ got.tasks = Listed("tasks") /\ got.threads = Listed("threads")
          /\ got.promises = Listed("promises") /\ got.drafts = Listed("drafts")
          /\ got.transitions = Listed("transitions")
      BY <2>4 DEF ListNames
    <3> QED BY <3>1 DEF Listed
  <2>6. KnownIn(got) = Known
    BY <2>5 DEF KnownIn, Known
  <2>7. \A row \in promises \union drafts \union transitions : row.thread \in Known
    BY DEF PagesInv, ViewsTypeOK, RowsTyped
  <2> DEFINE d == Digest(got, end)
             e == ServiceDigest(end)
  <2>8. WaitingForYou(got.tasks, KnownIn(got)) = WaitingForYou(tasks, Known)
    BY <2>5, <2>6
  <2>9. {p \in got.promises : Actionable(p) /\ DueBy(p, end)}
          = {p \in promises : p.thread \in Known /\ p.status \in {"open", "overdue"}
                                /\ p.due # None /\ p.due <= end}
    BY <2>5, <2>7 DEF Actionable, DueBy
  <2>10. {t \in got.transitions : InWindow(t.at, end)}
           = {t \in transitions : t.thread \in Known /\ InWindow(t.at, end)}
    BY <2>5
  <2>11. {x \in got.drafts : InWindow(x.at, end)}
           = {x \in drafts : x.thread \in Known /\ InWindow(x.at, end)}
    BY <2>5, <2>7
  <2>12. Digest(got, end) = ServiceDigest(end)
    BY <2>8, <2>9, <2>10, <2>11 DEF Digest, ServiceDigest
  <2> QED BY <2>1, <2>12
<1> QED BY <1>1, PagesHold, PTL

=================================================================================
