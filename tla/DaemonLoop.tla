------------------------------ MODULE DaemonLoop ------------------------------
(***************************************************************************)
(* The background daemon of the backend process: its start by the          *)
(* composition root (backend/src/api/server.ts), the loop that runs a      *)
(* cycle on every tick (backend/src/daemon/loop.ts), and the three things  *)
(* that tick: new mail or a new connection, the cold-poll interval, and    *)
(* the "Sync now" button.                                                  *)
(*                                                                         *)
(* What a cycle does with a message is DaemonCycle, what its poll finds is *)
(* MailSync, and how the connection comes back is ImapConnection; here     *)
(* messages are only counted.                                              *)
(***************************************************************************)
EXTENDS Integers

CONSTANTS
  MaxMail,    \* bound: messages that wait for a poll
  Faults,     \* which of "crash", "drop", "hang", "poll" and those of LiveView may happen
  MaxFaults   \* bound: faults in a behaviour

ASSUME BoundsAssumption == MaxMail \in Nat /\ MaxFaults \in Nat

VARIABLES
  configured,  \* a mailbox, its password and the project's token are stored
  daemon,      \* maybeStartDaemon: "off" while the process is down
  link,        \* the connection's current client
  exists,      \* an 'exists' push is on its way
  cycle,       \* the cycle under way; `running` unless "none"
  waiting,     \* messages in the mailbox that no poll has taken
  batch,       \* messages the cycle has yet to process
  overlooked,  \* history: why announced mail may wait, since the last poll
  faults

loopVars == <<configured, daemon, link, exists, cycle, waiting, batch, overlooked, faults>>

running == cycle # "none"

LoopInit ==
  /\ configured = FALSE /\ daemon = "off"
  /\ link = "down" /\ exists = FALSE
  /\ cycle = "none" /\ waiting = 0 /\ batch = 0
  /\ overlooked = {} /\ faults = 0

Fault(f) == f \in Faults /\ faults < MaxFaults /\ faults' = faults + 1

-----------------------------------------------------------------------------
(* tick(): skipped, not remembered, while a cycle runs.  poll() reads the  *)
(* current client at once: without one it finds nothing, and one that is   *)
(* still connecting fails.                                                 *)

TickDropped(client) ==      \* mutant: no tick starts a cycle
  UNCHANGED <<cycle, overlooked>>

TickAnyway(client) ==       \* mutant: a tick starts a cycle while one runs
  cycle' = (IF client = "up" THEN "poll" ELSE "work") /\ UNCHANGED overlooked

TickWith(client) ==
  IF running
    THEN overlooked' = overlooked \union {"skipped"} /\ UNCHANGED cycle
    ELSE /\ cycle' = CASE client = "up" -> "poll"
                       [] client = "connecting" -> "failing"
                       [] client = "down" -> "work"
         /\ UNCHANGED overlooked

tick == TickWith(link)

-----------------------------------------------------------------------------
(* The start of the process.                                               *)

\* The wizard stores what the daemon needs; it is read at the next start.
Configure ==
  /\ ~configured /\ configured' = TRUE
  /\ UNCHANGED <<daemon, link, exists, cycle, waiting, batch, overlooked, faults>>

\* main() up to the await of the password.
Main ==
  /\ daemon = "off"
  /\ daemon' = IF configured THEN "starting" ELSE "idle"
  /\ UNCHANGED <<configured, link, exists, cycle, waiting, batch, overlooked, faults>>

\* startDaemon() without an immediate tick: the connection opens, the interval is set,
\* and the trigger and the sync control are armed before anything else can run.
StartDaemon ==
  /\ daemon = "starting"
  /\ daemon' = "live" /\ link' = "connecting"
  /\ UNCHANGED <<configured, exists, cycle, waiting, batch, overlooked, faults>>

-----------------------------------------------------------------------------
(* What ticks.                                                             *)

\* onReady: listen for new mail and fire.
OnReadyDeaf ==              \* mutant: a new connection only listens
  /\ link = "connecting" /\ link' = "up"
  /\ UNCHANGED <<configured, daemon, exists, cycle, waiting, batch, overlooked, faults>>

OnReady ==
  /\ link = "connecting"
  /\ link' = "up"
  /\ TickWith("up")
  /\ UNCHANGED <<configured, daemon, exists, waiting, batch, faults>>

OnExists ==
  /\ exists /\ exists' = FALSE
  /\ tick
  /\ UNCHANGED <<configured, daemon, link, waiting, batch, faults>>

Interval ==
  /\ daemon = "live"
  /\ tick
  /\ UNCHANGED <<configured, daemon, link, exists, waiting, batch, faults>>

\* POST /api/sync: 503 while the sync control is empty, else runCycleNow() and 202.
RunCycleNow ==
  /\ daemon = "live"
  /\ tick
  /\ UNCHANGED <<configured, daemon, link, exists, waiting, batch, faults>>

-----------------------------------------------------------------------------
(* A cycle.                                                                *)

\* The poll lists the mailbox.
Poll ==
  /\ cycle = "poll" /\ cycle' = "work"
  /\ batch' = waiting /\ waiting' = 0
  /\ overlooked' = {}
  /\ UNCHANGED <<configured, daemon, link, exists, faults>>

\* Its error is logged and the poll finds nothing.
PollFails ==
  /\ \/ cycle = "failing" /\ UNCHANGED <<overlooked, faults>>
     \/ /\ cycle = "poll" /\ Fault("poll")
        /\ overlooked' = overlooked \union {"failed"}
  /\ cycle' = "work"
  /\ UNCHANGED <<configured, daemon, link, exists, waiting, batch>>

\* A message is triaged and its outcome written; nobody is told yet.
Process ==
  /\ cycle = "work" /\ batch > 0
  /\ batch' = batch - 1
  /\ UNCHANGED <<configured, daemon, link, exists, cycle, waiting, overlooked, faults>>

\* The promise settles: onCycle, and `running` is reset.
CycleEnds ==
  /\ cycle = "work" /\ batch = 0
  /\ cycle' = "none"
  /\ UNCHANGED <<configured, daemon, link, exists, waiting, batch, overlooked, faults>>

\* A call of the metadata service that never settles: it has no timeout.
Hang ==
  /\ cycle \in {"poll", "work"} /\ Fault("hang")
  /\ cycle' = "hung"
  /\ UNCHANGED <<configured, daemon, link, exists, waiting, batch, overlooked>>

-----------------------------------------------------------------------------
(* Outside: mail, the network, the process.                                *)

Arrive ==
  /\ waiting < MaxMail /\ waiting' = waiting + 1
  /\ exists' = (exists \/ link = "up")
  /\ UNCHANGED <<configured, daemon, link, cycle, batch, overlooked, faults>>

\* The connection is lost, with what was on it; a poll that uses it fails.
Drop ==
  /\ link # "down" /\ Fault("drop")
  /\ link' = "down" /\ exists' = FALSE
  /\ cycle' = IF cycle = "poll" THEN "failing" ELSE cycle
  /\ UNCHANGED <<configured, daemon, waiting, batch, overlooked>>

\* The reconnect timer: a new client.
Reconnect ==
  /\ daemon = "live" /\ link = "down"
  /\ link' = "connecting"
  /\ UNCHANGED <<configured, daemon, exists, cycle, waiting, batch, overlooked, faults>>

\* launchd starts the process again.  What the poll had taken stays taken.
Crash ==
  /\ daemon # "off" /\ Fault("crash")
  /\ daemon' = "off" /\ link' = "down" /\ exists' = FALSE
  /\ cycle' = "none" /\ batch' = 0
  /\ overlooked' = {}
  /\ UNCHANGED <<configured, waiting>>

-----------------------------------------------------------------------------
\* Types; only a live daemon has a connection or a cycle, and only a cycle a batch.
LoopTypeOK ==
  /\ configured \in BOOLEAN /\ daemon \in {"off", "starting", "idle", "live"}
  /\ link \in {"down", "connecting", "up"} /\ (link # "down" => daemon = "live")
  /\ exists \in BOOLEAN /\ (exists => link = "up")
  /\ cycle \in {"none", "poll", "failing", "work", "hung"} /\ (running => daemon = "live")
  /\ waiting \in 0..MaxMail /\ batch \in 0..MaxMail /\ (batch > 0 => cycle \in {"work", "hung"})
  /\ overlooked \subseteq {"skipped", "failed"} /\ faults \in 0..MaxFaults

=============================================================================
