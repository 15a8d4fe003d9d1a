------------------------------ MODULE ThreadLock ------------------------------
(***************************************************************************)
(* The lock that keeps two people from handling one thread at once: the    *)
(* row of the metadata server's `locks` table for ONE thread               *)
(* (server/src/repo/sqlite.ts), the local backend's three lock routes      *)
(* (backend/src/api/app.ts), and the browser side that acquires the lock   *)
(* on mount, heartbeats it and releases it on unmount (useThreadLock in    *)
(* frontend/src/lib/work-surface-hooks.ts).                                *)
(*                                                                         *)
(* A session is one tab's work surface of the thread; an actor may have    *)
(* several.  The hook's effect runs when the surface is opened, and again  *)
(* when the settings arrive while it is open; an earlier run's calls may   *)
(* then still be in flight.  Every call is asynchronous: it is sent,       *)
(* served by the server at some later time, and its reply reaches the      *)
(* session later still, in any order; it may fail on the way there or on   *)
(* the way back.                                                           *)
(*                                                                         *)
(* Time is relative: `left` is expires_at - now, never below 0, and Tick   *)
(* is one unit of time passing for every copy of an expiry at once.        *)
(***************************************************************************)
EXTENDS Integers

CONSTANTS
  Actors,    \* locked_by values
  Sessions,  \* tabs that open the thread
  Slots,     \* bound: calls in flight
  SlotsOf,   \* bound: those of a session for each kind of call
  ActorOf,   \* the actor a session belongs to
  Ttl,       \* lockTimeoutMinutes of each actor, in units of Tick
  DefaultTtl,  \* DEFAULT_LOCK_TIMEOUT_MINUTES, in the same units
  NoOne      \* locked_by of a row that does not exist

ASSUME ActorsAssumption == NoOne \notin Actors
ASSUME ActorOfAssumption == ActorOf \in [Sessions -> Actors]
ASSUME TtlAssumption == Ttl \in [Actors -> Nat \ {0}]

VARIABLES
  lock,      \* the row: who holds it and how long it is still valid
  session,   \* the hook's state in each session
  calls      \* the calls in flight of each session

lockVars == <<lock, session, calls>>

NoLock == [by |-> NoOne, left |-> 0]
Closed == [status |-> "closed", presence |-> "acquiring", left |-> 0,
           holding |-> FALSE, beating |-> FALSE, settled |-> FALSE, undercut |-> FALSE]
Idle == [op |-> "idle", result |-> "none", left |-> 0, cancelled |-> FALSE, undercut |-> FALSE]
Sent(op) == [Idle EXCEPT !.op = op, !.result = "pending"]

\* settled: the page has its settings.  undercut is history, of the lease that is shown
\* here and of the one in a reply below: its own actor has released the lock since.
SessionState == [status : {"closed", "open", "killed"},
                 presence : {"acquiring", "held", "contended", "lost", "error"},
                 left : Nat, holding : BOOLEAN, beating : BOOLEAN,
                 settled : BOOLEAN, undercut : BOOLEAN]

\* cancelled: the run that made the call has been cleaned up.
Call == [op : {"idle", "acquire", "refresh", "release"},
         result : {"none", "pending", "ok", "refused", "error"},
         left : Nat, cancelled : BOOLEAN, undercut : BOOLEAN]

\* The row is absent, or an actor holds it for at most that actor's timeout.
LockRowTypeOK ==
  /\ lock \in [by : Actors \union {NoOne}, left : Nat]
  /\ lock.by = NoOne => lock = NoLock
  /\ lock.by # NoOne => lock.left <= Ttl[lock.by]

LocksTypeOK ==
  /\ LockRowTypeOK
  /\ session \in [Sessions -> SessionState]
  /\ calls \in [Sessions -> [Slots -> Call]]

LocksInit ==
  /\ lock = NoLock
  /\ session = [s \in Sessions |-> Closed]
  /\ calls = [s \in Sessions |-> [k \in Slots |-> Idle]]

-----------------------------------------------------------------------------
(* The metadata server: each operation is one transaction.                 *)

Expired == lock.left = 0

GrantedLonger(a) == [by |-> a, left |-> Ttl[a] + 1] \* mutant: off by one

GrantedTo(a) == [by |-> a, left |-> Ttl[a]]

Put(s, k, c) == calls' = [calls EXCEPT ![s][k] = c]

Pending(s, k, op) == calls[s][k].op = op /\ calls[s][k].result = "pending"

Reply(s, k, r, n) ==
  Put(s, k, [calls[s][k] EXCEPT !.result = r, !.left = n])

\* POST /locks/acquire: a free or expired lock is taken, the holder's own
\* is extended, and any other is reported with its holder.
CanTakeEarly(a) == lock.by \in {NoOne, a} \/ lock.left <= 1 \* mutant: expires too soon

CanTake(a) == lock.by \in {NoOne, a} \/ Expired

AcquireLock(s, k) ==
  /\ Pending(s, k, "acquire")
  /\ \/ /\ CanTake(ActorOf[s])
        /\ lock' = GrantedTo(ActorOf[s])
        /\ Reply(s, k, "ok", Ttl[ActorOf[s]])
     \/ /\ ~CanTake(ActorOf[s])
        /\ Reply(s, k, "refused", 0)
        /\ UNCHANGED lock
  /\ UNCHANGED session

\* POST /locks/refresh: the holder's lock is extended, even past its expiry.
\* A lock of another actor (409) and no lock at all (404) reach the browser
\* alike: the local route turns every 4xx into a 409.
RefreshLock(s, k) ==
  /\ Pending(s, k, "refresh")
  /\ \/ /\ lock.by = ActorOf[s]
        /\ lock' = GrantedTo(ActorOf[s])
        /\ Reply(s, k, "ok", Ttl[ActorOf[s]])
     \/ /\ lock.by # ActorOf[s]
        /\ Reply(s, k, "refused", 0)
        /\ UNCHANGED lock
  /\ UNCHANGED session

\* POST /locks/release: the holder's lock, or anyone's expired one, goes.
\* The browser ignores the outcome.
MayFreeAny(a) == TRUE       \* mutant: the holder is not compared

MayFree(a) == lock.by = a \/ Expired

\* History: what is left of the leases of an actor who has released the lock.
Undercut(a, t, lease) ==
  [lease EXCEPT !.undercut = @ \/ (ActorOf[t] = a /\ lease.left > 0)]

ReleaseLock(s, k) ==
  /\ Pending(s, k, "release")
  /\ lock' = IF MayFree(ActorOf[s]) THEN NoLock ELSE lock
  /\ session' = [t \in Sessions |-> Undercut(ActorOf[s], t, session[t])]
  /\ calls' = [t \in Sessions |-> [j \in Slots |->
       IF t = s /\ j = k THEN Idle ELSE Undercut(ActorOf[s], t, calls[t][j])]]

\* A call that never reaches the server, or whose reply never comes back (offline, 5xx):
\* the browser sees an error that is not a 409.  Only a grab of the current run reads it.
CallFails(s, k) ==
  /\ calls[s][k].result \in {"pending", "ok", "refused"}
  /\ IF calls[s][k].op = "acquire" /\ ~calls[s][k].cancelled
       THEN Put(s, k, [Sent("acquire") EXCEPT !.result = "error"])
       ELSE Put(s, k, Idle)
  /\ UNCHANGED <<lock, session>>

-----------------------------------------------------------------------------
(* The browser: useThreadLock.                                             *)

Free(s, op) == {k \in Slots : k \in SlotsOf[s][op] /\ calls[s][k] = Idle}

\* The surface is opened and the effect runs: grab().  A tab that was killed is opened
\* again only when none of its calls is left in flight; sooner, it is another session.
Mount(s) ==
  /\ session[s].status # "open"
  /\ session[s].status = "killed" => \A k \in Slots : calls[s][k] = Idle
  /\ session' = [session EXCEPT ![s] = [Closed EXCEPT !.status = "open",
                                                      !.settled = session[s].settled]]
  /\ \E k \in Free(s, "acquire") : Put(s, k, Sent("acquire"))
  /\ UNCHANGED lock

PresenceAfter(result) == IF result = "ok" THEN "held"
                         ELSE IF result = "refused" THEN "contended" ELSE "error"

AfterGrab(s, c) ==
  [session[s] EXCEPT !.presence = PresenceAfter(c.result), !.left = c.left,
                     !.holding = c.result = "ok", !.beating = c.result = "ok",
                     !.undercut = c.undercut]

\* grab() resumes: held starts the heartbeat; contended and error stop it;
\* an acquire granted after the cleanup ran is given back.
AcquireReturns(s, k) ==
  /\ calls[s][k].op = "acquire"
  /\ calls[s][k].result \in {"ok", "refused", "error"}
  /\ session[s].status # "killed"
  /\ \/ /\ ~calls[s][k].cancelled
        /\ session' = [session EXCEPT ![s] = AfterGrab(s, calls[s][k])]
        /\ Put(s, k, Idle)
     \/ /\ calls[s][k].cancelled
        /\ Put(s, k, IF calls[s][k].result = "ok" THEN Sent("release") ELSE Idle)
        /\ UNCHANGED session
  /\ UNCHANGED lock

\* The interval fires, whether or not the last heartbeat was answered.
HeartbeatFires(s) ==
  /\ session[s].beating
  /\ \E k \in Free(s, "refresh") : Put(s, k, Sent("refresh"))
  /\ UNCHANGED <<lock, session>>

LoseHold(s) ==
  session' = [session EXCEPT ![s].presence = "lost", ![s].left = 0, ![s].undercut = FALSE,
                             ![s].holding = FALSE, ![s].beating = FALSE]

\* heartbeat() resumes: a reply of the server is shown as held, a 409 as lost, followed
\* by a new grab().
GiveUp(s, k) ==             \* mutant: no new grab() after a 409
  LoseHold(s) /\ Put(s, k, Idle)

LockLost(s, k) ==
  LoseHold(s) /\ Put(s, k, Sent("acquire"))

RefreshReturns(s, k) ==
  /\ calls[s][k].op = "refresh"
  /\ calls[s][k].result \in {"ok", "refused"}
  /\ session[s].status # "killed"
  /\ \/ /\ calls[s][k].result = "ok" /\ ~calls[s][k].cancelled
        /\ session' = [session EXCEPT ![s].presence = "held", ![s].left = calls[s][k].left,
                                      ![s].undercut = calls[s][k].undercut]
        /\ Put(s, k, Idle)
     \/ /\ calls[s][k].result = "refused" /\ ~calls[s][k].cancelled
        /\ LockLost(s, k)
     \/ /\ calls[s][k].cancelled
        /\ Put(s, k, Idle)
        /\ UNCHANGED session
  /\ UNCHANGED lock

\* The effect's cleanup: no more heartbeats, the calls of the run are cancelled, and a
\* lock known to be held is released.
Releases(s) == IF session[s].holding THEN {{k} : k \in Free(s, "release")} ELSE {{}}

Cancel(c) == [c EXCEPT !.cancelled = c.op \in {"acquire", "refresh"}]

CleanUp(s, releases, acquires) ==
  calls' = [calls EXCEPT ![s] = [k \in Slots |->
    IF k \in releases THEN Sent("release")
    ELSE IF k \in acquires THEN Sent("acquire") ELSE Cancel(calls[s][k])]]

UnmountKeepsBeating(s) ==   \* mutant: the interval is not cleared
  /\ session[s].status = "open"
  /\ session' = [session EXCEPT ![s] = [Closed EXCEPT !.settled = session[s].settled,
                                                      !.beating = session[s].beating]]
  /\ \E freed \in Releases(s) : CleanUp(s, freed, {})
  /\ UNCHANGED lock

Unmount(s) ==
  /\ session[s].status = "open"
  /\ session' = [session EXCEPT ![s] = [Closed EXCEPT !.settled = session[s].settled]]
  /\ \E freed \in Releases(s) : CleanUp(s, freed, {})
  /\ UNCHANGED lock

\* The settings arrive, with another timeout than the default: heartbeatMs changes, and
\* the effect of an open surface is cleaned up and runs again.  What is shown stays.
SettingsArrive(s) ==
  /\ session[s].status # "killed" /\ ~session[s].settled
  /\ Ttl[ActorOf[s]] # DefaultTtl
  /\ session' = [session EXCEPT ![s].settled = TRUE, ![s].holding = FALSE, ![s].beating = FALSE]
  /\ IF session[s].status = "open"
       THEN \E freed \in Releases(s) : \E k \in Free(s, "acquire") \ freed : CleanUp(s, freed, {k})
       ELSE UNCHANGED calls
  /\ UNCHANGED lock

\* The tab, the browser or the machine dies: no cleanup, and no reply is
\* ever read.  What was sent may still be served.
Kill(s) ==
  /\ session[s].status # "killed"
  /\ session' = [session EXCEPT ![s] = [Closed EXCEPT !.status = "killed"]]
  /\ UNCHANGED <<lock, calls>>

ReplyDropped(s, k) ==
  /\ session[s].status = "killed"
  /\ calls[s][k].result \in {"ok", "refused", "error"}
  /\ Put(s, k, Idle)
  /\ UNCHANGED <<lock, session>>

-----------------------------------------------------------------------------
Less(n) == IF n = 0 THEN 0 ELSE n - 1

Tick ==
  /\ lock' = [lock EXCEPT !.left = Less(@)]
  /\ session' = [s \in Sessions |-> [session[s] EXCEPT !.left = Less(@)]]
  /\ calls' = [s \in Sessions |-> [k \in Slots |->
                 [calls[s][k] EXCEPT !.left = Less(@)]]]

CallProgress(s, k) ==
  \/ AcquireLock(s, k) \/ RefreshLock(s, k) \/ ReleaseLock(s, k)
  \/ AcquireReturns(s, k) \/ RefreshReturns(s, k) \/ ReplyDropped(s, k)

LocksNext ==
  \/ \E s \in Sessions : Mount(s) \/ HeartbeatFires(s) \/ Unmount(s) \/ SettingsArrive(s) \/ Kill(s)
  \/ \E s \in Sessions, k \in Slots : CallProgress(s, k) \/ CallFails(s, k)
  \/ Tick

LocksSpec == LocksInit /\ [][LocksNext]_lockVars

\* Every call is answered or fails in bounded time, and time passes.  No user
\* has to open or close anything, and no heartbeat timer has to fire (browsers
\* throttle them and laptops sleep).
FairLocksSpec ==
  /\ LocksSpec
  /\ WF_lockVars(Tick)
  /\ \A s \in Sessions, k \in Slots : WF_lockVars(CallProgress(s, k) \/ CallFails(s, k))

-----------------------------------------------------------------------------
\* holdsLock: the gate for editing and for the Send button.
HoldsLock(s) == session[s].status = "open" /\ session[s].presence = "held"

\* The gate is open and the lock the session was last shown has not expired.
Rightful(s) == HoldsLock(s) /\ session[s].left > 0

Backed(s, n) == lock.by = ActorOf[s] /\ lock.left >= n

\* A session that shows an unexpired lock is backed by the server's row: the row belongs
\* to its actor for at least as long as the session was told.  It is what makes the gate
\* meaningful in spite of late, lost and reordered replies, takeovers of expired locks,
\* runs of the effect that overlap and tabs that die.  Only the actor's own release, of
\* another tab or of an earlier run of this one, takes a lease away before its time.
LeaseSafety ==
  \A s \in Sessions : Rightful(s) /\ ~session[s].undercut => Backed(s, session[s].left)

\* No two people have the gate open on an unexpired lock.  Does not hold: one who closes
\* one of two tabs, or whose settings arrive late, releases the lock under the open gate.
OneEditor ==
  \A s, t \in Sessions : Rightful(s) /\ Rightful(t) => ActorOf[s] = ActorOf[t]

\* A surface that was closed or killed does not keep the thread locked: its
\* actor's row is released, expires or is taken over, unless it opens again.
NoAbandonedLock ==
  \A s \in Sessions : session[s].status # "open" ~>
    \/ lock.by # ActorOf[s]
    \/ lock.left = 0
    \/ session[s].status = "open"

\* A surface never stays in a transient presence: after opening, and after
\* losing the lock, it learns whether it holds the lock, who does, or that
\* the server cannot be reached.
PresenceSettles ==
  \A s \in Sessions :
    (session[s].status = "open" /\ session[s].presence \in {"acquiring", "lost"}) ~>
      (session[s].status # "open" \/ session[s].presence \notin {"acquiring", "lost"})

\* The locks implement exclusive editing: the people with the gate open on an unexpired
\* lock that they have not released themselves are never two, and never change hands in
\* one step.
Editing == INSTANCE ExclusiveEditing
             WITH editors <- {ActorOf[s] : s \in {t \in Sessions :
                                            Rightful(t) /\ ~session[t].undercut}}

EditingSpec == Editing!Spec

=============================================================================
