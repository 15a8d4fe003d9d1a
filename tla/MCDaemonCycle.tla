---------------------------- MODULE MCDaemonCycle -----------------------------
(* Small projects for TLC.  Nothing in a cycle crosses threads but the order *)
(* of the queue, so there is one busy thread.                                *)
EXTENDS DaemonCycle

CONSTANTS d1, d2, u1, t1, m1, m2, m3, p1, none

\* Every message belongs to the one thread.
OneThread == [m \in Messages |-> t1]

\* Each message repeats the same promise.
AllPromise == [m \in Messages |-> p1]

\* Only the first message makes a promise.
FirstPromises == [m \in Messages |-> IF m = m1 THEN p1 ELSE none]

\* A promise falls due at once and lapses with the first tick.
DueFirst == [p \in Promises |-> 1]

-----------------------------------------------------------------------------
(* The deadlines of the promises against what they are to mean, around the   *)
(* two changes of the clock, a turn of the year and a 29 February.           *)

Engine == INSTANCE Deadlines

Days(year, month, from, to) == {Engine!DateUTC(year, month, d) : d \in from..to}
TheDays == UNION {Days(2026, 3, 26, 32), Days(2026, 10, 22, 28), Days(2027, 12, 29, 33),
                  Days(2028, 2, 27, 31), Days(2028, 1, 29, 31)}

\* The first and the last second of every hour of these days.
Instants == {d * Engine!Day + h * Engine!Hour + s : d \in TheDays, h \in 0..23, s \in {0, 3599}}

Named == [kind : Engine!Named, n : Engine!Weekdays, fillers : {1}]

\* The calendar is its own inverse, and Prague is on summer time from the last Sunday of
\* March to the last of October.
ASSUME CalendarAssumption ==
  /\ \A day \in Engine!DateUTC(2026, 1, 1)..Engine!DateUTC(2029, 1, 1) :
       LET c == Engine!Civil(day) IN Engine!DateUTC(c.year, c.month, c.day) = day
  /\ Engine!LastSunday(2026, 3) = Engine!DateUTC(2026, 3, 29)
  /\ Engine!LastSunday(2026, 10) = Engine!DateUTC(2026, 10, 25)

\* Every phrase but "yesterday" is due when the mail is received or later, at the end of
\* a local day; a weekday is the first one after the local day of the mail.
ASSUME DeadlineAssumption ==
  \A received \in Instants :
    LET today == Engine!ToLocalDay(received)
    IN /\ \A phrase \in Named : \A due \in Engine!ResolveRelativeDeadline(phrase, received) :
            /\ phrase.kind = "yesterday" \/ received <= due
            /\ Engine!ToLocalDay(due) + 1 = Engine!ToLocalDay(due + 1)
       /\ \A target \in Engine!Weekdays :
            Engine!ResolveRelativeDeadline([kind |-> "weekday", n |-> target, fillers |-> 1], received)
              = {Engine!AtEndOfDay(CHOOSE d \in today + 1..today + 7 : Engine!Weekday(d) = target)}

=============================================================================
