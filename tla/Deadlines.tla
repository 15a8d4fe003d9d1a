------------------------------ MODULE Deadlines ------------------------------
(***************************************************************************)
(* When a promise falls due: the pure engines behind the extraction of     *)
(* promises (backend/src/engines/relative-deadline.ts and                  *)
(* promise-reconciler.ts).  Claude returns the phrase of a deadline ("by   *)
(* Friday") and, if it can, the instant; where it gives only the phrase it *)
(* is resolved here, against the instant the mail was received and the     *)
(* clock of Prague: UTC+1, and UTC+2 from 01:00 UTC on the last Sunday of  *)
(* March to 01:00 UTC on the last Sunday of October.                       *)
(*                                                                         *)
(* Instants are seconds of the epoch, and a local day is the number of the *)
(* day it is, counted from the epoch too.  null is the empty set.          *)
(***************************************************************************)
EXTENDS Integers

Second == 1
Hour == 3600
Day == 86400

-----------------------------------------------------------------------------
(* The Date of the runtime: the proleptic Gregorian calendar.              *)

\* Date.UTC(y, m - 1, d), in days; months and days overflow into the next.
DateUTC(y, m, d) ==
  LET month == (m - 1) % 12                            \* 0 is January
      year == IF month < 2 THEN y + ((m - 1) \div 12) - 1 ELSE y + ((m - 1) \div 12)
  IN 365 * year + (year \div 4) - (year \div 100) + (year \div 400)
       + ((153 * ((month + 10) % 12) + 2) \div 5) + d - 719469

\* getUTCFullYear, getUTCMonth and getUTCDate of a day.
Civil(day) ==
  LET z == day + 719468                                \* from 1 March of the year 0
      doe == z % 146097
      yoe == (doe - (doe \div 1460) + (doe \div 36524) - (doe \div 146096)) \div 365
      doy == doe - (365 * yoe + (yoe \div 4) - (yoe \div 100))
      mp == (5 * doy + 2) \div 153                     \* 0 is March
      m == IF mp < 10 THEN mp + 3 ELSE mp - 9
      march == yoe + 400 * (z \div 146097)
  IN [year |-> IF m <= 2 THEN march + 1 ELSE march, month |-> m,
      day |-> doy - ((153 * mp + 2) \div 5) + 1]

\* getUTCDay: Sunday is 0.  The epoch began on a Thursday.
Weekday(day) == (day + 4) % 7

DayOf(utc) == utc \div Day

-----------------------------------------------------------------------------
(* The clock of Prague.                                                    *)

\* lastSundayUtc: day 0 of the next month is the last of this one.
LastSunday(year, month) ==
  LET lastDay == DateUTC(year, month + 1, 0) IN lastDay - Weekday(lastDay)

\* isPragueSummer.
IsPragueSummer(utc) ==
  LET year == Civil(DayOf(utc)).year
  IN /\ LastSunday(year, 3) * Day + Hour <= utc
     /\ utc < LastSunday(year, 10) * Day + Hour

PragueOffset(utc) == IF IsPragueSummer(utc) THEN 2 * Hour ELSE Hour

ToLocalDay(utc) == DayOf(utc + PragueOffset(utc))

\* localDayToUtc: the offset is estimated, and refined once.
LocalDayToUtc(day, time) ==
  LET naive == day * Day + time
      firstPass == naive - PragueOffset(naive)
  IN naive - PragueOffset(firstPass)

EndOfDay == Day - Second          \* 23:59:59

AtEndOfDay(day) == LocalDayToUtc(day, EndOfDay)

-----------------------------------------------------------------------------
(* The phrases.                                                            *)

Weekdays == 0..6
Friday == 5

\* daysUntilNextWeekday: 1 to 7, never today.
DaysUntilNext(from, target) ==
  LET diff == (target - from) % 7 IN IF diff = 0 THEN 7 ELSE diff

\* A phrase is one of these kinds, behind some filler words ("by", "due", ...).
Kinds == {"instant", "date", "today", "tomorrow", "yesterday", "this week", "next week",
          "next month", "in days", "in weeks", "next weekday", "weekday", "other"}
Named == Kinds \ {"instant", "date", "other"}

Phrase == [kind : Kinds, n : Int, fillers : Nat]

\* "this week" is up to Friday, today's if today is one.
ToFriday(today) == (Friday - Weekday(today)) % 7

\* "next <weekday>": the next one and a week, or a week where today is one.
ToNextWeekday(today, target) ==
  LET occurrence == DaysUntilNext(Weekday(today), target)
  IN IF occurrence < 7 THEN occurrence + 7 ELSE occurrence

\* The day a phrase names, as days from the day the mail was received.
DaysAhead(phrase, today) ==
  CASE phrase.kind = "today" -> 0
    [] phrase.kind = "tomorrow" -> 1
    [] phrase.kind = "yesterday" -> -1
    [] phrase.kind = "this week" -> ToFriday(today)
    [] phrase.kind = "next week" -> ToFriday(today) + 7
    [] phrase.kind = "next month" ->
         LET c == Civil(today) IN DateUTC(c.year, c.month + 1, c.day) - today
    [] phrase.kind = "in days" -> phrase.n
    [] phrase.kind = "in weeks" -> 7 * phrase.n
    [] phrase.kind = "next weekday" -> ToNextWeekday(today, phrase.n)
    [] phrase.kind = "weekday" -> DaysUntilNext(Weekday(today), phrase.n)

\* resolveRelativeDeadline: an absolute one is looked for before the filler is stripped,
\* and of the filler one word is.
ResolveRelativeDeadline(phrase, received) ==
  IF phrase.kind \in {"instant", "date"} /\ phrase.fillers = 0
  THEN {IF phrase.kind = "instant" THEN phrase.n ELSE AtEndOfDay(phrase.n)}
  ELSE IF phrase.kind \in Named /\ phrase.fillers <= 1
  THEN LET today == ToLocalDay(received)
       IN {AtEndOfDay(today + DaysAhead(phrase, today))}
  ELSE {}

-----------------------------------------------------------------------------
(* From a candidate to a promise.                                          *)

Directions == {"my-promise", "they-asked", "awaiting-them"}

\* bucketDirection: the hint, unless who owes and who gets it contradict it.
BucketDirection(candidate) ==
  IF ~candidate.who /\ candidate.whom THEN "awaiting-them"
  ELSE IF candidate.who /\ ~candidate.whom /\ candidate.hint = "awaiting-them" THEN "my-promise"
  ELSE candidate.hint

\* resolveDueAt: Claude's instant, or else its phrase.
ResolveDueAt(candidate, received) ==
  IF candidate.dueAt # {} THEN candidate.dueAt
  ELSE UNION {ResolveRelativeDeadline(phrase, received) : phrase \in candidate.dueRaw}

\* deriveStatus.
DeriveStatus(signal, due, now) ==
  IF signal # "none" THEN signal
  ELSE IF \E instant \in due : instant < now THEN "overdue" ELSE "open"

\* reconcileCandidates, of each; the daemon sets no floor for the confidence.
Reconciled(candidate, received, now) ==
  LET due == ResolveDueAt(candidate, received)
  IN [direction |-> BucketDirection(candidate), due |-> due,
      status |-> DeriveStatus(candidate.signal, due, now)]

\* reconcileExisting, of one stored record: time alone makes an open promise overdue.
\* No daemon and no page calls it: what is stored keeps the status it was stored with.
ReconcileExisting(record, now) ==
  IF record.status = "open" /\ \E instant \in record.due : instant < now
  THEN [record EXCEPT !.status = "overdue"]
  ELSE record

=============================================================================
