----------------------------- MODULE ExtDatetime -----------------------------
(***************************************************************************)
(* The arithmetic of datetimes and durations, 64-bit counts of             *)
(* milliseconds (cedar-lean/Cedar/Spec/Ext/Datetime.lean).                 *)
(*                                                                         *)
(* A policy parses a duration, unit by unit, and then calls one extension  *)
(* function after another on it and on a datetime; a function that fails   *)
(* is an error of the policy.  Width and units are constants; characters   *)
(* are left out: a text is a sign and a quantity of each unit.             *)
(***************************************************************************)
EXTENDS Integers

CONSTANTS
  MillisMin, MillisMax,       \* the ends of Int64
  Second, Minute, Hour, Day,  \* in units of the one before: 1000, 60, 60, 24
  Literals,                 \* datetimes a policy starts with
  Written                   \* durations as text: five quantities, the least unit first

ASSUME DatetimeAssumption ==
  /\ MillisMax \in Nat /\ MillisMin = -MillisMax - 1
  /\ {Second, Minute, Hour, Day} \subseteq Nat \ {0}
  /\ Second * Minute * Hour * Day <= MillisMax
  /\ Literals \subseteq MillisMin..MillisMax /\ Written \subseteq [1..5 -> Nat]

VARIABLES
  text,      \* the duration to parse: [negative, quantity]
  units,     \* how many units of it have been read
  sum,       \* milliseconds read so far, without a bound
  datetime, duration,
  callFailed

datetimeVars == <<text, units, sum, datetime, duration, callFailed>>

Int64 == MillisMin..MillisMax
PerDay == Second * Minute * Hour * Day

\* Int64.div and / drop the fraction, towards zero; Int64.mod is what is left.
Quotient(a, b) == IF a >= 0 THEN a \div b ELSE -((-a) \div b)
Remainder(a, b) == a - b * Quotient(a, b)

-----------------------------------------------------------------------------
\* Mutant: the day of a time before the epoch is the one after it.
DateOfTruncated(d) == PerDay * Quotient(d, PerDay)

\* The start of the day, which may be beyond the range.
DateOf(d) ==
  IF d >= 0 \/ Remainder(d, PerDay) = 0 THEN PerDay * Quotient(d, PerDay)
                                        ELSE (Quotient(d, PerDay) - 1) * PerDay

TimeOf(d) ==
  LET rem == Remainder(d, PerDay)
  IN  IF d >= 0 \/ rem = 0 THEN rem ELSE rem + PerDay

ToSeconds(u) == Quotient(u, Second)
ToMinutes(u) == Quotient(ToSeconds(u), Minute)
ToHours(u)   == Quotient(ToMinutes(u), Hour)

ToDays(u)    == Quotient(ToHours(u), Day)

\* Milliseconds of a unit, the least first.
Millis(unit) == <<1, Second, Second * Minute, Second * Minute * Hour, PerDay>>[unit]

-----------------------------------------------------------------------------
DatetimeInit ==
  /\ text \in [negative : BOOLEAN, quantity : Written]
  /\ units = 0 /\ sum = 0
  /\ datetime \in Literals /\ duration = 0 /\ callFailed = FALSE

\* parseUnit?, from the end of the text: a quantity must fit by itself.
ParseUnit ==
  /\ ~callFailed /\ units < 5
  /\ LET n == IF text.negative THEN -text.quantity[units + 1] ELSE text.quantity[units + 1]
     IN  IF n \in Int64
         THEN sum' = sum + n * Millis(units + 1) /\ units' = units + 1 /\ UNCHANGED callFailed
         ELSE callFailed' = TRUE /\ UNCHANGED <<units, sum>>
  /\ UNCHANGED <<text, datetime, duration>>

\* duration? of the sum; the text is done with.
Parsed ==
  /\ ~callFailed /\ units = 5
  /\ IF sum \in Int64
     THEN /\ duration' = sum /\ units' = 6 /\ sum' = 0
          /\ text' = [negative |-> FALSE, quantity |-> [k \in 1..5 |-> 0]]
          /\ UNCHANGED callFailed
     ELSE callFailed' = TRUE /\ UNCHANGED <<duration, units, sum, text>>
  /\ UNCHANGED datetime

\* The value of a call is the new datetime or duration; out of range it fails.
Becomes(v, x) == IF x \in Int64 THEN v' = x /\ UNCHANGED callFailed ELSE callFailed' = TRUE /\ UNCHANGED v
Calls == ~callFailed /\ units = 6 /\ UNCHANGED <<text, units, sum>>

Offset == Calls /\ Becomes(datetime, datetime + duration) /\ UNCHANGED duration
DurationSince(other) == Calls /\ Becomes(duration, datetime - other) /\ UNCHANGED datetime
ToDate == Calls /\ Becomes(datetime, DateOf(datetime)) /\ UNCHANGED duration
ToTime == Calls /\ duration' = TimeOf(datetime) /\ UNCHANGED <<datetime, callFailed>>

DatetimeNext ==
  \/ ParseUnit \/ Parsed
  \/ Offset \/ ToDate \/ ToTime
  \/ \E other \in Literals : DurationSince(other)

DatetimeSpec == DatetimeInit /\ [][DatetimeNext]_datetimeVars

-----------------------------------------------------------------------------
\* Whatever is called on whatever, datetimes and durations stay in 64 bits
\* (Datetime.lean:44-45, 153-154).
DatetimeTypeOK ==
  /\ text \in [negative : BOOLEAN, quantity : [1..5 -> Nat]] /\ units \in 0..6 /\ sum \in Int
  /\ datetime \in Int64 /\ duration \in Int64 /\ callFailed \in BOOLEAN

\* A datetime is the start of its day and a time within the day, before the
\* epoch too; only in the first, incomplete, day of the range there is no
\* start (Datetime.lean:263-278).
DaySplit ==
  /\ TimeOf(datetime) \in 0..PerDay - 1
  /\ DateOf(datetime) + TimeOf(datetime) = datetime
  /\ Remainder(DateOf(datetime), PerDay) = 0
  /\ DateOf(datetime) \notin Int64 => datetime < MillisMin + PerDay

\* Dropping fractions unit by unit drops no more than doing so once, for
\* negative durations too (Datetime.lean:280-293).
UnitsAgree ==
  /\ ToMinutes(duration) = Quotient(duration, Second * Minute)
  /\ ToHours(duration) = Quotient(duration, Second * Minute * Hour)
  /\ ToDays(duration) = Quotient(duration, PerDay)

DenotedDuration ==
  LET q == text.quantity
      total == q[1] * Millis(1) + q[2] * Millis(2) + q[3] * Millis(3) + q[4] * Millis(4) + q[5] * Millis(5)
  IN  IF text.negative THEN -total ELSE total

\* Parsing yields the duration that was written whenever it is in the range,
\* the least one included, and fails otherwise: the limit of each quantity
\* takes nothing away (Datetime.lean:197-247).
ParsedWhenItFits ==
  /\ units < 6 /\ callFailed => DenotedDuration \notin Int64
  /\ units = 5 => sum = DenotedDuration

\* What a policy may rely on of datetimes and durations, which stay in 64 bits
\* whatever is called on them (Datetime.lean:197-293).
DatetimesRight ==
  /\ datetime \in Int64 /\ duration \in Int64
  /\ DaySplit /\ UnitsAgree /\ ParsedWhenItFits
=============================================================================
