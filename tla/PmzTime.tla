------------------------------- MODULE PmzTime -------------------------------
(***************************************************************************)
(* Local time in firmware/drv/pmz_time.c: GMT + 1, and GMT + 2 while       *)
(* daylight saving is on, from the last Sunday of March to that of October *)
(* at 01:00 UTC.  A clock walks through a year, in UTC, and the            *)
(* conversions are compared with that definition.                          *)
(***************************************************************************)
EXTENDS Integers

CONSTANTS
  Weekdays,  \* of 1 January, 0 is Sunday
  Step       \* the clock advances by so many minutes

\* Assumed by the modules that instantiate this one.
YearAssumption == Weekdays \subseteq 0..6 /\ Step \in 1..60

VARIABLES
  year,  \* the weekday of its 1 January, and whether it is a leap year
  utc    \* minutes since that day

vars == <<year, utc>>

Hour == 60
Day == 24 * Hour
DaysIn(mon) == CASE mon = 1 -> IF year.leap THEN 29 ELSE 28
                 [] mon \in {3, 5, 8, 10} -> 30
                 [] OTHER -> 31
\* Days before month mon, counted with 28 of February.
DaysBefore == <<0, 31, 59, 90, 120, 151, 181, 212, 243, 273, 304, 334, 365>>
FirstDay(mon) == DaysBefore[mon + 1] + (IF mon > 1 /\ year.leap THEN 1 ELSE 0)

\* gmtime, for a time of this year
Gmtime(t) ==
  LET day == t \div Day
      mon == CHOOSE n \in 0..11 : FirstDay(n) <= day /\ day < FirstDay(n + 1)
  IN  [mon |-> mon, mday |-> day - FirstDay(mon) + 1, wday |-> (year.first + day) % 7,
       hour |-> (t % Day) \div Hour, min |-> t % Hour]

-----------------------------------------------------------------------------
(***************************************************************************)
(* The code.                                                               *)
(***************************************************************************)
\* Mutant of LastSundayPassed: a minute late.
OnLastSundayLate(tm) == 7 - tm.wday > 31 - tm.mday /\ (tm.wday # 0 \/ tm.hour * 60 + tm.min > 60)

\* On or after 01:00 of the last Sunday, in a month of 31 days.
LastSundayPassed(tm) == 7 - tm.wday > 31 - tm.mday /\ (tm.wday # 0 \/ tm.hour * 60 + tm.min >= 60)

IsDst(tm) ==
  \/ tm.mon \in 3..8
  \/ tm.mon = 2 /\ LastSundayPassed(tm)
  \/ tm.mon = 9 /\ ~LastSundayPassed(tm)

UtcToLocal(t) == t + (IF IsDst(Gmtime(t)) THEN 2 * Hour ELSE Hour)

LocalToUtc(t) == t - (IF IsDst(Gmtime(t)) THEN 2 * Hour ELSE Hour)

-----------------------------------------------------------------------------
\* The year is walked through from its second day to its last but one, so that the
\* local times are of the same year.
Init ==
  /\ year \in [first : Weekdays, leap : BOOLEAN]
  /\ utc = Day

Tick == utc + Step < 364 * Day /\ utc' = utc + Step /\ UNCHANGED year

Spec == Init /\ [][Tick]_vars

-----------------------------------------------------------------------------
(***************************************************************************)
(* Properties.                                                             *)
(***************************************************************************)
\* Types of the variables, and of a broken-down time.
TypeOK ==
  /\ year \in [first : Weekdays, leap : BOOLEAN] /\ utc \in Day..(364 * Day)
  /\ LET tm == Gmtime(utc)
     IN  tm.mday \in 1..DaysIn(tm.mon) /\ tm.wday \in 0..6 /\ tm.hour \in 0..23 /\ tm.min \in 0..59

\* 01:00 UTC on the last Sunday of a month: a Sunday, and the next one is of another month.
Change(mon) ==
  LET sunday == CHOOSE d \in FirstDay(mon)..(FirstDay(mon + 1) - 1) :
                  (year.first + d) % 7 = 0 /\ d + 7 >= FirstDay(mon + 1)
  IN  sunday * Day + Hour
Summer == Change(2) <= utc /\ utc < Change(9)

\* Daylight saving is on between the two changes and at no other time (the comment "Just
\* last Sunday. On 01:00 UTC").
DstIsEuropean == IsDst(Gmtime(utc)) = Summer

\* The local time runs on with UTC, but for the two hours a year that are left out or
\* repeated.
LocalRuns ==
  [][UtcToLocal(utc') - UtcToLocal(utc)
       = Step + (IF ~Summer /\ Summer' THEN Hour ELSE IF Summer /\ ~Summer' THEN -Hour ELSE 0)]_vars

\* pmz_time_local_to_utc takes back what pmz_time_utc_to_local has done, except in the
\* hour before daylight saving begins and in the two before it ends: there the local
\* time is looked up as if it were UTC.
WrongOnlyAtChanges ==
  LocalToUtc(UtcToLocal(utc)) # utc => \/ Change(2) - Hour <= utc /\ utc < Change(2)
                                       \/ Change(9) - 2 * Hour <= utc /\ utc < Change(9)

\* The same without the exception, for a local time that only one UTC time has: it is
\* in the hour after the end that the local hour is repeated.
Unambiguous == \A t \in {utc - Hour, utc + Hour} : UtcToLocal(t) # UtcToLocal(utc)
BackToUtc == Unambiguous => LocalToUtc(UtcToLocal(utc)) = utc
=============================================================================
