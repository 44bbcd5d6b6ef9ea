------------------------------ MODULE Calendar -------------------------------
(***************************************************************************)
(* The `date' widget of the status bar: days_to_ymd turns the days since   *)
(* 1970-01-01 into a date (nexterm-config/src/status_bar.rs).  Days pass,  *)
(* and beside their count the Gregorian date is kept by the rule that says *)
(* which date follows which: the reference days_to_ymd is held against.    *)
(***************************************************************************)
EXTENDS Integers, FiniteSets, FiniteSetsExt

CONSTANT MaxDay  \* bound on the days that pass

VARIABLES
  day,   \* since the epoch
  today  \* the date of that day

vars == <<day, today>>

Leap(y) == (y % 4 = 0 /\ y % 100 # 0) \/ y % 400 = 0

month_days(y, m) ==
  CASE m = 2               -> IF Leap(y) THEN 29 ELSE 28
    [] m \in {4, 6, 9, 11} -> 30
    [] OTHER               -> 31

Epoch == <<1970, 1, 1>>

Tomorrow(date) ==
  LET y == date[1]  m == date[2]  d == date[3] IN
    CASE d < month_days(y, m)           -> <<y, m, d + 1>>
      [] d = month_days(y, m) /\ m < 12 -> <<y, m + 1, 1>>
      [] OTHER                          -> <<y + 1, 1, 1>>

-----------------------------------------------------------------------------
(***************************************************************************)
(* days_to_ymd.                                                            *)
(***************************************************************************)

\* The days of the first m months.
DaysOf(y, m) == MapThenSumSet(LAMBDA k : month_days(y, k), 1 .. m)

\* The months are gone through while days are left, all twelve if need be.
InYear(y, n) ==
  LET gone == Max({m \in 0 .. 12 : DaysOf(y, m) <= n}) IN
    <<y, gone + 1, n - DaysOf(y, gone) + 1>>

\* Cycles of 400, 100, 4 and 1 years, counted from 1970.
YearAndDay(days) ==
  LET in400 == days % 146097
      c     == Min({in400 \div 36524, 3})
      in4   == (in400 - c * 36524) % 1461
      y     == Min({in4 \div 365, 3})
  IN [year |-> (days \div 146097) * 400 + c * 100
               + ((in400 - c * 36524) \div 1461) * 4 + y + 1970,
      day  |-> in4 - y * 365]

days_to_ymd(days) == LET at == YearAndDay(days) IN InYear(at.year, at.day)

-----------------------------------------------------------------------------

Init == day = 0 /\ today = Epoch

\* The clock, read as days.
NextDay ==
  /\ day < MaxDay
  /\ day' = day + 1
  /\ today' = Tomorrow(today)

Spec == Init /\ [][NextDay]_vars

-----------------------------------------------------------------------------
(***************************************************************************)
(* Properties.                                                             *)
(***************************************************************************)

\* The last day of a leap year, and every day of the year after it.
AfterLeapYear ==
  \/ Leap(today[1]) /\ today[2] = 12 /\ today[3] = 31
  \/ Leap(today[1] - 1)

\* A day ahead, in a calendar in which December does not end.
DayAhead ==
  IF today[2] = 12 /\ today[3] = 31 /\ ~Leap(today[1])
    THEN <<today[1], 13, 1>>
    ELSE Tomorrow(today)

\* Up to the end of its first cycle of a hundred years days_to_ymd gives the
\* date, except from the last day of a leap year to the last of the next year:
\* its cycles of four years begin in 1970, so the leap day is counted in the
\* fourth year, which is one too late, and it is then exactly one day ahead.
DateRightOrADayAhead ==
  days_to_ymd(day) = IF AfterLeapYear THEN DayAhead ELSE today

\* "Compute the UTC date (leap years handled correctly)" (status_bar.rs:80).
DateIsRight == days_to_ymd(day) = today
=============================================================================
