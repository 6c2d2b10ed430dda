------------------------------- MODULE Dates -------------------------------
(***************************************************************************)
(* Plain dates of the Gregorian calendar as day numbers: day 0 is 1 January*)
(* 1970.  The program takes them from Temporal.PlainDate.                  *)
(***************************************************************************)
EXTENDS Integers, FiniteSetsExt

LeapsBefore(year) == (year - 1) \div 4 - (year - 1) \div 100 + (year - 1) \div 400

IsLeap(year) == LeapsBefore(year + 1) > LeapsBefore(year)

YearFirst(year) == 365 * (year - 1970) + LeapsBefore(year) - LeapsBefore(1970)

\* Days of the year before each month, February counted as 28.
DaysBefore == <<0, 31, 59, 90, 120, 151, 181, 212, 243, 273, 304, 334>>

Date(year, month, day) ==
    YearFirst(year) + DaysBefore[month] + day - 1
      + (IF month > 2 /\ IsLeap(year) THEN 1 ELSE 0)

\* ISO: 1 is Monday, 7 is Sunday.
Weekday(date) == 1 + ((date + 3) % 7)

\* 400 years have 146097 days; the guess is at most a year early, never late.
YearOf(date) ==
    LET guess == 1970 + (400 * (date - 2)) \div 146097
    IN  IF YearFirst(guess + 1) <= date THEN guess + 1 ELSE guess

MonthOf(date) ==
    LET year == YearOf(date)
        day == date - YearFirst(year)
        guess == 1 + day \div 32
    IN  IF guess < 12 /\ Date(year, guess + 1, 1) <= date THEN guess + 1 ELSE guess

MonthFirst(date) == Date(YearOf(date), MonthOf(date), 1)

\* The first of the month `n` months away; dates pinned to day 1 keep it.
MonthsAway(date, n) ==
    LET months == 12 * YearOf(date) + MonthOf(date) - 1 + n
    IN  Date(months \div 12, (months % 12) + 1, 1)

MonthLast(date) == MonthsAway(date, 1) - 1
=============================================================================
