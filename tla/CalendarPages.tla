--------------------------- MODULE CalendarPages ---------------------------
(***************************************************************************)
(* What an address of the calendar means: the view and the anchor date it  *)
(* names, the dates each view draws around its anchor, and the queries     *)
(* that the controls of the page put in their links.                       *)
(***************************************************************************)
EXTENDS Dates

CONSTANT Unset

Views == {"agenda", "week", "day", "month"}

\* An absent or unknown view is the workspace's default.
ParseView(param, fallback) == IF param \in Views THEN param ELSE fallback

-----------------------------------------------------------------------------
(* Dates drawn.  A week starts on day `weekStart`, 0 for Sunday.           *)

WeekFirst(date, weekStart) == date - ((Weekday(date) - weekStart) % 7)

WeekOf(date, weekStart) == WeekFirst(date, weekStart)..WeekFirst(date, weekStart) + 6

\* Six rows from the week of the first of the month, always.
MonthCells(date, weekStart) ==
    LET first == WeekFirst(MonthFirst(date), weekStart) IN first..first + 41

\* The range a page fetches: a month page fetches the margins of its grid.
Fetched(view, anchor, weekStart) ==
    CASE view = "day" -> {anchor}
      [] view = "month" -> MonthCells(anchor, weekStart)
      [] OTHER -> WeekOf(anchor, weekStart)

\* The range a page is about, and says it is about.
Visible(view, anchor, weekStart) ==
    CASE view = "day" -> {anchor}
      [] view = "month" -> MonthFirst(anchor)..MonthLast(anchor)
      [] OTHER -> WeekOf(anchor, weekStart)

-----------------------------------------------------------------------------
(* Queries: `date` or `view` may be Unset; `as` is always carried.         *)

ViewQuery(target, date, audience) == [view |-> target, date |-> date, as |-> audience]

DayQuery(date, audience) == ViewQuery("day", date, audience)

StepQuery(anchor, view, step, audience) ==
    ViewQuery(view,
              CASE view = "day" -> anchor + step
                [] view = "month" -> MonthsAway(anchor, step)
                [] OTHER -> anchor + 7 * step,
              audience)

\* Mutant: the view left out, as if the server would fall back to it.
TodayQueryNoView(view, audience) == ViewQuery(Unset, Unset, audience)

TodayQuery(view, audience) == ViewQuery(view, Unset, audience)
=============================================================================
