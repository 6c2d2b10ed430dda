---------------------------- MODULE HolidayPages ----------------------------
(***************************************************************************)
(* The holiday layer of the calendar: what the workspace chose, and pages  *)
(* that carry the holidays of a window around their anchor for every       *)
(* surface that draws days.                                                *)
(***************************************************************************)
EXTENDS Holidays, CalendarPages

CONSTANTS
    Anchors,     \* dates a page may be opened on
    Zones,       \* time zones a workspace may be set to
    WeekStarts   \* days a week may start on

ASSUME HolidaysAssumption == Anchors \subseteq Nat /\ WeekStarts \subseteq 0..6

VARIABLES
    preference,  \* workspaces.holiday_region: auto, off or a region
    timezone,    \* workspaces.timezone
    weekStart,   \* workspaces.week_start
    page         \* the page on screen: anchor, region, holidays

holidayVars == <<preference, timezone, weekStart, page>>

Preferences == HolidayRegions \cup {"auto", "off"}

HolidaysOK ==
    /\ preference \in Preferences
    /\ timezone \in Zones
    /\ weekStart \in WeekStarts
    /\ page.region \in HolidayRegions \cup {"none"}

\* Mutant: a window that reaches as far as a week needs.
NarrowWindowDays == 30

WindowDays == 60

\* The holidays a page carries: those of the window around its anchor.
ResolveHolidays(chosen, zone, anchor) ==
    LET region == ResolveHolidayRegion(chosen, zone)
    IN  [region |-> region,
         found |-> IF region = "none" THEN {}
                   ELSE HolidaysInRange(region, anchor - WindowDays, anchor + WindowDays)]

Rendered(chosen, zone, anchor) ==
    LET resolved == ResolveHolidays(chosen, zone, anchor)
    IN  [anchor |-> anchor, region |-> resolved.region, found |-> resolved.found]

-----------------------------------------------------------------------------
HolidaysInit ==
    /\ preference = "auto" /\ timezone \in Zones /\ weekStart \in WeekStarts
    /\ page \in {Rendered(preference, timezone, a) : a \in Anchors}

\* A step of the day, week or month view.
OpenDays ==
    /\ \E anchor \in {StepQuery(page.anchor, v, n, "owner").date : v \in Views, n \in {-1, 1}} :
          /\ anchor \in Anchors
          /\ page' = Rendered(preference, timezone, anchor)
    /\ UNCHANGED <<preference, timezone, weekStart>>

\* The row in the sidebar saves and refreshes: the region it was set to is
\* forgotten.
ToggleLayer ==
    /\ preference' = IF preference = "off" THEN "auto" ELSE "off"
    /\ page' = Rendered(preference', timezone, page.anchor)
    /\ UNCHANGED <<timezone, weekStart>>

\* Settings, on a page of their own, and back.
ChooseRegion(choice) ==
    /\ preference' = choice
    /\ page' = Rendered(choice, timezone, page.anchor)
    /\ UNCHANGED <<timezone, weekStart>>

MoveTo(zone) ==
    /\ timezone' = zone
    /\ page' = Rendered(preference, zone, page.anchor)
    /\ UNCHANGED <<preference, weekStart>>

HolidaysNext ==
    \/ OpenDays
    \/ ToggleLayer
    \/ \E choice \in Preferences : ChooseRegion(choice)
    \/ \E zone \in Zones : MoveTo(zone)


-----------------------------------------------------------------------------
(* Properties.                                                             *)

\* The days the surfaces of a page draw, whatever view it is in: the month
\* grid and the mini month, the week's columns, the day.
DaysDrawn == UNION {Fetched(v, page.anchor, weekStart) : v \in Views}

\* What the region's calendar says, years taken one by one.
Calendar == [r \in HolidayRegions |->
                UNION {HolidaysForYear(r, y) : y \in {YearOf(a) + n : a \in Anchors, n \in -2..2}}]

\* Every day a page draws shows the holidays of that day and no others, in
\* whatever view: the window around the anchor reaches the last cell of the
\* month grid, and a New Year's Day that is observed in December is not lost
\* at the end of the year.
CellsKnowTheirHolidays ==
    page.region # "none" =>
      \A day \in DaysDrawn :
        {h \in page.found : h.date = day} = {h \in Calendar[page.region] : h.date = day}

\* A holiday moved off a weekend is a day off of its own: on a weekday, on
\* the day of no other public holiday and of no other substitute.
SubstitutesAreDaysOff ==
    \A h \in page.found : h.observed =>
      /\ ~IsWeekend(h.date)
      /\ \A other \in page.found :
           (other # h /\ other.kind = "public") => other.date # h.date

\* Easter by its definition: the Sunday after the Paschal full moon, which
\* the golden number and the corrected epact of the year give.
Paschal(year) ==
    LET golden == (year % 19) + 1
        century == year \div 100 + 1
        leaps == (3 * century) \div 4 - 12
        moon == (8 * century + 5) \div 25 - 5
        raw == (11 * golden + 20 + moon - leaps) % 30
        epact == IF raw = 24 \/ (raw = 25 /\ golden > 11) THEN raw + 1 ELSE raw
        full == IF 44 - epact < 21 THEN 74 - epact ELSE 44 - epact
    IN  Date(year, 3, 1) + full - 1

EasterFollowsTheMoon ==
    LET year == YearOf(page.anchor)
        moon == Paschal(year)
    IN  EasterSunday(year) = moon + 7 - (Weekday(moon) % 7)

\* The holidays of a page are those of the calendar, on days they can be on.
HolidaysHold == CellsKnowTheirHolidays /\ SubstitutesAreDaysOff /\ EasterFollowsTheMoon
=============================================================================
