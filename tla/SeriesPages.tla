----------------------------- MODULE SeriesPages -----------------------------
(***************************************************************************)
(* Pages of the calendar over repeating events that are split, detached,   *)
(* retimed and cancelled: a page is a range of instants in the display     *)
(* zone, its occurrences are what the expansion of every row finds in it,  *)
(* and the week grid draws each one in a column.  The rules are those of   *)
(* Recurrence; what the write path does about versions is the matter of    *)
(* EventLifecycle.                                                         *)
(***************************************************************************)
EXTENDS Recurrence

CONSTANTS
    Ids,        \* rows; one is the event created first
    Templates,  \* the events a user may create: series records
    Displays,   \* time zones a workspace may be set to
    Retimes,    \* hours of the day an occurrence may be moved to
    FirstDay,   \* bound: pages start on FirstDay..FinalDay, and the
    FinalDay    \* occurrences that are edited are on those days

Zones == [before : Int, after : Int, at : Int]
Series == [dtstart : Int, duration : Nat, rule : Rule \cup {Null}, zone : Zones]

ASSUME PagesAssumption ==
    /\ Null \notin Ids /\ Null \notin Series
    /\ Templates \subseteq Series /\ Retimes \subseteq 0..23
    /\ FirstDay \in Nat /\ FinalDay \in Nat /\ FirstDay + 42 <= LastDay

\* The clocks that pages are right for: that of a workspace changes by at most an
\* hour and skips no midnight; that of an event, by no more than a page is padded
\* with, and skips no more than the event lasts.
OrdinaryClocks ==
    /\ Displays \subseteq Zones
    /\ \A zone \in Displays :
         /\ zone.after - zone.before \in -1..1
         /\ zone.before < zone.after => HourOf(zone.at + zone.before) # 0
    /\ \A t \in Templates :
         /\ t.zone.after - t.zone.before \in -Padding..Padding
         /\ t.zone.after - t.zone.before <= t.duration

VARIABLES
    rows,       \* active rows of public.events
    starts,     \* their start_utc, which the sheet of a page has worked out
    skipped,    \* public.recurrence_exceptions, as <<row, reading, kind>>
    display,    \* workspaces.timezone
    weekStart,  \* workspaces.week_start
    due,        \* history: the readings that ought to be on the calendar
    retimed     \* history: whether a split moved occurrences to another hour

pageVars == <<rows, starts, skipped, display, weekStart, due, retimed>>

PagesOK ==
    /\ rows \in [Ids -> Series \cup {Null}]
    /\ starts \in [Ids -> Int \cup {Null}]
    /\ skipped \subseteq Ids \X Int \X {"cancelled", "moved"}
    /\ weekStart \in 0..6
    /\ due \subseteq Int
    /\ retimed \in BOOLEAN

Rows == {e \in Ids : rows[e] # Null}

SkippedOf(e) == {x[2] : x \in {y \in skipped : y[1] = e}}

-----------------------------------------------------------------------------
(* Ranges of instants, [from, to).                                         *)

\* Mutant: a week is seven times 24 hours.
WeekOfHours(day) ==
    LET back == (WeekdayOf(day) - weekStart) % 7
        from == StartOfDay(display, day - back)
    IN  [from |-> from, to |-> from + 7 * Hours]

\* The start of the day the page is anchored on, back to the week's first day
\* and forward a week, each on the wall clock.
WeekRange(day) ==
    LET back == (WeekdayOf(day) - weekStart) % 7
        from == PlusDays(display, StartOfDay(display, day), -back)
    IN  [from |-> from, to |-> PlusDays(display, from, 7)]

DayRange(day) ==
    LET from == StartOfDay(display, day) IN [from |-> from, to |-> PlusDays(display, from, 1)]

\* Six weeks from the week of the first of the month.
MonthGridRange(first) ==
    LET back == (WeekdayOf(first) - weekStart) % 7
        from == StartOfDay(display, first - back)
    IN  [from |-> from, to |-> PlusDays(display, from, 42)]

PageRange(view, day) ==
    CASE view = "day" -> DayRange(day)
      [] view = "month" -> MonthGridRange(day)
      [] OTHER -> WeekRange(day)

-----------------------------------------------------------------------------
(* A page.  A row that does not repeat is asked for by its stored instants; *)
(* a series always.  Either is drawn from its reading and its own zone.    *)

Loads(e, range) ==
    \/ rows[e].rule # Null
    \/ starts[e] < range.to /\ starts[e] + rows[e].duration >= range.from

\* What a page shows of a row.
CalendarPage(e, range) ==
    IF ~Loads(e, range) THEN {}
    ELSE {[key |-> o.key, start |-> o.start, wall |-> WallAt(rows[e].zone, o.start)]
            : o \in ExpandSeries(rows[e], range, SkippedOf(e))}

\* The day columns are the wall dates of instants 24 hours apart.
Columns(range, count) ==
    [i \in 1..count |-> DayOf(WallAt(display, range.from + (i - 1) * Hours))]

\* A block goes under the date of its own start.
DrawnIn(o, columns) == {i \in DOMAIN columns : columns[i] = DayOf(o.wall)}

-----------------------------------------------------------------------------
(* The owner edits what a page shows.                                      *)

\* What the rows show, on any page or none.
Shown(e) == SeriesReadings(rows[e]) \ SkippedOf(e)

Clickable(e) == {k \in Shown(e) : DayOf(k) \in FirstDay..FinalDay}

\* The sheet resolves what was typed to the earlier candidate.
Compose(e, template) ==
    /\ Rows = {}
    /\ rows' = [rows EXCEPT ![e] = template]
    /\ starts' = [starts EXCEPT ![e] = Earlier(template.zone, template.dtstart)]
    /\ due' = SeriesReadings(template)
    /\ UNCHANGED <<skipped, display, weekStart, retimed>>

\* The sheet plans with the zone of the page, not that of the row, and so it
\* works out the instant the new row begins at: that of the occurrence, or of
\* the hour typed in.  The new row has the zone of the old one all the same.
Plan(e, k, scope, at) ==
    PlanSplit([rows[e] EXCEPT !.zone = display], k, scope, at)

NewStart(k, at) == IF at = k THEN OccurrenceInstant(display, k) ELSE Earlier(display, at)

Detach(e, k, n) ==
    LET plan == Plan(e, k, "this", k) IN
    /\ rows[e].rule # Null
    /\ plan.ok
    /\ rows' = [rows EXCEPT ![n] = [rows[e] EXCEPT !.dtstart = k, !.rule = Null]]
    /\ starts' = [starts EXCEPT ![n] = NewStart(k, k)]
    /\ skipped' = skipped \cup {<<e, k, "moved">>}
    /\ UNCHANGED <<display, weekStart, due, retimed>>

Split(e, k, n, at) ==
    LET plan == Plan(e, k, "this-and-future", at)
        carried == {x \in skipped : x[1] = e /\ x[2] >= k}
        future == {r \in SeriesReadings(rows[e]) : r >= k} IN
    /\ rows[e].rule # Null
    /\ plan.ok
    /\ rows' = [rows EXCEPT ![e].rule = plan.truncated,
                            ![n] = [rows[e] EXCEPT !.dtstart = at, !.rule = plan.newRule]]
    /\ starts' = [starts EXCEPT ![n] = NewStart(k, at)]
    /\ skipped' = (skipped \ carried) \cup {<<n, x[2], x[3]>> : x \in carried}
    \* A retimed successor is no longer skipped where it was: the occurrences
    \* cancelled or detached after the split are on the calendar again.
    /\ due' = IF at = k THEN due
              ELSE (due \ (future \ SkippedOf(e)))
                     \cup ({Midnight(DayOf(r)) + HourOf(at) : r \in future}
                            \ {x[2] : x \in carried})
    /\ retimed' = (retimed \/ at # k)
    /\ UNCHANGED <<display, weekStart>>

CancelShown(e, k) ==
    /\ rows[e].rule # Null
    /\ skipped' = skipped \cup {<<e, k, "cancelled">>}
    /\ due' = due \ {k}
    /\ UNCHANGED <<rows, starts, display, weekStart, retimed>>

PagesInit ==
    /\ rows = [e \in Ids |-> Null]
    /\ starts = [e \in Ids |-> Null]
    /\ skipped = {}
    /\ display \in Displays
    /\ weekStart \in {0, 1}
    /\ due = {}
    /\ retimed = FALSE

PagesNext ==
    \/ \E e \in Ids, template \in Templates : Compose(e, template)
    \/ \E e \in Rows : \E k \in Clickable(e) :
         \/ CancelShown(e, k)
         \/ \E n \in Ids \ Rows :
              \/ Detach(e, k, n)
              \/ Split(e, k, n, k)
              \/ \E hour \in Retimes : Split(e, k, n, Midnight(DayOf(k)) + hour)

-----------------------------------------------------------------------------
(* Properties *)

\* However a series is cut, what its pieces show is what the series showed,
\* to the end of the calendar and not only inside the window a plan is
\* verified over: no COUNT is spent twice, no UNTIL takes the occurrence the
\* user stood on, and no two pieces show the same occurrence.
SplitsLoseNothing ==
    /\ UNION {Shown(e) : e \in Rows} = due
    /\ ~retimed => \A e, f \in Rows : e # f => Shown(e) \cap Shown(f) = {}

\* The occurrences of a row, page or no page.
Occurrences(e) ==
    {[key |-> r, start |-> OccurrenceInstant(rows[e].zone, r),
      wall |-> WallAt(rows[e].zone, OccurrenceInstant(rows[e].zone, r))] : r \in Shown(e)}

Views == {"day", "week", "month"}

\* An occurrence that was detached from an event of another zone: its stored
\* instants are those its reading has in the zone of the page.
DetachedAbroad(e) ==
    /\ rows[e].rule = Null
    /\ rows[e].zone # display
    /\ \E x \in skipped : x[2] = rows[e].dtstart /\ x[3] = "moved"

\* A page has every occurrence that starts in its range, and no other; one that
\* was detached abroad it may miss.
PageComplete ==
    \A e \in Rows, view \in Views, day \in FirstDay..FinalDay :
        LET range == PageRange(view, day)
            inside == {o \in Occurrences(e) : range.from <= o.start /\ o.start < range.to} IN
        /\ CalendarPage(e, range) \subseteq inside
        /\ ~DetachedAbroad(e) => CalendarPage(e, range) = inside

\* The days a page is for.
DaysOf(view, day) ==
    LET back == (WeekdayOf(day) - weekStart) % 7 IN
    CASE view = "day" -> {day}
      [] view = "month" -> day - back .. day - back + 41
      [] OTHER -> day - back .. day - back + 6

\* A range begins and ends at the midnights of its days.
RangesCutAtMidnight ==
    \A e \in Rows, view \in Views, day \in FirstDay..FinalDay :
        LET range == PageRange(view, day)
            days == DaysOf(view, day) IN
        \A o \in Occurrences(e) :
            (range.from <= o.start /\ o.start < range.to)
                <=> DayOf(WallAt(display, o.start)) \in days

FallsBackIn(range) ==
    display.after < display.before /\ range.from < display.at /\ display.at < range.to

\* Each block in one column, when the event is in the zone of the page and
\* the week has no day of 25 hours.
DrawnOnceUnlessTheClockFellBack ==
    \A e \in {f \in Rows : rows[f].zone = display},
       view \in {"day", "week"}, day \in FirstDay..FinalDay :
        LET range == PageRange(view, day)
            columns == Columns(range, IF view = "day" THEN 1 ELSE 7) IN
        ~FallsBackIn(range) =>
            \A o \in CalendarPage(e, range) : Cardinality(DrawnIn(o, columns)) = 1

\* The pages cut the calendar into days: an occurrence is on the page of its
\* own day, week or grid whichever day that page was opened on, and on no
\* other, across every clock change: neither the window a rule is followed
\* over, nor the stored instants of a single event, nor the days added to a
\* zoned start lose one at an edge.  The week grid and the day grid draw what
\* their page has.  It is not said of an occurrence detached on a page of
\* another zone than its event's, which can be lost (SinglesAreInstants).
PagesCutTheCalendar ==
    PageComplete /\ RangesCutAtMidnight /\ DrawnOnceUnlessTheClockFellBack

\* Said by ADR 0001 (docs/decisions/0001-recurrence-dst.md:24): a single timed
\* event is the instant stored for it and never moves.  Hence a page has it at
\* that instant, if it is in its range, and nothing else.  The code does not
\* keep it for what is detached abroad: the page is asked for by the stored
\* instant and drawn from the reading.
SinglesAreInstants ==
    \A e \in Rows, view \in Views, day \in FirstDay..FinalDay :
        LET range == PageRange(view, day) IN
        rows[e].rule = Null =>
            {o.start : o \in CalendarPage(e, range)} =
                {starts[e]} \cap (range.from .. range.to - 1)
=============================================================================
