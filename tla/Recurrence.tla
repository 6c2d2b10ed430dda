----------------------------- MODULE Recurrence -----------------------------
(***************************************************************************)
(* How a repeating event becomes occurrences, and how an edit of one       *)
(* occurrence becomes a plan for two series.  All of it is arithmetic on   *)
(* two clocks: a READING is what a wall clock shows (hours since day 0),   *)
(* an INSTANT is an hour of real time, and a zone relates them by an       *)
(* offset that jumps once.  Day 0 is a Sunday.  A year has YearDays days,  *)
(* so that a series can outlive the window a split is verified over, in a  *)
(* long month and a short one.                                             *)
(***************************************************************************)
EXTENDS Integers, FiniteSets, FiniteSetsExt

CONSTANTS
    YearDays,  \* days in a year, scaled down
    LongMonth, \* days of its first month
    LastDay,   \* bound: rules are followed up to this day
    Null

ASSUME RecurrenceAssumption ==
    /\ YearDays \in Nat \ {0}
    /\ LongMonth \in 1..YearDays - 1
    /\ LastDay \in Nat

Hours == 24
DayOf(reading) == reading \div Hours
HourOf(reading) == reading % Hours
Midnight(day) == day * Hours
WeekdayOf(day) == day % 7

-----------------------------------------------------------------------------
(* Zones.  `at` is the instant the offset goes from `before` to `after`.   *)

Offset(zone, instant) == IF instant < zone.at THEN zone.before ELSE zone.after

WallAt(zone, instant) == instant + Offset(zone, instant)

\* The instants a reading can name: those that show it, or, when none does,
\* the reading under the offset before and the offset after the gap.
Candidates(zone, reading) ==
    LET both == {reading - zone.before, reading - zone.after}
        real == {i \in both : WallAt(zone, i) = reading}
    IN  IF real = {} THEN both ELSE real

Earlier(zone, reading) == Min(Candidates(zone, reading))
Later(zone, reading) == Max(Candidates(zone, reading))

\* A reading that occurs twice is its first pass, one that does not occur is
\* moved forward by the gap.
ResolveLocal(zone, reading) ==
    LET earlier == Earlier(zone, reading)
        later == Later(zone, reading) IN
    IF earlier = later THEN [instant |-> earlier, dst |-> "none"]
    ELSE IF WallAt(zone, earlier) = reading
         THEN [instant |-> earlier, dst |-> "ambiguous-earlier"]
         ELSE [instant |-> later, dst |-> "nonexistent-shifted"]

OccurrenceInstant(zone, reading) == ResolveLocal(zone, reading).instant

\* Adding days to a zoned time moves its date and keeps its reading, resolved
\* as Temporal's 'compatible' does: forward out of a gap, first of a pair.
PlusDays(zone, instant, days) ==
    OccurrenceInstant(zone, WallAt(zone, instant) + days * Hours)

StartOfDay(zone, day) == OccurrenceInstant(zone, Midnight(day))

-----------------------------------------------------------------------------
(* Rules: FREQ, INTERVAL, BYDAY ({} is absent), COUNT (0 is absent), UNTIL  *)
(* (Null is absent; inclusive).                                            *)

Rule == [freq : {"DAILY", "WEEKLY", "MONTHLY"}, interval : Nat \ {0},
         byday : SUBSET (0..6), count : Nat, until : Int \cup {Null}]

ASSUME NullAssumption == Null \notin Int /\ Null \notin Rule

\* Weeks start on Monday, as RFC 5545 has it when WKST is absent.
WeekOf(day) == (day + 6) \div 7

InShort(day) == day % YearDays >= LongMonth
MonthOf(day) == 2 * (day \div YearDays) + (IF InShort(day) THEN 1 ELSE 0)
MonthDay(day) == (day % YearDays) - (IF InShort(day) THEN LongMonth ELSE 0)

\* A month without the day has no occurrence.
OnRuleDay(rule, first, day) ==
    \/ /\ rule.freq = "DAILY"
       /\ (day - first) % rule.interval = 0
       /\ rule.byday = {} \/ WeekdayOf(day) \in rule.byday
    \/ /\ rule.freq = "WEEKLY"
       /\ (WeekOf(day) - WeekOf(first)) % rule.interval = 0
       /\ WeekdayOf(day) \in (IF rule.byday = {} THEN {WeekdayOf(first)} ELSE rule.byday)
    \/ /\ rule.freq = "MONTHLY"
       /\ (MonthOf(day) - MonthOf(first)) % rule.interval = 0
       /\ MonthDay(day) = MonthDay(first)

\* What rrule generates, before zones and before exceptions.
Readings(rule, dtstart) ==
    LET first == DayOf(dtstart)
        days == {d \in first..LastDay : OnRuleDay(rule, first, d)}
        kept == IF rule.count = 0 THEN days
                ELSE {d \in days : Cardinality({c \in days : c <= d}) <= rule.count}
        all == {Midnight(d) + HourOf(dtstart) : d \in kept}
    IN  IF rule.until = Null THEN all ELSE {r \in all : r <= rule.until}

\* A series: [dtstart, duration, zone, rule], where rule is Null for an event
\* that does not repeat.
SeriesReadings(series) ==
    IF series.rule = Null THEN {series.dtstart} ELSE Readings(series.rule, series.dtstart)

LocalCandidates(series, windowFrom, windowTo) ==
    {r \in SeriesReadings(series) : windowFrom <= r /\ r <= windowTo}

CountOccurrencesBefore(series, reading) ==
    IF series.rule = Null \/ reading <= series.dtstart THEN 0
    ELSE Cardinality({r \in LocalCandidates(series, series.dtstart, reading) : r < reading})

\* The occurrences that start in [from, to): candidates from two days around
\* it, the skipped ones (cancelled and moved) left out by their exact reading.
Padding == 2 * Hours

ExpandSeries(series, range, skipped) ==
    {o \in {[key |-> r, start |-> ResolveLocal(series.zone, r).instant,
             dst |-> ResolveLocal(series.zone, r).dst]
              : r \in LocalCandidates(series, WallAt(series.zone, range.from) - Padding,
                                      WallAt(series.zone, range.to) + Padding) \ skipped}
       : range.from <= o.start /\ o.start < range.to}

-----------------------------------------------------------------------------
(* Planning an edit of one occurrence.                                     *)

\* Mutant: the rule of the successor is the rule of the series.
InheritCount(rule, consumed) == [ok |-> TRUE, rule |-> rule]

\* The successor gets what is left of a COUNT; nothing left is refused.
RewriteSuccessorCount(rule, consumed) ==
    [ok   |-> rule.count = 0 \/ rule.count - consumed >= 1,
     rule |-> [rule EXCEPT !.count = IF @ = 0 THEN 0 ELSE @ - consumed]]

\* UNTIL replaces COUNT.
TruncateRrule(rule, until) == [rule EXCEPT !.count = 0, !.until = until]

\* Mutant: UNTIL is the occurrence itself.
JustAt(reading) == reading

\* UNTIL is inclusive, so it is the last reading before the occurrence (a
\* second before it in the code; readings here are whole hours).
JustBefore(reading) == reading - 1

\* What `planSeriesEdit` answers for the two scopes that touch a series.
PlanSeriesEdit(series, occurrence, scope) ==
    LET rest == RewriteSuccessorCount(series.rule, CountOccurrencesBefore(series, occurrence)) IN
    IF scope = "this"
    THEN [ok |-> TRUE, moved |-> {occurrence}, truncated |-> Null, newRule |-> Null]
    ELSE [ok |-> rest.ok, moved |-> {},
          truncated |-> TruncateRrule(series.rule, JustBefore(occurrence)),
          newRule |-> rest.rule]

\* From the first of January of the year before to that of two years after,
\* as instants.
VerifyWindow(occurrence) ==
    LET year == DayOf(occurrence) \div YearDays IN
    [from |-> Midnight((year - 1) * YearDays), to |-> Midnight((year + 2) * YearDays)]

Keys(occurrences) == {o.key : o \in occurrences}

\* Detaching must lose exactly the one occurrence.
DetachIsSafe(series, occurrence) ==
    LET range == VerifyWindow(occurrence)
        original == Keys(ExpandSeries(series, range, {}))
        after == Keys(ExpandSeries(series, range, {occurrence}))
    IN  original \ after = {occurrence}

\* The past is as it was; something is left; and then either nothing shows
\* (content only), or the new series starts where it was put and has as many
\* occurrences as were left (retimed).
SplitIsSafe(series, occurrence, truncated, successor, retimed) ==
    LET range == VerifyWindow(occurrence)
        original == Keys(ExpandSeries(series, range, {}))
        past == {r \in original : r < occurrence}
        before == Keys(ExpandSeries([series EXCEPT !.rule = truncated], range, {}))
        kept == Keys(ExpandSeries(successor, range, {}))
    IN  /\ before = past
        /\ kept # {}
        /\ IF retimed
           THEN /\ Min(kept) = successor.dtstart
                /\ Cardinality(kept) = Cardinality(original \ past)
           ELSE /\ before \cup kept = original
                /\ before \cap kept = {}

\* planSplit as the edit sheet calls it, without the exceptions.  `at` is the
\* reading the user gave the event, the occurrence's own when it was left alone.
PlanSplit(series, occurrence, scope, at) ==
    LET plan == PlanSeriesEdit(series, occurrence, scope)
        successor == [series EXCEPT !.dtstart = at, !.rule = plan.newRule]
    IN  [plan EXCEPT !.ok =
           /\ plan.ok
           /\ IF scope = "this" THEN DetachIsSafe(series, occurrence)
              ELSE SplitIsSafe(series, occurrence, plan.truncated, successor, at # occurrence)]
=============================================================================
