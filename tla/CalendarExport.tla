---------------------------- MODULE CalendarExport ----------------------------
(***************************************************************************)
(* The .ics file an owner takes away: one component per row, with its rule *)
(* and not its occurrences.  Inside the application a rule's UNTIL is a    *)
(* reading of the event's own clock; in the file it is an instant, and it  *)
(* is inclusive on both sides.                                             *)
(***************************************************************************)
EXTENDS SeriesPages

\* The bundle the server hands over: every active row, with the exceptions
\* that are cancellations.
ExportBundle ==
    {[event |-> e, dtstart |-> rows[e].dtstart, zone |-> rows[e].zone,
      duration |-> rows[e].duration, rule |-> rows[e].rule,
      exdates |-> {x[2] : x \in {y \in skipped : y[1] = e /\ y[3] = "cancelled"}}] : e \in Rows}

\* Mutant: the reading is written as if it were UTC.
UntilAsItStands(series) ==
    series.rule

\* The rule for the file: UNTIL is resolved as an occurrence is.
ToIcalSeries(series) ==
    IF series.rule = Null \/ series.rule.until = Null THEN series.rule
    ELSE [series.rule EXCEPT !.until = OccurrenceInstant(series.zone, @)]

\* And back: the reading the instant shows on the event's clock.
FromIcalSeries(series, rule) ==
    IF rule = Null \/ rule.until = Null THEN rule
    ELSE [rule EXCEPT !.until = WallAt(series.zone, @)]

ToVevent(series) == [series EXCEPT !.rule = ToIcalSeries(series)]

ToIcs == {ToVevent(series) : series \in ExportBundle}

\* The occurrences a strict reader of the file drops and the application keeps.
DivergentOccurrences(zone, readings) ==
    {r \in readings : ResolveLocal(zone, r).dst = "nonexistent-shifted"}

\* A reader of the file: RFC 5545, with readings that do not exist ignored.
Regenerated(vevent) ==
    IF vevent.rule = Null THEN {vevent.dtstart}
    ELSE LET generated == Readings([vevent.rule EXCEPT !.until = Null], vevent.dtstart)
             bounded == {r \in generated : vevent.rule.until # Null =>
                           OccurrenceInstant(vevent.zone, r) <= vevent.rule.until}
         IN  (bounded \ DivergentOccurrences(vevent.zone, bounded)) \ vevent.exdates

-----------------------------------------------------------------------------

\* A series was cut just after a gap: its last second is in the gap, and is
\* moved past the occurrence it was cut before.
CutInGap(e) ==
    /\ rows[e].rule # Null /\ rows[e].rule.until # Null
    /\ DivergentOccurrences(rows[e].zone, {rows[e].rule.until}) # {}

MovedFrom(e) == {x[2] : x \in {y \in skipped : y[1] = e /\ y[3] = "moved"}}

\* Another calendar that reads the file shows what this one shows: the last
\* occurrence of a truncated series is neither lost nor joined by the next one,
\* in any zone and around its clock changes, and what was cancelled stays so.
\* Two things differ: occurrences in a gap, which the export can name, and the
\* detached ones, which are rows of their own and still occurrences of their
\* series.  Read back by this application, a series is what it was.
ExportShowsTheCalendar ==
    \A vevent \in ToIcs :
        LET e == vevent.event
            listed == Shown(e) \cup (MovedFrom(e) \cap SeriesReadings(rows[e])) IN
        ~CutInGap(e) =>
            /\ Regenerated(vevent) =
                 listed \ (IF rows[e].rule = Null THEN {}
                           ELSE DivergentOccurrences(rows[e].zone, listed))
            /\ SeriesReadings([rows[e] EXCEPT !.rule = FromIcalSeries(vevent, vevent.rule)])
                 = SeriesReadings(rows[e])
=============================================================================
