--------------------------- MODULE MCSeriesPages ---------------------------
(* Zones with a clock change on day 24, and events around it. *)
EXTENDS SeriesTransaction, CalendarExport, TLC

Change == 24

Fixed(offset) == [before |-> offset, after |-> offset, at |-> 0]
\* The change comes when the clock on the wall shows `hour` of day 24.
Zone(before, after, hour) ==
    [before |-> before, after |-> after, at |-> Midnight(Change) + hour - before]

Pacific == Zone(-8, -7, 2)
PacificAutumn == Zone(-7, -8, 2)
MidnightGap == Zone(-4, -3, 0)
CentralEurope == Zone(1, 2, 2)
\* Its midnight of day 24 is the moment the clocks of Pacific go forward.
Honolulu == Fixed(-10)

Every(freq, interval, byday, count) ==
    [freq |-> freq, interval |-> interval, byday |-> byday, count |-> count, until |-> Null]

Event(day, hour, zone, rule) ==
    [dtstart |-> Midnight(day) + hour, duration |-> 1, zone |-> zone, rule |-> rule]

MCDisplays == {Pacific, PacificAutumn, Honolulu}

\* An event of a zone no page is in.
MCForeign == {Event(22, 3, CentralEurope, Every("DAILY", 2, {}, 3))}

MCTemplates ==
    {Event(21, 2, zone, Every("DAILY", 1, {}, 0)) : zone \in {Pacific, PacificAutumn}}
      \cup MCForeign
      \cup {Event(19, 0, MidnightGap, Every("WEEKLY", 1, 1..5, 7)),
            Event(21, 23, PacificAutumn, Every("DAILY", 3, {}, 8)),
            Event(17, 9, PacificAutumn, Every("WEEKLY", 2, {1, 3}, 0)),
            \* A day that only the long months have.
            Event(10, 2, Pacific, Every("MONTHLY", 1, {}, 3)),
            Event(Change, 2, Pacific, Null)}

\* With the local anchor a client sends, and without one.
Input(template, anchored) ==
    [start |-> OccurrenceInstant(template.zone, template.dtstart), duration |-> 1,
     zone |-> template.zone, rule |-> template.rule,
     dtstart |-> IF anchored THEN template.dtstart ELSE Null]

\* One whose clock skips an occurrence, one that repeats every other day.
MCInputs ==
    {Input(Event(21, 2, Pacific, Every("DAILY", 1, {}, 0)), TRUE),
     Input(Event(22, 1, PacificAutumn, Every("DAILY", 2, {}, 4)), FALSE)}

\* From the change to the end of the calendar, which no split before it
\* straddles, and nothing at all.
MCRanges ==
    {[from |-> Midnight(Change), to |-> Midnight(LastDay + 2)],
     [from |-> Midnight(Change), to |-> Midnight(Change)]}

\* Mondays and Wednesdays of every other week, verified over the two days a
\* caller stands on, between them.
MCBiweekly == {Input(Event(17, 9, Pacific, Every("WEEKLY", 2, {1, 3}, 0)), TRUE)}
MCShortRanges == {[from |-> Midnight(Change), to |-> Midnight(Change + 2)]}

ASSUME ClocksAssumption == OrdinaryClocks
ASSUME JumpsAssumption == ShortJumps
ASSUME RangesAssumption == Ranges = MCRanges => WideRanges

Payload(ciphertext) ==
    [alg |-> "aes-256-gcm-v1", rawBytes |-> TRUE, nonce |-> 12,
     ciphertext |-> ciphertext, keyVersion |-> 1]

\* The tag of an empty title, and a title of five letters.
MCPayloads == {Payload(16), Payload(5)}

Symmetry == Permutations(Ids) \cup Permutations(Callers)
=============================================================================
