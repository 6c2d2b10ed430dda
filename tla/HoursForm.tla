------------------------------ MODULE HoursForm ------------------------------
(***************************************************************************)
(* The hours the owner is open: the page that edits them, set_availability *)
(* and the loader.  One weekday, since the days share nothing but the call *)
(* that replaces them; a unit is the half hour the selects offer.  Other   *)
(* pages of the owner save whole weeks too.                                *)
(***************************************************************************)
EXTENDS Calls, Integers, Sequences, SequencesExt

CONSTANTS
    DayEnd,      \* 24:00
    FirstStart,  \* where the first window of a day begins
    MaxWindows,  \* bound: windows of a day
    MaxEdits     \* bound: edits of the page

ASSUME HoursAssumption ==
    DayEnd \in Nat /\ FirstStart \in 0..DayEnd - 1 /\ DayEnd >= 2 /\ MaxWindows \in Nat

VARIABLES
    hours,      \* rows of availability_windows
    draft,      \* the windows on the page, in the order they were added
    edits,      \* edits made
    saved,      \* "Saved." stands beside the button
    overtaken   \* history: edited while it was saved, or saved over since

hoursVars == <<callVars, hours, draft, edits, saved, overtaken>>

Window(from, to) == [from |-> from, to |-> to]

\* What the two selects of a row can say, and what the table's checks admit.
Rows == {Window(a, b) : a \in 0..DayEnd - 1, b \in 1..DayEnd}
ValidRows == {w \in Rows : w.from < w.to}

HoursOK ==
    /\ CallsOK
    /\ hours \subseteq ValidRows
    /\ edits \in 0..MaxEdits
    /\ Len(draft) <= MaxWindows /\ Range(draft) \subseteq Rows

-----------------------------------------------------------------------------
(* The loader                                                              *)

Larger(a, b) == IF a > b THEN a ELSE b
Smaller(a, b) == IF a < b THEN a ELSE b

Before(a, b) == a.from < b.from \/ (a.from = b.from /\ a.to < b.to)

Sorted(ws) == CHOOSE s \in SetToSeqs(ws) : \A i, j \in DOMAIN s : i < j => Before(s[i], s[j])

Joined(out, w) ==
    IF out # <<>> /\ w.from <= Last(out).to
    THEN Append(Front(out), Window(Last(out).from, Larger(Last(out).to, w.to)))
    ELSE Append(out, w)

\* The rows are not trusted: whoever writes them past set_availability may
\* have them overlap.
MergeWindows(ws) == FoldLeft(Joined, <<>>, Sorted(ws))

\* A read that fails says there are no hours.
LoadAvailability == {MergeWindows(hours), <<>>}

-----------------------------------------------------------------------------
(* set_availability                                                        *)

Accepts(ws) ==
    /\ \A i \in DOMAIN ws : ws[i].from < ws[i].to
    /\ \A i, j \in DOMAIN ws : i # j => ws[i].to <= ws[j].from \/ ws[j].to <= ws[i].from

-----------------------------------------------------------------------------
HoursInit ==
    /\ CallsInit
    /\ hours \in {ws \in SUBSET ValidRows : Cardinality(ws) <= MaxWindows}
    /\ draft \in LoadAvailability
    /\ edits = 0
    /\ saved = FALSE
    /\ overtaken = FALSE

\* Mutant: "Saved." is left standing.
EditsQuietly(windows) ==
    /\ draft' = windows
    /\ UNCHANGED saved

\* Every edit takes "Saved." down.  The controls stay free during a save.
Edits(windows) ==
    /\ draft' = windows
    /\ saved' = FALSE

EditHours(windows) ==
    /\ edits < MaxEdits
    /\ edits' = edits + 1
    /\ Edits(windows)
    /\ overtaken' = (overtaken \/ Busy(Page, "hours"))
    /\ UNCHANGED <<callVars, hours>>

SetWindow ==
    \E i \in DOMAIN draft, w \in Rows :
      /\ w.from = draft[i].from \/ w.to = draft[i].to
      /\ EditHours([draft EXCEPT ![i] = w])

\* Half an hour after the last window of the day, an hour long.
AddWindow ==
    LET start == IF draft = <<>> THEN FirstStart
                 ELSE Smaller(Last(draft).to + 1, DayEnd - 2)
    IN  /\ Len(draft) < MaxWindows
        /\ EditHours(Append(draft, Window(start, Smaller(start + 2, DayEnd))))

RemoveWindow == \E i \in DOMAIN draft : EditHours(RemoveAt(draft, i))

SaveHours ==
    /\ ~Busy(Page, "hours")
    /\ Send(Page, "hours", Nothing, draft)
    /\ UNCHANGED <<refreshing, hours, draft, edits, saved, overtaken>>

\* The checks see the whole week before the old one is deleted.
SetAvailability(c) ==
    /\ Served(c, IF Accepts(c.request) THEN "done" ELSE "refused")
    /\ hours' = IF Accepts(c.request) THEN Range(c.request) ELSE hours
    /\ overtaken' = IF Accepts(c.request) THEN c.stage = "adrift" \/ draft # c.request
                                           ELSE overtaken
    /\ UNCHANGED <<draft, edits, saved>>

\* Another page of the owner saves a week.
SavedElsewhere ==
    /\ made < MaxCalls
    /\ made' = made + 1
    /\ \E ws \in SUBSET ValidRows :
         /\ Cardinality(ws) <= MaxWindows
         /\ Accepts(Sorted(ws))
         /\ hours' = ws
    /\ overtaken' = TRUE
    /\ UNCHANGED <<calls, refreshing, draft, edits, saved>>

HoursSaved(c) ==
    /\ Answered(c)
    /\ saved' = TRUE
    /\ UNCHANGED <<hours, draft, edits, overtaken>>

HoursRefused(c) == Refused(c) /\ UNCHANGED <<hours, draft, edits, saved, overtaken>>

HoursLost(c) == (Broken(c) \/ Vanished(c)) /\ UNCHANGED <<hours, draft, edits, saved, overtaken>>

\* The fresh page brings the stored week; the draft was taken at mount.
HoursRefreshed ==
    /\ Page \in refreshing
    /\ refreshing' = refreshing \ {Page}
    /\ UNCHANGED <<calls, made, hours, draft, edits, saved, overtaken>>

\* The page is opened again.
OpenHours ==
    /\ ~Busy(Page, "hours")
    /\ draft' \in LoadAvailability
    /\ saved' = FALSE
    /\ UNCHANGED <<callVars, hours, edits, overtaken>>

HoursNext ==
    \/ SetWindow \/ AddWindow \/ RemoveWindow \/ SaveHours \/ HoursRefreshed \/ OpenHours
    \/ \E c \in calls :
         SetAvailability(c) \/ HoursSaved(c) \/ HoursRefused(c) \/ HoursLost(c)
    \/ SavedElsewhere

-----------------------------------------------------------------------------
(* Properties.                                                             *)

Minutes(ws) == {m \in 0..DayEnd - 1 : \E w \in ws : w.from <= m /\ m < w.to}

\* Whatever rows a workspace holds, the week the page is given has exactly
\* their minutes, no two windows of it meet, and a Save of it is taken: a
\* page opened and saved changes nothing the owner sees.
LoadedWeekSaves ==
    LET week == MergeWindows(hours)
    IN  /\ Minutes(Range(week)) = Minutes(hours)
        /\ \A i \in 1..Len(week) - 1 : week[i].to < week[i + 1].from
        /\ Accepts(week)

\* The page and the table agree whenever the page says so: a week that was
\* loaded is the one stored, and "Saved." is said of windows that are the
\* rows, unless they were edited while the save was under way or another page
\* has saved since.
HoursAreThoseStored ==
    /\ LoadedWeekSaves
    /\ saved /\ ~overtaken => Range(draft) = hours

=============================================================================
