---------------------------- MODULE CalendarForms ----------------------------
(***************************************************************************)
(* The calendar settings: time and region, appearance, the calendars'      *)
(* colours and names, and the holiday switch in the calendar's sidebar.    *)
(* Several tabs of one owner, each drawing a page that may be old.         *)
(*                                                                         *)
(* A cell is a column of the workspace or of a calendar.  There is a       *)
(* workspace; that a value is a known zone, view or colour is the          *)
(* control's own list, and the server's refusal of others is left out.     *)
(***************************************************************************)
EXTENDS Calls

CONSTANTS
    PrefFields,  \* columns of workspaces that have a control
    Calendars,
    Offered,     \* what the controls offer
    MaxTyped     \* bound: names typed

VARIABLES
    demo,      \* the demo calendar: choices are kept in a cookie
    stored,    \* cell -> value, in the database or in the cookie
    shown,     \* tab -> the cells as its page was drawn
    busyId,    \* tab -> the calendar whose row is busy
    renaming,  \* tab -> the row open for a name, and what is typed
    typed,     \* names typed so far
    pick,      \* history: cell -> what was last chosen for it, anywhere
    unsure     \* history: cells chosen twice at once, or with no answer

formVars == <<callVars, demo, stored, shown, busyId, renaming, typed, pick, unsure>>

Pref(f) == <<"pref", f>>
Colour(c) == <<"colour", c>>
Name(c) == <<"name", c>>

Cells == {Pref(f) : f \in PrefFields}
           \cup {Colour(c) : c \in Calendars} \cup {Name(c) : c \in Calendars}

\* The two cards have a busy flag each.
Section(f) == IF f \in {"timezone", "weekStart", "holidayRegion"} THEN "time" ELSE "appearance"

FormsOK ==
    /\ CallsOK
    /\ DOMAIN stored = Cells
    /\ \A t \in Tabs : busyId[t] \in Calendars \cup {Nothing}
    /\ unsure \subseteq Cells

FormsInit ==
    /\ CallsInit
    /\ demo \in BOOLEAN
    /\ stored = [x \in Cells |-> 0]
    /\ shown = [t \in Tabs |-> stored]
    /\ busyId = [t \in Tabs |-> Nothing]
    /\ renaming = [t \in Tabs |-> Nothing]
    /\ typed = 0
    /\ pick = stored
    /\ unsure = {}

-----------------------------------------------------------------------------
\* Mutant: the patch carries the page's other values along.
WholePage(t, x, value) == [y \in Cells |-> IF y = x THEN value ELSE shown[t][y]]

\* The one cell that was chosen; null for every other means unchanged.
Patch(t, x, value) == [y \in {x} |-> value]

Overlaid(patch) == [x \in Cells |-> IF x \in DOMAIN patch THEN patch[x] ELSE stored[x]]

\* The owner's choice, which a second one under way makes a matter of luck.
Chosen(x, value) ==
    /\ pick' = [pick EXCEPT ![x] = value]
    /\ unsure' = IF Pending(x) THEN unsure \cup {x}
                                                           ELSE unsure \ {x}

Request(t, control, x, value) ==
    /\ Send(t, control, x, Patch(t, x, value))
    /\ Chosen(x, value)
    /\ UNCHANGED <<demo, stored, shown, typed, refreshing>>

\* In the demo the cookie is read and written in one go.
Keep(t, x, value) ==
    /\ stored' = Overlaid(Patch(t, x, value))
    /\ Chosen(x, value)
    /\ refreshing' = refreshing \cup {t}
    /\ UNCHANGED <<calls, made, demo, shown, typed>>

SavePrefs(t, control, x, value) ==
    \/ ~demo /\ Request(t, control, x, value)
    \/ demo /\ Keep(t, x, value)

\* A select of the time or the appearance card.
ChoosePref(t, f, value) ==
    /\ ~Busy(t, Section(f))
    /\ value # shown[t][Pref(f)]
    /\ SavePrefs(t, Section(f), Pref(f), value)
    /\ UNCHANGED <<busyId, renaming>>

\* The sidebar's switch stays pressable while it saves: it is only announced
\* as disabled.  0 is `auto`, 1 is `off`.
ToggleHolidays(t) ==
    /\ "holidayRegion" \in PrefFields
    /\ SavePrefs(t, "switch", Pref("holidayRegion"),
                 IF shown[t][Pref("holidayRegion")] = 1 THEN 0 ELSE 1)
    /\ UNCHANGED <<busyId, renaming>>

Recolor(t, c, value) ==
    /\ ~demo
    /\ busyId[t] # c
    /\ value # shown[t][Colour(c)]
    /\ busyId' = [busyId EXCEPT ![t] = c]
    /\ Request(t, "row", Colour(c), value)
    /\ UNCHANGED renaming

\* A row opens empty, over one that is open.
StartRename(t, c) ==
    /\ ~demo
    /\ renaming[t] # Nothing => renaming[t].row # c
    /\ renaming' = [renaming EXCEPT ![t] = [row |-> c, value |-> 0]]
    /\ UNCHANGED <<callVars, demo, stored, shown, busyId, typed, pick, unsure>>

TypeName(t) ==
    /\ renaming[t] # Nothing
    /\ busyId[t] # renaming[t].row
    /\ typed < MaxTyped
    /\ typed' = typed + 1
    /\ renaming' = [renaming EXCEPT ![t].value = typed']
    /\ UNCHANGED <<callVars, demo, stored, shown, busyId, pick, unsure>>

CancelRename(t) ==
    /\ renaming[t] # Nothing
    /\ renaming' = [renaming EXCEPT ![t] = Nothing]
    /\ UNCHANGED <<callVars, demo, stored, shown, busyId, typed, pick, unsure>>

Rename(t) ==
    /\ renaming[t] # Nothing
    /\ renaming[t].value # 0
    /\ busyId[t] # renaming[t].row
    /\ busyId' = [busyId EXCEPT ![t] = renaming[t].row]
    /\ Request(t, "name", Name(renaming[t].row), renaming[t].value)
    /\ UNCHANGED renaming

-----------------------------------------------------------------------------
\* set_workspace_prefs, update_calendar: each column is its new value or its own.
Apply(c) ==
    /\ Served(c, "done")
    /\ stored' = Overlaid(c.request)
    /\ UNCHANGED <<demo, shown, busyId, renaming, typed, pick, unsure>>

\* The end of a call frees the busy row, whichever row that is by now.
Freed(c) == busyId' = IF c.control \in {"row", "name"}
                      THEN [busyId EXCEPT ![c.tab] = Nothing] ELSE busyId

Saved(c) ==
    /\ Answered(c)
    /\ Freed(c)
    /\ renaming' = IF c.control = "name" THEN [renaming EXCEPT ![c.tab] = Nothing] ELSE renaming
    /\ UNCHANGED <<demo, stored, shown, typed, pick, unsure>>

Lost(c) ==
    /\ Broken(c)
    /\ Freed(c)
    /\ unsure' = unsure \cup {c.about}
    /\ UNCHANGED <<demo, stored, shown, renaming, typed, pick>>

NeverArrived(c) ==
    /\ Vanished(c)
    /\ UNCHANGED <<demo, stored, shown, busyId, renaming, typed, pick, unsure>>

\* A fresh page: its props are new, what is open on it stays open.
Refreshed(t) ==
    /\ t \in refreshing
    /\ refreshing' = refreshing \ {t}
    /\ shown' = [shown EXCEPT ![t] = stored]
    /\ UNCHANGED <<calls, made, demo, stored, busyId, renaming, typed, pick, unsure>>

FormsNext ==
    \/ \E t \in Tabs :
         \/ \E f \in PrefFields : \E v \in Offered : ChoosePref(t, f, v)
         \/ ToggleHolidays(t)
         \/ \E c \in Calendars : StartRename(t, c) \/ \E v \in Offered : Recolor(t, c, v)
         \/ TypeName(t) \/ CancelRename(t) \/ Rename(t)
         \/ Refreshed(t)
    \/ \E c \in calls : Apply(c) \/ Saved(c) \/ Lost(c) \/ NeverArrived(c)

-----------------------------------------------------------------------------
(* Properties.                                                             *)

\* However old the page a choice is made on, and whatever is chosen next to
\* it meanwhile, it stands: a cell holds what was last chosen for it, unless
\* two choices for it were under way at once or one of them had no answer.
PicksStand ==
    \A x \in Cells \ unsure :
      ~Pending(x) => stored[x] = pick[x]

=============================================================================
