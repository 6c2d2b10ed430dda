------------------------------- MODULE NewRows -------------------------------
(***************************************************************************)
(* The forms that make something: an event, a calendar, a person or a      *)
(* group of the people page, a person of the visibility sheet.  Each draws *)
(* the row's id itself, anew for each attempt, because the name is sealed  *)
(* under it.                                                               *)
(***************************************************************************)
EXTENDS Calls, Integers

CONSTANTS
    Durations,   \* minutes the select offers
    Typeable,    \* bound: what is typed into the minutes field
    DayMinutes,  \* the most it takes
    MaxDrafts    \* bound: things the owner means to make

Kinds == {"event", "calendar", "contact", "group", "person"}

VARIABLES
    rows,    \* what was made: its id, its kind, what it was drawn from
    form,    \* the form that is open, Nothing when none is
    drafts,  \* things the owner has set out to make
    store,   \* the keys are open
    broken   \* history: drafts one of whose calls had no answer

newVars == <<callVars, rows, form, drafts, store, broken>>

NewOK ==
    /\ CallsOK
    /\ drafts \in 0..MaxDrafts
    /\ broken \subseteq 1..MaxDrafts
    /\ form = Nothing \/ form.kind \in Kinds

NewInit ==
    /\ CallsInit
    /\ rows = {}
    /\ form = Nothing
    /\ drafts = 0
    /\ store = TRUE
    /\ broken = {}

-----------------------------------------------------------------------------
\* The forms open only while the keys do; the sheet of an event asks for the
\* workspace and its calendars as it opens.
OpenForm(kind) ==
    /\ form = Nothing
    /\ store
    /\ form' = [kind |-> kind, draft |-> 0, target |-> kind \in {"contact", "group"},
                minutes |-> 30, custom |-> FALSE, text |-> 0]
    /\ UNCHANGED <<callVars, rows, drafts, store, broken>>

\* The answer of that question, a calendar's or a person's form has it too.
Target ==
    /\ form # Nothing
    /\ ~form.target
    /\ form' = [form EXCEPT !.target = TRUE]
    /\ UNCHANGED <<callVars, rows, drafts, store, broken>>

\* A name, where there was none: the owner means one more thing.
Draft ==
    /\ form # Nothing
    /\ ~Busy(Page, form.kind)
    /\ form.draft = 0
    /\ drafts < MaxDrafts
    /\ drafts' = drafts + 1
    /\ form' = [form EXCEPT !.draft = drafts']
    /\ UNCHANGED <<callVars, rows, store, broken>>

Editable ==
    /\ form # Nothing
    /\ form.kind = "event"
    /\ ~Busy(Page, "event")

ChooseDuration ==
    /\ Editable
    /\ \E d \in Durations :
         form' = [form EXCEPT !.custom = FALSE, !.minutes = d]
    /\ UNCHANGED <<callVars, rows, drafts, store, broken>>

OpenedOnDuration(f) == [f EXCEPT !.custom = TRUE, !.text = f.minutes]

ChooseCustom ==
    /\ Editable
    /\ ~form.custom
    /\ form' = OpenedOnDuration(form)
    /\ UNCHANGED <<callVars, rows, drafts, store, broken>>

\* What is not a number of minutes leaves the duration as it was; more than
\* a day is a day.
TypeMinutes ==
    /\ Editable
    /\ form.custom
    /\ \E n \in Typeable :
         form' = [form EXCEPT !.text = n,
                              !.minutes = IF n >= 1 THEN (IF n < DayMinutes THEN n ELSE DayMinutes)
                                                       ELSE @]
    /\ UNCHANGED <<callVars, rows, drafts, store, broken>>

\* The field's own limits: the browser keeps the form back.
FormValid(f) == f.custom => f.text \in 1..DayMinutes

Idle == ~Busy(Page, form.kind)

\* The button and the inputs are disabled while the form is busy.
Submit ==
    /\ form # Nothing
    /\ Idle
    /\ form.draft # 0
    /\ FormValid(form)
    /\ store
    /\ form.target
    /\ Send(Page, form.kind, <<"draft", form.draft>>, form.minutes)
    /\ UNCHANGED <<refreshing, rows, form, drafts, store, broken>>

\* Cancel and Escape wait for the call.
Dismiss ==
    /\ form # Nothing
    /\ ~Busy(Page, form.kind)
    /\ form' = Nothing
    /\ UNCHANGED <<callVars, rows, drafts, store, broken>>

\* create_cloaked_event, create_calendar, upsert_contact, upsert_contact_group.
CreateRow(c) ==
    /\ Served(c, "done")
    /\ rows' = rows \cup {[id |-> c.id, kind |-> c.control,
                           draft |-> c.about[2], minutes |-> c.request]}
    /\ UNCHANGED <<form, drafts, store, broken>>

\* Mutant: the draft outlives the row that was made from it.
Kept(f) == f

\* A sheet closes; a row of the people page and the sheet's own goes away.
Cleared(f) == Nothing

Created(c) ==
    /\ Answered(c)
    /\ form' = Cleared(form)
    /\ UNCHANGED <<rows, drafts, store, broken>>

\* The message is shown and the draft stays, to be sent again.
CreationLost(c) ==
    /\ Broken(c)
    /\ broken' = broken \cup {c.about[2]}
    /\ UNCHANGED <<rows, form, drafts, store>>

CreationGone(c) == Vanished(c) /\ UNCHANGED <<rows, form, drafts, store, broken>>

NewRefreshed ==
    /\ Page \in refreshing
    /\ refreshing' = refreshing \ {Page}
    /\ UNCHANGED <<calls, made, rows, form, drafts, store, broken>>

\* The keys are put away and taken out again, here or in another tab.
LockOrUnlock ==
    /\ store' = ~store
    /\ UNCHANGED <<callVars, rows, form, drafts, broken>>

NewNext ==
    \/ \E kind \in Kinds : OpenForm(kind)
    \/ Target \/ Draft \/ Submit \/ Dismiss \/ NewRefreshed
    \/ ChooseDuration \/ ChooseCustom \/ TypeMinutes
    \/ \E c \in calls : CreateRow(c) \/ Created(c) \/ CreationLost(c) \/ CreationGone(c)
    \/ LockOrUnlock

-----------------------------------------------------------------------------
(* Properties.                                                             *)

\* Two rows are made of one draft only after an answer was lost: the owner
\* who is told that something was made, or that it was not, has made it once.
TwinsOnlyAfterLoss ==
    \A a, b \in rows : a.draft = b.draft /\ a.id # b.id => a.draft \in broken

=============================================================================
