-------------------------------- MODULE Calls --------------------------------
(***************************************************************************)
(* A call of a form to the server, as every form of the settings and the   *)
(* people pages makes it: setBusy, the call, router.refresh() on a good    *)
(* answer, the message on a bad one, and the control free again.           *)
(*                                                                         *)
(* A call whose connection breaks may have been carried out, may still be, *)
(* or may never be: the form says "nothing was saved" of all three and     *)
(* asks for no fresh page.                                                 *)
(***************************************************************************)
EXTENDS Naturals, FiniteSets

CONSTANTS
    Tabs,
    Page,      \* the tab of a form that shares nothing with other tabs'
    Nothing,
    MaxCalls   \* bound: calls made

ASSUME CallsAssumption == Page \in Tabs /\ MaxCalls \in Nat

VARIABLES
    calls,       \* the calls that are under way
    made,        \* how many were made
    refreshing   \* tabs a fresh page is on its way to

callVars == <<calls, made, refreshing>>

Stages == {"sent", "done", "refused", "adrift"}

CallsOK ==
    /\ made \in 0..MaxCalls
    /\ refreshing \subseteq Tabs
    /\ \A c \in calls : c.tab \in Tabs /\ c.stage \in Stages

CallsInit == calls = {} /\ made = 0 /\ refreshing = {}

\* Some control is busy with a call of this name.
Busy(t, control) ==
    \E c \in calls : c.tab = t /\ c.control = control /\ c.stage # "adrift"

\* A call is about a cell, a rule, a draft or nothing that is told apart.
Send(t, control, about, request) ==
    /\ made < MaxCalls
    /\ made' = made + 1
    /\ calls' = calls \cup {[id |-> made, tab |-> t, control |-> control,
                             about |-> about, request |-> request, stage |-> "sent"]}

\* A call about it is under way, or may be.
Pending(about) == \E c \in calls : c.about = about

\* The server takes the call up; nobody waits for one that is adrift.
Served(c, stage) ==
    /\ c.stage \in {"sent", "adrift"}
    /\ calls' = (calls \ {c})
                  \cup (IF c.stage = "sent" THEN {[c EXCEPT !.stage = stage]} ELSE {})
    /\ UNCHANGED <<made, refreshing>>

Answered(c) ==
    /\ c.stage = "done"
    /\ calls' = calls \ {c}
    /\ refreshing' = refreshing \cup {c.tab}
    /\ UNCHANGED made

\* The server's own refusal.
Refused(c) ==
    /\ c.stage = "refused"
    /\ calls' = calls \ {c}
    /\ UNCHANGED <<made, refreshing>>

\* The connection breaks, before the server had the call or after.
Broken(c) ==
    /\ c.stage # "adrift"
    /\ calls' = (calls \ {c})
                  \cup (IF c.stage = "sent" THEN {[c EXCEPT !.stage = "adrift"]} ELSE {})
    /\ UNCHANGED <<made, refreshing>>

\* The request never reached the server.
Vanished(c) ==
    /\ c.stage = "adrift"
    /\ calls' = calls \ {c}
    /\ UNCHANGED <<made, refreshing>>

=============================================================================
