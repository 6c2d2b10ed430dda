------------------------------ MODULE PlanPage ------------------------------
(***************************************************************************)
(* The plan page: what a tab shows of a workspace's subscription, and the  *)
(* requests its buttons send to the checkout, portal and subscription      *)
(* routes.  A page is drawn from our row, which only the webhook writes,   *)
(* and from what Stripe says at that moment; both move on while it is      *)
(* looked at, from other tabs too.  A route reads the row, and some time   *)
(* later acts at Stripe; its answer may be lost.                           *)
(***************************************************************************)
EXTENDS Naturals, FiniteSets, TLC

CONSTANTS
    Tabs,
    Subs,         \* Stripe subscriptions, one for each checkout session
    MaxTurns,     \* bound: renewals that fail or succeed, cancellations that take effect
    MaxRequests,  \* bound: requests the buttons send
    None

ASSUME NoneAssumption == None \notin Tabs \cup Subs

Cadences == {"monthly", "annual"}

VARIABLES
    stripe,    \* at Stripe: each subscription
    row,       \* public.subscriptions, for the one workspace
    tab,       \* each tab: where it is and what it shows
    requests,  \* the requests in progress
    spent      \* history: turns and requests so far

vars == <<stripe, row, tab, requests, spent>>

NoRow == [plan |-> "free", customer |-> None, sub |-> None, status |-> None,
          cancelling |-> FALSE]

\* Tabs and subscriptions are interchangeable.
Symmetry == Permutations(Tabs) \cup Permutations(Subs)

planFor(status) == IF status = "active" THEN "pro" ELSE "free"

Alive(s) == stripe[s].status \in {"active", "past_due"}

-----------------------------------------------------------------------------
(* What a page shows                                                       *)

Preferred(live) == live

\* Only a Pro row asks what Stripe says, and Stripe never decides the plan.
billingState(live) ==
    IF row.plan = "free" THEN IF row.customer = None THEN "none" ELSE "lapsed"
    ELSE IF Preferred(live).status # "active" THEN "past_due"
    ELSE IF Preferred(live).cancelling THEN "cancelling"
    ELSE "active"

Unreadable == [state |-> "unreadable", plan |-> "free", sub |-> None, cadence |-> None,
               stale |-> FALSE]

LocalView(stale) ==
    [state |-> billingState([cancelling |-> row.cancelling, status |-> row.status]),
     plan |-> row.plan, sub |-> row.sub, cadence |-> None, stale |-> stale]

\* ourItem, or any item: a page may show what a route may not act on.
LiveView ==
    LET s == row.sub IN
    [state |-> billingState([cancelling |-> stripe[s].cancelling, status |-> stripe[s].status]),
     plan |-> row.plan, sub |-> s, cadence |-> CHOOSE c \in stripe[s].items : TRUE,
     stale |-> FALSE]

\* Our row may not be readable, and Stripe may not be reachable.
Views ==
    {Unreadable} \cup IF row.sub = None THEN {LocalView(FALSE)}
                      ELSE {LiveView, LocalView(TRUE)}

\* Mutant: coming back from Stripe is an ordinary visit.
NeverSettling(t) == FALSE

\* Paid, and the webhook has not written the row yet.
Settling(t) == tab[t].returned = "done" /\ tab[t].view.plan # "pro"

CanPurchase(t) == tab[t].view.state \in {"none", "lapsed"} /\ ~Settling(t)

CanManage(t) ==
    tab[t].view.state \in {"active", "cancelling", "past_due"} /\ tab[t].view.sub # None

-----------------------------------------------------------------------------
(* Visits                                                                  *)

Away == [at |-> "away", session |-> None, view |-> Unreadable, returned |-> None,
         pending |-> None, busy |-> None]

Arrived(t, returned) ==
    \E view \in Views :
        tab' = [tab EXCEPT ![t] = [Away EXCEPT !.at = "plan", !.view = view, !.returned = returned,
                                               !.session = IF returned = "done" THEN tab[t].session
                                                           ELSE None]]

Visit(t) ==
    /\ tab[t].at = "away"
    /\ Arrived(t, None)
    /\ UNCHANGED <<stripe, row, requests, spent>>

\* Nobody waits for the answers of a page that has gone.
Forgotten(t) ==
    {IF r.tab = t THEN [r EXCEPT !.tab = None] ELSE r :
       r \in {q \in requests : ~(q.tab = t /\ q.at = "answered")}}

Leave(t) ==
    /\ tab[t].at = "plan"
    /\ tab' = [tab EXCEPT ![t] = Away]
    /\ requests' = Forgotten(t)
    /\ UNCHANGED <<stripe, row, spent>>

PayAtStripe(t) ==
    LET s == tab[t].session IN
    /\ tab[t].at = "stripe"
    /\ stripe[s].status = "session"
    /\ stripe' = [stripe EXCEPT ![s].status = "active"]
    /\ tab' = [tab EXCEPT ![t].at = "returning"]
    /\ UNCHANGED <<row, requests, spent>>

Return(t) ==
    /\ tab[t].at \in {"stripe", "returning"}
    /\ Arrived(t, IF tab[t].at = "returning" THEN "done" ELSE "cancelled")
    /\ UNCHANGED <<stripe, row, requests, spent>>

-----------------------------------------------------------------------------
(* The buttons.  Each is disabled by its own request, not by another's.    *)

Request(t, action, cadence) ==
    [tab |-> t, action |-> action, sub |-> tab[t].view.sub, cadence |-> cadence,
     shown |-> tab[t].pending, at |-> "sent", current |-> None, answer |-> None,
     session |-> None]

Press(t, action, cadence) ==
    /\ tab[t].at = "plan"
    /\ tab[t].busy # action
    /\ spent.requests < MaxRequests
    /\ spent' = [spent EXCEPT !.requests = @ + 1]
    /\ requests' = requests \cup {Request(t, action, cadence)}
    /\ UNCHANGED <<stripe, row>>

ContinueToStripe(t, cadence) ==
    /\ CanPurchase(t)
    /\ tab' = [tab EXCEPT ![t].busy = "checkout"]
    /\ Press(t, "checkout", cadence)

KeepPro(t) ==
    /\ CanManage(t) /\ tab[t].pending = None
    /\ tab[t].view.state = "cancelling"
    /\ tab' = [tab EXCEPT ![t].busy = "resume"]
    /\ Press(t, "resume", None)

UpdatePaymentMethod(t) ==
    /\ CanManage(t) /\ tab[t].pending = None
    /\ tab' = [tab EXCEPT ![t].busy = "card"]
    /\ Press(t, "card", None)

\* No switch while a payment is failing.
PreviewSwitch(t) ==
    LET other == IF tab[t].view.cadence = "annual" THEN "monthly" ELSE "annual" IN
    /\ CanManage(t) /\ tab[t].pending = None
    /\ tab[t].view.state = "active" /\ tab[t].view.cadence # None
    /\ tab' = [tab EXCEPT ![t].busy = "switch"]
    /\ tab[t].busy # "switch"
    /\ Press(t, "preview", other)

AskToCancel(t) ==
    /\ tab[t].at = "plan"
    /\ CanManage(t) /\ tab[t].pending = None
    /\ tab[t].view.state # "cancelling"
    /\ tab' = [tab EXCEPT ![t].pending = [kind |-> "cancel", cadence |-> None, sub |-> None]]
    /\ UNCHANGED <<stripe, row, requests, spent>>

KeepAsItIs(t) ==
    /\ tab[t].at = "plan"
    /\ CanManage(t) /\ tab[t].pending # None
    /\ tab[t].busy = None
    /\ tab' = [tab EXCEPT ![t].pending = None]
    /\ UNCHANGED <<stripe, row, requests, spent>>

ConfirmCancel(t) ==
    /\ CanManage(t) /\ tab[t].pending # None
    /\ tab[t].pending.kind = "cancel"
    /\ tab[t].view.state # "cancelling"
    /\ tab' = [tab EXCEPT ![t].busy = "cancel"]
    /\ Press(t, "cancel", None)

ConfirmSwitch(t) ==
    /\ CanManage(t) /\ tab[t].pending # None
    /\ tab[t].pending.kind = "switch"
    /\ tab' = [tab EXCEPT ![t].busy = "switch"]
    /\ Press(t, "switch", tab[t].pending.cadence)

-----------------------------------------------------------------------------
(* The routes                                                              *)

Answered(r, answer, session) ==
    (requests \ {r}) \cup
        (IF r.tab = None THEN {}
         ELSE {[r EXCEPT !.at = "answered", !.answer = answer, !.session = session,
                         !.shown = None, !.current = None]})

Answer(r, answer) == Answered(r, answer, None)

\* The version guard.
SameSubscription(r) == r.sub = row.sub

\* Signed in, the row read, and the request found to make sense.
Prepare(r) ==
    /\ r.at = "sent"
    /\ requests' =
         CASE r.action = "checkout" /\ row.sub # None -> Answer(r, "refused")
           [] r.action = "card" /\ row.customer = None -> Answer(r, "refused")
           [] r.action \in {"cancel", "resume", "preview", "switch"}
                /\ (row.sub = None \/ ~SameSubscription(r)) -> Answer(r, "refused")
           [] OTHER -> (requests \ {r}) \cup {[r EXCEPT !.at = "prepared", !.current = row.sub]}
    /\ UNCHANGED <<stripe, row, tab, spent>>

\* The row could not be read, Stripe could not be reached, the card was declined.
Fail(r) ==
    /\ r.at \in {"sent", "prepared"}
    /\ requests' = Answer(r, "refused")
    /\ UNCHANGED <<stripe, row, tab, spent>>

OpenSession(r) ==
    /\ r.at = "prepared" /\ r.action = "checkout"
    /\ \E s \in Subs :
        /\ stripe[s].status = "none"
        /\ stripe' = [stripe EXCEPT ![s].status = "session", ![s].items = {r.cadence}]
        /\ requests' = Answered(r, "session", s)
    /\ UNCHANGED <<row, tab, spent>>

OpenPortal(r) ==
    /\ r.at = "prepared" /\ r.action = "card"
    /\ requests' = Answer(r, "portal")
    /\ UNCHANGED <<stripe, row, tab, spent>>

\* The change is made, and the answer reaches the tab or does not.
Told(r, answer) == requests' \in {Answer(r, answer), Answer(r, "refused")}

SetCancelling(r) ==
    /\ r.at = "prepared" /\ r.action \in {"cancel", "resume"}
    /\ Alive(r.current)
    /\ stripe' = [stripe EXCEPT ![r.current].cancelling = (r.action = "cancel")]
    /\ Told(r, "ok")
    /\ UNCHANGED <<row, tab, spent>>

\* Already on the price that is asked for: there is nothing to preview or do.
NothingToSwitch(r) ==
    /\ r.at = "prepared" /\ r.action \in {"preview", "switch"}
    /\ r.cadence \in stripe[r.current].items
    /\ requests' = Answer(r, "ok")
    /\ UNCHANGED <<stripe, row, tab, spent>>

\* Mutant: the change is posted straight through.
PostedThrough(r) == TRUE

Confirmed(r) == r.action = "switch"

ShowPreview(r) ==
    /\ r.at = "prepared" /\ r.action \in {"preview", "switch"}
    /\ r.cadence \notin stripe[r.current].items
    /\ ~Confirmed(r)
    /\ requests' = Answer(r, "preview")
    /\ UNCHANGED <<stripe, row, tab, spent>>

\* With the item's id in the update: without it Stripe adds a second price.
Replaced(items, cadence) == {cadence}

Switch(r) ==
    LET s == r.current IN
    /\ r.at = "prepared" /\ r.action \in {"preview", "switch"}
    /\ r.cadence \notin stripe[s].items
    /\ Confirmed(r)
    /\ Alive(s)
    /\ stripe' = [stripe EXCEPT ![s].items = Replaced(@, r.cadence)]
    /\ Told(r, "ok")
    /\ UNCHANGED <<row, tab, spent>>

\* An answer that says ok draws the page anew; one that names Stripe leaves for it.
Receive(r) ==
    LET t == r.tab
        leaves == r.answer \in {"portal", "session"}
        drawn == r.answer = "ok" /\ r.action # "preview"
    IN
    /\ r.at = "answered"
    /\ requests' = IF leaves THEN Forgotten(t) ELSE requests \ {r}
    /\ \/ r.answer = "portal" /\ tab' = [tab EXCEPT ![t] = Away]
       \/ /\ r.answer = "session"
          /\ tab' = [tab EXCEPT ![t] = [Away EXCEPT !.at = "stripe", !.session = r.session]]
       \/ /\ r.answer = "preview"
          /\ tab' = [tab EXCEPT ![t].busy = None,
                                ![t].pending = [kind |-> "switch", cadence |-> r.cadence,
                                                sub |-> r.sub]]
       \/ /\ drawn
          /\ \E view \in Views :
              tab' = [tab EXCEPT ![t].busy = None, ![t].pending = None, ![t].view = view]
       \/ /\ ~leaves /\ ~drawn /\ r.answer # "preview"
          /\ tab' = [tab EXCEPT ![t].busy = None]
    /\ UNCHANGED <<stripe, row, spent>>

-----------------------------------------------------------------------------
(* Stripe's own clock, and the webhook                                     *)

Turn(s, status) ==
    /\ Alive(s)
    /\ spent.turns < MaxTurns
    /\ spent' = [spent EXCEPT !.turns = @ + 1]
    /\ \/ status \in {"active", "past_due"} \ {stripe[s].status}
       \/ status = "canceled" /\ (stripe[s].cancelling \/ stripe[s].status = "past_due")
    /\ stripe' = [stripe EXCEPT ![s].status = status]
    /\ UNCHANGED <<row, tab, requests>>

\* BillingWebhook: the row becomes what Stripe says of a subscription - of any
\* when its checkout is applied, and later of the one whose customer it names.
Webhook(s) ==
    /\ stripe[s].status \notin {"none", "session"}
    /\ row.sub = s \/ ~stripe[s].applied
    /\ stripe' = [stripe EXCEPT ![s].applied = TRUE]
    /\ row' = [plan |-> planFor(stripe[s].status), customer |-> s, sub |-> s,
               status |-> stripe[s].status, cancelling |-> stripe[s].cancelling]
    /\ UNCHANGED <<tab, requests, spent>>

-----------------------------------------------------------------------------
TypeOK ==
    /\ \A s \in Subs :
        /\ stripe[s].status \in {"none", "session", "active", "past_due", "canceled"}
        /\ stripe[s].items \subseteq Cadences
    /\ row.plan \in {"free", "pro"} /\ row.sub \in Subs \cup {None}
    /\ \A t \in Tabs :
        /\ tab[t].at \in {"away", "plan", "stripe", "returning"}
        /\ tab[t].busy \in {"checkout", "cancel", "resume", "switch", "card", None}
    /\ \A r \in requests : r.tab \in Tabs \cup {None} /\ r.at \in {"sent", "prepared", "answered"}

Init ==
    /\ stripe = [s \in Subs |-> [status |-> "none", cancelling |-> FALSE, items |-> {},
                                 applied |-> FALSE]]
    /\ row = NoRow
    /\ tab = [t \in Tabs |-> Away]
    /\ requests = {}
    /\ spent = [turns |-> 0, requests |-> 0]

Buttons(t) ==
    \/ \E cadence \in Cadences : ContinueToStripe(t, cadence)
    \/ KeepPro(t) \/ UpdatePaymentMethod(t) \/ PreviewSwitch(t)
    \/ AskToCancel(t) \/ KeepAsItIs(t) \/ ConfirmCancel(t) \/ ConfirmSwitch(t)

Act(r) ==
    \/ OpenSession(r) \/ OpenPortal(r) \/ SetCancelling(r)
    \/ NothingToSwitch(r) \/ ShowPreview(r) \/ Switch(r)

Next ==
    \/ \E t \in Tabs : Visit(t) \/ Leave(t) \/ PayAtStripe(t) \/ Return(t) \/ Buttons(t)
    \/ \E r \in requests : Prepare(r) \/ Fail(r) \/ Act(r) \/ Receive(r)
    \/ \E s \in Subs, status \in {"active", "past_due", "canceled"} : Turn(s, status)
    \/ \E s \in Subs : Webhook(s)

Spec == Init /\ [][Next]_vars

-----------------------------------------------------------------------------
(* Properties *)

\* A plan is only ever switched in place, to the price some tab's confirmation
\* named, of the subscription that tab was showing: nobody is put on two prices,
\* and no card is charged by the step that asks what it would cost.
MoneyMovesAsShown ==
    [][\A s \in Subs :
          Alive(s) /\ stripe'[s].items # stripe[s].items =>
            \E r \in requests :
              /\ r.action = "switch" /\ r.sub = s
              /\ r.shown # None /\ r.shown.kind = "switch"
              /\ stripe'[s].items = {r.shown.cadence}]_vars

\* An instruction reaches the subscription its page was rendered with, however
\* many there were in the meantime.
ActsOnWhatWasShown ==
    [][\A r \in requests :
          (SetCancelling(r) \/ Switch(r)) => stripe'[r.sub] # stripe[r.sub] \/ UNCHANGED stripe]_vars

\* A page drawn with Stripe in reach says of a Pro subscription whether it will
\* renew as Stripe has it, though the webhook has not been heard of yet.
DrawnAsStripeHasIt ==
    [][\A t \in Tabs :
          LET view == tab'[t].view IN
          view # tab[t].view /\ view.plan = "pro" /\ ~view.stale =>
            (view.state = "cancelling" <=>
               stripe[view.sub].status = "active" /\ stripe[view.sub].cancelling)]_vars

\* Whoever comes back from paying is not sold it again, while the webhook is on
\* its way or after it.
PaidTabBuysNoMore ==
    \A r \in requests :
        r.action = "checkout" /\ r.tab # None =>
            ~(tab[r.tab].returned = "done" /\ Alive(tab[r.tab].session))

\* The page is believed for a reason: what it shows is what is charged, done and
\* in force.
PlanAsShown == MoneyMovesAsShown /\ ActsOnWhatWasShown /\ DrawnAsStripeHasIt

=============================================================================
