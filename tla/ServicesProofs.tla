--------------------------- MODULE ServicesProofs ---------------------------
(***************************************************************************)
(* What the program leaves at other people's services.  PlanPage, for any  *)
(* tabs, subscriptions and order of answers: a paid account is sold        *)
(* nothing more, and no tab shows a plan nobody was told of.  The two      *)
(* provisioning commands, for any catalog, any providers and any number of *)
(* runs that die anywhere: one shop at the published prices, one SPF       *)
(* record, and mail that goes on being sent.  The invariants relate what a *)
(* run has in hand to what the service holds, for a run resumes from the   *)
(* service alone.                                                          *)
(***************************************************************************)
EXTENDS PlanPage, SetupScripts, FiniteSetTheorems, TLAPS

Subscription ==
    [status : {"none", "session", "active", "past_due", "canceled"}, cancelling : BOOLEAN,
     items : SUBSET Cadences, applied : BOOLEAN]

View ==
    [state : {"none", "lapsed", "past_due", "cancelling", "active", "unreadable"},
     plan : {"free", "pro"}, sub : Subs \cup {None}, cadence : Cadences \cup {None},
     stale : BOOLEAN]

Dialog == [kind : {"cancel", "switch"}, cadence : Cadences \cup {None}, sub : Subs \cup {None}]

TabState ==
    [at : {"away", "plan", "stripe", "returning"}, session : Subs \cup {None}, view : View,
     returned : {None, "done", "cancelled"}, pending : Dialog \cup {None},
     busy : {"checkout", "cancel", "resume", "switch", "card", None}]

Priced == {"checkout", "preview", "switch"}
Guarded == {"cancel", "resume", "preview", "switch"}

Requested ==
    [tab : Tabs \cup {None}, action : Priced \cup Guarded \cup {"card"},
     sub : Subs \cup {None}, cadence : Cadences \cup {None}, shown : Dialog \cup {None},
     at : {"sent", "prepared", "answered"}, current : Subs \cup {None},
     answer : {"ok", "refused", "preview", "portal", "session", None},
     session : Subs \cup {None}]

\* Whose subscription is known is Stripe's, and has a price.
StripeOK ==
    /\ stripe \in [Subs -> Subscription]
    /\ row.plan \in {"free", "pro"} /\ row.sub \in Subs \cup {None}
    /\ row.sub = None => row.plan = "free"
    /\ row.sub # None => stripe[row.sub].status # "none"
    /\ \A s \in Subs : stripe[s].status # "none" => stripe[s].items # {}

\* A route acts on the subscription the request names, and a confirmed switch
\* is to the price its dialog named.
RequestOK(r) ==
    /\ r.action \in Priced => r.cadence \in Cadences
    /\ r.at \in {"sent", "prepared"} /\ r.action = "switch" =>
         r.shown # None /\ r.shown.kind = "switch" /\ r.shown.cadence = r.cadence
    /\ r.at = "prepared" /\ r.action \in Guarded => r.current = r.sub /\ r.sub \in Subs
    /\ r.at = "answered" =>
         /\ r.tab \in Tabs
         /\ r.answer = "preview" => r.action \in {"preview", "switch"}

\* A request that somebody waits for is of a page that is open, and no page
\* that came back from paying has asked for a checkout.
Belongs(r) ==
    r.tab \in Tabs =>
        /\ tab[r.tab].at = "plan"
        /\ r.action = "checkout" => tab[r.tab].returned # "done"

TabOK(x) ==
    /\ x.pending # None /\ x.pending.kind = "switch" => x.pending.cadence \in Cadences
    /\ x.view.plan = "pro" => x.view.state \notin {"none", "lapsed"}

PageOK ==
    /\ tab \in [Tabs -> TabState]
    /\ requests \subseteq Requested
    /\ \A r \in requests : RequestOK(r) /\ Belongs(r)
    /\ \A t \in Tabs : TabOK(tab[t])

PlanInv == StripeOK /\ PageOK

-----------------------------------------------------------------------------

(* What a page shows                                                       *)

LEMMA ViewsFacts ==
    ASSUME StripeOK
    PROVE  /\ \A v \in Views : v \in View
           /\ \A v \in Views : v.plan = "pro" => v.state \notin {"none", "lapsed"}
<1>1. Unreadable \in View /\ Unreadable.plan = "free" BY DEF Unreadable, View
<1>2. \A live : billingState(live) \in {"none", "lapsed", "past_due", "cancelling", "active"}
  BY DEF billingState
<1>3. \A live : row.plan = "pro" => billingState(live) \notin {"none", "lapsed"}
  BY DEF billingState
<1>4. ASSUME NEW stale \in BOOLEAN
      PROVE  LocalView(stale) \in View
             /\ (LocalView(stale).plan = "pro" => LocalView(stale).state \notin {"none", "lapsed"})
  BY <1>2, <1>3 DEF LocalView, View, StripeOK
<1>5. ASSUME row.sub # None
      PROVE  LiveView \in View
             /\ (LiveView.plan = "pro" => LiveView.state \notin {"none", "lapsed"})
  <2>1. row.sub \in Subs /\ stripe[row.sub].items # {} /\ stripe[row.sub].items \subseteq Cadences
    BY <1>5 DEF StripeOK, Subscription
  <2>2. (CHOOSE c \in stripe[row.sub].items : TRUE) \in Cadences BY <2>1
  <2> QED BY <2>1, <2>2, <1>2, <1>3 DEF LiveView, View, StripeOK
<1> QED BY <1>1, <1>4, <1>5 DEF Views

LEMMA AwayFacts ==
    Away \in TabState /\ Away.at = "away" /\ Away.returned = None /\ TabOK(Away)
BY DEF Away, TabState, Unreadable, View, TabOK

\* Pages and requests change; what is true of each is true of all.
LEMMA PageStep ==
    ASSUME PageOK, NEW t \in Tabs, NEW x \in TabState, TabOK(x), tab' = [tab EXCEPT ![t] = x],
           \A r \in requests' : r \in Requested /\ RequestOK(r),
           \A r \in requests' :
              \/ r.tab # t /\ (r \in requests \/ r.tab = None)
              \/ r.tab = t /\ x.at = "plan" /\ (r.action = "checkout" => x.returned # "done")
    PROVE  PageOK'
<1>1. tab' \in [Tabs -> TabState] /\ tab'[t] = x /\ \A u \in Tabs : u # t => tab'[u] = tab[u]
  BY DEF PageOK
<1>2. \A u \in Tabs : TabOK(tab'[u]) BY <1>1 DEF PageOK
<1>3. ASSUME NEW r \in requests' PROVE Belongs(r)'
  <2>1. CASE r.tab = t BY <2>1, <1>1 DEF Belongs
  <2>2. CASE r.tab # t
    <3>1. CASE r \in requests BY <3>1, <2>2, <1>1 DEF PageOK, Belongs
    <3>2. CASE r.tab = None BY <3>2, NoneAssumption DEF Belongs
    <3> QED BY <2>2, <3>1, <3>2
  <2> QED BY <2>1, <2>2
<1> QED BY <1>1, <1>2, <1>3 DEF PageOK, RequestOK, TabOK, Priced, Guarded, TabState, View, Dialog, Requested

\* Requests change and the pages stay.
LEMMA RequestsStep ==
    ASSUME PageOK, UNCHANGED tab,
           \A r \in requests' : r \in Requested /\ RequestOK(r),
           \A r \in requests' : r \in requests \/ \E q \in requests : r.tab = q.tab /\ r.action = q.action
    PROVE  PageOK'
<1>1. ASSUME NEW r \in requests' PROVE Belongs(r)'
  BY DEF PageOK, Belongs
<1> QED BY <1>1 DEF PageOK, RequestOK, TabOK, Priced, Guarded, TabState, View, Dialog, Requested

LEMMA SameStripe ==
    ASSUME StripeOK, UNCHANGED <<stripe, row>>
    PROVE  StripeOK'
BY DEF StripeOK, Subscription

Answers == {"ok", "refused", "preview", "portal", "session"}

\* An answer is kept for the tab that asked, and is of the request.
LEMMA AnsweredFacts ==
    ASSUME PageOK, NEW r \in requests, NEW answer \in Answers, NEW s \in Subs \cup {None},
           answer = "preview" => r.action \in {"preview", "switch"}
    PROVE  \A q \in Answered(r, answer, s) :
             /\ q \in Requested /\ RequestOK(q)
             /\ q \in requests \/ (q.tab = r.tab /\ q.action = r.action)
<1> DEFINE a == [r EXCEPT !.at = "answered", !.answer = answer, !.session = s,
                          !.shown = None, !.current = None]
<1>1. r \in Requested /\ RequestOK(r) BY DEF PageOK
<1>2. a \in Requested BY <1>1 DEF Requested, Answers
<1>3. /\ a.tab = r.tab /\ a.action = r.action /\ a.cadence = r.cadence
      /\ a.at = "answered" /\ a.answer = answer
  BY <1>1 DEF Requested
<1>4. r.tab # None => RequestOK(a) BY <1>1, <1>3 DEF RequestOK, Requested
<1> HIDE DEF a
<1>5. \A q \in Answered(r, answer, s) : q \in requests \/ (q = a /\ r.tab # None)
  BY DEF Answered, a
<1> QED BY <1>2, <1>3, <1>4, <1>5 DEF PageOK

LEMMA AnswerKeeps ==
    ASSUME PageOK, UNCHANGED tab, NEW r \in requests, NEW answer \in Answers,
           NEW s \in Subs \cup {None}, requests' = Answered(r, answer, s),
           answer = "preview" => r.action \in {"preview", "switch"}
    PROVE  PageOK'
BY AnsweredFacts, RequestsStep

LEMMA ToldKeeps ==
    ASSUME PageOK, UNCHANGED tab, NEW r \in requests, NEW answer \in Answers \ {"preview"},
           Told(r, answer)
    PROVE  PageOK'
BY AnswerKeeps DEF Told, Answer, Answers

\* A page that has gone is waited at by nobody.
LEMMA ForgottenFacts ==
    ASSUME PageOK, NEW t \in Tabs
    PROVE  \A r \in Forgotten(t) :
             /\ r \in Requested /\ RequestOK(r)
             /\ r.tab # t /\ (r \in requests \/ r.tab = None)
<1> SUFFICES ASSUME NEW q \in requests, ~(q.tab = t /\ q.at = "answered"),
                    NEW r, r = IF q.tab = t THEN [q EXCEPT !.tab = None] ELSE q
             PROVE  /\ r \in Requested /\ RequestOK(r)
                    /\ r.tab # t /\ (r \in requests \/ r.tab = None)
  BY DEF Forgotten
<1>1. q \in Requested /\ RequestOK(q) BY DEF PageOK
<1>2. CASE q.tab # t BY <1>1, <1>2
<1>3. CASE q.tab = t
  <2>1. r = [q EXCEPT !.tab = None] BY <1>3
  <2>2. /\ r.tab = None /\ r.action = q.action /\ r.cadence = q.cadence /\ r.at = q.at
        /\ r.shown = q.shown /\ r.current = q.current /\ r.sub = q.sub /\ r.answer = q.answer
    BY <1>1, <2>1 DEF Requested
  <2>3. r \in Requested BY <1>1, <2>1 DEF Requested
  <2>4. RequestOK(r) BY <1>1, <1>3, <2>2 DEF RequestOK
  <2> QED BY <2>2, <2>3, <2>4, NoneAssumption
<1> QED BY <1>2, <1>3

\* A page that is drawn on arrival.
LEMMA ArrivedKeeps ==
    ASSUME PlanInv, NEW t \in Tabs, NEW returned \in {None, "done", "cancelled"},
           Arrived(t, returned), tab[t].at # "plan", UNCHANGED requests
    PROVE  PageOK'
<1>1. PICK view \in Views :
        tab' = [tab EXCEPT ![t] = [Away EXCEPT !.at = "plan", !.view = view, !.returned = returned,
                                               !.session = IF returned = "done" THEN tab[t].session
                                                           ELSE None]]
  BY DEF Arrived
<1>2. view \in View /\ (view.plan = "pro" => view.state \notin {"none", "lapsed"})
  BY ViewsFacts DEF PlanInv
<1>3. tab[t].session \in Subs \cup {None} BY DEF PlanInv, PageOK, TabState
<1> DEFINE x == [Away EXCEPT !.at = "plan", !.view = view, !.returned = returned,
                             !.session = IF returned = "done" THEN tab[t].session ELSE None]
<1>4. x \in TabState BY <1>2, <1>3, AwayFacts DEF TabState
<1>5. TabOK(x) BY <1>2, AwayFacts DEF TabOK, Away
<1>6. \A r \in requests : r.tab # t BY DEF PlanInv, PageOK, Belongs
<1> HIDE DEF x
<1>7. tab' = [tab EXCEPT ![t] = x] BY <1>1 DEF x
<1>8. \A r \in requests' : r \in Requested /\ RequestOK(r) BY DEF PlanInv, PageOK
<1>9. \A r \in requests' :
        \/ r.tab # t /\ (r \in requests \/ r.tab = None)
        \/ r.tab = t /\ x.at = "plan" /\ (r.action = "checkout" => x.returned # "done")
  BY <1>6
<1>10. PageOK BY DEF PlanInv
<1> QED BY <1>4, <1>5, <1>7, <1>8, <1>9, <1>10, PageStep

\* A page that is left, and what it asked for with it.
LEMMA LeftKeeps ==
    ASSUME PageOK, NEW t \in Tabs, requests' = Forgotten(t),
           NEW x \in TabState, TabOK(x), tab' = [tab EXCEPT ![t] = x]
    PROVE  PageOK'
<1>1. \A r \in requests' : r \in Requested /\ RequestOK(r) BY ForgottenFacts
<1>2. \A r \in requests' :
        \/ r.tab # t /\ (r \in requests \/ r.tab = None)
        \/ r.tab = t /\ x.at = "plan" /\ (r.action = "checkout" => x.returned # "done")
  BY ForgottenFacts
<1> QED BY <1>1, <1>2, PageStep

\* A page that stays open, whatever else of it changes.
LEMMA OpenKeeps ==
    ASSUME PageOK, NEW t \in Tabs, NEW x \in TabState, TabOK(x), tab' = [tab EXCEPT ![t] = x],
           x.at = tab[t].at, x.returned = tab[t].returned, requests' \subseteq requests
    PROVE  PageOK'
<1>1. \A r \in requests' : r \in Requested /\ RequestOK(r) BY DEF PageOK
<1>2. \A r \in requests' :
        \/ r.tab # t /\ (r \in requests \/ r.tab = None)
        \/ r.tab = t /\ x.at = "plan" /\ (r.action = "checkout" => x.returned # "done")
  BY DEF PageOK, Belongs
<1> QED BY <1>1, <1>2, PageStep

\* A button is pressed: its request is the page's own.
LEMMA PressKeeps ==
    ASSUME PageOK, NEW t \in Tabs, NEW action \in Priced \cup Guarded \cup {"card"},
           NEW cadence \in Cadences \cup {None}, Press(t, action, cadence),
           NEW b \in {"checkout", "cancel", "resume", "switch", "card"},
           tab' = [tab EXCEPT ![t].busy = b],
           action \in Priced => cadence \in Cadences,
           action = "switch" => /\ tab[t].pending # None /\ tab[t].pending.kind = "switch"
                                /\ tab[t].pending.cadence = cadence,
           action = "checkout" => tab[t].returned # "done"
    PROVE  PageOK'
<1> DEFINE x == [tab[t] EXCEPT !.busy = b]
           q == Request(t, action, cadence)
<1>1. tab[t] \in TabState /\ TabOK(tab[t]) BY DEF PageOK
<1>2. x \in TabState BY <1>1 DEF TabState
<1>3. x.pending = tab[t].pending /\ x.view = tab[t].view /\ x.at = tab[t].at /\ x.returned = tab[t].returned
  BY <1>1 DEF TabState
<1>4. TabOK(x) BY <1>1, <1>3 DEF TabOK
<1>5. q \in Requested BY <1>1 DEF Request, Requested, TabState, View
<1>6. /\ q.tab = t /\ q.action = action /\ q.cadence = cadence /\ q.at = "sent"
      /\ q.shown = tab[t].pending /\ q.answer = None
  BY DEF Request
<1>7. RequestOK(q) BY <1>6 DEF RequestOK
<1>8. tab' = [tab EXCEPT ![t] = x] BY <1>1
<1>9. requests' = requests \cup {q} /\ x.at = "plan" BY <1>3 DEF Press
<1> HIDE DEF x, q
<1>10. \A r \in requests' : r \in Requested /\ RequestOK(r) BY <1>5, <1>7, <1>9 DEF PageOK
<1>11. \A r \in requests' :
        \/ r.tab # t /\ (r \in requests \/ r.tab = None)
        \/ r.tab = t /\ x.at = "plan" /\ (r.action = "checkout" => x.returned # "done")
  BY <1>3, <1>6, <1>9 DEF PageOK, Belongs
<1> QED BY <1>2, <1>4, <1>8, <1>10, <1>11, PageStep

LEMMA ButtonsKeep ==
    ASSUME PageOK, NEW t \in Tabs, Buttons(t)
    PROVE  PageOK'
<1>1. tab[t] \in TabState /\ TabOK(tab[t]) BY DEF PageOK
<1>2. ASSUME NEW cadence \in Cadences, ContinueToStripe(t, cadence) PROVE PageOK'
  <2>1. tab[t].returned # "done" BY <1>1, <1>2 DEF ContinueToStripe, CanPurchase, Settling, TabOK
  <2>2. /\ Press(t, "checkout", cadence)
        /\ tab' = [tab EXCEPT ![t].busy = "checkout"]
    BY <1>2 DEF ContinueToStripe
  <2>3. "checkout" \in Priced /\ "checkout" \in Priced \cup Guarded \cup {"card"} BY DEF Priced
  <2> QED BY <2>1, <2>2, <2>3, PressKeeps
<1>3. CASE KeepPro(t)
  <2>1. /\ Press(t, "resume", None)
        /\ tab' = [tab EXCEPT ![t].busy = "resume"]
    BY <1>3 DEF KeepPro
  <2>2. "resume" \notin Priced /\ "resume" \in Priced \cup Guarded \cup {"card"}
    BY DEF Priced, Guarded
  <2> QED BY <2>1, <2>2, PressKeeps
<1>4. CASE UpdatePaymentMethod(t)
  <2>1. /\ Press(t, "card", None)
        /\ tab' = [tab EXCEPT ![t].busy = "card"]
    BY <1>4 DEF UpdatePaymentMethod
  <2>2. "card" \notin Priced /\ "card" \in Priced \cup Guarded \cup {"card"}
    BY DEF Priced, Guarded
  <2> QED BY <2>1, <2>2, PressKeeps
<1>5. CASE PreviewSwitch(t)
  <2>1. PICK other \in Cadences :
          /\ Press(t, "preview", other)
          /\ tab' = [tab EXCEPT ![t].busy = "switch"]
    BY <1>5 DEF PreviewSwitch, Cadences
  <2>2. "preview" \in Priced \cup Guarded \cup {"card"} BY DEF Priced, Guarded
  <2> QED BY <2>1, <2>2, PressKeeps
<1>6. CASE AskToCancel(t)
  <2> DEFINE p == [kind |-> "cancel", cadence |-> None, sub |-> None]
             x == [tab[t] EXCEPT !.pending = p]
  <2>1. p \in Dialog BY DEF Dialog
  <2>2. x \in TabState /\ x.pending = p /\ x.view = tab[t].view /\ x.at = tab[t].at
        /\ x.returned = tab[t].returned
    BY <1>1, <2>1 DEF TabState
  <2>3. TabOK(x) BY <1>1, <2>2 DEF TabOK
  <2>4. tab' = [tab EXCEPT ![t] = x] /\ UNCHANGED requests BY <1>6 DEF AskToCancel
  <2> HIDE DEF x
  <2> QED BY <2>2, <2>3, <2>4, OpenKeeps
<1>7. CASE KeepAsItIs(t)
  <2> DEFINE x == [tab[t] EXCEPT !.pending = None]
  <2>2. x \in TabState /\ x.pending = None /\ x.view = tab[t].view /\ x.at = tab[t].at
        /\ x.returned = tab[t].returned
    BY <1>1 DEF TabState
  <2>3. TabOK(x) BY <1>1, <2>2 DEF TabOK
  <2>4. tab' = [tab EXCEPT ![t] = x] /\ UNCHANGED requests BY <1>7 DEF KeepAsItIs
  <2> HIDE DEF x
  <2> QED BY <2>2, <2>3, <2>4, OpenKeeps
<1>8. CASE ConfirmCancel(t)
  <2>1. /\ Press(t, "cancel", None)
        /\ tab' = [tab EXCEPT ![t].busy = "cancel"]
    BY <1>8 DEF ConfirmCancel
  <2>2. "cancel" \notin Priced /\ "cancel" \in Priced \cup Guarded \cup {"card"}
    BY DEF Priced, Guarded
  <2> QED BY <2>1, <2>2, PressKeeps
<1>9. CASE ConfirmSwitch(t)
  <2>1. /\ tab[t].pending # None /\ tab[t].pending.kind = "switch"
        /\ Press(t, "switch", tab[t].pending.cadence)
        /\ tab' = [tab EXCEPT ![t].busy = "switch"]
    BY <1>9 DEF ConfirmSwitch
  <2>2. tab[t].pending.cadence \in Cadences BY <1>1, <2>1 DEF TabOK
  <2>3. "switch" \in Priced \cup Guarded \cup {"card"} BY DEF Priced, Guarded
  <2> QED BY <2>1, <2>2, <2>3, PressKeeps
<1> QED BY <1>2, <1>3, <1>4, <1>5, <1>6, <1>7, <1>8, <1>9 DEF Buttons

-----------------------------------------------------------------------------
(* The routes                                                              *)

LEMMA PrepareKeeps ==
    ASSUME PlanInv, NEW r \in requests, Prepare(r)
    PROVE  PageOK'
<1>0. PageOK /\ UNCHANGED tab BY DEF PlanInv, Prepare
<1>1. CASE requests' = Answer(r, "refused") BY <1>0, <1>1, AnswerKeeps DEF Answer, Answers
<1>2. CASE requests' # Answer(r, "refused")
  <2> DEFINE p == [r EXCEPT !.at = "prepared", !.current = row.sub]
  <2>1. /\ r.at = "sent"
        /\ requests' = (requests \ {r}) \cup {p}
        /\ r.action \in Guarded => row.sub # None /\ r.sub = row.sub
    BY <1>2 DEF Prepare, SameSubscription, Guarded
  <2>2. r \in Requested /\ RequestOK(r) BY <1>0 DEF PageOK
  <2>3. p \in Requested BY <2>2 DEF Requested, PlanInv, StripeOK
  <2>4. /\ p.tab = r.tab /\ p.action = r.action /\ p.cadence = r.cadence /\ p.at = "prepared"
        /\ p.shown = r.shown /\ p.current = row.sub /\ p.sub = r.sub
    BY <2>2 DEF Requested
  <2>5. RequestOK(p) BY <2>1, <2>2, <2>4 DEF RequestOK, PlanInv, StripeOK
  <2> HIDE DEF p
  <2>6. \A q \in requests' : q \in Requested /\ RequestOK(q) BY <2>1, <2>3, <2>5, <1>0 DEF PageOK
  <2>7. \A q \in requests' : q \in requests \/ \E o \in requests : q.tab = o.tab /\ q.action = o.action
    BY <2>1, <2>4
  <2> QED BY <1>0, <2>6, <2>7, RequestsStep
<1> QED BY <1>1, <1>2

\* Stripe keeps the shape of what it has.
LEMMA StripeStep ==
    ASSUME StripeOK, UNCHANGED row, NEW s \in Subs, NEW x \in Subscription,
           stripe' = [stripe EXCEPT ![s] = x],
           x.status # "none", x.items # {}
    PROVE  StripeOK'
<1>1. stripe' \in [Subs -> Subscription] /\ stripe'[s] = x
      /\ \A u \in Subs : u # s => stripe'[u] = stripe[u]
  BY DEF StripeOK
<1>2. \A u \in Subs : stripe'[u].status # "none" => stripe'[u].items # {} BY <1>1 DEF StripeOK
<1>3. row.sub # None => stripe'[row.sub].status # "none" BY <1>1 DEF StripeOK
<1> QED BY <1>1, <1>2, <1>3 DEF StripeOK, Subscription

LEMMA ActKeeps ==
    ASSUME PlanInv, NEW r \in requests, Act(r)
    PROVE  PlanInv'
<1>0. PageOK /\ StripeOK /\ r \in Requested /\ RequestOK(r) BY DEF PlanInv, PageOK
<1>1. CASE OpenSession(r)
  <2>1. PICK s \in Subs :
          /\ stripe[s].status = "none"
          /\ stripe' = [stripe EXCEPT ![s].status = "session", ![s].items = {r.cadence}]
          /\ requests' = Answered(r, "session", s)
    BY <1>1 DEF OpenSession
  <2>2. UNCHANGED <<row, tab>> /\ r.action = "checkout" BY <1>1 DEF OpenSession
  <2>3. r.cadence \in Cadences BY <1>0, <2>2 DEF RequestOK, Priced
  <2> DEFINE x == [stripe[s] EXCEPT !.status = "session", !.items = {r.cadence}]
  <2>4. x \in Subscription /\ x.status = "session" /\ x.items = {r.cadence}
    BY <1>0, <2>3 DEF StripeOK, Subscription
  <2>5. stripe' = [stripe EXCEPT ![s] = x] BY <2>1, <1>0 DEF StripeOK, Subscription
  <2> HIDE DEF x
  <2>6. StripeOK' BY <1>0, <2>2, <2>4, <2>5, StripeStep
  <2>7. PageOK' BY <1>0, <2>1, <2>2, AnswerKeeps DEF Answers
  <2> QED BY <2>6, <2>7 DEF PlanInv
<1>2. CASE OpenPortal(r)
  <2>1. UNCHANGED <<stripe, row, tab>> /\ requests' = Answered(r, "portal", None)
    BY <1>2 DEF OpenPortal, Answer
  <2>2. PageOK' BY <1>0, <2>1, AnswerKeeps DEF Answers
  <2> QED BY <1>0, <2>1, <2>2, SameStripe DEF PlanInv
<1>3. CASE SetCancelling(r)
  <2>1. /\ r.at = "prepared" /\ r.action \in {"cancel", "resume"}
        /\ Alive(r.current)
        /\ stripe' = [stripe EXCEPT ![r.current].cancelling = (r.action = "cancel")]
        /\ Told(r, "ok") /\ UNCHANGED <<row, tab>>
    BY <1>3 DEF SetCancelling
  <2>2. r.current \in Subs BY <1>0, <2>1 DEF RequestOK, Guarded
  <2> DEFINE x == [stripe[r.current] EXCEPT !.cancelling = (r.action = "cancel")]
  <2>3. x \in Subscription /\ x.status = stripe[r.current].status /\ x.items = stripe[r.current].items
    BY <1>0, <2>2 DEF StripeOK, Subscription
  <2>4. stripe' = [stripe EXCEPT ![r.current] = x] BY <2>1
  <2>5. x.status # "none" BY <2>1, <2>3 DEF Alive
  <2>6. x.items # {} BY <1>0, <2>2, <2>3, <2>5 DEF StripeOK
  <2> HIDE DEF x
  <2>7. StripeOK' BY <1>0, <2>1, <2>2, <2>3, <2>4, <2>5, <2>6, StripeStep
  <2>8. PageOK' BY <1>0, <2>1, ToldKeeps DEF Answers
  <2> QED BY <2>7, <2>8 DEF PlanInv
<1>4. CASE NothingToSwitch(r)
  <2>1. UNCHANGED <<stripe, row, tab>> /\ requests' = Answered(r, "ok", None)
    BY <1>4 DEF NothingToSwitch, Answer
  <2>2. PageOK' BY <1>0, <2>1, AnswerKeeps DEF Answers
  <2> QED BY <1>0, <2>1, <2>2, SameStripe DEF PlanInv
<1>5. CASE ShowPreview(r)
  <2>1. /\ UNCHANGED <<stripe, row, tab>> /\ requests' = Answered(r, "preview", None)
        /\ r.action \in {"preview", "switch"}
    BY <1>5 DEF ShowPreview, Answer
  <2>2. PageOK' BY <1>0, <2>1, AnswerKeeps DEF Answers
  <2> QED BY <1>0, <2>1, <2>2, SameStripe DEF PlanInv
<1>6. CASE Switch(r)
  <2>1. /\ r.at = "prepared" /\ r.action \in {"preview", "switch"}
        /\ Alive(r.current)
        /\ stripe' = [stripe EXCEPT ![r.current].items = {r.cadence}]
        /\ Told(r, "ok") /\ UNCHANGED <<row, tab>>
    BY <1>6 DEF Switch, Replaced
  <2>2. r.current \in Subs /\ r.cadence \in Cadences BY <1>0, <2>1 DEF RequestOK, Guarded, Priced
  <2> DEFINE x == [stripe[r.current] EXCEPT !.items = {r.cadence}]
  <2>3. x \in Subscription /\ x.status = stripe[r.current].status /\ x.items = {r.cadence}
    BY <1>0, <2>2 DEF StripeOK, Subscription
  <2>4. stripe' = [stripe EXCEPT ![r.current] = x] BY <2>1
  <2>5. x.status # "none" BY <2>1, <2>3 DEF Alive
  <2> HIDE DEF x
  <2>6. StripeOK' BY <1>0, <2>1, <2>2, <2>3, <2>4, <2>5, StripeStep
  <2>7. PageOK' BY <1>0, <2>1, ToldKeeps DEF Answers
  <2> QED BY <2>6, <2>7 DEF PlanInv
<1> QED BY <1>1, <1>2, <1>3, <1>4, <1>5, <1>6 DEF Act

LEMMA ReceiveKeeps ==
    ASSUME PlanInv, NEW r \in requests, Receive(r)
    PROVE  PageOK'
<1>0. PageOK /\ r \in Requested /\ RequestOK(r) BY DEF PlanInv, PageOK
<1>1. PICK t : t = r.tab OBVIOUS
<1>2. r.at = "answered" /\ t \in Tabs BY <1>0, <1>1 DEF Receive, RequestOK
<1>3. tab[t] \in TabState /\ TabOK(tab[t]) BY <1>0, <1>2 DEF PageOK
<1>4. CASE r.answer = "portal" \/ r.answer = "session"
  <2>1. requests' = Forgotten(t) BY <1>1, <1>4 DEF Receive
  <2>2. CASE r.answer = "portal" /\ tab' = [tab EXCEPT ![t] = Away]
    BY <2>1, <2>2, <1>0, <1>2, AwayFacts, LeftKeeps
  <2>3. CASE r.answer = "session"
    <3> DEFINE x == [Away EXCEPT !.at = "stripe", !.session = r.session]
    <3>1. tab' = [tab EXCEPT ![t] = x] BY <1>1, <2>3 DEF Receive
    <3>2. r.session \in Subs \cup {None} BY <1>0 DEF Requested
    <3>3. x \in TabState BY <3>2, AwayFacts DEF TabState
    <3>4. TabOK(x) BY AwayFacts DEF TabOK, Away
    <3> HIDE DEF x
    <3> QED BY <2>1, <3>1, <3>3, <3>4, <1>0, <1>2, LeftKeeps
  <2> QED BY <1>1, <1>4, <2>2, <2>3 DEF Receive
<1>5. CASE r.answer \notin {"portal", "session"}
  <2>1. requests' \subseteq requests BY <1>5 DEF Receive
  <2>2. CASE r.answer = "preview"
    <3> DEFINE p == [kind |-> "switch", cadence |-> r.cadence, sub |-> r.sub]
               x == [tab[t] EXCEPT !.busy = None, !.pending = p]
    <3>1. r.cadence \in Cadences BY <2>2, <1>0, <1>2 DEF RequestOK, Priced
    <3>2. p \in Dialog /\ p.cadence \in Cadences BY <3>1, <1>0 DEF Dialog, Requested
    <3>3. x \in TabState /\ x.pending = p /\ x.view = tab[t].view /\ x.at = tab[t].at
          /\ x.returned = tab[t].returned
      BY <1>3, <3>2 DEF TabState
    <3>4. TabOK(x) BY <1>3, <3>2, <3>3 DEF TabOK
    <3>5. tab' = [tab EXCEPT ![t].busy = None, ![t].pending = p] BY <1>1, <2>2 DEF Receive
    <3>6. tab' = [tab EXCEPT ![t] = x] BY <3>5, <1>0, <1>2, <1>3 DEF PageOK, TabState
    <3> HIDE DEF x, p
    <3> QED BY <1>0, <1>2, <2>1, <3>3, <3>4, <3>6, OpenKeeps
  <2>3. CASE r.answer = "ok" /\ r.action # "preview"
    <3>1. PICK view \in Views :
            tab' = [tab EXCEPT ![t].busy = None, ![t].pending = None, ![t].view = view]
      BY <1>1, <2>3 DEF Receive
    <3>2. view \in View /\ (view.plan = "pro" => view.state \notin {"none", "lapsed"})
      BY ViewsFacts DEF PlanInv
    <3> DEFINE x == [tab[t] EXCEPT !.busy = None, !.pending = None, !.view = view]
    <3>3. x \in TabState /\ x.pending = None /\ x.view = view /\ x.at = tab[t].at
          /\ x.returned = tab[t].returned
      BY <1>3, <3>2 DEF TabState
    <3>4. TabOK(x) BY <3>2, <3>3 DEF TabOK
    <3>5. tab' = [tab EXCEPT ![t] = x] BY <3>1, <1>0, <1>2, <1>3 DEF PageOK, TabState
    <3> HIDE DEF x
    <3> QED BY <1>0, <1>2, <2>1, <3>3, <3>4, <3>5, OpenKeeps
  <2>4. CASE r.answer # "preview" /\ ~(r.answer = "ok" /\ r.action # "preview")
    <3> DEFINE x == [tab[t] EXCEPT !.busy = None]
    <3>1. x \in TabState /\ x.pending = tab[t].pending /\ x.view = tab[t].view
          /\ x.at = tab[t].at /\ x.returned = tab[t].returned
      BY <1>3 DEF TabState
    <3>2. TabOK(x) BY <1>3, <3>1 DEF TabOK
    <3>3. tab' = [tab EXCEPT ![t] = x] BY <1>1, <1>5, <2>4 DEF Receive
    <3> HIDE DEF x
    <3> QED BY <1>0, <1>2, <2>1, <3>1, <3>2, <3>3, OpenKeeps
  <2> QED BY <2>2, <2>3, <2>4
<1> QED BY <1>4, <1>5

-----------------------------------------------------------------------------
(* Every step                                                              *)

LEMMA PlanInit == Init => PlanInv
<1> SUFFICES ASSUME Init PROVE PlanInv
  OBVIOUS
<1>1. StripeOK
  <2>1. [status |-> "none", cancelling |-> FALSE, items |-> {}, applied |-> FALSE] \in Subscription
    BY DEF Subscription
  <2> QED BY <2>1 DEF Init, StripeOK, NoRow
<1>2. PageOK BY AwayFacts DEF Init, PageOK
<1> QED BY <1>1, <1>2 DEF PlanInv

LEMMA PlanStep == PlanInv /\ [Next]_vars => PlanInv'
<1> SUFFICES ASSUME PlanInv, [Next]_vars PROVE PlanInv'
  OBVIOUS
<1>0. StripeOK /\ PageOK BY DEF PlanInv
<1>1. CASE UNCHANGED vars
  <2>1. UNCHANGED <<stripe, row, tab, requests>> BY <1>1 DEF vars
  <2>2. PageOK' BY <1>0, <2>1, RequestsStep DEF PageOK
  <2> QED BY <1>0, <2>1, <2>2, SameStripe DEF PlanInv
<1>2. ASSUME NEW t \in Tabs, Visit(t) PROVE PlanInv'
  <2>1. /\ tab[t].at # "plan" /\ Arrived(t, None) /\ UNCHANGED <<stripe, row, requests>>
    BY <1>2 DEF Visit
  <2>2. PageOK' BY <2>1, ArrivedKeeps
  <2> QED BY <1>0, <2>1, <2>2, SameStripe DEF PlanInv
<1>3. ASSUME NEW t \in Tabs, Leave(t) PROVE PlanInv'
  <2>1. /\ tab' = [tab EXCEPT ![t] = Away] /\ requests' = Forgotten(t) /\ UNCHANGED <<stripe, row>>
    BY <1>3 DEF Leave
  <2>2. PageOK' BY <1>0, <2>1, AwayFacts, LeftKeeps
  <2> QED BY <1>0, <2>1, <2>2, SameStripe DEF PlanInv
<1>4. ASSUME NEW t \in Tabs, PayAtStripe(t) PROVE PlanInv'
  <2>1. PICK s : /\ s = tab[t].session /\ stripe[s].status = "session"
                 /\ stripe' = [stripe EXCEPT ![s].status = "active"]
    BY <1>4 DEF PayAtStripe
  <2>2. /\ tab[t].at = "stripe" /\ tab' = [tab EXCEPT ![t].at = "returning"]
        /\ UNCHANGED <<row, requests>>
    BY <1>4 DEF PayAtStripe
  <2>3. StripeOK'
    <3>1. CASE s \in Subs
      <4> DEFINE x == [stripe[s] EXCEPT !.status = "active"]
      <4>1. x \in Subscription /\ x.status = "active" /\ x.items = stripe[s].items
        BY <1>0, <3>1 DEF StripeOK, Subscription
      <4>2. x.items # {} BY <4>1, <1>0, <2>1, <3>1 DEF StripeOK
      <4>3. stripe' = [stripe EXCEPT ![s] = x] BY <2>1
      <4> HIDE DEF x
      <4> QED BY <1>0, <2>2, <3>1, <4>1, <4>2, <4>3, StripeStep
    <3>2. CASE s \notin Subs
      <4>1. stripe' = stripe BY <3>2, <2>1, <1>0 DEF StripeOK
      <4> QED BY <4>1, <1>0, <2>2, SameStripe
    <3> QED BY <3>1, <3>2
  <2>4. PageOK'
    <3> DEFINE x == [tab[t] EXCEPT !.at = "returning"]
    <3>1. tab[t] \in TabState /\ TabOK(tab[t]) BY <1>0 DEF PageOK
    <3>2. x \in TabState /\ x.pending = tab[t].pending /\ x.view = tab[t].view
      BY <3>1 DEF TabState
    <3>3. TabOK(x) BY <3>1, <3>2 DEF TabOK
    <3>4. tab' = [tab EXCEPT ![t] = x] BY <2>2
    <3>5. \A r \in requests : r.tab # t BY <1>0, <2>2 DEF PageOK, Belongs
    <3> HIDE DEF x
    <3>6. \A r \in requests' : r \in Requested /\ RequestOK(r) BY <1>0, <2>2 DEF PageOK
    <3>7. \A r \in requests' :
            \/ r.tab # t /\ (r \in requests \/ r.tab = None)
            \/ r.tab = t /\ x.at = "plan" /\ (r.action = "checkout" => x.returned # "done")
      BY <2>2, <3>5
    <3> QED BY <1>0, <3>2, <3>3, <3>4, <3>6, <3>7, PageStep
  <2> QED BY <2>3, <2>4 DEF PlanInv
<1>5. ASSUME NEW t \in Tabs, Return(t) PROVE PlanInv'
  <2>1. PICK returned \in {None, "done", "cancelled"} : Arrived(t, returned)
    BY <1>5 DEF Return
  <2>2. tab[t].at # "plan" /\ UNCHANGED <<stripe, row, requests>> BY <1>5 DEF Return
  <2>3. PageOK' BY <2>1, <2>2, ArrivedKeeps
  <2> QED BY <1>0, <2>2, <2>3, SameStripe DEF PlanInv
<1>6. ASSUME NEW t \in Tabs, Buttons(t) PROVE PlanInv'
  <2>1. UNCHANGED <<stripe, row>>
    BY <1>6 DEF Buttons, ContinueToStripe, KeepPro, UpdatePaymentMethod, PreviewSwitch, AskToCancel,
                KeepAsItIs, ConfirmCancel, ConfirmSwitch, Press
  <2> QED BY <1>0, <1>6, <2>1, ButtonsKeep, SameStripe DEF PlanInv
<1>7. ASSUME NEW r \in requests, Prepare(r) PROVE PlanInv'
  BY <1>0, <1>7, PrepareKeeps, SameStripe DEF PlanInv, Prepare
<1>8. ASSUME NEW r \in requests, Fail(r) PROVE PlanInv'
  <2>1. requests' = Answered(r, "refused", None) /\ UNCHANGED <<stripe, row, tab>>
    BY <1>8 DEF Fail, Answer
  <2>2. PageOK' BY <1>0, <2>1, AnswerKeeps DEF Answers
  <2> QED BY <1>0, <2>1, <2>2, SameStripe DEF PlanInv
<1>9. ASSUME NEW r \in requests, Act(r) PROVE PlanInv' BY <1>9, ActKeeps
<1>10. ASSUME NEW r \in requests, Receive(r) PROVE PlanInv'
  BY <1>0, <1>10, ReceiveKeeps, SameStripe DEF PlanInv, Receive
<1>11. ASSUME NEW s \in Subs, NEW status \in {"active", "past_due", "canceled"}, Turn(s, status)
       PROVE  PlanInv'
  <2>1. /\ Alive(s) /\ stripe' = [stripe EXCEPT ![s].status = status]
        /\ UNCHANGED <<row, tab, requests>>
    BY <1>11 DEF Turn
  <2> DEFINE x == [stripe[s] EXCEPT !.status = status]
  <2>2. x \in Subscription /\ x.status = status /\ x.items = stripe[s].items
    BY <1>0 DEF StripeOK, Subscription
  <2>3. x.items # {} BY <1>0, <2>1, <2>2 DEF StripeOK, Alive
  <2>4. stripe' = [stripe EXCEPT ![s] = x] BY <2>1
  <2> HIDE DEF x
  <2>5. StripeOK' BY <1>0, <2>1, <2>2, <2>3, <2>4, StripeStep
  <2>6. PageOK' BY <1>0, <2>1, RequestsStep DEF PageOK
  <2> QED BY <2>5, <2>6 DEF PlanInv
<1>12. ASSUME NEW s \in Subs, Webhook(s) PROVE PlanInv'
  <2>1. /\ stripe[s].status \notin {"none", "session"}
        /\ stripe' = [stripe EXCEPT ![s].applied = TRUE]
        /\ row' = [plan |-> planFor(stripe[s].status), customer |-> s, sub |-> s,
                   status |-> stripe[s].status, cancelling |-> stripe[s].cancelling]
        /\ UNCHANGED <<tab, requests>>
    BY <1>12 DEF Webhook
  <2>2. /\ stripe' \in [Subs -> Subscription]
        /\ \A u \in Subs : stripe'[u].status = stripe[u].status /\ stripe'[u].items = stripe[u].items
    BY <1>0, <2>1 DEF StripeOK, Subscription
  <2>3. row'.plan \in {"free", "pro"} /\ row'.sub = s BY <2>1 DEF planFor
  <2>4. StripeOK' BY <1>0, <2>1, <2>2, <2>3, NoneAssumption DEF StripeOK, Subscription
  <2>5. PageOK' BY <1>0, <2>1, RequestsStep DEF PageOK
  <2> QED BY <2>4, <2>5 DEF PlanInv
<1> QED
  BY <1>1, <1>2, <1>3, <1>4, <1>5, <1>6, <1>7, <1>8, <1>9, <1>10, <1>11, <1>12 DEF Next

-----------------------------------------------------------------------------
(* What the pages are believed for                                         *)

\* A plan that is in force changes its price by a switch alone.
LEMMA OnlyASwitch ==
    ASSUME PlanInv, Next, NEW s \in Subs, Alive(s), stripe'[s].items # stripe[s].items
    PROVE  \E r \in requests : Switch(r) /\ r.current = s
<1>0. stripe \in [Subs -> Subscription] BY DEF PlanInv, StripeOK
<1>1. stripe' # stripe OBVIOUS
<1>2. ASSUME NEW u, NEW x, stripe' = [stripe EXCEPT ![u] = x], u \in Subs => x.items = stripe[u].items
      PROVE  FALSE
  BY <1>0, <1>2
<1>3. ASSUME NEW t \in Tabs, PayAtStripe(t) PROVE FALSE
  <2>1. PICK u : stripe' = [stripe EXCEPT ![u].status = "active"] BY <1>3 DEF PayAtStripe
  <2>2. u \in Subs => [stripe[u] EXCEPT !.status = "active"].items = stripe[u].items
    BY <1>0 DEF Subscription
  <2> QED BY <2>1, <2>2, <1>2
<1>4. ASSUME NEW r \in requests, Act(r) PROVE Switch(r) /\ r.current = s
  <2>1. ~OpenPortal(r) /\ ~NothingToSwitch(r) /\ ~ShowPreview(r)
    BY <1>1 DEF OpenPortal, NothingToSwitch, ShowPreview
  <2>2. ~OpenSession(r)
    <3> SUFFICES ASSUME NEW u \in Subs, stripe[u].status = "none",
                        stripe' = [stripe EXCEPT ![u].status = "session", ![u].items = {r.cadence}]
                 PROVE  FALSE
      BY DEF OpenSession
    <3>1. u # s BY DEF Alive
    <3> QED BY <3>1, <1>0
  <2>3. ~SetCancelling(r)
    <3> SUFFICES ASSUME stripe' = [stripe EXCEPT ![r.current].cancelling = (r.action = "cancel")]
                 PROVE  FALSE
      BY DEF SetCancelling
    <3>1. r.current \in Subs =>
            [stripe[r.current] EXCEPT !.cancelling = (r.action = "cancel")].items
               = stripe[r.current].items
      BY <1>0 DEF Subscription
    <3> QED BY <3>1, <1>2
  <2>4. Switch(r) BY <1>4, <2>1, <2>2, <2>3 DEF Act
  <2>5. stripe' = [stripe EXCEPT ![r.current].items = {r.cadence}] BY <2>4 DEF Switch, Replaced
  <2>6. r.current = s BY <2>5, <1>0
  <2> QED BY <2>4, <2>6
<1>5. ASSUME NEW u \in Subs, NEW status, Turn(u, status) PROVE FALSE
  <2>1. stripe' = [stripe EXCEPT ![u].status = status] BY <1>5 DEF Turn
  <2>2. [stripe[u] EXCEPT !.status = status].items = stripe[u].items BY <1>0 DEF Subscription
  <2> QED BY <2>1, <2>2, <1>2
<1>6. ASSUME NEW u \in Subs, Webhook(u) PROVE FALSE
  <2>1. stripe' = [stripe EXCEPT ![u].applied = TRUE] BY <1>6 DEF Webhook
  <2>2. [stripe[u] EXCEPT !.applied = TRUE].items = stripe[u].items BY <1>0 DEF Subscription
  <2> QED BY <2>1, <2>2, <1>2
<1>7. ASSUME NEW t \in Tabs, Visit(t) \/ Leave(t) \/ Return(t) \/ Buttons(t) PROVE FALSE
  BY <1>1, <1>7 DEF Visit, Leave, Return, Buttons, ContinueToStripe, KeepPro, UpdatePaymentMethod,
                    PreviewSwitch, AskToCancel, KeepAsItIs, ConfirmCancel, ConfirmSwitch, Press
<1>8. ASSUME NEW r \in requests, Prepare(r) \/ Fail(r) \/ Receive(r) PROVE FALSE
  BY <1>1, <1>8 DEF Prepare, Fail, Receive
<1> QED BY <1>3, <1>4, <1>5, <1>6, <1>7, <1>8 DEF Next

\* A prepared request that a route acts on is about what its page showed.
LEMMA ActsOnItsOwn ==
    ASSUME PlanInv, NEW r \in requests, SetCancelling(r) \/ Switch(r)
    PROVE  r.current = r.sub /\ r.sub \in Subs
<1>1. r.at = "prepared" /\ r.action \in Guarded BY DEF SetCancelling, Switch, Guarded
<1>2. RequestOK(r) BY DEF PlanInv, PageOK
<1> QED BY <1>1, <1>2 DEF RequestOK

LEMMA MoneyStep ==
    ASSUME PlanInv, Next, NEW s \in Subs, Alive(s), stripe'[s].items # stripe[s].items
    PROVE  \E r \in requests :
              /\ r.action = "switch" /\ r.sub = s
              /\ r.shown # None /\ r.shown.kind = "switch"
              /\ stripe'[s].items = {r.shown.cadence}
<1>1. PICK r \in requests : Switch(r) /\ r.current = s BY OnlyASwitch
<1>2. r.sub = s BY <1>1, ActsOnItsOwn
<1>3. r.at = "prepared" /\ r.action = "switch" BY <1>1 DEF Switch, Confirmed
<1>4. r.shown # None /\ r.shown.kind = "switch" /\ r.shown.cadence = r.cadence
  BY <1>3 DEF PlanInv, PageOK, RequestOK
<1>5. stripe'[s].items = {r.cadence} BY <1>1 DEF Switch, Replaced, PlanInv, StripeOK, Subscription
<1> QED BY <1>2, <1>3, <1>4, <1>5

LEMMA ActsStep ==
    ASSUME PlanInv, NEW r \in requests, SetCancelling(r) \/ Switch(r),
           stripe'[r.sub] = stripe[r.sub]
    PROVE  UNCHANGED stripe
<1>1. r.current = r.sub /\ r.sub \in Subs BY ActsOnItsOwn
<1>2. stripe \in [Subs -> Subscription] BY DEF PlanInv, StripeOK
<1>3. PICK x : stripe' = [stripe EXCEPT ![r.sub] = x] BY <1>1 DEF SetCancelling, Switch
<1> QED BY <1>1, <1>2, <1>3

\* What a page shows that it did not show is one of the views there are.
LEMMA DrawnView ==
    ASSUME PlanInv, Next, NEW t \in Tabs, tab'[t].view # tab[t].view
    PROVE  tab'[t].view \in Views
<1>0. tab \in [Tabs -> TabState] BY DEF PlanInv, PageOK
<1>1. Unreadable \in Views /\ Away.view = Unreadable BY DEF Views, Away
<1>2. ASSUME NEW u, NEW x, tab' = [tab EXCEPT ![u] = x],
             u \in Tabs => x.view = tab[u].view \/ x.view \in Views
      PROVE  tab'[t].view \in Views
  BY <1>0, <1>2
<1>3. ASSUME NEW u \in Tabs, NEW returned, Arrived(u, returned) PROVE tab'[t].view \in Views
  <2>1. PICK view \in Views :
          tab' = [tab EXCEPT ![u] = [Away EXCEPT !.at = "plan", !.view = view, !.returned = returned,
                                                 !.session = IF returned = "done" THEN tab[u].session
                                                             ELSE None]]
    BY <1>3 DEF Arrived
  <2>2. [Away EXCEPT !.at = "plan", !.view = view, !.returned = returned,
                     !.session = IF returned = "done" THEN tab[u].session ELSE None].view = view
    BY DEF Away
  <2> QED BY <2>1, <2>2, <1>2
<1>4. ASSUME NEW u \in Tabs, NEW b, tab' = [tab EXCEPT ![u].busy = b] PROVE tab'[t].view \in Views
  <2>1. [tab[u] EXCEPT !.busy = b].view = tab[u].view BY <1>0 DEF TabState
  <2> QED BY <2>1, <1>2, <1>4
<1>5. ASSUME NEW u \in Tabs, Buttons(u) PROVE tab'[t].view \in Views
  <2>1. CASE \E b : tab' = [tab EXCEPT ![u].busy = b] BY <2>1, <1>4
  <2>2. CASE \E p : tab' = [tab EXCEPT ![u].pending = p]
    <3>1. PICK p : tab' = [tab EXCEPT ![u].pending = p] BY <2>2
    <3>2. [tab[u] EXCEPT !.pending = p].view = tab[u].view BY <1>0 DEF TabState
    <3> QED BY <3>1, <3>2, <1>2
  <2> QED BY <1>5, <2>1, <2>2
          DEF Buttons, ContinueToStripe, KeepPro, UpdatePaymentMethod, PreviewSwitch, AskToCancel,
              KeepAsItIs, ConfirmCancel, ConfirmSwitch
<1>6. ASSUME NEW u \in Tabs, Visit(u) \/ Return(u) PROVE tab'[t].view \in Views
  BY <1>3, <1>6 DEF Visit, Return
<1>7. ASSUME NEW u \in Tabs, Leave(u) PROVE tab'[t].view \in Views
  BY <1>1, <1>2, <1>7 DEF Leave
<1>8. ASSUME NEW u \in Tabs, PayAtStripe(u) PROVE tab'[t].view \in Views
  <2>1. tab' = [tab EXCEPT ![u].at = "returning"] BY <1>8 DEF PayAtStripe
  <2>2. [tab[u] EXCEPT !.at = "returning"].view = tab[u].view BY <1>0 DEF TabState
  <2> QED BY <2>1, <2>2, <1>2
<1>9. ASSUME NEW r \in requests, Receive(r) PROVE tab'[t].view \in Views
  <2>1. PICK u : u = r.tab OBVIOUS
  <2>2. CASE tab' = [tab EXCEPT ![u] = Away] BY <2>2, <1>1, <1>2
  <2>3. CASE tab' = [tab EXCEPT ![u] = [Away EXCEPT !.at = "stripe", !.session = r.session]]
    <3>1. [Away EXCEPT !.at = "stripe", !.session = r.session].view = Unreadable BY DEF Away
    <3> QED BY <3>1, <2>3, <1>1, <1>2
  <2>4. CASE \E p : tab' = [tab EXCEPT ![u].busy = None, ![u].pending = p]
    <3>1. PICK p : tab' = [tab EXCEPT ![u].busy = None, ![u].pending = p] BY <2>4
    <3>2. u \in Tabs => [tab[u] EXCEPT !.busy = None, !.pending = p].view = tab[u].view
      BY <1>0 DEF TabState
    <3>3. tab'[t].view = tab[t].view BY <3>1, <1>0 DEF TabState
    <3> QED BY <3>3
  <2>5. CASE \E view \in Views :
               tab' = [tab EXCEPT ![u].busy = None, ![u].pending = None, ![u].view = view]
    <3>1. PICK view \in Views :
            tab' = [tab EXCEPT ![u].busy = None, ![u].pending = None, ![u].view = view]
      BY <2>5
    <3>2. tab'[t].view = view \/ tab'[t].view = tab[t].view BY <3>1, <1>0 DEF TabState
    <3> QED BY <3>2
  <2>6. CASE \E b : tab' = [tab EXCEPT ![u].busy = b]
    <3>1. PICK b : tab' = [tab EXCEPT ![u].busy = b] BY <2>6
    <3>2. tab'[t].view = tab[t].view BY <3>1, <1>0 DEF TabState
    <3> QED BY <3>2
  <2> QED BY <1>9, <2>1, <2>2, <2>3, <2>4, <2>5, <2>6 DEF Receive
<1>10. ASSUME UNCHANGED tab PROVE FALSE BY <1>10
<1>11. ASSUME NEW r \in requests, Prepare(r) \/ Fail(r) \/ Act(r) PROVE FALSE
  BY <1>10, <1>11 DEF Prepare, Fail, Act, OpenSession, OpenPortal, SetCancelling, NothingToSwitch,
                      ShowPreview, Switch
<1>12. ASSUME NEW s \in Subs, Webhook(s) \/ \E status : Turn(s, status) PROVE FALSE
  BY <1>10, <1>12 DEF Webhook, Turn
<1> QED BY <1>5, <1>6, <1>7, <1>8, <1>9, <1>11, <1>12 DEF Next

LEMMA ViewsHonest ==
    ASSUME StripeOK, NEW view \in Views, view.plan = "pro", ~view.stale
    PROVE  view.state = "cancelling" <=>
             stripe[view.sub].status = "active" /\ stripe[view.sub].cancelling
<1>1. view # Unreadable BY DEF Unreadable
<1>2. row.plan = "pro" /\ row.sub # None
  <2>1. view = LiveView \/ \E stale : view = LocalView(stale) BY <1>1 DEF Views
  <2>2. row.plan = "pro" BY <2>1 DEF LiveView, LocalView
  <2> QED BY <2>2 DEF StripeOK
<1>3. view # LocalView(TRUE) BY DEF LocalView
<1>4. view = LiveView BY <1>1, <1>2, <1>3 DEF Views
<1>5. row.sub \in Subs /\ stripe[row.sub].cancelling \in BOOLEAN
  BY <1>2 DEF StripeOK, Subscription
<1>6. view.sub = row.sub
      /\ view.state = billingState([cancelling |-> stripe[row.sub].cancelling,
                                    status |-> stripe[row.sub].status])
  BY <1>4 DEF LiveView
<1> QED BY <1>2, <1>5, <1>6 DEF billingState, Preferred

\* However many tabs, subscriptions and requests: whoever comes back from
\* paying is not sold it again, while the webhook is on its way or after it.
THEOREM PaidTabAlwaysBuysNoMore == Spec => []PaidTabBuysNoMore
<1>1. PlanInv => PaidTabBuysNoMore
  <2> SUFFICES ASSUME PlanInv, NEW r \in requests, r.action = "checkout", r.tab # None
               PROVE  tab[r.tab].returned # "done"
    BY DEF PaidTabBuysNoMore
  <2>1. r.tab \in Tabs BY DEF PlanInv, PageOK, Requested
  <2> QED BY <2>1 DEF PlanInv, PageOK, Belongs
<1> QED BY <1>1, PlanInit, PlanStep, PTL DEF Spec

\* However the tabs, Stripe's clock and the webhook are interleaved: a plan in
\* force is only ever switched in place, to the price a confirmation named; an
\* instruction reaches the subscription its page was drawn with; and a page
\* drawn with Stripe in reach says of a Pro plan whether it will renew.
THEOREM PlanAlwaysAsShown == Spec => PlanAsShown
<1>1. ASSUME PlanInv, [Next]_vars
      PROVE  /\ \A s \in Subs :
                  Alive(s) /\ stripe'[s].items # stripe[s].items =>
                    \E r \in requests :
                      /\ r.action = "switch" /\ r.sub = s
                      /\ r.shown # None /\ r.shown.kind = "switch"
                      /\ stripe'[s].items = {r.shown.cadence}
             /\ \A r \in requests :
                  (SetCancelling(r) \/ Switch(r)) => stripe'[r.sub] # stripe[r.sub] \/ UNCHANGED stripe
             /\ \A t \in Tabs :
                  LET view == tab'[t].view IN
                  view # tab[t].view /\ view.plan = "pro" /\ ~view.stale =>
                    (view.state = "cancelling" <=>
                       stripe[view.sub].status = "active" /\ stripe[view.sub].cancelling)
  <2>1. CASE UNCHANGED vars BY <2>1, <1>1, ActsStep DEF vars
  <2>2. CASE Next
    <3>1. StripeOK BY <1>1 DEF PlanInv
    <3> QED BY <1>1, <2>2, <3>1, MoneyStep, ActsStep, DrawnView, ViewsHonest
  <2> QED BY <1>1, <2>1, <2>2
<1> QED
  BY <1>1, PlanInit, PlanStep, PTL DEF Spec, PlanAsShown, MoneyMovesAsShown, ActsOnWhatWasShown,
                                       DrawnAsStripeHasIt

-----------------------------------------------------------------------------
(* What the command that sets up Stripe keeps                              *)

\* Prices are numbered as they are made, and none is ever removed.
PricesNumbered ==
    /\ IsFiniteSet(prices)
    /\ \A p \in prices : p.id <= Cardinality(prices)
    /\ \A p, q \in prices : p.id = q.id => p = q

\* One price to a lookup key, and it is active; an active price that has lost its
\* key is the one this run is about to archive, or one a run died over.
KeysNameActive ==
    /\ \A p, q \in prices : p.key /\ q.key /\ p.cadence = q.cadence => p = q
    /\ \A p \in prices : p.key => p.active
    /\ \A p \in prices :
        p.active /\ ~p.key => p.id \in orphans \/ (run.at = "archive" /\ p.id = run.old)

\* The price is on sale for its cadence at the published amount.
OnSale(id, c) ==
    \E p \in prices :
        p.id = id /\ p.cadence = c /\ p.active /\ p.key /\ p.amount = catalog[c]

\* What a run has found so far is on sale, and a run that writes has found a price
\* for every cadence it is done with.
RunKnows ==
    /\ \A c \in Intervals : run.found[c] # Absent => OnSale(run.found[c], c)
    /\ run.at = "idle" => \A c \in Intervals : run.found[c] = Absent
    /\ ~run.dry =>
        /\ run.at \in {"annual", "portal", "endpoint", "create endpoint", "print"}
             => run.found["monthly"] # Absent
        /\ run.at \in {"portal", "endpoint", "create endpoint", "print"}
             => run.found["annual"] # Absent
        /\ run.at \in {"endpoint", "create endpoint", "print"}
             => {run.found[c] : c \in Intervals} \in portals

\* The price to archive has passed its key to the one just made.
ArchiveKnows ==
    run.at = "archive" =>
        /\ ~run.dry
        /\ \E p \in prices :
            /\ p.id = run.old /\ ~p.key
            /\ run.found[p.cadence] # Absent
            /\ p.cadence = "annual" => run.found["monthly"] # Absent

\* There is one portal configuration, one endpoint at most, and none between the
\* deletion of one and the creation of the next.
OneOfEach ==
    /\ \A a, b \in portals : a = b
    /\ \A a, b \in endpoints : a = b
    /\ run.at = "create endpoint" => endpoints = {} /\ ~run.dry

\* What was printed of this catalog stays true while other runs come and go.
PrintedHolds ==
    /\ printed.edits <= used.edits
    /\ (\A c \in Intervals : printed.prices[c] # Absent) /\ printed.edits = used.edits =>
        /\ \A c \in Intervals : OnSale(printed.prices[c], c)
        /\ {printed.prices[c] : c \in Intervals} \in portals

ShopInv ==
    /\ BillingTypeOK
    /\ PricesNumbered
    /\ KeysNameActive
    /\ RunKnows
    /\ ArchiveKnows
    /\ OneOfEach
    /\ PrintedHolds

-----------------------------------------------------------------------------
(* What the command that sets up mail keeps                                *)

\* Records are numbered as they are added, and read with their numbers.
RecordsNumbered ==
    /\ \A r \in zone : r.id <= counts.panel
    /\ \A r, s \in zone : r.id = s.id => r = s
    /\ \A r, s \in job.zone : r.id = s.id => r = s

\* Somebody who may send has it from a record the run in progress leaves alone,
\* or from what it read and has yet to write.
Safe(provider) ==
    \/ \E r \in zone :
         /\ provider \in r.senders
         /\ job.at \in {"edit", "delete"} => \A q \in job.zone : q.id # r.id
    \/ job.at = "edit" /\ \E q \in job.zone : provider \in q.senders

MaySend(provider) == \E r \in zone : provider \in r.senders

\* Nobody's leave to send depends on a record the run has still to delete, but
\* for those who raced with it.
SendersKept ==
    /\ \A provider \in meant \ raced : MaySend(provider) /\ Safe(provider)
    /\ job.at \in {"edit", "delete"} => ~job.dry
    /\ job.at = "edit" =>
         \A q \in job.zone : \A provider \in meant \cap q.senders : MaySend(provider)

\* While nobody else touches the zone, it is what the run read, and at the end one
\* record with Resend in it.
ZoneAsRead ==
    spf = "read" /\ ~job.dry =>
        /\ job.at = "edit" => zone = job.zone
        /\ job.at = "delete" =>
            \E r \in zone \ job.zone : zone = job.zone \cup {r} /\ "resend" \in r.senders
        /\ job.at = "records" =>
            /\ \A r, s \in zone : r = s
            /\ \A r \in zone : "resend" \in r.senders

ZoneAsWritten ==
    spf = "written" =>
        /\ job.at \notin {"edit", "delete"}
        /\ \A r, s \in zone : r = s
        /\ \A r \in zone : "resend" \in r.senders

\* The key in hand is good, the newest, and made for a domain that may send.
KeyInHand ==
    /\ \A k \in keys : k <= counts.keys
    /\ ~job.dry =>
        /\ job.at \in {"mint", "smtp", "vercel"} => domain = "verified"
        /\ job.at \in {"smtp", "vercel"} => job.key \in keys /\ job.key = counts.keys

MailInv ==
    /\ EmailTypeOK
    /\ RecordsNumbered
    /\ SendersKept
    /\ ZoneAsRead
    /\ ZoneAsWritten
    /\ KeyInHand
    /\ MailKeepsSending

SetupInv == ShopInv /\ MailInv



-----------------------------------------------------------------------------
(* Stripe: one lemma for each request                                      *)

LEMMA AfterFacts ==
    /\ After("product") = "monthly"
    /\ After("monthly") = "annual"
    /\ After("annual") = "portal"
    /\ After("portal") = "endpoint"
BY Zenon DEF After

\* Sets whose elements are all the same.
LEMMA AtMostOne ==
    ASSUME NEW S, \A a, b \in S : a = b
    PROVE  IsFiniteSet(S) /\ Cardinality(S) <= 1
<1>1. CASE S = {} BY <1>1, FS_EmptySet
<1>2. CASE \E a \in S : TRUE
  <2>1. PICK a \in S : TRUE BY <1>2
  <2>2. S = {a} BY <2>1
  <2>3. IsFiniteSet({a}) /\ Cardinality({a}) = 1 BY FS_Singleton
  <2> QED BY <2>2, <2>3
<1> QED BY <1>1, <1>2

\* What is changed one by one and stays distinct is as many as it was.
LEMMA ImageCounts ==
    ASSUME NEW S, NEW f, f \in [S -> {f[x] : x \in S}], IsFiniteSet(S),
           \A x, y \in S : f[x] = f[y] => x = y
    PROVE  /\ IsFiniteSet({f[x] : x \in S})
           /\ Cardinality({f[x] : x \in S}) = Cardinality(S)
<1> DEFINE T == {f[x] : x \in S}
<1>1. \A y \in T : \E x \in S : f[x] = y OBVIOUS
<1> HIDE DEF T
<1>2. f \in Bijection(S, T) BY <1>1 DEF Bijection, Injection, Surjection, IsInjective, T
<1> QED BY <1>2, FS_Bijection DEF ExistsBijection, T

\* Where the catalog and the prices stay, what is on sale does.
LEMMA SameOnSale ==
    ASSUME UNCHANGED <<catalog, prices>>
    PROVE  /\ UNCHANGED printed =>
                \A k \in Intervals : OnSale(printed.prices[k], k)' <=> OnSale(printed.prices[k], k)
           /\ run'.found = run.found =>
                \A k \in Intervals : OnSale(run.found[k], k)' <=> OnSale(run.found[k], k)
BY DEF OnSale

LEMMA RestingTyped ==
    Resting \in [at : Steps, dry : BOOLEAN, recreate : BOOLEAN, old : Named,
                 found : [Intervals -> Named], secret : Named]
BY DEF Resting, Steps, Named

LEMMA ShopStarts ==
    ASSUME BillingInit
    PROVE  ShopInv
<1> USE DEF BillingInit
<1>1. BillingTypeOK
  BY RestingTyped DEF BillingTypeOK, Named
<1>2. PricesNumbered BY FS_EmptySet DEF PricesNumbered
<1>3. KeysNameActive BY DEF KeysNameActive
<1>4. RunKnows BY DEF RunKnows, Resting, Intervals
<1>5. ArchiveKnows BY DEF ArchiveKnows, Resting
<1>6. OneOfEach BY DEF OneOfEach, Resting
<1>7. PrintedHolds BY DEF PrintedHolds, Intervals
<1> QED BY <1>1, <1>2, <1>3, <1>4, <1>5, <1>6, <1>7 DEF ShopInv

LEMMA StartBillingKeeps ==
    ASSUME ShopInv, NEW dry \in BOOLEAN, NEW recreate \in BOOLEAN, StartBilling(dry, recreate)
    PROVE  ShopInv'
<1> USE DEF ShopInv, StartBilling, shop
<1>1. BillingTypeOK'
  <2>1. run' \in [at : Steps, dry : BOOLEAN, recreate : BOOLEAN, old : Named,
                 found : [Intervals -> Named], secret : Named]
    BY DEF Resting, Steps, Named
  <2>2. used' \in [edits : Nat, runs : Nat, secrets : Nat] BY DEF BillingTypeOK
  <2> QED BY <2>1, <2>2 DEF BillingTypeOK
<1>2. PricesNumbered' BY DEF PricesNumbered
<1>3. KeysNameActive' BY DEF KeysNameActive, Resting
<1>4. RunKnows' BY DEF RunKnows, Resting, Intervals
<1>5. ArchiveKnows' BY DEF ArchiveKnows, Resting
<1>6. OneOfEach' BY DEF OneOfEach, Resting
<1>7. PrintedHolds' BY SameOnSale DEF PrintedHolds
<1> QED BY <1>1, <1>2, <1>3, <1>4, <1>5, <1>6, <1>7

\* A request that writes no price and no catalog, and after which the run is not
\* about to archive one.
LEMMA OtherRequestKeeps ==
    ASSUME ShopInv, BillingTypeOK', UNCHANGED <<catalog, prices, orphans, printed>>,
           used'.edits = used.edits, run.at # "archive", run'.at # "archive", RunKnows', OneOfEach',
           \A offered \in portals :
               offered = {printed.prices[c] : c \in Intervals}
               /\ (\A c \in Intervals : printed.prices[c] # Absent)
               /\ printed.edits = used.edits => offered \in portals'
    PROVE  ShopInv'
<1>1. PricesNumbered' BY DEF ShopInv, PricesNumbered
<1>2. KeysNameActive' BY DEF ShopInv, KeysNameActive
<1>3. ArchiveKnows' BY DEF ArchiveKnows
<1>4. PrintedHolds' BY SameOnSale DEF ShopInv, PrintedHolds
<1> QED BY <1>1, <1>2, <1>3, <1>4 DEF ShopInv

LEMMA EnsureProductKeeps ==
    ASSUME ShopInv, EnsureProduct
    PROVE  ShopInv'
<1>1. run.at = "product" /\ run' = [run EXCEPT !.at = "monthly"] BY AfterFacts DEF EnsureProduct
<1>2. BillingTypeOK'
  BY <1>1 DEF ShopInv, BillingTypeOK, EnsureProduct, Steps, Intervals
<1>3. /\ run'.at = "monthly" /\ run'.dry = run.dry /\ run'.found = run.found
  BY <1>1 DEF ShopInv, BillingTypeOK
<1>4. RunKnows' BY <1>1, <1>3, SameOnSale DEF ShopInv, RunKnows, EnsureProduct
<1>5. OneOfEach' BY <1>1, <1>3 DEF ShopInv, OneOfEach, EnsureProduct
<1> QED BY <1>1, <1>2, <1>3, <1>4, <1>5, OtherRequestKeeps DEF EnsureProduct
LEMMA ReusePriceKeeps ==
    ASSUME ShopInv, NEW c \in Intervals, ReusePrice(c)
    PROVE  ShopInv'
<1>1. PICK p \in prices : /\ p.cadence = c /\ p.key /\ p.active /\ p.amount = catalog[c]
                          /\ run' = [run EXCEPT !.at = After(c), !.found[c] = p.id]
  BY DEF ReusePrice, Found, NeedsNewPrice
<1>2. /\ run.at = c /\ c \in {"monthly", "annual"} /\ p.id \in Nat
      /\ After(c) \in {"annual", "portal"}
      /\ c = "monthly" => After(c) = "annual"
      /\ c = "annual" => After(c) = "portal"
  BY AfterFacts DEF ReusePrice, Intervals, ShopInv, BillingTypeOK, Price
<1>3. BillingTypeOK'
  BY <1>1, <1>2 DEF ShopInv, BillingTypeOK, ReusePrice, shop, Steps, Intervals, Named
<1>4. /\ run'.at = After(c) /\ run'.dry = run.dry
      /\ run'.found[c] = p.id /\ \A k \in Intervals \ {c} : run'.found[k] = run.found[k]
  BY <1>1 DEF ShopInv, BillingTypeOK
<1>5. OnSale(p.id, c) BY <1>1 DEF OnSale
<1>6. RunKnows'
  <2>1. \A k \in Intervals : run'.found[k] # Absent => OnSale(run.found[k], k)'
    <3>1. \A k \in Intervals : run'.found[k] # Absent => OnSale(run'.found[k], k)
      BY <1>4, <1>5 DEF ShopInv, RunKnows
    <3> QED BY <3>1 DEF OnSale, ReusePrice, shop
  <2>2. run'.found[c] # Absent BY <1>2, <1>4, AbsentAssumption
  <2> QED BY <1>2, <1>4, <2>1, <2>2 DEF ShopInv, RunKnows, Intervals
<1>7. OneOfEach' BY <1>2, <1>4 DEF ShopInv, OneOfEach, ReusePrice, shop
<1>8. run.at # "archive" /\ run'.at # "archive" BY <1>2, <1>4
<1> QED BY <1>3, <1>6, <1>7, <1>8, OtherRequestKeeps DEF ReusePrice, shop

LEMMA DryPriceKeeps ==
    ASSUME ShopInv, NEW c \in Intervals, DryPrice(c)
    PROVE  ShopInv'
<1>1. /\ run.at = c /\ c \in {"monthly", "annual"} /\ run.dry
      /\ After(c) \in {"annual", "portal"}
      /\ run' = [run EXCEPT !.at = After(c)]
  BY AfterFacts DEF DryPrice, Intervals
<1>2. BillingTypeOK'
  BY <1>1 DEF ShopInv, BillingTypeOK, DryPrice, shop, Steps, Intervals
<1>3. run'.at = After(c) /\ run'.dry /\ run'.found = run.found
  BY <1>1 DEF ShopInv, BillingTypeOK
<1>4. RunKnows'
  <2>1. \A k \in Intervals : OnSale(run.found[k], k)' <=> OnSale(run.found[k], k)
    BY <1>3 DEF OnSale, DryPrice, shop
  <2> QED BY <1>1, <1>3, <2>1 DEF ShopInv, RunKnows
<1>5. OneOfEach' BY <1>1, <1>3 DEF ShopInv, OneOfEach, DryPrice, shop
<1> QED BY <1>1, <1>2, <1>3, <1>4, <1>5, OtherRequestKeeps DEF DryPrice, shop

LEMMA EnsurePortalKeeps ==
    ASSUME ShopInv, EnsurePortal
    PROVE  ShopInv'
<1> DEFINE offer == {run.found[c] : c \in Intervals}
<1>1. run.at = "portal" /\ run' = [run EXCEPT !.at = "endpoint"] BY AfterFacts DEF EnsurePortal
<1>2. (run.dry /\ portals' = portals) \/ (~run.dry /\ portals' = {offer})
  <2>1. ASSUME NEW old \in portals \cup {Absent}, old = Absent => portals = {}
        PROVE  portals \ {old} = {}
    BY <2>1 DEF ShopInv, OneOfEach
  <2> QED BY <2>1 DEF EnsurePortal
<1>3. BillingTypeOK'
  <2>1. offer \subseteq Named BY DEF ShopInv, BillingTypeOK
  <2>2. portals' \subseteq SUBSET Named BY <1>2, <2>1 DEF ShopInv, BillingTypeOK
  <2>3. run' \in [at : Steps, dry : BOOLEAN, recreate : BOOLEAN, old : Named,
                 found : [Intervals -> Named], secret : Named]
    BY <1>1 DEF ShopInv, BillingTypeOK, Steps
  <2> QED BY <2>2, <2>3 DEF ShopInv, BillingTypeOK, EnsurePortal
<1>4. run'.at = "endpoint" /\ run'.dry = run.dry /\ run'.found = run.found
  BY <1>1 DEF ShopInv, BillingTypeOK
<1>5. RunKnows' BY <1>1, <1>2, <1>4, SameOnSale DEF ShopInv, RunKnows, EnsurePortal
<1>6. OneOfEach' BY <1>1, <1>2, <1>4 DEF ShopInv, OneOfEach, EnsurePortal
\* What was printed of this catalog is what this run found.
<1>7. ASSUME \A c \in Intervals : printed.prices[c] # Absent, printed.edits = used.edits,
             ~run.dry
      PROVE  {printed.prices[c] : c \in Intervals} = offer
  <2>1. \A c \in Intervals : OnSale(printed.prices[c], c) BY <1>7 DEF ShopInv, PrintedHolds
  <2>2. \A c \in Intervals : OnSale(run.found[c], c)
    BY <1>1, <1>7 DEF ShopInv, RunKnows, Intervals
  <2>3. \A c \in Intervals : printed.prices[c] = run.found[c]
    BY <2>1, <2>2 DEF ShopInv, KeysNameActive, OnSale
  <2> QED BY <2>3
<1> HIDE DEF offer
<1>8. \A offered \in portals :
        offered = {printed.prices[c] : c \in Intervals}
        /\ (\A c \in Intervals : printed.prices[c] # Absent)
        /\ printed.edits = used.edits => offered \in portals'
  BY <1>2, <1>7
<1> QED BY <1>1, <1>3, <1>4, <1>5, <1>6, <1>8, OtherRequestKeeps DEF EnsurePortal

\* The requests about the endpoint leave prices and portals alone.
LEMMA EndpointRequestKeeps ==
    ASSUME ShopInv, KeepEndpoint \/ DeleteEndpoint \/ DryEndpoint \/ CreateEndpoint
    PROVE  ShopInv'
<1> DEFINE Step ==
      /\ UNCHANGED <<catalog, product, prices, portals, printed, orphans>>
      /\ run.at \in {"endpoint", "create endpoint"}
      /\ run' \in [at : Steps, dry : BOOLEAN, recreate : BOOLEAN, old : Named,
                    found : [Intervals -> Named], secret : Named]
      /\ run'.at \in {"create endpoint", "print"} /\ run'.dry = run.dry /\ run'.found = run.found
      /\ endpoints' \subseteq Endpoint
      /\ used' \in [edits : Nat, runs : Nat, secrets : Nat] /\ used'.edits = used.edits
      /\ \A a, b \in endpoints' : a = b
      /\ run'.at = "create endpoint" => endpoints' = {} /\ ~run.dry
<1> USE DEF ShopInv, BillingTypeOK, OneOfEach, Steps, Named, Endpoint, AtOurAddress, shop
<1>1. ASSUME KeepEndpoint PROVE Step BY <1>1 DEF KeepEndpoint
<1>2. ASSUME DeleteEndpoint PROVE Step BY <1>2 DEF DeleteEndpoint
<1>3. ASSUME DryEndpoint PROVE Step BY <1>3 DEF DryEndpoint
<1>4. ASSUME CreateEndpoint PROVE Step
  <2> DEFINE new == [secret |-> used.secrets + 1, enabled |-> TRUE]
  <2>1. /\ endpoints' = endpoints \cup {new} /\ ~run.dry
        /\ run' = [run EXCEPT !.at = "print", !.secret = used.secrets + 1]
        /\ used' = [used EXCEPT !.secrets = used.secrets + 1]
        /\ run.at \in {"endpoint", "create endpoint"}
        /\ UNCHANGED <<catalog, product, prices, portals, printed, orphans>>
    BY <1>4 DEF CreateEndpoint
  <2>2. endpoints = {} BY <1>4 DEF CreateEndpoint
  <2>3. used.secrets + 1 \in Nat \ {0}
    <3>1. used \in [edits : Nat, runs : Nat, secrets : Nat] OBVIOUS
    <3>2. used.secrets \in Nat BY ONLY <3>1
    <3> QED BY ONLY <3>2
  <2>a. new \in Endpoint BY <2>3
  <2> HIDE DEF new
  <2>4. endpoints' \subseteq Endpoint /\ \A a, b \in endpoints' : a = b BY <2>1, <2>2, <2>a
  <2>5. /\ run' \in [at : Steps, dry : BOOLEAN, recreate : BOOLEAN, old : Named,
                    found : [Intervals -> Named], secret : Named]
        /\ run'.at = "print" /\ run'.dry = run.dry /\ run'.found = run.found
    <3>1. run \in [at : Steps, dry : BOOLEAN, recreate : BOOLEAN, old : Named,
                    found : [Intervals -> Named], secret : Named] OBVIOUS
    <3>2. used.secrets + 1 \in Named /\ "print" \in Steps BY <2>3
    <3> HIDE DEF ShopInv, BillingTypeOK, OneOfEach, Steps, Named
    <3> QED BY <2>1, <3>1, <3>2
  <2>6. used' \in [edits : Nat, runs : Nat, secrets : Nat] /\ used'.edits = used.edits
    <3>1. used \in [edits : Nat, runs : Nat, secrets : Nat] OBVIOUS
    <3> HIDE DEF ShopInv, BillingTypeOK, OneOfEach, Steps, Named
    <3> QED BY <2>1, <2>3, <3>1
  <2> QED BY <2>1, <2>4, <2>5, <2>6
<1>5. Step BY <1>1, <1>2, <1>3, <1>4
<1>6. BillingTypeOK' BY <1>5
<1>7. OneOfEach' BY <1>5
<1>8. RunKnows'
  <2>1. \A k \in Intervals : OnSale(run.found[k], k)' <=> OnSale(run.found[k], k)
    BY <1>5, SameOnSale
  <2>2. /\ run.at \in {"endpoint", "create endpoint"} /\ run'.at \in {"create endpoint", "print"}
        /\ run'.dry = run.dry /\ run'.found = run.found /\ portals' = portals
    BY <1>5
  <2>3. RunKnows OBVIOUS
  <2> HIDE DEF ShopInv, BillingTypeOK, OneOfEach, Steps, Named, Step
  <2> QED BY <2>1, <2>2, <2>3 DEF RunKnows
<1> QED BY <1>5, <1>6, <1>7, <1>8, OtherRequestKeeps

LEMMA PrintKeeps ==
    ASSUME ShopInv, PrintEnvironment
    PROVE  ShopInv'
<1> USE DEF ShopInv, PrintEnvironment, shop
<1>1. BillingTypeOK'
  <2>1. printed' \in [prices : [Intervals -> Named], edits : Nat, secret : Named]
    BY DEF BillingTypeOK, Named
  <2> QED BY <2>1, RestingTyped DEF BillingTypeOK
<1>2. PricesNumbered' BY DEF PricesNumbered
<1>3. KeysNameActive' BY DEF KeysNameActive
<1>4. RunKnows' BY DEF RunKnows, Resting, Intervals
<1>5. ArchiveKnows' BY DEF ArchiveKnows, Resting
<1>6. OneOfEach' BY DEF OneOfEach, Resting
<1>7. PrintedHolds'
  <2>1. CASE run.dry
    <3>1. \A k \in Intervals : OnSale(printed.prices[k], k)' <=> OnSale(printed.prices[k], k)
      BY <2>1 DEF OnSale
    <3> QED BY <2>1, <3>1 DEF PrintedHolds
  <2>2. CASE ~run.dry
    <3>1. printed'.prices = run.found /\ printed'.edits = used.edits BY <2>2
    <3>2. \A k \in Intervals : OnSale(run.found[k], k)
      BY <2>2 DEF RunKnows, Intervals
    <3>3. \A k \in Intervals : OnSale(printed.prices[k], k)'
      BY <3>1, <3>2 DEF OnSale
    <3>4. {run.found[k] : k \in Intervals} \in portals BY <2>2 DEF RunKnows
    <3>5. {printed'.prices[k] : k \in Intervals} \in portals' BY <3>1, <3>4
    <3>6. printed'.edits <= used'.edits BY <3>1 DEF BillingTypeOK
    <3> QED BY <3>3, <3>5, <3>6 DEF PrintedHolds
  <2> QED BY <2>1, <2>2 DEF BillingTypeOK
<1> QED BY <1>1, <1>2, <1>3, <1>4, <1>5, <1>6, <1>7

LEMMA StopBillingKeeps ==
    ASSUME ShopInv, StopBilling
    PROVE  ShopInv'
<1> USE DEF ShopInv, StopBilling, shop
<1>1. BillingTypeOK'
  <2>1. run.at = "archive" => run.old \in Nat
    BY DEF ArchiveKnows, BillingTypeOK, Price
  <2>2. orphans' \subseteq Nat BY <2>1 DEF BillingTypeOK
  <2> QED BY <2>2, RestingTyped DEF BillingTypeOK
<1>2. PricesNumbered' BY DEF PricesNumbered
<1>3. KeysNameActive' BY DEF KeysNameActive
<1>4. RunKnows' BY DEF RunKnows, Resting, Intervals
<1>5. ArchiveKnows' BY DEF ArchiveKnows, Resting
<1>6. OneOfEach' BY DEF OneOfEach, Resting
<1>7. PrintedHolds'
  <2>1. \A k \in Intervals : OnSale(printed.prices[k], k)' <=> OnSale(printed.prices[k], k)
    BY DEF OnSale
  <2> QED BY <2>1 DEF PrintedHolds
<1> QED BY <1>1, <1>2, <1>3, <1>4, <1>5, <1>6, <1>7

\* What was printed is of the catalog before.
LEMMA EditCatalogKeeps ==
    ASSUME ShopInv, NEW c \in Intervals, NEW amount \in Amounts, EditCatalog(c, amount)
    PROVE  ShopInv'
<1> USE DEF ShopInv, EditCatalog, shop
<1>1. BillingTypeOK' BY DEF BillingTypeOK
<1>2. PricesNumbered' BY DEF PricesNumbered
<1>3. KeysNameActive' BY DEF KeysNameActive
<1>4. RunKnows' BY DEF RunKnows
<1>5. ArchiveKnows' BY DEF ArchiveKnows
<1>6. OneOfEach' BY DEF OneOfEach
<1>7. PrintedHolds' BY DEF PrintedHolds, BillingTypeOK
<1> QED BY <1>1, <1>2, <1>3, <1>4, <1>5, <1>6, <1>7

LEMMA StripeDisablesKeeps ==
    ASSUME ShopInv, StripeDisables
    PROVE  ShopInv'
<1> USE DEF ShopInv, StripeDisables
<1>1. BillingTypeOK' BY DEF BillingTypeOK, Endpoint
<1>2. PricesNumbered' BY DEF PricesNumbered
<1>3. KeysNameActive' BY DEF KeysNameActive
<1>4. RunKnows'
  <2>1. \A k \in Intervals : OnSale(run.found[k], k)' <=> OnSale(run.found[k], k)
    BY DEF OnSale
  <2> QED BY <2>1 DEF RunKnows
<1>5. ArchiveKnows' BY DEF ArchiveKnows
<1>6. OneOfEach' BY DEF OneOfEach
<1>7. PrintedHolds'
  <2>1. \A k \in Intervals : OnSale(printed.prices[k], k)' <=> OnSale(printed.prices[k], k)
    BY DEF OnSale
  <2> QED BY <2>1 DEF PrintedHolds
<1> QED BY <1>1, <1>2, <1>3, <1>4, <1>5, <1>6, <1>7

\* A new price takes the key of its cadence; whoever had it is archived next.
LEMMA CreatePriceKeeps ==
    ASSUME ShopInv, NEW c \in Intervals, CreatePrice(c)
    PROVE  ShopInv'
<1>0. PICK id : id = Cardinality(prices) + 1 OBVIOUS
<1>a. PICK new : new = [id |-> id, cadence |-> c, amount |-> catalog[c],
                        active |-> TRUE, key |-> TRUE]
  OBVIOUS
<1> DEFINE moved(p) == IF p.cadence = c THEN [p EXCEPT !.key = FALSE] ELSE p
<1>1. /\ prices' = {moved(p) : p \in prices} \cup {new}
      /\ UNCHANGED <<catalog, product, portals, endpoints, printed, orphans, used>>
      /\ run.at = c /\ ~run.dry
  BY <1>0, <1>a DEF CreatePrice, KeyTransferred
<1>2. id \in Nat \ {0} /\ Cardinality(prices) \in Nat /\ id = Cardinality(prices) + 1
  BY <1>0, FS_CardinalityType DEF ShopInv, PricesNumbered
<1>3. new \in Price /\ new.id = id /\ new.cadence = c /\ new.amount = catalog[c]
      /\ new.active /\ new.key
  BY <1>a, <1>2 DEF Price, ShopInv, BillingTypeOK
<1>4. \A p \in prices :
        /\ p \in Price
        /\ moved(p) \in Price /\ moved(p).id = p.id /\ moved(p).cadence = p.cadence
        /\ moved(p).amount = p.amount /\ moved(p).active = p.active
        /\ p.cadence = c => ~moved(p).key
        /\ p.cadence # c => moved(p) = p
  BY DEF Price, ShopInv, BillingTypeOK
<1>6. \/ /\ \A p \in prices : ~(p.cadence = c /\ p.key)
         /\ run' = [run EXCEPT !.at = After(c), !.found[c] = id]
      \/ \E p \in prices :
           /\ p.cadence = c /\ p.key /\ p.active
           /\ run' = [run EXCEPT !.at = "archive", !.found[c] = id, !.old = p.id]
  BY <1>0 DEF CreatePrice, Found, ShopInv, KeysNameActive
<1> HIDE DEF moved
<1>5. \A p, q \in prices : moved(p).id = moved(q).id => p = q
  BY <1>4 DEF ShopInv, PricesNumbered
<1>7. prices' \subseteq Price BY <1>1, <1>3, <1>4
<1>8. PricesNumbered'
  <2>1. \A p \in prices : p.id <= Cardinality(prices) /\ p.id \in Nat
    BY <1>4 DEF ShopInv, PricesNumbered, Price
  <2>2. IsFiniteSet({moved(p) : p \in prices})
        /\ Cardinality({moved(p) : p \in prices}) = Cardinality(prices)
    <3> DEFINE f == [p \in prices |-> moved(p)]
    <3>1. \A p, q \in prices : f[p] = f[q] => p = q BY <1>4 DEF ShopInv, PricesNumbered
    <3>2. {f[p] : p \in prices} = {moved(p) : p \in prices} OBVIOUS
    <3>3. IsFiniteSet(prices) BY DEF ShopInv, PricesNumbered
    <3>4. f \in [prices -> {f[p] : p \in prices}] OBVIOUS
    <3> HIDE DEF f
    <3> QED BY <3>1, <3>2, <3>3, <3>4, ImageCounts
  <2>3. new \notin {moved(p) : p \in prices} BY <1>2, <1>3, <1>4, <2>1
  <2>4. IsFiniteSet(prices') /\ Cardinality(prices') = Cardinality(prices) + 1
    BY <1>1, <2>2, <2>3, FS_AddElement
  <2>5. \A p \in prices' : p.id <= Cardinality(prices) + 1
    BY <1>1, <1>2, <1>3, <1>4, <2>1
  <2>6. \A p, q \in prices' : p.id = q.id => p = q
    BY <1>1, <1>2, <1>3, <1>4, <1>5, <2>1
  <2> QED BY <2>4, <2>5, <2>6 DEF PricesNumbered
<1>9. /\ run'.dry = run.dry /\ run'.found[c] = id
      /\ \A k \in Intervals \ {c} : run'.found[k] = run.found[k]
      /\ run'.at \in {After(c), "archive"}
      /\ run'.at # "archive" => \A p \in prices : ~(p.cadence = c /\ p.key)
      /\ run'.at = "archive" =>
           \E p \in prices : p.cadence = c /\ p.key /\ p.active /\ run'.old = p.id
      /\ run' \in [at : Steps, dry : BOOLEAN, recreate : BOOLEAN, old : Named,
                    found : [Intervals -> Named], secret : Named]
  <2>1. After(c) \in Steps /\ "archive" \in Steps BY AfterFacts DEF Steps, Intervals
  <2>2. run \in [at : Steps, dry : BOOLEAN, recreate : BOOLEAN, old : Named,
                    found : [Intervals -> Named], secret : Named]
    BY DEF ShopInv, BillingTypeOK
  <2>3. id \in Named /\ \A p \in prices : p.id \in Named BY <1>2, <1>4 DEF Named, Price
  <2>4. CASE \A p \in prices : ~(p.cadence = c /\ p.key)
    <3>1. run' = [run EXCEPT !.at = After(c), !.found[c] = id] BY <1>6, <2>4
    <3>2. After(c) # "archive" BY AfterFacts DEF Intervals
    <3> QED BY <2>1, <2>2, <2>3, <2>4, <3>1, <3>2
  <2>5. ASSUME NEW p \in prices, p.cadence = c, p.key, p.active,
               run' = [run EXCEPT !.at = "archive", !.found[c] = id, !.old = p.id]
        PROVE  /\ run'.dry = run.dry /\ run'.found[c] = id
               /\ \A k \in Intervals \ {c} : run'.found[k] = run.found[k]
               /\ run'.at = "archive" /\ run'.old = p.id
               /\ run' \in [at : Steps, dry : BOOLEAN, recreate : BOOLEAN, old : Named,
                             found : [Intervals -> Named], secret : Named]
    BY <2>1, <2>2, <2>3, <2>5
  <2> QED BY <1>6, <2>4, <2>5
<1>10. c \in {"monthly", "annual"} /\ (c = "monthly" => After(c) = "annual")
       /\ (c = "annual" => After(c) = "portal")
  BY AfterFacts DEF Intervals
<1>11. BillingTypeOK' BY <1>1, <1>7, <1>9 DEF ShopInv, BillingTypeOK
<1>12. KeysNameActive'
  <2>1. \A p, q \in prices' : p.key /\ q.key /\ p.cadence = q.cadence => p = q
    BY <1>1, <1>3, <1>4 DEF ShopInv, KeysNameActive
  <2>2. \A p \in prices' : p.key => p.active
    BY <1>1, <1>3, <1>4 DEF ShopInv, KeysNameActive
  <2>3. ASSUME NEW p \in prices, moved(p).active, ~moved(p).key
        PROVE  p.id \in orphans \/ (run'.at = "archive" /\ p.id = run'.old)
    <3>1. CASE ~p.key BY <1>1, <1>4, <1>10, <2>3, <3>1 DEF ShopInv, KeysNameActive
    <3>2. CASE p.key
      <4>1. p.cadence = c BY <1>4, <2>3, <3>2
      <4>2. run'.at = "archive" BY <1>9, <3>2, <4>1
      <4> QED BY <1>9, <3>2, <4>1, <4>2 DEF ShopInv, KeysNameActive
    <3> QED BY <3>1, <3>2
  <2>4. \A p \in prices' : p.active /\ ~p.key =>
          p.id \in orphans' \/ (run'.at = "archive" /\ p.id = run'.old)
    BY <1>1, <1>3, <1>4, <2>3
  <2> QED BY <2>1, <2>2, <2>4 DEF KeysNameActive
<1>13. OnSale(id, c)' BY <1>1, <1>3 DEF OnSale
<1>14. \A k \in Intervals \ {c} : \A n : OnSale(n, k) => OnSale(n, k)'
  BY <1>1, <1>4 DEF OnSale
<1>15. id # Absent BY <1>2, AbsentAssumption
<1>16. RunKnows'
  <2>1. ASSUME NEW k \in Intervals, run'.found[k] # Absent
        PROVE  OnSale(run.found[k], k)'
    <3>1. CASE k = c BY <1>9, <1>13, <3>1 DEF OnSale
    <3>2. CASE k # c
      <4>1. PICK n : n = run.found[k] OBVIOUS
      <4>2. OnSale(n, k) /\ run'.found[k] = n BY <1>9, <2>1, <3>2, <4>1 DEF ShopInv, RunKnows
      <4>3. OnSale(n, k)' BY <1>14, <3>2, <4>2
      <4> QED BY <4>2, <4>3 DEF OnSale
    <3> QED BY <3>1, <3>2
  <2>2. \A k \in Intervals : (run.found[k] # Absent => OnSale(run.found[k], k))' BY <2>1
  <2>3. run'.at # "archive" => run'.at \in {"annual", "portal"} BY <1>9, <1>10
  <2>4. run'.at = "portal" => c = "annual" BY <1>9, <1>10
  <2>5. run'.found[c] # Absent /\ (c = "annual" => run'.found["monthly"] # Absent)
    BY <1>1, <1>9, <1>15 DEF ShopInv, RunKnows, Intervals
  <2>6. run'.at = "annual" => c = "monthly" BY <1>9, <1>10
  <2> QED BY <1>1, <1>9, <2>2, <2>3, <2>4, <2>5, <2>6 DEF RunKnows
<1>17. ArchiveKnows'
  <2>1. ASSUME run'.at = "archive" PROVE ArchiveKnows'
    <3>1. PICK p \in prices : p.cadence = c /\ run'.old = p.id BY <1>9, <2>1
    <3>2. moved(p) \in prices' /\ moved(p).id = run'.old /\ ~moved(p).key /\ moved(p).cadence = c
      BY <1>1, <1>4, <3>1
    <3>3. c = "annual" => run.found["monthly"] # Absent
      BY <1>1 DEF ShopInv, RunKnows
    <3>4. c = "annual" => run'.found["monthly"] # Absent
      BY <1>9, <3>3 DEF Intervals
    <3> QED BY <1>1, <1>9, <1>15, <3>2, <3>4 DEF ArchiveKnows
  <2> QED BY <2>1 DEF ArchiveKnows
<1>18. OneOfEach' BY <1>1, <1>9, <1>10 DEF ShopInv, OneOfEach
<1>19. PrintedHolds'
  <2>1. \A p \in prices : p.cadence = c /\ p.key /\ p.active => p.amount # catalog[c]
    BY DEF CreatePrice, Found, NeedsNewPrice
  <2>2. ~OnSale(printed.prices[c], c) BY <2>1 DEF OnSale
  <2> QED BY <1>1, <2>2 DEF ShopInv, PrintedHolds
<1> QED BY <1>8, <1>11, <1>12, <1>16, <1>17, <1>18, <1>19 DEF ShopInv

LEMMA ArchivePriceKeeps ==
    ASSUME ShopInv, ArchivePrice
    PROVE  ShopInv'
<1> DEFINE filed(p) == IF p.id = run.old THEN [p EXCEPT !.active = FALSE] ELSE p
<1>1. /\ prices' = {filed(p) : p \in prices}
      /\ UNCHANGED <<catalog, product, portals, endpoints, printed, orphans, used>>
      /\ run.at = "archive" /\ ~run.dry
  BY DEF ArchivePrice, ShopInv, ArchiveKnows
<1>2. PICK old \in prices : old.id = run.old /\ run' = [run EXCEPT !.at = After(old.cadence), !.old = Absent]
  BY DEF ArchivePrice
<1>3. \A p \in prices : p.id = run.old => p = old BY <1>2 DEF ShopInv, PricesNumbered
<1>4. /\ ~old.key /\ run.found[old.cadence] # Absent
      /\ old.cadence = "annual" => run.found["monthly"] # Absent
      /\ old.cadence \in {"monthly", "annual"}
  BY <1>1, <1>2, <1>3 DEF ShopInv, ArchiveKnows, BillingTypeOK, Price, Intervals
<1>5. /\ old.cadence = "monthly" => After(old.cadence) = "annual"
      /\ old.cadence = "annual" => After(old.cadence) = "portal"
      /\ After(old.cadence) \in {"annual", "portal"}
  BY <1>4, AfterFacts
<1>6. \A p \in prices :
        /\ filed(p) \in Price /\ filed(p).id = p.id /\ filed(p).cadence = p.cadence
        /\ filed(p).amount = p.amount /\ filed(p).key = p.key
        /\ p # old => filed(p) = p
        /\ p = old => ~filed(p).active
  BY <1>2, <1>3 DEF Price, ShopInv, BillingTypeOK
<1> HIDE DEF filed
<1>7. /\ run'.at = After(old.cadence) /\ run'.dry = run.dry /\ run'.found = run.found
      /\ run' \in [at : Steps, dry : BOOLEAN, recreate : BOOLEAN, old : Named,
                    found : [Intervals -> Named], secret : Named]
  BY <1>2, <1>5 DEF ShopInv, BillingTypeOK, Steps, Intervals, Named
<1>8. BillingTypeOK'
  <2>1. prices' \subseteq Price BY <1>1, <1>6
  <2> QED BY <1>1, <1>7, <2>1 DEF ShopInv, BillingTypeOK
<1>9. PricesNumbered'
  <2> DEFINE f == [p \in prices |-> filed(p)]
  <2>1. \A p, q \in prices : f[p] = f[q] => p = q BY <1>6 DEF ShopInv, PricesNumbered
  <2>2. {f[p] : p \in prices} = prices' BY <1>1
  <2>3. IsFiniteSet(prices) BY DEF ShopInv, PricesNumbered
  <2>4. f \in [prices -> {f[p] : p \in prices}] OBVIOUS
  <2> HIDE DEF f
  <2>5. IsFiniteSet(prices') /\ Cardinality(prices') = Cardinality(prices)
    BY <2>1, <2>2, <2>3, <2>4, ImageCounts
  <2>6. \A p, q \in prices' : p.id = q.id => p = q BY <1>1, <1>6 DEF ShopInv, PricesNumbered
  <2>7. \A p \in prices' : p.id <= Cardinality(prices)
    BY <1>1, <1>6 DEF ShopInv, PricesNumbered
  <2> QED BY <2>5, <2>6, <2>7 DEF PricesNumbered
<1>10. KeysNameActive'
  <2>1. \A p, q \in prices' : p.key /\ q.key /\ p.cadence = q.cadence => p = q
    BY <1>1, <1>4, <1>6 DEF ShopInv, KeysNameActive
  <2>2. \A p \in prices' : p.key => p.active
    BY <1>1, <1>4, <1>6 DEF ShopInv, KeysNameActive
  <2>3. \A p \in prices' : p.active /\ ~p.key => p.id \in orphans'
    BY <1>1, <1>3, <1>6 DEF ShopInv, KeysNameActive
  <2> QED BY <2>1, <2>2, <2>3 DEF KeysNameActive
\* What has the key stays on sale.
<1>11. \A n, k : OnSale(n, k) => OnSale(n, k)'
  <2> SUFFICES ASSUME NEW n, NEW k, OnSale(n, k) PROVE OnSale(n, k)' OBVIOUS
  <2>1. PICK p \in prices : p.id = n /\ p.cadence = k /\ p.active /\ p.key /\ p.amount = catalog[k]
    BY DEF OnSale
  <2>2. filed(p) = p /\ p \in prices' BY <1>1, <1>4, <1>6, <2>1
  <2> QED BY <1>1, <2>1, <2>2 DEF OnSale
<1>12. RunKnows'
  <2>1. ASSUME NEW k \in Intervals, run.found[k] # Absent PROVE OnSale(run.found[k], k)'
    <3>1. PICK n : n = run.found[k] OBVIOUS
    <3>2. OnSale(n, k) /\ run'.found[k] = n BY <1>7, <2>1, <3>1 DEF ShopInv, RunKnows
    <3>3. OnSale(n, k)' BY <1>11, <3>2
    <3> QED BY <3>2, <3>3 DEF OnSale
  <2>2. \A k \in Intervals : (run.found[k] # Absent => OnSale(run.found[k], k))'
    BY <1>7, <2>1
  <2> QED BY <1>1, <1>4, <1>5, <1>7, <2>2 DEF RunKnows, Intervals
<1>13. ArchiveKnows' BY <1>5, <1>7 DEF ArchiveKnows
<1>14. OneOfEach' BY <1>1, <1>5, <1>7 DEF ShopInv, OneOfEach
<1>15. PrintedHolds'
  <2>1. ASSUME NEW k \in Intervals, OnSale(printed.prices[k], k)
        PROVE  OnSale(printed.prices[k], k)'
    <3>1. PICK n : n = printed.prices[k] OBVIOUS
    <3>2. OnSale(n, k) /\ printed'.prices[k] = n BY <1>1, <2>1, <3>1
    <3>3. OnSale(n, k)' BY <1>11, <3>2
    <3> QED BY <3>2, <3>3 DEF OnSale
  <2> QED BY <1>1, <2>1 DEF ShopInv, PrintedHolds
<1> QED BY <1>8, <1>9, <1>10, <1>12, <1>13, <1>14, <1>15 DEF ShopInv

LEMMA ShopStep ==
    ASSUME ShopInv, [BillingNext]_billingVars
    PROVE  ShopInv'
<1>1. CASE UNCHANGED billingVars
  <2>1. /\ UNCHANGED <<catalog, product, prices, portals, endpoints, run, printed, orphans, used>>
    BY <1>1 DEF billingVars, shop
  <2>2. BillingTypeOK' BY <2>1 DEF ShopInv, BillingTypeOK
  <2>3. PricesNumbered' BY <2>1 DEF ShopInv, PricesNumbered
  <2>4. KeysNameActive' BY <2>1 DEF ShopInv, KeysNameActive
  <2>5. RunKnows' BY <2>1, SameOnSale DEF ShopInv, RunKnows
  <2>6. ArchiveKnows' BY <2>1 DEF ShopInv, ArchiveKnows
  <2>7. OneOfEach' BY <2>1 DEF ShopInv, OneOfEach
  <2>8. PrintedHolds' BY <2>1, SameOnSale DEF ShopInv, PrintedHolds
  <2> QED BY <2>2, <2>3, <2>4, <2>5, <2>6, <2>7, <2>8 DEF ShopInv
<1>2. CASE BillingNext
  BY <1>2, StartBillingKeeps, EnsureProductKeeps, ReusePriceKeeps, DryPriceKeeps, CreatePriceKeeps,
     ArchivePriceKeeps, EnsurePortalKeeps, EndpointRequestKeeps, PrintKeeps, StopBillingKeeps,
     EditCatalogKeeps, StripeDisablesKeeps
     DEF BillingNext
<1> QED BY <1>1, <1>2

LEMMA ShopIsSetUp ==
    ASSUME ShopInv
    PROVE  ShopSetUp
<1>1. NothingTwice
  <2>1. \A c \in Intervals : Cardinality({p \in prices : p.cadence = c /\ p.key}) <= 1
    <3> SUFFICES ASSUME NEW c \in Intervals
                 PROVE  Cardinality({p \in prices : p.cadence = c /\ p.key}) <= 1
      OBVIOUS
    <3> DEFINE S == {p \in prices : p.cadence = c /\ p.key}
    <3>1. \A p, q \in S : p = q BY DEF ShopInv, KeysNameActive
    <3> HIDE DEF S
    <3>2. Cardinality(S) <= 1 BY <3>1, AtMostOne
    <3> QED BY <3>2 DEF S
  <2>2. Cardinality(portals) <= 1 /\ Cardinality(endpoints) <= 1
    BY AtMostOne DEF ShopInv, OneOfEach
  <2> QED BY <2>1, <2>2 DEF NothingTwice
<1>2. PublishedPriceSold
  <2> SUFFICES ASSUME \A c \in Intervals : printed.prices[c] # Absent,
                      printed.edits = used.edits, run.at = "idle"
               PROVE  /\ \A c \in Intervals : \E p \in prices :
                          p.id = printed.prices[c] /\ p.active /\ p.key /\ p.amount = catalog[c]
                      /\ \A p \in prices :
                          p.active /\ p.id # printed.prices[p.cadence] => p.id \in orphans
                      /\ {printed.prices[c] : c \in Intervals} \in portals
    BY DEF PublishedPriceSold
  <2>1. \A c \in Intervals : OnSale(printed.prices[c], c) BY DEF ShopInv, PrintedHolds
  <2>2. ASSUME NEW p \in prices, p.active, p.id # printed.prices[p.cadence]
        PROVE  p.id \in orphans
    <3>1. p.cadence \in Intervals BY DEF ShopInv, BillingTypeOK, Price
    <3>2. ~p.key BY <2>1, <2>2, <3>1 DEF ShopInv, KeysNameActive, OnSale
    <3> QED BY <2>2, <3>2 DEF ShopInv, KeysNameActive
  <2> QED BY <2>1, <2>2 DEF ShopInv, PrintedHolds, OnSale
<1> QED BY <1>1, <1>2 DEF ShopSetUp

-----------------------------------------------------------------------------
(* Mail                                                                    *)

LEMMA OffTyped ==
    Off \in [at : Stages, dry : BOOLEAN, merge : BOOLEAN, zone : SUBSET SpfRecord,
             records : SUBSET (ResendRecords \cup {"dmarc"}),
             key : Nat \cup {Nothing}, pushed : SUBSET Targets]
BY DEF Off, Stages

\* What the merged record says.
LEMMA MergedFacts ==
    ASSUME NEW found \in SUBSET SpfRecord
    PROVE  /\ Merged(found).senders \in SUBSET (Providers \cup {"resend"})
           /\ Merged(found).all \in {"~all", "-all"}
           /\ "resend" \in Merged(found).senders
           /\ \A r \in found : r.senders \subseteq Merged(found).senders
BY DEF Merged, MergeSpf, Resend, SpfRecord, SendersOf

LEMMA SafeIs ==
    ASSUME NEW provider
    PROVE  provider \in OutOfReach(zone) <=> Safe(provider)
BY DEF OutOfReach, SendersOf, Safe

LEMMA MaySendIs ==
    ASSUME NEW provider
    PROVE  provider \in SendersOf(zone) <=> MaySend(provider)
BY DEF SendersOf, MaySend

LEMMA MailStarts ==
    ASSUME EmailInit
    PROVE  MailInv
<1> USE DEF EmailInit
<1>1. EmailTypeOK
  <2>1. deployed \in [Targets -> Nat \cup {Nothing}] OBVIOUS
  <2>2. counts \in [panel : Nat, runs : Nat, keys : Nat] OBVIOUS
  <2> QED BY <2>1, <2>2, OffTyped DEF EmailTypeOK
<1>2. RecordsNumbered BY DEF RecordsNumbered, Off
<1>3. SendersKept BY DEF SendersKept, Off
<1>4. ZoneAsRead BY DEF ZoneAsRead
<1>5. ZoneAsWritten BY DEF ZoneAsWritten
<1>6. KeyInHand BY DEF KeyInHand, Off
<1>7. MailKeepsSending BY DEF MailKeepsSending
<1> QED BY <1>1, <1>2, <1>3, <1>4, <1>5, <1>6, <1>7 DEF MailInv

\* Types, action by action.
LEMMA MailTyped ==
    ASSUME MailInv, EmailNext
    PROVE  EmailTypeOK'
<1> USE DEF EmailTypeOK, dns, services, owners
<1>0. EmailTypeOK BY DEF MailInv
<1>1. ASSUME NEW dry \in BOOLEAN, NEW merge \in BOOLEAN, StartEmail(dry, merge) PROVE EmailTypeOK'
  <2>1. job' \in [at : Stages, dry : BOOLEAN, merge : BOOLEAN, zone : SUBSET SpfRecord,
                  records : SUBSET (ResendRecords \cup {"dmarc"}),
                  key : Nat \cup {Nothing}, pushed : SUBSET Targets]
    BY <1>1 DEF StartEmail, Off, Stages
  <2> QED BY <1>0, <1>1, <2>1 DEF StartEmail
<1>2. CASE EnsureResendDomain
  <2>1. job' = Off \/ job' = [job EXCEPT !.at = "read"] BY <1>2 DEF EnsureResendDomain
  <2> QED BY <1>0, <1>2, <2>1, OffTyped DEF EnsureResendDomain, Stages
<1>3. CASE ReadZone
  <2>1. \/ job' = Off
        \/ \E next \in {"records", "edit"} :
             job' = [job EXCEPT !.at = next, !.zone = zone, !.records = records]
    BY <1>3 DEF ReadZone
  <2>2. spf' \in {spf, "read"} BY <1>3 DEF ReadZone
  <2>3. UNCHANGED <<dns, services, meant, early, counts>> /\ raced' \subseteq raced
    BY <1>3 DEF ReadZone
  <2>4. EmailTypeOK /\ zone \in SUBSET SpfRecord /\ "records" \in Stages /\ "edit" \in Stages
    BY <1>0 DEF Stages
  <2>6. job \in [at : Stages, dry : BOOLEAN, merge : BOOLEAN, zone : SUBSET SpfRecord,
                 records : SUBSET (ResendRecords \cup {"dmarc"}),
                 key : Nat \cup {Nothing}, pushed : SUBSET Targets]
        /\ records \in SUBSET (ResendRecords \cup {"dmarc"})
    BY <1>0
  <2>5. job' \in [at : Stages, dry : BOOLEAN, merge : BOOLEAN, zone : SUBSET SpfRecord,
                  records : SUBSET (ResendRecords \cup {"dmarc"}),
                  key : Nat \cup {Nothing}, pushed : SUBSET Targets]
    <3>1. CASE job' = Off BY <3>1, OffTyped
    <3>2. ASSUME NEW next \in {"records", "edit"},
                 job' = [job EXCEPT !.at = next, !.zone = zone, !.records = records]
          PROVE  job' \in [at : Stages, dry : BOOLEAN, merge : BOOLEAN, zone : SUBSET SpfRecord,
                           records : SUBSET (ResendRecords \cup {"dmarc"}),
                           key : Nat \cup {Nothing}, pushed : SUBSET Targets]
      <4>1. next \in Stages BY <2>4
      <4>2. zone \in SUBSET SpfRecord BY <2>4
      <4> HIDE DEF EmailTypeOK, dns, services, owners
      <4> QED BY <2>6, <3>2, <4>1, <4>2
    <3> QED BY <2>1, <3>1, <3>2
  <2> QED BY <1>0, <2>2, <2>3, <2>5
<1>4. CASE EditSurvivor
  <2>1. PICK survivor \in job.zone :
          \/ /\ zone' = Without(survivor) \cup
                   {[id |-> survivor.id, senders |-> Merged(job.zone).senders,
                     all |-> Merged(job.zone).all]}
             /\ job' = [job EXCEPT !.at = "delete", !.zone = @ \ {survivor}]
          \/ job' = Off /\ zone' = zone
    BY <1>4, Zenon DEF EditSurvivor
  <2>2. zone' \subseteq SpfRecord
    <3>1. /\ Merged(job.zone).senders \in SUBSET (Providers \cup {"resend"})
          /\ Merged(job.zone).all \in {"~all", "-all"}
      BY <1>0, MergedFacts
    <3> QED BY <1>0, <2>1, <3>1 DEF SpfRecord, Without
  <2>3. job' \in [at : Stages, dry : BOOLEAN, merge : BOOLEAN, zone : SUBSET SpfRecord,
                  records : SUBSET (ResendRecords \cup {"dmarc"}),
                  key : Nat \cup {Nothing}, pushed : SUBSET Targets]
    <3>1. job \in [at : Stages, dry : BOOLEAN, merge : BOOLEAN, zone : SUBSET SpfRecord,
                   records : SUBSET (ResendRecords \cup {"dmarc"}),
                   key : Nat \cup {Nothing}, pushed : SUBSET Targets]
      BY <1>0
    <3>2. "delete" \in Stages BY DEF Stages
    <3>3. CASE job' = Off BY <3>3, OffTyped
    <3>4. CASE job' = [job EXCEPT !.at = "delete", !.zone = @ \ {survivor}]
      <4>1. job.zone \ {survivor} \in SUBSET SpfRecord BY <3>1
      <4>2. job' = [job EXCEPT !.at = "delete", !.zone = job.zone \ {survivor}] BY <3>1, <3>4
      <4> QED BY <3>1, <3>2, <4>1, <4>2
    <3> QED BY <2>1, <3>3, <3>4
  <2> QED BY <1>0, <1>4, <2>2, <2>3 DEF EditSurvivor
<1>5. CASE DeleteSurplus
  <2>1. \/ job' = [job EXCEPT !.at = "records"]
        \/ \E surplus \in job.zone : job' = [job EXCEPT !.zone = @ \ {surplus}]
        \/ job' = Off
    BY <1>5 DEF DeleteSurplus
  <2>2. job' \in [at : Stages, dry : BOOLEAN, merge : BOOLEAN, zone : SUBSET SpfRecord,
                  records : SUBSET (ResendRecords \cup {"dmarc"}),
                  key : Nat \cup {Nothing}, pushed : SUBSET Targets]
    BY <1>0, <2>1, OffTyped DEF Stages
  <2> QED BY <1>0, <1>5, <2>2 DEF DeleteSurplus, Without
<1>6. ASSUME NEW record \in ResendRecords, CreateRecord(record) PROVE EmailTypeOK'
  BY <1>0, <1>6 DEF CreateRecord, Creates
<1>7. CASE EnsureDmarc BY <1>0, <1>7 DEF EnsureDmarc, Stages
<1>8. CASE WaitForVerification
  <2>1. job' = Off \/ job' = [job EXCEPT !.at = "mint"] BY <1>8 DEF WaitForVerification
  <2> QED BY <1>0, <1>8, <2>1, OffTyped DEF WaitForVerification, Stages
<1>9. CASE CreateSendKey
  <2>1. CASE job.dry BY <1>0, <1>9, <2>1 DEF CreateSendKey, Stages
  <2>2. CASE ~job.dry
    <3>1. counts.keys + 1 \in Nat BY <1>0
    <3>2. keys' \subseteq Nat BY <1>0, <1>9, <2>2, <3>1 DEF CreateSendKey
    <3>3. counts' \in [panel : Nat, runs : Nat, keys : Nat]
      BY <1>0, <1>9, <2>2, <3>1 DEF CreateSendKey
    <3>4. job' = [job EXCEPT !.at = "smtp", !.key = counts.keys + 1]
      BY <1>9, <2>2 DEF CreateSendKey
    <3>5. "smtp" \in Stages BY DEF Stages
    <3>6. job' \in [at : Stages, dry : BOOLEAN, merge : BOOLEAN, zone : SUBSET SpfRecord,
                    records : SUBSET (ResendRecords \cup {"dmarc"}),
                    key : Nat \cup {Nothing}, pushed : SUBSET Targets]
      BY <1>0, <3>1, <3>4, <3>5
    <3> QED BY <1>0, <1>9, <3>2, <3>3, <3>6 DEF CreateSendKey
  <2> QED BY <2>1, <2>2
<1>10. CASE ConfigureSupabaseSmtp BY <1>0, <1>10 DEF ConfigureSupabaseSmtp, Stages
<1>11. ASSUME NEW target \in Targets, PushVercelEnv(target) PROVE EmailTypeOK'
  BY <1>0, <1>11 DEF PushVercelEnv
<1>12. CASE FinishEmail \/ StopEmail BY <1>0, <1>12, OffTyped DEF FinishEmail, StopEmail
<1>13. ASSUME NEW provider \in Providers, NEW all \in {"~all", "-all"}, WizardAdds(provider, all)
       PROVE  EmailTypeOK'
  BY <1>0, <1>13 DEF WizardAdds, InThePanel, SpfRecord
<1>14. CASE RevokeOldKeys BY <1>0, <1>14 DEF RevokeOldKeys
<1>15. ASSUME NEW r \in zone, RecordDeleted(r) PROVE EmailTypeOK'
  BY <1>0, <1>15 DEF RecordDeleted, InThePanel
<1>16. ASSUME NEW r \in zone, NEW provider \in Providers, WizardEdits(provider, r)
       PROVE  EmailTypeOK'
  BY <1>0, <1>16 DEF WizardEdits, InThePanel, SpfRecord
<1> QED BY <1>1, <1>2, <1>3, <1>4, <1>5, <1>6, <1>7, <1>8, <1>9, <1>10, <1>11, <1>12, <1>13, <1>14,
           <1>15, <1>16
       DEF EmailNext

\* A step of the run that leaves the zone alone and is not in the middle of it.
LEMMA OtherStageKeeps ==
    ASSUME MailInv, EmailTypeOK', UNCHANGED <<zone, spf, meant, raced>>,
           counts'.panel = counts.panel, job'.zone \subseteq job.zone,
           job'.at \notin {"edit", "delete"},
           spf = "read" /\ ~job'.dry /\ job'.at = "records" => job.at = "records" /\ ~job.dry,
           KeyInHand', MailKeepsSending'
    PROVE  MailInv'
<1>1. RecordsNumbered' BY DEF MailInv, RecordsNumbered
<1>2. SendersKept' BY DEF MailInv, SendersKept, MaySend, Safe
<1>3. ZoneAsRead' BY DEF MailInv, ZoneAsRead
<1>4. ZoneAsWritten' BY DEF MailInv, ZoneAsWritten
<1> QED BY <1>1, <1>2, <1>3, <1>4 DEF MailInv

\* What a run begins with, and what its beginning leaves alone.
LEMMA StartsAfresh ==
    ASSUME EmailTypeOK, NEW dry, NEW merge, StartEmail(dry, merge)
    PROVE  /\ job'.at = "domain" /\ job'.zone = {}
           /\ counts'.panel = counts.panel /\ counts'.keys = counts.keys
           /\ UNCHANGED <<zone, domain, keys, smtp, meant, raced, early, spf>>
<1>1. job' = [Off EXCEPT !.at = "domain", !.dry = dry, !.merge = merge] BY Zenon DEF StartEmail
<1>2. job'.at = "domain" /\ job'.zone = {} BY <1>1 DEF Off
<1>3. counts \in [panel : Nat, runs : Nat, keys : Nat] BY DEF EmailTypeOK
<1>4. counts' = [counts EXCEPT !.runs = @ + 1] BY Zenon DEF StartEmail
<1>5. counts'.panel = counts.panel /\ counts'.keys = counts.keys BY <1>3, <1>4
<1>6. UNCHANGED <<zone, domain, keys, smtp, meant, raced, early, spf>>
  BY Zenon DEF StartEmail, dns, services, owners
<1> QED BY <1>2, <1>5, <1>6

LEMMA StagesKeep ==
    ASSUME MailInv, EmailTypeOK',
           \/ \E dry, merge \in BOOLEAN : StartEmail(dry, merge)
           \/ EnsureResendDomain
           \/ \E record \in ResendRecords : CreateRecord(record)
           \/ WaitForVerification
           \/ CreateSendKey
           \/ ConfigureSupabaseSmtp
           \/ \E target \in Targets : PushVercelEnv(target)
           \/ FinishEmail
           \/ StopEmail
    PROVE  MailInv'
<1> DEFINE Step ==
      /\ UNCHANGED <<zone, spf, meant, raced>> /\ counts'.panel = counts.panel
      /\ job'.zone \subseteq job.zone /\ job'.at \notin {"edit", "delete"}
      /\ ~job'.dry /\ job'.at = "records" => job.at = "records" /\ ~job.dry
      /\ KeyInHand' /\ MailKeepsSending'
<1> USE DEF dns, services, owners, Off
<1>0. EmailTypeOK /\ KeyInHand /\ MailKeepsSending BY DEF MailInv
<1>1. ASSUME NEW dry \in BOOLEAN, NEW merge \in BOOLEAN, StartEmail(dry, merge) PROVE Step
  <2>1. /\ job'.at = "domain" /\ job'.zone = {} /\ counts'.panel = counts.panel
        /\ counts'.keys = counts.keys
        /\ UNCHANGED <<zone, domain, keys, smtp, meant, raced, early, spf>>
    BY <1>0, <1>1, StartsAfresh
  <2>2. KeyInHand' BY <1>0, <2>1 DEF KeyInHand
  <2>3. MailKeepsSending' BY <1>0, <2>1 DEF MailKeepsSending
  <2> QED BY <2>1, <2>2, <2>3
<1>2. ASSUME EnsureResendDomain PROVE Step
  BY <1>0, <1>2 DEF EnsureResendDomain, EmailTypeOK, KeyInHand, MailKeepsSending
<1>3. ASSUME NEW record \in ResendRecords, CreateRecord(record) PROVE Step
  BY <1>0, <1>3 DEF CreateRecord, EmailTypeOK, KeyInHand, MailKeepsSending
<1>4. ASSUME WaitForVerification PROVE Step
  BY <1>0, <1>4 DEF WaitForVerification, Verified, EmailTypeOK, KeyInHand, MailKeepsSending
<1>5. ASSUME CreateSendKey PROVE Step
  <2>1. CASE job.dry
    BY <1>0, <1>5, <2>1 DEF CreateSendKey, EmailTypeOK, KeyInHand, MailKeepsSending
  <2>2. CASE ~job.dry
    <3>1. PICK k \in Nat : k = counts.keys BY <1>0 DEF EmailTypeOK
    <3>2. /\ keys' = keys \cup {k + 1} /\ counts'.keys = k + 1 /\ counts'.panel = counts.panel
          /\ job'.at = "smtp" /\ job'.key = k + 1 /\ job'.dry = job.dry /\ job'.zone = job.zone
      <4>1. /\ keys' = keys \cup {k + 1} /\ counts' = [counts EXCEPT !.keys = k + 1]
            /\ job' = [job EXCEPT !.at = "smtp", !.key = k + 1]
        BY <1>5, <2>2, <3>1 DEF CreateSendKey
      <4>2. /\ counts \in [panel : Nat, runs : Nat, keys : Nat]
            /\ job \in [at : Stages, dry : BOOLEAN, merge : BOOLEAN, zone : SUBSET SpfRecord,
                        records : SUBSET (ResendRecords \cup {"dmarc"}),
                        key : Nat \cup {Nothing}, pushed : SUBSET Targets]
        BY <1>0 DEF EmailTypeOK
      <4> QED BY <4>1, <4>2
    <3>3. UNCHANGED <<zone, spf, meant, raced, early, domain, smtp>> /\ job.at = "mint"
      BY <1>5 DEF CreateSendKey
    <3>4. KeyInHand'
      <4>1. \A n \in keys' : n \in Nat /\ n <= k + 1
        BY <1>0, <3>1, <3>2 DEF KeyInHand, EmailTypeOK
      <4>2. domain' = "verified" BY <1>0, <2>2, <3>3 DEF KeyInHand
      <4> QED BY <3>2, <4>1, <4>2 DEF KeyInHand
    <3>5. MailKeepsSending' BY <1>0, <3>2, <3>3 DEF MailKeepsSending
    <3> QED BY <3>2, <3>3, <3>4, <3>5
  <2> QED BY <2>1, <2>2
<1>6. ASSUME ConfigureSupabaseSmtp PROVE Step
  BY <1>0, <1>6 DEF ConfigureSupabaseSmtp, EmailTypeOK, KeyInHand, MailKeepsSending
<1>7. ASSUME NEW target \in Targets, PushVercelEnv(target) PROVE Step
  BY <1>0, <1>7 DEF PushVercelEnv, EmailTypeOK, KeyInHand, MailKeepsSending
<1>8. ASSUME FinishEmail \/ StopEmail PROVE Step
  BY <1>0, <1>8 DEF FinishEmail, StopEmail, EmailTypeOK, KeyInHand, MailKeepsSending
<1>10. Step BY <1>1, <1>2, <1>3, <1>4, <1>5, <1>6, <1>7, <1>8
<1> QED BY <1>10, OtherStageKeeps

LEMMA RevokeOldKeysKeeps ==
    ASSUME MailInv, EmailTypeOK', RevokeOldKeys
    PROVE  MailInv'
<1>1. /\ keys' = keys \cap {counts.keys}
      /\ early' = (early \/ smtp \in keys \ {counts.keys})
      /\ UNCHANGED <<zone, domain, smtp, job, meant, raced, spf, counts>>
  BY DEF RevokeOldKeys, dns
<1>2. KeyInHand' BY <1>1 DEF MailInv, KeyInHand
<1>3. MailKeepsSending' BY <1>1 DEF MailInv, MailKeepsSending
<1>4. RecordsNumbered' BY <1>1 DEF MailInv, RecordsNumbered
<1>5. SendersKept' BY <1>1 DEF MailInv, SendersKept, MaySend, Safe
<1>6. ZoneAsRead' /\ ZoneAsWritten' BY <1>1 DEF MailInv, ZoneAsRead, ZoneAsWritten
<1> QED BY <1>2, <1>3, <1>4, <1>5, <1>6 DEF MailInv

LEMMA ReadZoneKeeps ==
    ASSUME MailInv, EmailTypeOK', ReadZone
    PROVE  MailInv'
<1>1. /\ UNCHANGED <<dns, services, meant, early, counts>> /\ job.at = "read"
      /\ raced' = raced \ SendersOf(zone)
  BY DEF ReadZone
<1>2. \/ job' = Off /\ spf' = spf
      \/ /\ job' = [job EXCEPT !.at = "records", !.zone = zone, !.records = records]
         /\ job.dry \/ zone = {} \/ AlreadyMerged(zone)
         /\ spf' = IF job.dry THEN spf ELSE "read"
      \/ /\ job' = [job EXCEPT !.at = "edit", !.zone = zone, !.records = records]
         /\ ~job.dry /\ zone # {} /\ spf' = "read"
  BY DEF ReadZone
<1>3. AlreadyMerged(zone) => (\A r, s \in zone : r = s) /\ \A r \in zone : "resend" \in r.senders
  <2>1. "resend" \in Merged(zone).senders BY MergedFacts DEF MailInv, EmailTypeOK
  <2> QED BY <2>1 DEF AlreadyMerged, Content
<1>4. /\ zone' = zone /\ meant' = meant /\ counts' = counts /\ keys' = keys /\ domain' = domain
      /\ smtp' = smtp /\ early' = early
  BY <1>1 DEF dns, services
<1>5. \/ job'.at = "idle" /\ ~job'.dry /\ spf' = spf /\ job'.zone = {}
      \/ /\ job'.at = "records" /\ job'.dry = job.dry /\ job'.zone = zone
         /\ job.dry \/ zone = {} \/ AlreadyMerged(zone)
         /\ spf' = IF job.dry THEN spf ELSE "read"
      \/ /\ job'.at = "edit" /\ job'.zone = zone /\ ~job'.dry
         /\ zone # {} /\ spf' = "read"
  <2>1. job \in [at : Stages, dry : BOOLEAN, merge : BOOLEAN, zone : SUBSET SpfRecord,
                records : SUBSET (ResendRecords \cup {"dmarc"}),
                key : Nat \cup {Nothing}, pushed : SUBSET Targets]
    BY DEF MailInv, EmailTypeOK
  <2>2. CASE job' = Off /\ spf' = spf BY <2>2 DEF Off
  <2>3. CASE job' = [job EXCEPT !.at = "records", !.zone = zone, !.records = records]
    BY <1>2, <2>1, <2>3 DEF Off
  <2>4. CASE job' = [job EXCEPT !.at = "edit", !.zone = zone, !.records = records]
    BY <1>2, <2>1, <2>4 DEF Off
  <2> QED BY <1>2, <2>2, <2>3, <2>4
<1>6. RecordsNumbered' BY <1>4, <1>5 DEF MailInv, RecordsNumbered
<1>7. SendersKept'
  <2>1. ASSUME NEW provider \in meant', provider \notin raced' PROVE MaySend(provider)
    <3>1. provider \in meant /\ (provider \notin raced \/ provider \in SendersOf(zone))
      BY <1>1, <1>4, <2>1
    <3> QED BY <3>1, MaySendIs DEF MailInv, SendersKept
  <2>2. \A provider : MaySend(provider) => MaySend(provider)' /\ Safe(provider)'
    BY <1>4, <1>5 DEF MaySend, Safe
  <2>3. job'.at \in {"edit", "delete"} => ~job'.dry BY <1>5
  <2>4. job'.at = "edit" =>
          \A q \in job'.zone : \A provider \in meant' \cap q.senders : MaySend(provider)'
    BY <1>4, <1>5 DEF MaySend
  <2> QED BY <2>1, <2>2, <2>3, <2>4 DEF SendersKept
<1>8. ZoneAsRead' BY <1>3, <1>4, <1>5 DEF ZoneAsRead
<1>9. ZoneAsWritten' BY <1>4, <1>5 DEF MailInv, ZoneAsWritten
<1>10. KeyInHand' BY <1>4, <1>5 DEF MailInv, KeyInHand
<1>11. MailKeepsSending' BY <1>4 DEF MailInv, MailKeepsSending
<1> QED BY <1>6, <1>7, <1>8, <1>9, <1>10, <1>11 DEF MailInv

\* A request that fails ends the run, and changes nothing.
LEMMA GivenUpKeeps ==
    ASSUME MailInv, EmailTypeOK', job' = Off, job.at \in {"edit", "delete"},
           UNCHANGED <<zone, domain, keys, smtp, meant, raced, early, spf, counts>>
    PROVE  MailInv'
<1>1. job'.at = "idle" /\ job'.zone = {} /\ ~job'.dry BY DEF Off
<1>2. RecordsNumbered' BY <1>1 DEF MailInv, RecordsNumbered
<1>3. SendersKept'
  <2>1. \A provider : MaySend(provider) => MaySend(provider)' /\ Safe(provider)'
    BY <1>1 DEF MaySend, Safe
  <2> QED BY <1>1, <2>1 DEF MailInv, SendersKept
<1>4. ZoneAsRead' /\ ZoneAsWritten' BY <1>1 DEF MailInv, ZoneAsRead, ZoneAsWritten
<1>5. KeyInHand' /\ MailKeepsSending' BY <1>1 DEF MailInv, KeyInHand, MailKeepsSending
<1> QED BY <1>2, <1>3, <1>4, <1>5 DEF MailInv

LEMMA EditSurvivorKeeps ==
    ASSUME MailInv, EmailTypeOK', EditSurvivor
    PROVE  MailInv'
<1>1. /\ job.at = "edit" /\ ~job.dry
      /\ UNCHANGED <<domain, keys, smtp, meant, raced, early, spf, counts>>
  BY DEF EditSurvivor, MailInv, SendersKept, services, owners
<1>2. PICK survivor \in job.zone :
        \/ /\ Listed(survivor.id)
           /\ zone' = Without(survivor) \cup
                {[id |-> survivor.id, senders |-> Merged(job.zone).senders,
                  all |-> Merged(job.zone).all]}
           /\ job' = [job EXCEPT !.at = "delete", !.zone = @ \ {survivor}]
        \/ job' = Off /\ zone' = zone
  BY Zenon DEF EditSurvivor
<1>3. CASE job' = Off /\ zone' = zone BY <1>1, <1>3, GivenUpKeeps
<1>4. CASE /\ Listed(survivor.id)
           /\ zone' = Without(survivor) \cup
                {[id |-> survivor.id, senders |-> Merged(job.zone).senders,
                  all |-> Merged(job.zone).all]}
           /\ job' = [job EXCEPT !.at = "delete", !.zone = @ \ {survivor}]
  <2>1. PICK m : m = [id |-> survivor.id, senders |-> Merged(job.zone).senders,
                      all |-> Merged(job.zone).all]
    OBVIOUS
  <2>2. zone' = Without(survivor) \cup {m} BY <1>4, <2>1
  <2>3. /\ m.id = survivor.id /\ "resend" \in m.senders
        /\ \A r \in job.zone : r.senders \subseteq m.senders
    <3>1. job.zone \in SUBSET SpfRecord BY DEF MailInv, EmailTypeOK
    <3> QED BY <2>1, <3>1, MergedFacts
  <2>4. job'.at = "delete" /\ job'.zone = job.zone \ {survivor} /\ job'.dry = job.dry
    BY <1>4 DEF MailInv, EmailTypeOK
  <2>5. \A q \in job'.zone : q.id # m.id
    BY <2>3, <2>4, <1>2 DEF MailInv, RecordsNumbered
  <2>6. RecordsNumbered'
    <3>1. PICK old \in zone : old.id = survivor.id BY <1>4 DEF Listed
    <3>2. \A r \in Without(survivor) : r \in zone /\ r.id # m.id BY <2>3 DEF Without
    <3>3. m.id <= counts.panel BY <2>3, <3>1 DEF MailInv, RecordsNumbered
    <3> QED BY <1>1, <2>2, <2>4, <3>2, <3>3 DEF MailInv, RecordsNumbered
  <2>7. ASSUME NEW provider \in meant \ raced
        PROVE  \E r \in zone' : provider \in r.senders /\ \A q \in job'.zone : q.id # r.id
    <3>1. Safe(provider) BY DEF MailInv, SendersKept
    <3>2. CASE \E q \in job.zone : provider \in q.senders BY <2>2, <2>3, <2>5, <3>2
    <3>3. CASE \E r \in zone : provider \in r.senders /\ \A q \in job.zone : q.id # r.id
      BY <1>2, <2>2, <2>4, <3>3 DEF Without
    <3> QED BY <1>1, <3>1, <3>2, <3>3 DEF Safe
  <2>8. SendersKept'
    <3>1. \A provider \in meant' \ raced' : MaySend(provider)' /\ Safe(provider)'
      BY <1>1, <2>4, <2>7 DEF MaySend, Safe
    <3> QED BY <1>1, <2>4, <3>1 DEF SendersKept
  <2>9. ZoneAsRead'
    <3>1. ASSUME spf = "read" PROVE zone' = job'.zone \cup {m}
      <4>1. zone = job.zone BY <1>1, <3>1 DEF MailInv, ZoneAsRead
      <4>2. Without(survivor) = zone \ {survivor}
        BY <1>2, <4>1 DEF Without, MailInv, RecordsNumbered
      <4> QED BY <2>2, <2>4, <4>1, <4>2
    <3>2. m \notin job'.zone BY <2>5
    <3> QED BY <1>1, <2>2, <2>3, <2>4, <3>1, <3>2 DEF ZoneAsRead
  <2>10. ZoneAsWritten' BY <1>1 DEF MailInv, ZoneAsWritten
  <2>11. KeyInHand' /\ MailKeepsSending'
    BY <1>1, <2>4 DEF MailInv, KeyInHand, MailKeepsSending
  <2> QED BY <2>6, <2>8, <2>9, <2>10, <2>11 DEF MailInv
<1> QED BY <1>2, <1>3, <1>4

LEMMA DeleteSurplusKeeps ==
    ASSUME MailInv, EmailTypeOK', DeleteSurplus
    PROVE  MailInv'
<1>1. /\ job.at = "delete" /\ ~job.dry
      /\ UNCHANGED <<domain, keys, smtp, meant, raced, early, spf, counts>>
  BY DEF DeleteSurplus, MailInv, SendersKept, services, owners
<1>2. CASE job.zone = {} /\ job' = [job EXCEPT !.at = "records"] /\ UNCHANGED zone
  <2>1. job'.at = "records" /\ job'.dry = job.dry /\ job'.zone = {}
    BY <1>2 DEF MailInv, EmailTypeOK
  <2>2. RecordsNumbered' BY <1>1, <1>2, <2>1 DEF MailInv, RecordsNumbered
  <2>3. SendersKept'
    <3>1. \A provider : MaySend(provider) => MaySend(provider)' /\ Safe(provider)'
      BY <1>2, <2>1 DEF MaySend, Safe
    <3> QED BY <1>1, <2>1, <3>1 DEF MailInv, SendersKept
  <2>4. ZoneAsRead' BY <1>1, <1>2, <2>1 DEF MailInv, ZoneAsRead
  <2>5. KeyInHand' /\ MailKeepsSending' /\ ZoneAsWritten'
    BY <1>1, <2>1 DEF MailInv, KeyInHand, MailKeepsSending, ZoneAsWritten
  <2> QED BY <2>2, <2>3, <2>4, <2>5 DEF MailInv
<1>3. ASSUME NEW surplus \in job.zone, zone' = Without(surplus), ~Listed(surplus.id), job' = Off
      PROVE  MailInv'
  <2>1. zone' = zone BY <1>3 DEF Without, Listed
  <2> QED BY <1>1, <1>3, <2>1, GivenUpKeeps
<1>4. ASSUME NEW surplus \in job.zone, zone' = Without(surplus),
             job' = [job EXCEPT !.zone = @ \ {surplus}]
      PROVE  MailInv'
  <2>1. job'.at = "delete" /\ job'.zone = job.zone \ {surplus} /\ job'.dry = job.dry
    BY <1>1, <1>4 DEF MailInv, EmailTypeOK
  <2>2. \A r : r \in zone' <=> r \in zone /\ r.id # surplus.id BY <1>4 DEF Without
  <2>3. RecordsNumbered' BY <1>1, <2>1, <2>2 DEF MailInv, RecordsNumbered
  <2>4. SendersKept'
    <3>1. \A provider : job.at = "delete" /\ Safe(provider) => MaySend(provider)' /\ Safe(provider)'
      BY <1>4, <2>1, <2>2 DEF MaySend, Safe
    <3> QED BY <1>1, <2>1, <3>1 DEF MailInv, SendersKept
  <2>5. ZoneAsRead'
    <3>1. ASSUME spf = "read"
          PROVE \E r \in zone' \ job'.zone : zone' = job'.zone \cup {r} /\ "resend" \in r.senders
      <4>1. PICK r \in zone \ job.zone : zone = job.zone \cup {r} /\ "resend" \in r.senders
        BY <1>1, <3>1 DEF MailInv, ZoneAsRead
      <4>2. zone' = zone \ {surplus} BY <1>4, <2>2, <4>1 DEF MailInv, RecordsNumbered
      <4> QED BY <1>4, <2>1, <4>1, <4>2
    <3> QED BY <1>1, <2>1, <3>1 DEF ZoneAsRead
  <2>6. KeyInHand' /\ MailKeepsSending' /\ ZoneAsWritten'
    BY <1>1, <2>1 DEF MailInv, KeyInHand, MailKeepsSending, ZoneAsWritten
  <2> QED BY <2>3, <2>4, <2>5, <2>6 DEF MailInv
<1> QED BY <1>2, <1>3, <1>4 DEF DeleteSurplus

LEMMA EnsureDmarcKeeps ==
    ASSUME MailInv, EmailTypeOK', EnsureDmarc
    PROVE  MailInv'
<1>1. /\ UNCHANGED <<zone, services, owners, counts>> /\ job.at = "records"
      /\ job'.at \in {"mint", "verify"} /\ job'.dry = job.dry /\ (job'.at = "mint" => job.dry)
      /\ job'.zone = job.zone
      /\ spf' = IF spf = "read" /\ ~job.dry THEN "written" ELSE spf
  BY DEF EnsureDmarc, MailInv, EmailTypeOK
<1>2. RecordsNumbered' BY <1>1 DEF MailInv, RecordsNumbered
<1>3. SendersKept' BY <1>1 DEF MailInv, SendersKept, MaySend, Safe, owners
<1>4. ZoneAsRead' BY <1>1 DEF ZoneAsRead
<1>5. ZoneAsWritten' BY <1>1 DEF MailInv, ZoneAsRead, ZoneAsWritten
<1>6. KeyInHand' /\ MailKeepsSending'
  BY <1>1 DEF MailInv, KeyInHand, MailKeepsSending, services, owners
<1> QED BY <1>2, <1>3, <1>4, <1>5, <1>6 DEF MailInv

\* Whatever is done in the panel, who comes within reach of the run is `raced`.
LEMMA PanelKeeps ==
    ASSUME MailInv, EmailTypeOK', NEW found, InThePanel(found),
           \A r \in found : r.id <= counts.panel + 1,
           \A r, s \in found : r.id = s.id => r = s,
           \A provider \in meant' :
             \/ \E r \in found : provider \in r.senders
             \/ provider \in meant /\ ~MaySend(provider)
    PROVE  MailInv'
<1>1. /\ zone' = found /\ raced' = meant' \ OutOfReach(found) /\ spf' = "touched"
      /\ UNCHANGED <<domain, keys, smtp, early, job>>
      /\ counts'.panel = counts.panel + 1 /\ counts'.keys = counts.keys
  BY DEF InThePanel, services, MailInv, EmailTypeOK
<1>2. RecordsNumbered' BY <1>1 DEF MailInv, RecordsNumbered
<1>3. \A provider : provider \in OutOfReach(found) <=> Safe(provider)'
  BY <1>1 DEF OutOfReach, SendersOf, Safe
<1>4. \A provider : (\E r \in found : provider \in r.senders) <=> MaySend(provider)'
  BY <1>1 DEF MaySend
<1>5. ASSUME NEW provider \in meant, ~MaySend(provider), job.at = "edit", NEW q \in job.zone
      PROVE  provider \notin q.senders
  BY <1>5 DEF MailInv, SendersKept
<1>6. ASSUME NEW provider \in meant' \ raced' PROVE MaySend(provider)' /\ Safe(provider)'
  <2>1. Safe(provider)' BY <1>1, <1>3, <1>6
  <2>2. CASE provider \in meant /\ ~MaySend(provider)
    BY <1>1, <1>5, <2>1, <2>2 DEF Safe, MaySend
  <2> QED BY <1>4, <2>1, <2>2
<1>7. ASSUME job.at = "edit", NEW q \in job.zone, NEW provider \in meant' \cap q.senders
      PROVE  MaySend(provider)'
  BY <1>4, <1>5, <1>7
<1>8. SendersKept'
  <2>1. job'.at \in {"edit", "delete"} => ~job'.dry BY <1>1 DEF MailInv, SendersKept
  <2> QED BY <1>1, <1>6, <1>7, <2>1 DEF SendersKept
<1>9. ZoneAsRead' /\ ZoneAsWritten' BY <1>1 DEF ZoneAsRead, ZoneAsWritten
<1>10. KeyInHand' /\ MailKeepsSending' BY <1>1 DEF MailInv, KeyInHand, MailKeepsSending
<1> QED BY <1>2, <1>8, <1>9, <1>10 DEF MailInv

LEMMA PanelStepKeeps ==
    ASSUME MailInv, EmailTypeOK',
           \/ \E provider \in Providers, all \in {"~all", "-all"} : WizardAdds(provider, all)
           \/ \E r \in zone : RecordDeleted(r) \/ \E provider \in Providers : WizardEdits(provider, r)
    PROVE  MailInv'
<1>0. /\ \A r \in zone : r.id \in Nat /\ r.id <= counts.panel
      /\ \A r, s \in zone : r.id = s.id => r = s
      /\ counts.panel \in Nat
  BY DEF MailInv, RecordsNumbered, EmailTypeOK, SpfRecord
<1>1. ASSUME NEW provider \in Providers, NEW all \in {"~all", "-all"}, WizardAdds(provider, all)
      PROVE  MailInv'
  <2>1. PICK r : r = [id |-> counts.panel + 1, senders |-> {provider}, all |-> all] OBVIOUS
  <2>2. r.id = counts.panel + 1 /\ provider \in r.senders BY <2>1
  <2>3. InThePanel(zone \cup {r}) /\ meant' = meant \cup {provider} BY <1>1, <2>1 DEF WizardAdds
  <2>4. \A s \in zone \cup {r} : s.id <= counts.panel + 1 BY <1>0, <2>2
  <2>5. \A s, u \in zone \cup {r} : s.id = u.id => s = u BY <1>0, <2>2
  <2>6. \A p \in meant' : (\E s \in zone \cup {r} : p \in s.senders) \/ (p \in meant /\ ~MaySend(p))
    BY <2>2, <2>3 DEF MaySend
  <2> QED BY <2>3, <2>4, <2>5, <2>6, PanelKeeps
<1>2. ASSUME NEW r \in zone, RecordDeleted(r) PROVE MailInv'
  <2>1. InThePanel(zone \ {r}) /\ meant' = meant \ (r.senders \ SendersOf(zone \ {r}))
    BY <1>2 DEF RecordDeleted
  <2>2. \A p \in meant' : (\E s \in zone \ {r} : p \in s.senders) \/ (p \in meant /\ ~MaySend(p))
    BY <2>1 DEF MaySend, SendersOf
  <2>3. \A s \in zone \ {r} : s.id <= counts.panel + 1 BY <1>0
  <2>4. \A s, u \in zone \ {r} : s.id = u.id => s = u BY <1>0
  <2> QED BY <2>1, <2>2, <2>3, <2>4, PanelKeeps
<1>3. ASSUME NEW r \in zone, NEW provider \in Providers, WizardEdits(provider, r) PROVE MailInv'
  <2>1. PICK n : n = [r EXCEPT !.senders = @ \cup {provider}] OBVIOUS
  <2>2. n.id = r.id /\ n.senders = r.senders \cup {provider}
    BY <2>1 DEF MailInv, EmailTypeOK, SpfRecord
  <2>3. InThePanel((zone \ {r}) \cup {n}) /\ meant' = meant \cup {provider}
    BY <1>3, <2>1 DEF WizardEdits
  <2>4. \A s \in (zone \ {r}) \cup {n} : s.id <= counts.panel + 1 BY <1>0, <2>2
  <2>5. \A s, u \in (zone \ {r}) \cup {n} : s.id = u.id => s = u BY <1>0, <2>2
  <2>6. \A p \in meant' :
          (\E s \in (zone \ {r}) \cup {n} : p \in s.senders) \/ (p \in meant /\ ~MaySend(p))
    BY <2>2, <2>3 DEF MaySend
  <2> QED BY <2>3, <2>4, <2>5, <2>6, PanelKeeps
<1> QED BY <1>1, <1>2, <1>3

LEMMA MailStep ==
    ASSUME MailInv, [EmailNext]_emailVars
    PROVE  MailInv'
<1>1. CASE UNCHANGED emailVars
  <2>1. UNCHANGED <<zone, records, domain, keys, smtp, deployed, job, meant, raced, early, spf, counts>>
    BY <1>1 DEF emailVars, dns, services, owners
  <2>2. EmailTypeOK' BY <2>1 DEF MailInv, EmailTypeOK
  <2>3. KeyInHand' /\ MailKeepsSending' BY <2>1 DEF MailInv, KeyInHand, MailKeepsSending
  <2>4. RecordsNumbered' /\ SendersKept' /\ ZoneAsRead' /\ ZoneAsWritten'
    BY <2>1 DEF MailInv, RecordsNumbered, SendersKept, MaySend, Safe, ZoneAsRead, ZoneAsWritten
  <2> QED BY <2>2, <2>3, <2>4 DEF MailInv
<1>2. CASE EmailNext
  BY <1>2, MailTyped, StagesKeep, ReadZoneKeeps, EditSurvivorKeeps, DeleteSurplusKeeps,
     EnsureDmarcKeeps, PanelStepKeeps, RevokeOldKeysKeeps DEF EmailNext
<1> QED BY <1>1, <1>2

LEMMA MailIsSetUp ==
    ASSUME MailInv
    PROVE  MailSetUp
<1>1. NoSenderLost /\ MailKeepsSending BY MaySendIs DEF MailInv, SendersKept, NoSenderLost
<1>2. OneSpfRecord BY AtMostOne DEF MailInv, ZoneAsWritten, OneSpfRecord
<1> QED BY <1>1, <1>2 DEF MailSetUp

-----------------------------------------------------------------------------
(* Either command                                                          *)

LEMMA SetupHolds == SetupSpec => []SetupInv
<1>1. SetupInit => SetupInv BY ShopStarts, MailStarts DEF SetupInit, SetupInv
<1>2. SetupInv /\ [SetupNext]_setupVars => SetupInv'
  <2> SUFFICES ASSUME SetupInv, [SetupNext]_setupVars PROVE SetupInv' OBVIOUS
  <2>1. [BillingNext]_billingVars /\ [EmailNext]_emailVars BY DEF SetupNext, setupVars
  <2> QED BY <2>1, ShopStep, MailStep DEF SetupInv
<1> QED BY <1>1, <1>2, PTL DEF SetupSpec

\* The two commands and what they write to have the types declared.
THEOREM SetupTypeCorrect == SetupSpec => []SetupOK
<1>1. SetupInv => SetupOK BY DEF SetupInv, ShopInv, MailInv, SetupOK
<1> QED BY <1>1, SetupHolds, PTL

\* Wherever the Stripe command dies and however often it is run again over a
\* plans.ts that changes: nothing is made twice, and a run that ends has the
\* published price on sale and no other, but for those a run died over.
THEOREM ShopAlwaysSetUp == SetupSpec => []ShopSetUp
<1>1. SetupInv => ShopSetUp BY ShopIsSetUp DEF SetupInv
<1> QED BY <1>1, SetupHolds, PTL

\* Wherever the mail command dies, whatever records another tab adds, edits or
\* deletes behind its back: nobody who may send is dropped, but who was added to a
\* record the run then wrote over or deleted; an undisturbed run leaves one SPF
\* record with Resend in it; and mail is sent through a verified domain with a key
\* that is good, unless the key in use was revoked before a newer one took over.
THEOREM MailAlwaysSetUp == SetupSpec => []MailSetUp
<1>1. SetupInv => MailSetUp BY MailIsSetUp DEF SetupInv
<1> QED BY <1>1, SetupHolds, PTL

=============================================================================
