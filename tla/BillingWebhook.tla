--------------------------- MODULE BillingWebhook ---------------------------
(***************************************************************************)
(* The Stripe webhook, the checkout route, and the one row a workspace has *)
(* in public.subscriptions.  Stripe is outside: it keeps subscriptions,    *)
(* changes them, and delivers each event until it is answered 200, in any  *)
(* order and to several handlers at once.                                  *)
(*                                                                         *)
(* A handler is one transaction: claim the event id, lock the row, ask     *)
(* Stripe what is true, upsert, commit.  Each of these is a step, so other *)
(* handlers, Stripe and the browser run in between.  A failure at any of   *)
(* them rolls the transaction back, and Stripe delivers again.             *)
(***************************************************************************)
EXTENDS Naturals, FiniteSets

CONSTANTS
    Workspaces,
    Subs,         \* Stripe subscriptions, one for each checkout session
    Handlers,     \* webhook invocations that can be running at once
    MaxChanges,   \* bound: changes Stripe makes to one subscription
    MaxFailures,  \* bound: transactions that fail or lose their answer
    None

ASSUME BillingAssumption ==
    /\ None \notin Workspaces \cup Subs
    /\ MaxChanges \in Nat \ {0}
    /\ MaxFailures \in Nat

VARIABLES
    stripe,    \* at Stripe: each subscription
    emitted,   \* at Stripe: the events
    acked,     \* at Stripe: the events answered 200
    row,       \* public.subscriptions, by workspace
    claimed,   \* public.billing_events
    handler,   \* the transactions in progress
    dropped,   \* history: events acknowledged for an unknown customer
    failures   \* history: how many failures there were

database == <<row, claimed>>
vars == <<stripe, emitted, acked, database, handler, dropped, failures>>

Statuses == {"none", "session", "live", "unpaid", "canceled"}

\* A customer is named by the first subscription bought under it.
Subscription == [status : Statuses, changes : 0..MaxChanges,
                 owner : Workspaces \cup {None}, customer : Subs \cup {None}]

\* What one retrieve returns, by how many changes had happened.
Snapshot == [status : Statuses, changes : 0..MaxChanges]

Event == [type : {"checkout", "subscription"}, sub : Subs, changes : 1..MaxChanges]

Row == [customer : Subs, sub : Subs, status : Statuses, changes : 1..MaxChanges]

ASSUME RowAssumption == None \notin Row

Handler == [pc : {"idle", "claimed", "locked", "fetched"},
            event : Event \cup {None},
            workspace : Workspaces \cup {None},
            locks : BOOLEAN,
            snapshot : Snapshot \cup {None}]

Idle == [pc |-> "idle", event |-> None, workspace |-> None, locks |-> FALSE,
         snapshot |-> None]

TypeOK ==
    /\ stripe \in [Subs -> Subscription]
    /\ emitted \subseteq Event
    /\ acked \subseteq emitted
    /\ row \in [Workspaces -> Row \cup {None}]
    /\ claimed \subseteq emitted
    /\ handler \in [Handlers -> Handler]
    /\ dropped \subseteq claimed
    /\ failures \in 0..MaxFailures

-----------------------------------------------------------------------------
(* The checkout route and Stripe                                           *)

planFor(status) == IF status = "live" THEN "pro" ELSE "free"

\* The route's only guard: our row has no subscription id.
MayCheckout(w) == row[w] = None

Checkout(w, s) ==
    /\ stripe[s].status = "none"
    /\ MayCheckout(w)
    /\ stripe' = [stripe EXCEPT ![s].status = "session", ![s].owner = w, ![s].customer = s]
    /\ UNCHANGED <<emitted, acked, database, handler, dropped, failures>>

Pay(s) ==
    /\ stripe[s].status = "session"
    /\ stripe' = [stripe EXCEPT ![s].status = "live", ![s].changes = 1]
    /\ emitted' = emitted \cup
         {[type |-> type, sub |-> s, changes |-> 1] : type \in {"checkout", "subscription"}}
    /\ UNCHANGED <<acked, database, handler, dropped, failures>>

\* A failing card, a card that works again, a cancellation.  The last is final.
Change(s, status) ==
    /\ stripe[s].status \in {"live", "unpaid"}
    /\ status \in {"live", "unpaid", "canceled"} \ {stripe[s].status}
    /\ stripe[s].changes < MaxChanges
    /\ stripe' = [stripe EXCEPT ![s].status = status, ![s].changes = @ + 1]
    /\ emitted' = emitted \cup
         {[type |-> "subscription", sub |-> s, changes |-> stripe[s].changes + 1]}
    /\ UNCHANGED <<acked, database, handler, dropped, failures>>

-----------------------------------------------------------------------------
(* One transaction                                                         *)

\* An answer of 200 that Stripe does not receive is a failure to Stripe.
Answered(e) ==
    \/ acked' = acked \cup {e} /\ UNCHANGED failures
    \/ failures < MaxFailures /\ failures' = failures + 1 /\ UNCHANGED acked

Delivered(e) == e \in emitted \ acked

\* An uncommitted claim of the same id blocks the insert.
Claim(h, e) ==
    /\ handler[h].pc = "idle"
    /\ Delivered(e)
    /\ e \notin claimed
    /\ \A g \in Handlers : handler[g].event # e
    /\ handler' = [handler EXCEPT ![h] = [Idle EXCEPT !.pc = "claimed", !.event = e]]
    /\ UNCHANGED <<stripe, emitted, acked, database, dropped, failures>>

\* Mutant: the unique violation of a repeated id is an error like any other.
DuplicateRefused(e) == FALSE

Duplicate(e) ==
    /\ Delivered(e)
    /\ e \in claimed
    /\ Answered(e)
    /\ UNCHANGED <<stripe, emitted, database, handler, dropped>>

\* Mutant: the row is read without `for update`.
NeverLocked(w) == FALSE

Locked(w) == \E h \in Handlers : handler[h].locks /\ handler[h].workspace = w

\* checkout.session.completed names the workspace; there may be no row to lock.
LockByWorkspace(h) ==
    LET w == stripe[handler[h].event.sub].owner IN
    /\ handler[h].pc = "claimed"
    /\ handler[h].event.type = "checkout"
    /\ ~Locked(w)
    /\ handler' = [handler EXCEPT ![h].pc = "locked", ![h].workspace = w,
                                  ![h].locks = row[w] # None]
    /\ UNCHANGED <<stripe, emitted, acked, database, dropped, failures>>

OfCustomer(s) == {w \in Workspaces : row[w] # None /\ row[w].customer = stripe[s].customer}

LockByCustomer(h) ==
    /\ handler[h].pc = "claimed"
    /\ handler[h].event.type = "subscription"
    /\ \E w \in OfCustomer(handler[h].event.sub) :
         /\ ~Locked(w)
         /\ handler' = [handler EXCEPT ![h].pc = "locked", ![h].workspace = w,
                                       ![h].locks = TRUE]
    /\ UNCHANGED <<stripe, emitted, acked, database, dropped, failures>>

\* Recorded, committed and acknowledged: nothing is written.
UnknownCustomer(h) ==
    LET e == handler[h].event IN
    /\ handler[h].pc = "claimed"
    /\ e.type = "subscription"
    /\ OfCustomer(e.sub) = {}
    /\ claimed' = claimed \cup {e}
    /\ dropped' = dropped \cup {e}
    /\ handler' = [handler EXCEPT ![h] = Idle]
    /\ Answered(e)
    /\ UNCHANGED <<stripe, emitted, row>>

\* Mutant: the payload is trusted.
FromPayload(h) == [status |-> "live", changes |-> handler[h].event.changes]

Retrieved(h) ==
    LET s == handler[h].event.sub IN
    [status |-> stripe[s].status, changes |-> stripe[s].changes]

Fetch(h) ==
    /\ handler[h].pc = "locked"
    /\ handler' = [handler EXCEPT ![h].pc = "fetched", ![h].snapshot = Retrieved(h)]
    /\ UNCHANGED <<stripe, emitted, acked, database, dropped, failures>>

Written(h) ==
    [customer |-> stripe[handler[h].event.sub].customer,
     sub      |-> handler[h].event.sub,
     status   |-> handler[h].snapshot.status,
     changes  |-> handler[h].snapshot.changes]

\* insert ... on conflict (workspace_id) do update, then commit.  A row some
\* other transaction holds makes the upsert wait.
Upsert(h) ==
    LET w == handler[h].workspace
        e == handler[h].event
    IN
    /\ handler[h].pc = "fetched"
    /\ handler[h].locks \/ ~Locked(w)
    /\ row' = [row EXCEPT ![w] = Written(h)]
    /\ claimed' = claimed \cup {e}
    /\ handler' = [handler EXCEPT ![h] = Idle]
    /\ Answered(e)
    /\ UNCHANGED <<stripe, emitted, dropped>>

RolledBack(h) == UNCHANGED database

\* A timeout, an error from Stripe or the database, a killed function.
Rollback(h) ==
    /\ handler[h].pc # "idle"
    /\ failures < MaxFailures
    /\ failures' = failures + 1
    /\ handler' = [handler EXCEPT ![h] = Idle]
    /\ RolledBack(h)
    /\ UNCHANGED <<stripe, emitted, acked, dropped>>

-----------------------------------------------------------------------------
Init ==
    /\ stripe = [s \in Subs |-> [status |-> "none", changes |-> 0,
                                 owner |-> None, customer |-> None]]
    /\ emitted = {}
    /\ acked = {}
    /\ row = [w \in Workspaces |-> None]
    /\ claimed = {}
    /\ handler = [h \in Handlers |-> Idle]
    /\ dropped = {}
    /\ failures = 0

Outside ==
    \/ \E w \in Workspaces, s \in Subs : Checkout(w, s)
    \/ \E s \in Subs : Pay(s)
    \/ \E s \in Subs, status \in Statuses : Change(s, status)

Lock(h) == LockByWorkspace(h) \/ LockByCustomer(h) \/ UnknownCustomer(h)

Step(h) == Lock(h) \/ Fetch(h) \/ Upsert(h)

Deliver(e) == Duplicate(e) \/ \E h \in Handlers : Claim(h, e)

Next ==
    \/ Outside
    \/ \E e \in emitted : Deliver(e)
    \/ \E h \in Handlers : Step(h) \/ Rollback(h)

Spec == Init /\ [][Next]_vars

\* Stripe delivers until it is answered, and a transaction that can go on does.
\* No failure is forced and none is forbidden: there are at most MaxFailures.
Fairness ==
    /\ WF_vars(\E e \in emitted : Deliver(e))
    /\ \A h \in Handlers : WF_vars(Step(h))

FairSpec == Spec /\ Fairness

-----------------------------------------------------------------------------
(* Properties *)

\* The lock precedes the fetch: a handler that found the row never replaces
\* what a newer retrieve of the same subscription wrote.
NeverGoesBack ==
    [][\A h \in Handlers :
          LET w == handler[h].workspace IN
          Upsert(h) /\ handler[h].locks /\ row[w].sub = handler[h].event.sub
            => row'[w].changes >= row[w].changes]_vars

\* The claim shares the transaction: no checkout is marked as done with no row
\* written for the workspace that paid.
NotSwallowed ==
    \A e \in claimed : e.type = "checkout" => row[stripe[e.sub].owner] # None

\* Once every event of a subscription is acknowledged, the row that names it is
\* what Stripe says, in whatever order they came: unless one was dropped for a
\* customer whose checkout was still being applied.
SettledRowIsCurrent ==
    \A w \in Workspaces :
        row[w] # None =>
            LET s == row[w].sub IN
            /\ {e \in emitted : e.sub = s} \subseteq acked
            /\ \A e \in dropped : e.sub # s
            => row[w].changes = stripe[s].changes /\ row[w].status = stripe[s].status

\* However deliveries overlap, repeat, fail and change places, the books agree
\* with Stripe: no payment is marked as done without a row, and no settled row
\* differs from its subscription.
BooksAgree == NotSwallowed /\ SettledRowIsCurrent

\* Every event is acknowledged in the end: handlers waiting for each other's
\* claims and rows do not wait for ever, and no event is refused for ever.
EveryEventSettles == <>[](acked = emitted)

=============================================================================
