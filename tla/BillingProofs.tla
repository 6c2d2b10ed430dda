--------------------------- MODULE BillingProofs ---------------------------
(***************************************************************************)
(* Proofs about BillingWebhook, for any number of workspaces,              *)
(* subscriptions, concurrent handlers, changes and failures.               *)
(***************************************************************************)
EXTENDS BillingWebhook, TLAPS

-----------------------------------------------------------------------------
(* The inductive invariant *)

CheckoutOf(s) == [type |-> "checkout", sub |-> s, changes |-> 1]
UpdateOf(s, c) == [type |-> "subscription", sub |-> s, changes |-> c]

\* Stripe has an event for every change, and no other.
StripeInv ==
    /\ \A s \in Subs :
          /\ (stripe[s].changes = 0) = (stripe[s].status \in {"none", "session"})
          /\ stripe[s].status # "none" =>
                stripe[s].owner \in Workspaces /\ stripe[s].customer = s
          /\ \A c \in 1..stripe[s].changes : UpdateOf(s, c) \in emitted
    /\ \A e \in emitted :
          /\ e.changes <= stripe[e.sub].changes
          /\ e.type = "checkout" => e = CheckoutOf(e.sub)

\* Nobody is answered before the commit, and an event other than a checkout
\* is applied only once the checkout is.
ClaimInv ==
    /\ acked \subseteq claimed
    /\ \A e \in claimed \ dropped : CheckoutOf(e.sub) \in claimed
    /\ NotSwallowed

RowInv ==
    \A w \in Workspaces :
        row[w] # None =>
            LET s == row[w].sub IN
            /\ row[w].customer = s
            /\ stripe[s].owner = w
            /\ CheckoutOf(s) \in claimed
            /\ row[w].changes <= stripe[s].changes
            /\ row[w].changes = stripe[s].changes => row[w].status = stripe[s].status
            /\ \A e \in claimed \ dropped : e.sub = s => e.changes <= row[w].changes

\* What a transaction holds: an event still to be claimed, from the lock on the
\* workspace it belongs to, and no lock before.
EventHeld(x) ==
    /\ x.pc # "idle" => x.event \in emitted \ claimed
    /\ x.pc \in {"idle", "claimed"} => ~x.locks

RowHeld(x) ==
    /\ x.pc \in {"locked", "fetched"} =>
          /\ x.workspace \in Workspaces
          /\ x.workspace = stripe[x.event.sub].owner
          /\ x.event.type = "subscription" => x.locks
    /\ x.locks =>
          /\ row[x.workspace] # None
          /\ x.event.type = "subscription" => row[x.workspace].sub = x.event.sub

\* A snapshot is of the event's own change or a later one, and under the lock
\* no older than the row.
SnapshotHeld(x) ==
    LET s == x.event.sub IN
    x.pc = "fetched" =>
        /\ x.snapshot \in Snapshot
        /\ x.event.changes <= x.snapshot.changes
        /\ x.snapshot.changes <= stripe[s].changes
        /\ x.snapshot.changes = stripe[s].changes => x.snapshot.status = stripe[s].status
        /\ x.locks /\ row[x.workspace].sub = s => row[x.workspace].changes <= x.snapshot.changes

Holds(x) == EventHeld(x) /\ RowHeld(x) /\ SnapshotHeld(x)

\* No two transactions have the same event, or lock the same row.
Apart(x, y) ==
    /\ x.pc # "idle" /\ y.pc # "idle" => x.event # y.event
    /\ x.locks /\ y.locks => x.workspace # y.workspace

HandlerInv ==
    /\ \A h \in Handlers : Holds(handler[h])
    /\ \A h, g \in Handlers : h # g => Apart(handler[h], handler[g])

IInv == TypeOK /\ StripeInv /\ ClaimInv /\ RowInv /\ HandlerInv

-----------------------------------------------------------------------------
(* Records.                                                                *)

LEMMA Typed ==
    /\ Idle \in Handler
    /\ Idle.pc = "idle" /\ Idle.event = None /\ ~Idle.locks /\ Idle.workspace = None
BY DEF Idle, Handler

LEMMA EventsTyped ==
    ASSUME TypeOK, NEW e \in emitted
    PROVE  /\ e \in Event /\ e.sub \in Subs /\ e.changes \in Nat /\ e.changes >= 1
           /\ e.changes \in 1..MaxChanges
           /\ e.type \in {"checkout", "subscription"}
           /\ stripe[e.sub] \in Subscription
           /\ stripe[e.sub].changes \in Nat
<1>1. e \in Event BY DEF TypeOK
<1>2. e.sub \in Subs /\ e.changes \in 1..MaxChanges /\ e.type \in {"checkout", "subscription"}
  BY <1>1 DEF Event
<1>3. stripe[e.sub] \in Subscription BY <1>2 DEF TypeOK
<1> QED BY <1>1, <1>2, <1>3, BillingAssumption DEF Subscription

LEMMA RowsTyped ==
    ASSUME TypeOK, NEW w \in Workspaces, row[w] # None
    PROVE  /\ row[w] \in Row /\ row[w].sub \in Subs /\ row[w].customer \in Subs
           /\ row[w].changes \in Nat /\ row[w].changes >= 1
           /\ stripe[row[w].sub].changes \in Nat
<1>1. row[w] \in Row BY DEF TypeOK
<1>2. row[w].sub \in Subs /\ row[w].customer \in Subs /\ row[w].changes \in 1..MaxChanges
  BY <1>1 DEF Row
<1>3. stripe[row[w].sub] \in Subscription BY <1>2 DEF TypeOK
<1> QED BY <1>1, <1>2, <1>3, BillingAssumption DEF Subscription

-----------------------------------------------------------------------------
(* Stripe moves: what it has changed only grows, and nothing in the        *)
(* database or in a transaction depends on more than that.                 *)

Advances ==
    /\ \A s \in Subs :
          /\ stripe'[s].changes \in Nat
          /\ stripe'[s].changes >= stripe[s].changes
          /\ stripe[s].changes > 0 =>
                stripe'[s].owner = stripe[s].owner /\ stripe'[s].customer = stripe[s].customer
          /\ stripe[s].changes > 0 /\ stripe'[s].changes = stripe[s].changes =>
                stripe'[s].status = stripe[s].status
    /\ emitted \subseteq emitted'
    /\ UNCHANGED <<acked, database, handler, dropped>>

LEMMA OutsideKeeps ==
    ASSUME IInv, Advances
    PROVE  ClaimInv' /\ RowInv' /\ HandlerInv'
<1> USE DEF IInv
<1>0. /\ row' = row /\ claimed' = claimed /\ handler' = handler
      /\ dropped' = dropped /\ acked' = acked
  BY DEF Advances, database
<1>1. ASSUME NEW e \in emitted
      PROVE  /\ stripe'[e.sub].owner = stripe[e.sub].owner
             /\ stripe[e.sub].changes >= 1 /\ stripe[e.sub].changes \in Nat /\ e.sub \in Subs
             /\ e.changes \in Nat
  <2>1. e.changes <= stripe[e.sub].changes BY DEF StripeInv
  <2> QED BY <2>1, EventsTyped DEF Advances
<1>2. ClaimInv'
  <2>1. \A e \in claimed : e \in emitted BY DEF TypeOK
  <2>2. NotSwallowed' BY <1>0, <1>1, <2>1 DEF ClaimInv, NotSwallowed
  <2>3. (\A e \in claimed \ dropped : CheckoutOf(e.sub) \in claimed)' /\ (acked \subseteq claimed)'
    BY <1>0 DEF ClaimInv, CheckoutOf
  <2> QED BY <2>2, <2>3 DEF ClaimInv
<1>3. RowInv'
  <2> SUFFICES ASSUME NEW w \in Workspaces, row[w] # None
               PROVE  LET s == row[w].sub IN
                      /\ row[w].customer = s
                      /\ stripe'[s].owner = w
                      /\ CheckoutOf(s) \in claimed
                      /\ row[w].changes <= stripe'[s].changes
                      /\ row[w].changes = stripe'[s].changes => row[w].status = stripe'[s].status
                      /\ \A e \in claimed \ dropped : e.sub = s => e.changes <= row[w].changes
    BY <1>0 DEF RowInv, CheckoutOf
  <2> DEFINE s == row[w].sub
  <2>1. /\ row[w].customer = s /\ stripe[s].owner = w /\ CheckoutOf(s) \in claimed
        /\ row[w].changes <= stripe[s].changes
        /\ row[w].changes = stripe[s].changes => row[w].status = stripe[s].status
        /\ \A e \in claimed \ dropped : e.sub = s => e.changes <= row[w].changes
    BY DEF RowInv
  <2>2. /\ s \in Subs /\ row[w].changes \in Nat /\ row[w].changes >= 1
        /\ stripe[s].changes \in Nat
    BY RowsTyped
  <2>3. /\ stripe'[s].changes \in Nat /\ stripe'[s].changes >= stripe[s].changes
        /\ stripe[s].changes > 0 => stripe'[s].owner = stripe[s].owner
        /\ stripe[s].changes > 0 /\ stripe'[s].changes = stripe[s].changes =>
              stripe'[s].status = stripe[s].status
    BY <2>2 DEF Advances
  <2> HIDE DEF s
  <2> QED BY <2>1, <2>2, <2>3 DEF s
<1>4. ASSUME NEW x \in Handler, Holds(x) PROVE Holds(x)'
  <2>0. EventHeld(x) /\ RowHeld(x) /\ SnapshotHeld(x) BY <1>4 DEF Holds
  <2>1. EventHeld(x)' BY <1>0, <2>0 DEF EventHeld, Advances
  <2>2. RowHeld(x)' BY <1>0, <1>1, <2>0 DEF RowHeld, EventHeld
  <2>3. CASE x.pc # "fetched" BY <2>1, <2>2, <2>3 DEF SnapshotHeld, Holds
  <2>4. CASE x.pc = "fetched"
    <3> DEFINE e == x.event
               snapshot == x.snapshot
    <3>1. e \in emitted BY <2>0, <2>4 DEF EventHeld
    <3>2. /\ snapshot \in Snapshot /\ e.changes <= snapshot.changes
          /\ snapshot.changes <= stripe[e.sub].changes
          /\ snapshot.changes = stripe[e.sub].changes => snapshot.status = stripe[e.sub].status
          /\ x.locks /\ row[x.workspace].sub = e.sub => row[x.workspace].changes <= snapshot.changes
      BY <2>0, <2>4 DEF SnapshotHeld
    <3>3. snapshot.changes \in Nat BY <3>2, BillingAssumption DEF Snapshot
    <3>4. /\ e.sub \in Subs /\ e.changes \in Nat /\ e.changes >= 1
          /\ stripe[e.sub].changes \in Nat
      BY <3>1, EventsTyped
    <3>5. /\ stripe'[e.sub].changes \in Nat /\ stripe'[e.sub].changes >= stripe[e.sub].changes
          /\ stripe[e.sub].changes > 0 /\ stripe'[e.sub].changes = stripe[e.sub].changes =>
                stripe'[e.sub].status = stripe[e.sub].status
      BY <3>4 DEF Advances
    <3> HIDE DEF e, snapshot
    <3>6. /\ snapshot.changes <= stripe'[e.sub].changes
          /\ snapshot.changes = stripe'[e.sub].changes => snapshot.status = stripe'[e.sub].status
      BY <3>2, <3>3, <3>4, <3>5
    <3>7. SnapshotHeld(x)' BY <1>0, <3>2, <3>6 DEF SnapshotHeld, e, snapshot
    <3> QED BY <2>1, <2>2, <3>7 DEF Holds
  <2> QED BY <2>3, <2>4
<1>5. HandlerInv'
  <2>1. \A h \in Handlers : handler[h] \in Handler BY DEF TypeOK
  <2>2. \A h \in Handlers : Holds(handler[h])' BY <1>0, <1>4, <2>1 DEF HandlerInv
  <2>3. (\A h, g \in Handlers : h # g => Apart(handler[h], handler[g]))'
    BY <1>0 DEF HandlerInv, Apart
  <2> QED BY <2>2, <2>3 DEF HandlerInv
<1> QED BY <1>2, <1>3, <1>5

LEMMA CheckoutStep ==
    ASSUME IInv, NEW w \in Workspaces, NEW s \in Subs, Checkout(w, s)
    PROVE  Advances /\ StripeInv' /\ TypeOK'
<1> USE DEF IInv
<1> DEFINE sold == [stripe[s] EXCEPT !.status = "session", !.owner = w, !.customer = s]
<1>1. stripe[s] \in Subscription /\ stripe \in [Subs -> Subscription] BY DEF TypeOK
<1>2. stripe' = [stripe EXCEPT ![s] = sold] /\ UNCHANGED <<emitted, acked, database, handler, dropped, failures>>
  BY <1>1 DEF Checkout, Subscription
<1>3. /\ sold \in Subscription /\ sold.status = "session" /\ sold.owner = w
      /\ sold.customer = s /\ sold.changes = stripe[s].changes
  BY <1>1 DEF Subscription, Statuses
<1>4. stripe[s].changes = 0
  BY DEF Checkout, StripeInv
<1> HIDE DEF sold
<1>5. \A r \in Subs : stripe[r].changes \in Nat
  BY BillingAssumption DEF TypeOK, Subscription
<1>6. /\ stripe'[s] = sold /\ \A r \in Subs : r # s => stripe'[r] = stripe[r]
      /\ stripe' \in [Subs -> Subscription]
  BY <1>1, <1>2, <1>3
<1>7. Advances BY <1>2, <1>3, <1>4, <1>5, <1>6 DEF Advances
<1>8. StripeInv'
  <2>1. \A e \in emitted : e.sub \in Subs BY EventsTyped
  <2>2. \A e \in emitted : stripe'[e.sub].changes = stripe[e.sub].changes
    BY <2>1, <1>3, <1>6
  <2>3. \A r \in Subs :
          /\ (stripe'[r].changes = 0) = (stripe'[r].status \in {"none", "session"})
          /\ stripe'[r].status # "none" =>
                stripe'[r].owner \in Workspaces /\ stripe'[r].customer = r
          /\ stripe'[r].changes = stripe[r].changes
    BY <1>3, <1>4, <1>6 DEF StripeInv
  <2> QED BY <1>2, <2>2, <2>3 DEF StripeInv, UpdateOf, CheckoutOf
<1>9. TypeOK' BY <1>2, <1>6 DEF TypeOK, database
<1> QED BY <1>7, <1>8, <1>9

LEMMA PayStep ==
    ASSUME IInv, NEW s \in Subs, Pay(s)
    PROVE  Advances /\ StripeInv' /\ TypeOK'
<1> USE DEF IInv
<1> DEFINE paid == [stripe[s] EXCEPT !.status = "live", !.changes = 1]
<1>0. 1 \in 0..MaxChanges /\ 1 \in 1..MaxChanges BY BillingAssumption
<1>1. stripe[s] \in Subscription /\ stripe \in [Subs -> Subscription] BY DEF TypeOK
<1>2. /\ stripe' = [stripe EXCEPT ![s] = paid] /\ UNCHANGED <<acked, database, handler, dropped, failures>>
      /\ emitted' = emitted \cup {CheckoutOf(s), UpdateOf(s, 1)}
  BY <1>1 DEF Pay, Subscription, CheckoutOf, UpdateOf
<1>3. /\ paid \in Subscription /\ paid.status = "live" /\ paid.changes = 1
      /\ paid.owner = stripe[s].owner /\ paid.customer = stripe[s].customer
  BY <1>0, <1>1 DEF Subscription, Statuses
<1>4. stripe[s].changes = 0 /\ stripe[s].status # "none"
  BY DEF Pay, StripeInv
<1> HIDE DEF paid
<1>5. \A r \in Subs : stripe[r].changes \in Nat
  BY BillingAssumption DEF TypeOK, Subscription
<1>6. /\ stripe'[s] = paid /\ \A r \in Subs : r # s => stripe'[r] = stripe[r]
      /\ stripe' \in [Subs -> Subscription]
  BY <1>1, <1>2, <1>3
<1>7. Advances BY <1>2, <1>3, <1>4, <1>5, <1>6 DEF Advances
<1>8. StripeInv'
  <2>1. ASSUME NEW e \in emitted'
        PROVE  e.changes <= stripe'[e.sub].changes /\ (e.type = "checkout" => e = CheckoutOf(e.sub))
    <3>1. CASE e \in emitted
      <4>1. e.changes <= stripe[e.sub].changes /\ (e.type = "checkout" => e = CheckoutOf(e.sub))
        BY <3>1 DEF StripeInv
      <4>2. e.sub \in Subs /\ e.changes \in Nat /\ e.changes >= 1 BY <3>1, EventsTyped
      <4>3. e.sub # s BY <4>1, <4>2, <1>4
      <4> QED BY <4>1, <4>2, <4>3, <1>6
    <3>2. CASE e = CheckoutOf(s) BY <3>2, <1>3, <1>6 DEF CheckoutOf
    <3>3. CASE e = UpdateOf(s, 1) BY <3>3, <1>3, <1>6 DEF UpdateOf
    <3> QED BY <1>2, <3>1, <3>2, <3>3
  <2>2. ASSUME NEW r \in Subs
        PROVE  /\ (stripe'[r].changes = 0) = (stripe'[r].status \in {"none", "session"})
               /\ stripe'[r].status # "none" =>
                     stripe'[r].owner \in Workspaces /\ stripe'[r].customer = r
               /\ \A c \in 1..stripe'[r].changes : UpdateOf(r, c) \in emitted'
    <3>1. CASE r = s
      <4>1. \A c \in 1..1 : c = 1 OBVIOUS
      <4> QED BY <4>1, <3>1, <1>2, <1>3, <1>4, <1>6 DEF StripeInv
    <3>2. CASE r # s BY <3>2, <1>2, <1>6 DEF StripeInv
    <3> QED BY <3>1, <3>2
  <2> QED BY <2>1, <2>2 DEF StripeInv, UpdateOf, CheckoutOf
<1>9. TypeOK'
  <2>1. CheckoutOf(s) \in Event /\ UpdateOf(s, 1) \in Event
    BY <1>0 DEF CheckoutOf, UpdateOf, Event
  <2> QED BY <2>1, <1>2, <1>6 DEF TypeOK, database
<1> QED BY <1>7, <1>8, <1>9

LEMMA ChangeStep ==
    ASSUME IInv, NEW s \in Subs, NEW status \in Statuses, Change(s, status)
    PROVE  Advances /\ StripeInv' /\ TypeOK'
<1> USE DEF IInv
<1> DEFINE c == stripe[s].changes + 1
           changed == [stripe[s] EXCEPT !.status = status, !.changes = c]
<1>1. stripe[s] \in Subscription /\ stripe \in [Subs -> Subscription] BY DEF TypeOK
<1>0. stripe[s].changes \in Nat /\ c \in 0..MaxChanges /\ c \in 1..MaxChanges
  BY <1>1, BillingAssumption DEF Subscription, Change
<1>2. /\ stripe' = [stripe EXCEPT ![s] = changed] /\ UNCHANGED <<acked, database, handler, dropped, failures>>
      /\ emitted' = emitted \cup {UpdateOf(s, c)}
  BY <1>1 DEF Change, Subscription, UpdateOf
<1>3. /\ changed \in Subscription /\ changed.status = status /\ changed.changes = c
      /\ changed.owner = stripe[s].owner /\ changed.customer = stripe[s].customer
  BY <1>0, <1>1 DEF Subscription
<1>4. /\ stripe[s].status \in {"live", "unpaid"} /\ status \notin {"none", "session"}
      /\ stripe[s].changes # 0
  BY DEF Change, StripeInv
<1> HIDE DEF changed
<1>5. \A r \in Subs : stripe[r].changes \in Nat
  BY BillingAssumption DEF TypeOK, Subscription
<1>6. /\ stripe'[s] = changed /\ \A r \in Subs : r # s => stripe'[r] = stripe[r]
      /\ stripe' \in [Subs -> Subscription]
  BY <1>1, <1>2, <1>3
<1>7. Advances BY <1>0, <1>2, <1>3, <1>4, <1>5, <1>6 DEF Advances
<1>8. StripeInv'
  <2>1. ASSUME NEW e \in emitted'
        PROVE  e.changes <= stripe'[e.sub].changes /\ (e.type = "checkout" => e = CheckoutOf(e.sub))
    <3>1. CASE e \in emitted
      <4>1. e.changes <= stripe[e.sub].changes /\ (e.type = "checkout" => e = CheckoutOf(e.sub))
        BY <3>1 DEF StripeInv
      <4>2. e.sub \in Subs /\ e.changes \in Nat BY <3>1, EventsTyped
      <4> QED BY <4>1, <4>2, <1>0, <1>3, <1>6
    <3>2. CASE e = UpdateOf(s, c) BY <3>2, <1>0, <1>3, <1>6 DEF UpdateOf
    <3> QED BY <1>2, <3>1, <3>2
  <2>2. ASSUME NEW r \in Subs
        PROVE  /\ (stripe'[r].changes = 0) = (stripe'[r].status \in {"none", "session"})
               /\ stripe'[r].status # "none" =>
                     stripe'[r].owner \in Workspaces /\ stripe'[r].customer = r
               /\ \A d \in 1..stripe'[r].changes : UpdateOf(r, d) \in emitted'
    <3>1. CASE r = s
      <4>1. \A d \in 1..c : d = c \/ d \in 1..stripe[s].changes BY <1>0
      <4>2. \A d \in 1..c : UpdateOf(s, d) \in emitted' BY <4>1, <1>2 DEF StripeInv
      <4> QED BY <4>2, <3>1, <1>0, <1>3, <1>4, <1>6 DEF StripeInv
    <3>2. CASE r # s BY <3>2, <1>2, <1>6 DEF StripeInv
    <3> QED BY <3>1, <3>2
  <2> QED BY <2>1, <2>2 DEF StripeInv, UpdateOf, CheckoutOf
<1>9. TypeOK'
  <2>1. UpdateOf(s, c) \in Event BY <1>0 DEF UpdateOf, Event
  <2> QED BY <2>1, <1>2, <1>6 DEF TypeOK, database
<1> QED BY <1>7, <1>8, <1>9

LEMMA OutsideStep ==
    ASSUME IInv, Outside
    PROVE  IInv'
<1>1. CASE \E w \in Workspaces, s \in Subs : Checkout(w, s)
  BY <1>1, CheckoutStep, OutsideKeeps DEF IInv
<1>2. CASE \E s \in Subs : Pay(s)
  BY <1>2, PayStep, OutsideKeeps DEF IInv
<1>3. CASE \E s \in Subs, status \in Statuses : Change(s, status)
  BY <1>3, ChangeStep, OutsideKeeps DEF IInv
<1> QED BY <1>1, <1>2, <1>3 DEF Outside

-----------------------------------------------------------------------------
(* Steps inside a transaction: nothing changes but the handler, and what   *)
(* it then holds is what a handler may hold.                               *)

Inside(h, x) ==
    /\ handler' = [handler EXCEPT ![h] = x]
    /\ x \in Handler
    /\ Holds(x)
    /\ \A g \in Handlers : g # h => Apart(handler[g], x)
    /\ failures' \in 0..MaxFailures
    /\ UNCHANGED <<stripe, emitted, acked, database, dropped>>

LEMMA InsideKeeps ==
    ASSUME IInv, NEW h \in Handlers, NEW x, Inside(h, x)
    PROVE  IInv'
<1> USE DEF IInv
<1>0. /\ stripe' = stripe /\ emitted' = emitted /\ acked' = acked /\ row' = row
      /\ claimed' = claimed /\ dropped' = dropped
  BY DEF Inside, database
<1>1. TypeOK' BY <1>0 DEF Inside, TypeOK
<1>2. StripeInv' BY <1>0 DEF StripeInv, UpdateOf, CheckoutOf
<1>3. ClaimInv' BY <1>0 DEF ClaimInv, NotSwallowed, CheckoutOf
<1>4. RowInv' BY <1>0 DEF RowInv, CheckoutOf
<1>5. HandlerInv'
  <2>1. handler'[h] = x /\ \A g \in Handlers : g # h => handler'[g] = handler[g]
    BY DEF Inside, TypeOK
  <2>2. \A y : Holds(y) => Holds(y)'
    BY <1>0 DEF Holds, EventHeld, RowHeld, SnapshotHeld
  <2>3. \A g \in Handlers : Holds(handler'[g]) BY <2>1 DEF HandlerInv, Inside
  <2>4. \A f, g \in Handlers : f # g => Apart(handler'[f], handler'[g])
    <3> SUFFICES ASSUME NEW f \in Handlers, NEW g \in Handlers, f # g
                 PROVE  Apart(handler'[f], handler'[g])
      OBVIOUS
    <3>1. CASE f = h BY <3>1, <2>1 DEF Inside, Apart
    <3>2. CASE g = h BY <3>2, <2>1 DEF Inside, Apart
    <3>3. CASE f # h /\ g # h BY <3>3, <2>1 DEF HandlerInv
    <3> QED BY <3>1, <3>2, <3>3
  <2> QED BY <2>2, <2>3, <2>4 DEF HandlerInv, Holds, EventHeld, RowHeld, SnapshotHeld, Apart
<1> QED BY <1>1, <1>2, <1>3, <1>4, <1>5

LEMMA HandlerTyped ==
    ASSUME IInv, NEW h \in Handlers
    PROVE  /\ handler[h] \in Handler
           /\ EventHeld(handler[h]) /\ RowHeld(handler[h]) /\ SnapshotHeld(handler[h])
           /\ handler[h].pc # "idle" =>
                /\ handler[h].event \in emitted \ claimed
                /\ handler[h].event \in Event
                /\ handler[h].event.sub \in Subs
                /\ handler[h].event.type \in {"checkout", "subscription"}
           /\ \A g \in Handlers : g # h => Apart(handler[g], handler[h])
<1>1. handler[h] \in Handler BY DEF IInv, TypeOK
<1>2. EventHeld(handler[h]) /\ RowHeld(handler[h]) /\ SnapshotHeld(handler[h])
  BY DEF IInv, HandlerInv, Holds
<1>3. handler[h].pc # "idle" => handler[h].event \in emitted \ claimed
  BY <1>2 DEF EventHeld
<1>4. \A g \in Handlers : g # h => Apart(handler[g], handler[h])
  BY DEF IInv, HandlerInv
<1> QED BY <1>1, <1>2, <1>3, <1>4, EventsTyped DEF IInv

LEMMA ClaimStep ==
    ASSUME IInv, NEW h \in Handlers, NEW e \in emitted, Claim(h, e)
    PROVE  IInv'
<1> DEFINE x == [Idle EXCEPT !.pc = "claimed", !.event = e]
<1>1. e \in Event BY EventsTyped DEF IInv
<1>2. /\ x \in Handler /\ x.pc = "claimed" /\ x.event = e /\ ~x.locks
  BY <1>1 DEF Idle, Handler
<1>3. handler' = [handler EXCEPT ![h] = x] BY DEF Claim
<1> HIDE DEF x
<1>4. Holds(x) BY <1>2 DEF Holds, EventHeld, RowHeld, SnapshotHeld, Claim
<1>5. \A g \in Handlers : Apart(handler[g], x) BY <1>2 DEF Apart, Claim
<1>6. Inside(h, x) BY <1>2, <1>3, <1>4, <1>5 DEF Inside, Claim, database, IInv, TypeOK
<1> QED BY <1>6, InsideKeeps

LEMMA RollbackStep ==
    ASSUME IInv, NEW h \in Handlers, Rollback(h)
    PROVE  IInv'
<1>1. Holds(Idle) BY Typed DEF Holds, EventHeld, RowHeld, SnapshotHeld
<1>2. \A g \in Handlers : Apart(handler[g], Idle) BY Typed DEF Apart
<1>3. failures' \in 0..MaxFailures BY BillingAssumption DEF Rollback, IInv, TypeOK
<1>4. Inside(h, Idle) BY <1>1, <1>2, <1>3, Typed DEF Inside, Rollback, RolledBack
<1> QED BY <1>4, InsideKeeps

LEMMA LockByWorkspaceStep ==
    ASSUME IInv, NEW h \in Handlers, LockByWorkspace(h)
    PROVE  IInv'
<1> DEFINE e == handler[h].event
           w == stripe[e.sub].owner
           x == [handler[h] EXCEPT !.pc = "locked", !.workspace = w, !.locks = (row[w] # None)]
<1>1. /\ handler[h] \in Handler /\ e \in emitted \ claimed /\ e \in Event /\ e.sub \in Subs
      /\ \A g \in Handlers : g # h => Apart(handler[g], handler[h])
      /\ handler[h].pc = "claimed" /\ e.type = "checkout"
  BY HandlerTyped DEF LockByWorkspace
<1>2. w \in Workspaces
  <2>1. /\ e.changes <= stripe[e.sub].changes
        /\ (stripe[e.sub].changes = 0) = (stripe[e.sub].status \in {"none", "session"})
        /\ stripe[e.sub].status # "none" => w \in Workspaces
    BY <1>1 DEF IInv, StripeInv
  <2>2. e.changes \in Nat /\ e.changes >= 1 BY <1>1, EventsTyped DEF IInv
  <2> QED BY <2>1, <2>2
<1>3. handler' = [handler EXCEPT ![h] = x] BY <1>1 DEF LockByWorkspace, Handler
<1>4. /\ x \in Handler /\ x.pc = "locked" /\ x.event = e /\ x.workspace = w
      /\ x.locks = (row[w] # None)
  BY <1>1, <1>2 DEF Handler
<1>5. ~Locked(w) BY DEF LockByWorkspace
<1> HIDE DEF x, w
<1>6. Holds(x) BY <1>1, <1>2, <1>4 DEF Holds, EventHeld, RowHeld, SnapshotHeld, w
<1>7. \A g \in Handlers : g # h => Apart(handler[g], x)
  BY <1>1, <1>4, <1>5 DEF Apart, Locked
<1>8. Inside(h, x) BY <1>3, <1>4, <1>6, <1>7 DEF Inside, LockByWorkspace, IInv, TypeOK
<1> QED BY <1>8, InsideKeeps

LEMMA LockByCustomerStep ==
    ASSUME IInv, NEW h \in Handlers, LockByCustomer(h)
    PROVE  IInv'
<1> DEFINE e == handler[h].event
<1>1. /\ handler[h] \in Handler /\ e \in emitted \ claimed /\ e \in Event /\ e.sub \in Subs
      /\ \A g \in Handlers : g # h => Apart(handler[g], handler[h])
      /\ handler[h].pc = "claimed" /\ e.type = "subscription"
  BY HandlerTyped DEF LockByCustomer
<1>2. PICK w \in OfCustomer(e.sub) :
        /\ ~Locked(w)
        /\ handler' = [handler EXCEPT ![h].pc = "locked", ![h].workspace = w, ![h].locks = TRUE]
  BY DEF LockByCustomer
<1> DEFINE x == [handler[h] EXCEPT !.pc = "locked", !.workspace = w, !.locks = TRUE]
<1>3. w \in Workspaces /\ row[w] # None /\ row[w].customer = stripe[e.sub].customer
  BY DEF OfCustomer
<1>4. handler' = [handler EXCEPT ![h] = x] BY <1>1, <1>2 DEF Handler
<1>5. x \in Handler /\ x.pc = "locked" /\ x.event = e /\ x.workspace = w /\ x.locks
  BY <1>1, <1>3 DEF Handler
\* The row of the customer is the row of the subscription.
<1>6. row[w].sub = e.sub /\ stripe[e.sub].owner = w
  <2>1. /\ e.changes <= stripe[e.sub].changes
        /\ (stripe[e.sub].changes = 0) = (stripe[e.sub].status \in {"none", "session"})
        /\ stripe[e.sub].status # "none" => stripe[e.sub].customer = e.sub
    BY <1>1 DEF IInv, StripeInv
  <2>2. e.changes \in Nat /\ e.changes >= 1 BY <1>1, EventsTyped DEF IInv
  <2>3. row[w].customer = row[w].sub /\ stripe[row[w].sub].owner = w
    BY <1>3 DEF IInv, RowInv
  <2> QED BY <1>3, <2>1, <2>2, <2>3
<1> HIDE DEF x
<1>7. Holds(x) BY <1>1, <1>3, <1>5, <1>6 DEF Holds, EventHeld, RowHeld, SnapshotHeld
<1>8. \A g \in Handlers : g # h => Apart(handler[g], x)
  BY <1>1, <1>2, <1>5 DEF Apart, Locked
<1>9. Inside(h, x) BY <1>4, <1>5, <1>7, <1>8 DEF Inside, LockByCustomer, IInv, TypeOK
<1> QED BY <1>9, InsideKeeps

LEMMA FetchStep ==
    ASSUME IInv, NEW h \in Handlers, Fetch(h)
    PROVE  IInv'
<1> DEFINE e == handler[h].event
           w == handler[h].workspace
           seen == Retrieved(h)
           x == [handler[h] EXCEPT !.pc = "fetched", !.snapshot = seen]
<1>1. /\ handler[h] \in Handler /\ e \in emitted \ claimed /\ e \in Event /\ e.sub \in Subs
      /\ \A g \in Handlers : g # h => Apart(handler[g], handler[h])
      /\ handler[h].pc = "locked" /\ EventHeld(handler[h]) /\ RowHeld(handler[h])
  BY HandlerTyped DEF Fetch
<1>2. /\ seen \in Snapshot /\ seen.changes = stripe[e.sub].changes
      /\ seen.status = stripe[e.sub].status
  <2>1. stripe[e.sub] \in Subscription BY <1>1 DEF IInv, TypeOK
  <2> QED BY <2>1 DEF Retrieved, Snapshot, Subscription
<1>3. e.changes <= seen.changes BY <1>1, <1>2 DEF IInv, StripeInv
<1>4. handler[h].locks /\ row[w].sub = e.sub => row[w].changes <= seen.changes
  BY <1>1, <1>2 DEF IInv, RowInv, RowHeld
<1>5. handler' = [handler EXCEPT ![h] = x] BY <1>1 DEF Fetch, Handler
<1>6. stripe[e.sub].changes \in Nat BY <1>1, EventsTyped DEF IInv
<1> HIDE DEF seen
<1>7. /\ x \in Handler /\ x.pc = "fetched" /\ x.event = e /\ x.workspace = w
      /\ x.locks = handler[h].locks /\ x.snapshot = seen
  BY <1>1, <1>2 DEF Handler
<1> HIDE DEF x
<1>8. EventHeld(x) /\ RowHeld(x) BY <1>1, <1>7 DEF EventHeld, RowHeld
<1>9. SnapshotHeld(x) BY <1>2, <1>3, <1>4, <1>6, <1>7 DEF SnapshotHeld
<1>10. \A g \in Handlers : g # h => Apart(handler[g], x) BY <1>1, <1>7 DEF Apart
<1>11. Inside(h, x) BY <1>5, <1>7, <1>8, <1>9, <1>10 DEF Inside, Fetch, Holds, IInv, TypeOK
<1> QED BY <1>11, InsideKeeps

-----------------------------------------------------------------------------
(* Commits and answers.                                                    *)

LEMMA AnsweredTyped ==
    ASSUME IInv, NEW e \in claimed', Answered(e), emitted' = emitted, e \in emitted,
           claimed \subseteq claimed'
    PROVE  /\ acked' \subseteq emitted /\ acked' \subseteq claimed'
           /\ failures' \in 0..MaxFailures
BY BillingAssumption DEF Answered, IInv, TypeOK, ClaimInv

LEMMA DuplicateStep ==
    ASSUME IInv, NEW e \in emitted, Duplicate(e)
    PROVE  IInv'
<1> USE DEF IInv
<1>0. /\ stripe' = stripe /\ emitted' = emitted /\ row' = row /\ claimed' = claimed
      /\ handler' = handler /\ dropped' = dropped
  BY DEF Duplicate, database
<1>1. acked' \subseteq emitted /\ acked' \subseteq claimed' /\ failures' \in 0..MaxFailures
  BY <1>0, AnsweredTyped DEF Duplicate
<1>2. TypeOK' BY <1>0, <1>1 DEF TypeOK
<1>3. StripeInv' BY <1>0 DEF StripeInv, UpdateOf, CheckoutOf
<1>4. ClaimInv' BY <1>0, <1>1 DEF ClaimInv, NotSwallowed, CheckoutOf
<1>5. RowInv' BY <1>0 DEF RowInv, CheckoutOf
<1>6. HandlerInv' BY <1>0 DEF HandlerInv, Holds, EventHeld, RowHeld, SnapshotHeld, Apart
<1> QED BY <1>2, <1>3, <1>4, <1>5, <1>6

\* The event of one transaction is claimed for good and the transaction ends;
\* what the others hold stays, if it does not depend on the row.
LEMMA CommitKeepsOthers ==
    ASSUME IInv, NEW h \in Handlers, handler[h].pc # "idle",
           stripe' = stripe, emitted' = emitted,
           claimed' = claimed \cup {handler[h].event},
           handler' = [handler EXCEPT ![h] = Idle],
           \A g \in Handlers : g # h => RowHeld(handler[g])' /\ SnapshotHeld(handler[g])'
    PROVE  HandlerInv'
<1>1. /\ \A g \in Handlers : g # h => handler'[g] = handler[g]
      /\ handler'[h] = Idle
  BY DEF IInv, TypeOK
<1>2. \A g \in Handlers : g # h => EventHeld(handler[g])'
  <2> SUFFICES ASSUME NEW g \in Handlers, g # h PROVE EventHeld(handler[g])'
    OBVIOUS
  <2>1. Apart(handler[h], handler[g]) /\ EventHeld(handler[g])
    BY DEF IInv, HandlerInv, Holds
  <2> QED BY <1>1, <2>1 DEF Apart, EventHeld
<1>3. Holds(handler[h])' BY <1>1, Typed DEF Holds, EventHeld, RowHeld, SnapshotHeld
<1>4. \A g \in Handlers : Holds(handler[g])' BY <1>2, <1>3 DEF Holds
<1>5. (\A f, g \in Handlers : f # g => Apart(handler[f], handler[g]))'
  <2> SUFFICES ASSUME NEW f \in Handlers, NEW g \in Handlers, f # g
               PROVE  Apart(handler'[f], handler'[g])
    BY DEF Apart
  <2>1. CASE f = h BY <2>1, <1>1, Typed DEF Apart
  <2>2. CASE g = h BY <2>2, <1>1, Typed DEF Apart
  <2>3. CASE f # h /\ g # h BY <2>3, <1>1 DEF IInv, HandlerInv
  <2> QED BY <2>1, <2>2, <2>3
<1> QED BY <1>4, <1>5 DEF HandlerInv

LEMMA UnknownCustomerStep ==
    ASSUME IInv, NEW h \in Handlers, UnknownCustomer(h)
    PROVE  IInv'
<1> USE DEF IInv
<1> DEFINE e == handler[h].event
<1>0. /\ stripe' = stripe /\ emitted' = emitted /\ row' = row /\ claimed' = claimed \cup {e}
      /\ handler' = [handler EXCEPT ![h] = Idle] /\ dropped' = dropped \cup {e}
      /\ Answered(e) /\ handler[h].pc = "claimed" /\ e.type = "subscription"
  BY DEF UnknownCustomer
<1>1. e \in emitted \ claimed BY <1>0, HandlerTyped
<1>2. acked' \subseteq emitted /\ acked' \subseteq claimed' /\ failures' \in 0..MaxFailures
  BY <1>0, <1>1, AnsweredTyped
<1>3. TypeOK' BY <1>0, <1>1, <1>2, Typed DEF TypeOK
<1>4. StripeInv' BY <1>0 DEF StripeInv, UpdateOf, CheckoutOf
<1>5. claimed' \ dropped' \subseteq claimed \ dropped BY <1>0
<1>6. ClaimInv'
  <2>1. \A f \in claimed' \ dropped' : CheckoutOf(f.sub) \in claimed'
    BY <1>0, <1>5 DEF ClaimInv
  <2>2. NotSwallowed' BY <1>0 DEF ClaimInv, NotSwallowed
  <2> QED BY <1>2, <2>1, <2>2 DEF ClaimInv, CheckoutOf
<1>7. RowInv' BY <1>0, <1>5 DEF RowInv, CheckoutOf
<1>8. \A g \in Handlers : g # h => RowHeld(handler[g])' /\ SnapshotHeld(handler[g])'
  <2> SUFFICES ASSUME NEW g \in Handlers, g # h
               PROVE  RowHeld(handler[g])' /\ SnapshotHeld(handler[g])'
    OBVIOUS
  <2>1. RowHeld(handler[g]) /\ SnapshotHeld(handler[g]) BY HandlerTyped
  <2>2. handler'[g] = handler[g] BY <1>0 DEF TypeOK
  <2> QED BY <1>0, <2>1, <2>2 DEF RowHeld, SnapshotHeld
<1>9. HandlerInv' BY <1>0, <1>8, CommitKeepsOthers
<1> QED BY <1>3, <1>4, <1>6, <1>7, <1>9

LEMMA UpsertStep ==
    ASSUME IInv, NEW h \in Handlers, Upsert(h)
    PROVE  IInv'
<1> USE DEF IInv
<1> DEFINE e == handler[h].event
           s == e.sub
           w == handler[h].workspace
           seen == handler[h].snapshot
           new == Written(h)
<1>0. /\ stripe' = stripe /\ emitted' = emitted /\ claimed' = claimed \cup {e}
      /\ handler' = [handler EXCEPT ![h] = Idle] /\ dropped' = dropped
      /\ row' = [row EXCEPT ![w] = new]
      /\ Answered(e) /\ handler[h].pc = "fetched"
      /\ handler[h].locks \/ ~Locked(w)
  BY DEF Upsert
<1>1. /\ e \in emitted \ claimed /\ e \in Event /\ s \in Subs
      /\ e.type \in {"checkout", "subscription"}
      /\ EventHeld(handler[h]) /\ RowHeld(handler[h]) /\ SnapshotHeld(handler[h])
      /\ \A g \in Handlers : g # h => Apart(handler[g], handler[h])
  BY <1>0, HandlerTyped
<1>2. /\ e.changes \in Nat /\ e.changes >= 1 /\ e.changes \in 1..MaxChanges
      /\ stripe[s].changes \in Nat /\ e.changes <= stripe[s].changes
  BY <1>1, EventsTyped DEF StripeInv
<1>3. /\ w \in Workspaces /\ stripe[s].owner = w
      /\ e.type = "subscription" =>
            handler[h].locks /\ row[w] # None /\ row[w].sub = s
  BY <1>0, <1>1 DEF RowHeld
<1>4. /\ seen \in Snapshot /\ e.changes <= seen.changes /\ seen.changes <= stripe[s].changes
      /\ seen.changes = stripe[s].changes => seen.status = stripe[s].status
      /\ handler[h].locks /\ row[w].sub = s => row[w].changes <= seen.changes
  BY <1>0, <1>1 DEF SnapshotHeld
<1>5. stripe[s].customer = s
  BY <1>1, <1>2 DEF StripeInv
<1>6. /\ new.customer = s /\ new.sub = s /\ new.status = seen.status /\ new.changes = seen.changes
      /\ new \in Row /\ new # None
  <2>1. seen.changes \in 1..MaxChanges /\ seen.status \in Statuses
    BY <1>2, <1>4, BillingAssumption DEF Snapshot
  <2> QED BY <1>1, <1>5, <2>1, RowAssumption DEF Written, Row
<1> HIDE DEF new
<1>7. /\ row'[w] = new /\ \A v \in Workspaces : v # w => row'[v] = row[v]
      /\ row' \in [Workspaces -> Row \cup {None}]
  BY <1>0, <1>3, <1>6 DEF TypeOK
<1>8. acked' \subseteq emitted /\ acked' \subseteq claimed' /\ failures' \in 0..MaxFailures
  BY <1>0, <1>1, AnsweredTyped
<1>9. TypeOK' BY <1>0, <1>1, <1>7, <1>8, Typed DEF TypeOK
<1>10. StripeInv' BY <1>0 DEF StripeInv, UpdateOf, CheckoutOf
\* The checkout of the subscription is claimed, now or before.
<1>11. /\ e.type = "checkout" => e = CheckoutOf(s)
       /\ e.type = "subscription" => CheckoutOf(s) \in claimed
  BY <1>1, <1>3 DEF StripeInv, RowInv
<1>12. ClaimInv'
  <2>1. \A f \in claimed' \ dropped' : CheckoutOf(f.sub) \in claimed'
    BY <1>0, <1>1, <1>11 DEF ClaimInv
  <2>2. ASSUME NEW f \in claimed', f.type = "checkout" PROVE row'[stripe[f.sub].owner] # None
    <3>1. CASE f = e BY <3>1, <1>3, <1>6, <1>7
    <3>2. CASE f \in claimed
      <4>1. f \in emitted /\ row[stripe[f.sub].owner] # None
        BY <3>2, <2>2 DEF ClaimInv, NotSwallowed, TypeOK
      <4>2. stripe[f.sub].owner \in Workspaces
        <5>1. /\ f.sub \in Subs /\ f.changes \in Nat /\ f.changes >= 1
              /\ f.changes <= stripe[f.sub].changes
          BY <4>1, EventsTyped DEF StripeInv
        <5> QED BY <5>1 DEF StripeInv
      <4> QED BY <4>1, <4>2, <1>6, <1>7
    <3> QED BY <3>1, <3>2, <1>0
  <2> QED BY <1>0, <1>8, <2>1, <2>2 DEF ClaimInv, NotSwallowed, CheckoutOf
\* What was applied of this subscription before is no newer than the snapshot.
<1>13. \A f \in claimed' \ dropped' : f.sub = s => f.changes <= seen.changes
  <2> SUFFICES ASSUME NEW f \in claimed \ dropped, f.sub = s PROVE f.changes <= seen.changes
    BY <1>0, <1>4
  <2>1. CASE e.type = "checkout"
    BY <2>1, <1>1, <1>11 DEF ClaimInv
  <2>2. CASE e.type = "subscription"
    <3>1. f.changes <= row[w].changes BY <2>2, <1>3 DEF RowInv
    <3>2. row[w].changes <= seen.changes BY <2>2, <1>3, <1>4
    <3>3. row[w].changes \in Nat BY <2>2, <1>3, RowsTyped
    <3>4. f.changes \in Nat /\ seen.changes \in Nat
      BY <1>4, EventsTyped, BillingAssumption DEF Snapshot, TypeOK
    <3> QED BY <3>1, <3>2, <3>3, <3>4
  <2> QED BY <2>1, <2>2, <1>1
<1>14. RowInv'
  <2> SUFFICES ASSUME NEW v \in Workspaces, row'[v] # None
               PROVE  LET r == row'[v].sub IN
                      /\ row'[v].customer = r
                      /\ stripe[r].owner = v
                      /\ CheckoutOf(r) \in claimed'
                      /\ row'[v].changes <= stripe[r].changes
                      /\ row'[v].changes = stripe[r].changes => row'[v].status = stripe[r].status
                      /\ \A f \in claimed' \ dropped' : f.sub = r => f.changes <= row'[v].changes
    BY <1>0 DEF RowInv, CheckoutOf
  <2>1. CASE v = w
    BY <2>1, <1>0, <1>1, <1>3, <1>4, <1>6, <1>7, <1>11, <1>13
  <2>2. CASE v # w
    <3>1. row'[v] = row[v] /\ row[v] # None BY <2>2, <1>7
    <3>2. stripe[row[v].sub].owner = v BY <3>1 DEF RowInv
    <3>3. row[v].sub # s BY <2>2, <3>2, <1>3
    <3> QED BY <1>0, <3>1, <3>3 DEF RowInv
  <2> QED BY <2>1, <2>2
<1>15. HandlerInv'
  <2>1. ASSUME NEW g \in Handlers, g # h
        PROVE  RowHeld(handler[g])' /\ SnapshotHeld(handler[g])'
    <3>1. RowHeld(handler[g]) /\ SnapshotHeld(handler[g]) BY HandlerTyped
    <3>2. handler'[g] = handler[g] BY <2>1, <1>0 DEF TypeOK
    <3>3. handler[g].locks => handler[g].workspace # w
      BY <2>1, <1>0, <1>1 DEF Apart, Locked
    <3>4. handler[g].locks => row'[handler[g].workspace] = row[handler[g].workspace]
      BY <1>0, <3>3
    <3> QED BY <1>0, <3>1, <3>2, <3>4 DEF RowHeld, SnapshotHeld
  <2> QED BY <1>0, <2>1, CommitKeepsOthers
<1> QED BY <1>9, <1>10, <1>12, <1>14, <1>15

-----------------------------------------------------------------------------
LEMMA Starts == ASSUME Init PROVE IInv
<1>1. TypeOK
  BY BillingAssumption, Typed DEF Init, TypeOK, Subscription, Statuses
<1>2. StripeInv BY DEF Init, StripeInv
<1>3. ClaimInv BY DEF Init, ClaimInv, NotSwallowed
<1>4. RowInv BY DEF Init, RowInv
<1>5. HandlerInv
  BY Typed DEF Init, HandlerInv, Holds, EventHeld, RowHeld, SnapshotHeld, Apart
<1> QED BY <1>1, <1>2, <1>3, <1>4, <1>5 DEF IInv

LEMMA Steps == ASSUME IInv, [Next]_vars PROVE IInv'
<1>1. CASE Outside BY <1>1, OutsideStep
<1>2. ASSUME NEW e \in emitted, Deliver(e) PROVE IInv'
  BY <1>2, DuplicateStep, ClaimStep DEF Deliver
<1>3. ASSUME NEW h \in Handlers, Step(h) \/ Rollback(h) PROVE IInv'
  BY <1>3, LockByWorkspaceStep, LockByCustomerStep, UnknownCustomerStep, FetchStep,
     UpsertStep, RollbackStep DEF Step, Lock
<1>4. CASE UNCHANGED vars
  <2>1. TypeOK' BY <1>4 DEF IInv, TypeOK, vars, database
  <2>2. StripeInv' BY <1>4 DEF IInv, StripeInv, UpdateOf, CheckoutOf, vars, database
  <2>3. ClaimInv' BY <1>4 DEF IInv, ClaimInv, NotSwallowed, CheckoutOf, vars, database
  <2>4. RowInv' BY <1>4 DEF IInv, RowInv, CheckoutOf, vars, database
  <2>5. HandlerInv'
    BY <1>4 DEF IInv, HandlerInv, Holds, EventHeld, RowHeld, SnapshotHeld, Apart, vars, database
  <2> QED BY <2>1, <2>2, <2>3, <2>4, <2>5 DEF IInv
<1> QED BY <1>1, <1>2, <1>3, <1>4 DEF Next

LEMMA Invariant == Spec => []IInv
BY Starts, Steps, PTL DEF Spec

\* The rows, the events and the transactions stay well typed: a row always
\* names the subscription and the customer it was written for.
THEOREM TypeCorrect == Spec => []TypeOK
<1>1. IInv => TypeOK BY DEF IInv
<1> QED BY <1>1, Invariant, PTL

\* However many handlers run, fail and are answered in whatever order, no
\* checkout is marked as done with no row for the workspace that paid.
THEOREM NoneSwallowed == Spec => []NotSwallowed
<1>1. IInv => NotSwallowed BY DEF IInv, ClaimInv
<1> QED BY <1>1, Invariant, PTL

\* Out-of-order, repeated and concurrent deliveries end with the row Stripe
\* would give, once every event is answered and unless one was dropped.
THEOREM SettledIsCurrent == Spec => []SettledRowIsCurrent
<1>1. ASSUME IInv PROVE SettledRowIsCurrent
  <2> SUFFICES ASSUME NEW w \in Workspaces, row[w] # None,
                      {e \in emitted : e.sub = row[w].sub} \subseteq acked,
                      \A e \in dropped : e.sub # row[w].sub
               PROVE  /\ row[w].changes = stripe[row[w].sub].changes
                      /\ row[w].status = stripe[row[w].sub].status
    BY DEF SettledRowIsCurrent
  <2> DEFINE s == row[w].sub
             n == stripe[s].changes
             last == UpdateOf(s, n)
  <2>1. /\ s \in Subs /\ row[w].changes \in Nat /\ row[w].changes >= 1 /\ n \in Nat
    BY <1>1, RowsTyped DEF IInv
  <2>2. /\ row[w].changes <= n
        /\ row[w].changes = n => row[w].status = stripe[s].status
        /\ \A e \in claimed \ dropped : e.sub = s => e.changes <= row[w].changes
    BY <1>1 DEF IInv, RowInv
  <2>3. n \in 1..n BY <2>1, <2>2
  <2>4. last \in emitted BY <1>1, <2>1, <2>3 DEF IInv, StripeInv
  <2>5. last.sub = s /\ last.changes = n BY DEF UpdateOf
  <2>6. last \in claimed \ dropped BY <1>1, <2>4, <2>5 DEF IInv, ClaimInv
  <2>7. n <= row[w].changes BY <2>2, <2>5, <2>6
  <2> QED BY <2>1, <2>2, <2>7
<1> QED BY <1>1, Invariant, PTL

\* Both of these at once.
THEOREM BooksKept == Spec => []BooksAgree
BY NoneSwallowed, SettledIsCurrent, PTL DEF BooksAgree

\* The row lock precedes the retrieve: a handler that found the row never puts
\* an older state of a subscription over a newer one.
THEOREM RowNeverGoesBack == Spec => NeverGoesBack
<1>1. ASSUME IInv, [Next]_vars
      PROVE  [\A h \in Handlers :
                LET w == handler[h].workspace IN
                Upsert(h) /\ handler[h].locks /\ row[w].sub = handler[h].event.sub
                  => row'[w].changes >= row[w].changes]_vars
  <2> SUFFICES ASSUME NEW h \in Handlers, Upsert(h), handler[h].locks,
                      row[handler[h].workspace].sub = handler[h].event.sub
               PROVE  row'[handler[h].workspace].changes >= row[handler[h].workspace].changes
    OBVIOUS
  <2> DEFINE w == handler[h].workspace
             seen == handler[h].snapshot
  <2>1. /\ RowHeld(handler[h]) /\ SnapshotHeld(handler[h]) /\ handler[h].pc = "fetched"
    BY <1>1, HandlerTyped DEF Upsert
  <2>2. w \in Workspaces /\ row[w] # None BY <2>1 DEF RowHeld
  <2>3. row[w].changes <= seen.changes /\ seen \in Snapshot BY <2>1 DEF SnapshotHeld
  <2>4. row'[w] = Written(h) BY <1>1, <2>2 DEF Upsert, IInv, TypeOK
  <2>5. row'[w].changes = seen.changes BY <2>4 DEF Written
  <2>6. seen.changes \in Nat /\ row[w].changes \in Nat
    BY <1>1, <2>2, <2>3, RowsTyped, BillingAssumption DEF Snapshot, IInv
  <2> QED BY <2>3, <2>5, <2>6
<1> QED BY <1>1, Invariant, PTL DEF NeverGoesBack, Spec

=============================================================================
