---------------------------- MODULE StripeSetup ----------------------------
(***************************************************************************)
(* tools/stripe-setup.ts: one command that brings Stripe to what           *)
(* lib/plans.ts says - a product, a price for each cadence, a portal       *)
(* configuration, a webhook endpoint.  A run is a sequence of requests;    *)
(* any may fail, and the process may die between two.  The way to resume   *)
(* is to run it again.                                                     *)
(***************************************************************************)
EXTENDS Naturals, FiniteSets

CONSTANTS
    Amounts,   \* what plans.ts may ask for a cadence
    MaxEdits,  \* bound: edits of plans.ts
    MaxRuns,   \* bound: runs of the command
    Absent

\* What is absent is no price and no secret.
ASSUME AbsentAssumption == Absent \notin Nat

Intervals == {"monthly", "annual"}

VARIABLES
    catalog,    \* plans.ts: the amount of each cadence
    product,    \* at Stripe: the product is there
    prices,     \* at Stripe: the prices; a lookup key names its cadence
    portals,    \* at Stripe: tagged portal configurations, by the prices they offer
    endpoints,  \* at Stripe: webhook endpoints at our address
    run,        \* the run in progress
    printed,    \* what the last run to finish told the operator
    orphans,    \* history: prices a run had replaced when it stopped
    used        \* history: edits, runs, and signing secrets so far

shop == <<product, prices, portals, endpoints>>
billingVars == <<catalog, shop, run, printed, orphans, used>>

Price == [id : Nat \ {0}, cadence : Intervals, amount : Amounts,
          active : BOOLEAN, key : BOOLEAN]

Endpoint == [secret : Nat \ {0}, enabled : BOOLEAN]

Resting == [at |-> "idle", dry |-> FALSE, recreate |-> FALSE, old |-> Absent,
            found |-> [c \in Intervals |-> Absent], secret |-> Absent]

Named == Nat \cup {Absent}

Steps == {"idle", "product", "archive", "portal", "endpoint", "create endpoint", "print"}
            \cup Intervals

BillingTypeOK ==
    /\ catalog \in [Intervals -> Amounts]
    /\ product \in BOOLEAN
    /\ prices \subseteq Price
    /\ portals \subseteq SUBSET Named
    /\ endpoints \subseteq Endpoint
    /\ run \in [at : Steps, dry : BOOLEAN, recreate : BOOLEAN, old : Named,
                 found : [Intervals -> Named], secret : Named]
    /\ printed \in [prices : [Intervals -> Named], edits : Nat, secret : Named]
    /\ orphans \subseteq Nat
    /\ used \in [edits : Nat, runs : Nat, secrets : Nat]

\* The steps in the order of main(); `archive` follows the cadence it is about.
After(at) == CASE at = "product" -> "monthly"
               [] at = "monthly" -> "annual"
               [] at = "annual"  -> "portal"
               [] at = "portal"  -> "endpoint"
               [] OTHER          -> "print"

-----------------------------------------------------------------------------
StartBilling(dry, recreate) ==
    /\ run.at = "idle"
    /\ used.runs < MaxRuns
    /\ used' = [used EXCEPT !.runs = @ + 1]
    /\ run' = [Resting EXCEPT !.at = "product", !.dry = dry, !.recreate = recreate]
    /\ UNCHANGED <<catalog, shop, printed, orphans>>

EnsureProduct ==
    /\ run.at = "product"
    /\ product' = (product \/ ~run.dry)
    /\ run' = [run EXCEPT !.at = After(@)]
    /\ UNCHANGED <<catalog, prices, portals, endpoints, printed, orphans, used>>

\* Mutant: a price is reused whatever it costs.
AnyPriceDoes(price, c) == FALSE

NeedsNewPrice(price, c) == price.amount # catalog[c]

\* prices.list: the active price that holds the key.
Found(c) == {p \in prices : p.cadence = c /\ p.key /\ p.active}

ReusePrice(c) ==
    /\ run.at = c
    /\ \E p \in Found(c) :
        /\ ~NeedsNewPrice(p, c)
        /\ run' = [run EXCEPT !.at = After(c), !.found[c] = p.id]
    /\ UNCHANGED <<catalog, shop, printed, orphans, used>>

\* A dry run goes on with a name no price has.
DryPrice(c) ==
    /\ run.at = c
    /\ run.dry
    /\ \A p \in Found(c) : NeedsNewPrice(p, c)
    /\ run' = [run EXCEPT !.at = After(c)]
    /\ UNCHANGED <<catalog, shop, printed, orphans, used>>

\* transfer_lookup_key
KeyTransferred(c) == {IF p.cadence = c THEN [p EXCEPT !.key = FALSE] ELSE p : p \in prices}

CreatePrice(c) ==
    /\ run.at = c
    /\ ~run.dry
    /\ \A p \in Found(c) : NeedsNewPrice(p, c)
    /\ LET id == Cardinality(prices) + 1
           new == [id |-> id, cadence |-> c, amount |-> catalog[c],
                   active |-> TRUE, key |-> TRUE]
       IN  /\ prices' = KeyTransferred(c) \cup {new}
           /\ IF Found(c) = {}
              THEN run' = [run EXCEPT !.at = After(c), !.found[c] = id]
              ELSE \E p \in Found(c) :
                     run' = [run EXCEPT !.at = "archive", !.found[c] = id, !.old = p.id]
    /\ UNCHANGED <<catalog, product, portals, endpoints, printed, orphans, used>>

\* Whoever pays the old price goes on paying it.
ArchivePrice ==
    /\ run.at = "archive"
    /\ prices' = {IF p.id = run.old THEN [p EXCEPT !.active = FALSE] ELSE p : p \in prices}
    /\ \E p \in prices :
        /\ p.id = run.old
        /\ run' = [run EXCEPT !.at = After(p.cadence), !.old = Absent]
    /\ UNCHANGED <<catalog, product, portals, endpoints, printed, orphans, used>>

\* Found by its tag among the first hundred, then updated; or created.
EnsurePortal ==
    /\ run.at = "portal"
    /\ \/ run.dry /\ UNCHANGED portals
       \/ /\ ~run.dry
          /\ \E old \in portals \cup {Absent} :
              /\ old = Absent => portals = {}
              /\ portals' = (portals \ {old}) \cup {{run.found[c] : c \in Intervals}}
    /\ run' = [run EXCEPT !.at = After(@)]
    /\ UNCHANGED <<catalog, product, prices, endpoints, printed, orphans, used>>

AtOurAddress == endpoints

\* Its status and its version are reported, its events completed; the secret is
\* the one it was created with.
KeepEndpoint ==
    /\ run.at = "endpoint"
    /\ AtOurAddress # {}
    /\ ~run.recreate
    /\ run' = [run EXCEPT !.at = "print"]
    /\ UNCHANGED <<catalog, shop, printed, orphans, used>>

DeleteEndpoint ==
    /\ run.at = "endpoint"
    /\ AtOurAddress # {}
    /\ run.recreate /\ ~run.dry
    /\ \E e \in AtOurAddress : endpoints' = endpoints \ {e}
    /\ run' = [run EXCEPT !.at = "create endpoint"]
    /\ UNCHANGED <<catalog, product, prices, portals, printed, orphans, used>>

DryEndpoint ==
    /\ run.at = "endpoint"
    /\ AtOurAddress = {} \/ run.recreate
    /\ run.dry
    /\ run' = [run EXCEPT !.at = "print"]
    /\ UNCHANGED <<catalog, shop, printed, orphans, used>>

\* Stripe returns the secret here and never again.
CreateEndpoint ==
    /\ ~run.dry
    /\ run.at = "create endpoint" \/ (run.at = "endpoint" /\ AtOurAddress = {})
    /\ LET secret == used.secrets + 1
       IN  /\ endpoints' = endpoints \cup {[secret |-> secret, enabled |-> TRUE]}
           /\ run' = [run EXCEPT !.at = "print", !.secret = secret]
           /\ used' = [used EXCEPT !.secrets = secret]
    /\ UNCHANGED <<catalog, product, prices, portals, printed, orphans>>

PrintEnvironment ==
    /\ run.at = "print"
    /\ printed' = IF run.dry THEN printed
                  ELSE [prices |-> run.found, edits |-> used.edits,
                        secret |-> IF run.secret # Absent THEN run.secret ELSE printed.secret]
    /\ run' = Resting
    /\ UNCHANGED <<catalog, shop, orphans, used>>

\* A refused request or a dead process; every write before it stands.
StopBilling ==
    /\ run.at # "idle"
    /\ orphans' = orphans \cup (IF run.at = "archive" THEN {run.old} ELSE {})
    /\ run' = Resting
    /\ UNCHANGED <<catalog, shop, printed, used>>

\* Someone edits plans.ts between two runs.
EditCatalog(c, amount) ==
    /\ run.at = "idle"
    /\ used.edits < MaxEdits
    /\ amount # catalog[c]
    /\ catalog' = [catalog EXCEPT ![c] = amount]
    /\ used' = [used EXCEPT !.edits = @ + 1]
    /\ UNCHANGED <<shop, run, printed, orphans>>

\* Stripe disables an endpoint whose deliveries keep failing.
StripeDisables ==
    /\ \E e \in endpoints :
        /\ e.enabled
        /\ endpoints' = (endpoints \ {e}) \cup {[e EXCEPT !.enabled = FALSE]}
    /\ UNCHANGED <<catalog, product, prices, portals, run, printed, orphans, used>>

BillingInit ==
    /\ catalog \in [Intervals -> Amounts]
    /\ product = FALSE
    /\ prices = {}
    /\ portals = {}
    /\ endpoints = {}
    /\ run = Resting
    /\ printed = [prices |-> [c \in Intervals |-> Absent], edits |-> 0, secret |-> Absent]
    /\ orphans = {}
    /\ used = [edits |-> 0, runs |-> 0, secrets |-> 0]

BillingNext ==
    \/ \E dry, recreate \in BOOLEAN : StartBilling(dry, recreate)
    \/ EnsureProduct
    \/ \E c \in Intervals : ReusePrice(c) \/ DryPrice(c) \/ CreatePrice(c)
    \/ ArchivePrice
    \/ EnsurePortal
    \/ KeepEndpoint \/ DeleteEndpoint \/ DryEndpoint \/ CreateEndpoint
    \/ PrintEnvironment
    \/ StopBilling
    \/ \E c \in Intervals, amount \in Amounts : EditCatalog(c, amount)
    \/ StripeDisables

-----------------------------------------------------------------------------
(* Properties *)

\* "Re-running is safe": however often the command dies and is run again, no two
\* prices hold one lookup key, and there is one portal configuration and one
\* endpoint at our address.
NothingTwice ==
    /\ \A c \in Intervals : Cardinality({p \in prices : p.cadence = c /\ p.key}) <= 1
    /\ Cardinality(portals) <= 1
    /\ Cardinality(endpoints) <= 1

\* What a finished run tells the operator to sell is on sale at the published
\* amount, in the portal too, and no other price is, but for those a run had
\* replaced and died before it archived them.
PublishedPriceSold ==
    (\A c \in Intervals : printed.prices[c] # Absent)
        /\ printed.edits = used.edits /\ run.at = "idle" =>
        /\ \A c \in Intervals : \E p \in prices :
            p.id = printed.prices[c] /\ p.active /\ p.key /\ p.amount = catalog[c]
        /\ \A p \in prices :
            p.active /\ p.id # printed.prices[p.cadence] => p.id \in orphans
        /\ {printed.prices[c] : c \in Intervals} \in portals

\* Runs that die anywhere and are run again end with one shop, at the published
\* amounts.
ShopSetUp == NothingTwice /\ PublishedPriceSold

=============================================================================
