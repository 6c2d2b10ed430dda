------------------------------- MODULE Policy -------------------------------
(***************************************************************************)
(* The visibility engine of packages/policy: which rule decides what a     *)
(* viewer sees of an event, and what a redacted page then holds.           *)
(*                                                                         *)
(* A rule's `fields` are those it marks visible; every other one is        *)
(* hidden.  Nothing writes reveal_at or expires_at, so a rule has no       *)
(* window.  The last tie-break of the code, on the rule's id, is left out: *)
(* one audience has one rule for each scope, so it is never reached.       *)
(***************************************************************************)
EXTENDS Integers, FiniteSets

CONSTANTS
    Contacts,
    Groups,
    Events,
    Everywhere,  \* the scope 'workspace', in the place of an event
    Fields,
    RefOrder,    \* the order of group ids as text
    None

ASSUME PolicyAssumption ==
    /\ IsFiniteSet(Fields)
    /\ Fields # {}
    /\ Everywhere \notin Events
    /\ None \notin Contacts \cup Groups \cup Nat
    /\ RefOrder \in [Groups -> Nat]
    /\ \A g, h \in Groups : RefOrder[g] = RefOrder[h] => g = h

TimeVisibility == {"exact", "busy", "hidden"}

Rule == [id : Nat,
         event : Events \cup {Everywhere},
         audience : {"individual", "group", "public"},
         ref : Contacts \cup Groups \cup {None},
         priority : Nat \cup {None},
         time : TimeVisibility,
         fields : SUBSET Fields]

\* Only a group rule has a priority, and only a rule about somebody a reference.
WellFormed(r) ==
    /\ r \in Rule
    /\ r.audience = "individual" => r.ref \in Contacts
    /\ r.audience = "group" => r.ref \in Groups /\ r.priority \in Nat
    /\ r.audience = "public" => r.ref = None

Viewer == [kind : {"owner", "individual", "public"},
           contact : Contacts \cup {None},
           groups : SUBSET Groups]

-----------------------------------------------------------------------------
(* Which rule wins                                                         *)

AudienceRank == [individual |-> 1, group |-> 2, public |-> 3]

ScopeRank(r) == IF r.event = Everywhere THEN 1 ELSE 0

TimeRestriction == [exact |-> 0, busy |-> 1, hidden |-> 2]

Restrictiveness(r) == TimeRestriction[r.time] * 1000 + Cardinality(Fields \ r.fields)

\* D8: the group's priority, then the more restrictive, then the group's id.
GroupBeats(a, b) ==
    \/ a.priority < b.priority
    \/ /\ a.priority = b.priority
       /\ Restrictiveness(a) > Restrictiveness(b)
    \/ /\ a.priority = b.priority
       /\ Restrictiveness(a) = Restrictiveness(b)
       /\ RefOrder[a.ref] < RefOrder[b.ref]

GroupTies(a, b) ==
    /\ a.priority = b.priority
    /\ Restrictiveness(a) = Restrictiveness(b)
    /\ RefOrder[a.ref] = RefOrder[b.ref]

Beats(a, b) ==
    \/ AudienceRank[a.audience] < AudienceRank[b.audience]
    \/ /\ a.audience = "group"
       /\ b.audience = "group"
       /\ GroupBeats(a, b)
    \/ /\ a.audience = b.audience
       /\ a.audience = "group" => GroupTies(a, b)
       /\ ScopeRank(a) < ScopeRank(b)

Applies(r, v) ==
    \/ r.audience = "individual" /\ v.kind = "individual" /\ r.ref = v.contact
    \/ r.audience = "group" /\ r.ref \in v.groups
    \/ r.audience = "public"

Winner(rs) == CHOOSE r \in rs : \A s \in rs \ {r} : Beats(r, s)

-----------------------------------------------------------------------------
(* What it grants                                                          *)

Decision == [time : TimeVisibility, fields : SUBSET Fields]

Materialise(time, fields) ==
    [time |-> time, fields |-> IF time = "exact" THEN fields ELSE {}]

\* Mutant: a contact nobody has a rule about is shown busy times.
BusyByDefault == "busy"

DefaultTime == "hidden"

Evaluate(rs, v) ==
    LET candidates == {r \in rs : Applies(r, v)} IN
    IF v.kind = "owner" THEN [time |-> "exact", fields |-> Fields]
    ELSE IF candidates # {}
         THEN Materialise(Winner(candidates).time, Winner(candidates).fields)
    ELSE Materialise(IF v.kind = "individual" THEN DefaultTime ELSE "hidden", {})

\* What a page holds of the event.
Redact(d) ==
    [event |-> d.time # "hidden",
     calendar |-> d.time = "exact",
     fields |-> IF d.time = "exact" THEN d.fields ELSE {}]

Openness == [full |-> 0, limited |-> 1, busy |-> 2, hidden |-> 3]

Level(d) ==
    IF d.time # "exact" THEN d.time
    ELSE IF d.fields = Fields THEN "full" ELSE "limited"
=============================================================================
