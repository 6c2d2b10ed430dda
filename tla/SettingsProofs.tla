--------------------------- MODULE SettingsProofs ---------------------------
(***************************************************************************)
(* Proofs about the forms of the settings and people pages, for any tabs,  *)
(* fields, calendars, groups of windows and drafts and any number of calls *)
(* under way; about the grid of a week, for any occurrences and hours; and *)
(* about the holidays of every region, for any dates and settings.         *)
(***************************************************************************)
EXTENDS SettingsPages, FiniteSetTheorems, SequenceTheorems, TLAPS

-----------------------------------------------------------------------------
(* Calls                                                                   *)

CallShape(c) == DOMAIN c = {"id", "tab", "control", "about", "request", "stage"}

\* A call that is not adrift: somebody waits for its answer.
Awaited(c) == c.stage # "adrift"

-----------------------------------------------------------------------------
(* The calendar settings                                                   *)

OpenRow == [row : Calendars, value : Nat]

PatchCall(c) ==
    /\ CallShape(c)
    /\ c.about \in Cells
    /\ DOMAIN c.request = {c.about}

\* The one call about a cell that is not in doubt carries what was picked, or
\* has stored it.
CarriesPick(c) ==
    /\ c.stage \in {"sent", "done"}
    /\ (IF c.stage = "sent" THEN c.request ELSE stored)[c.about] = pick[c.about]
    /\ \A d \in calls : d.about = c.about => d = c

FormsInv ==
    /\ DOMAIN stored = Cells /\ stored = [x \in Cells |-> stored[x]]
    /\ DOMAIN pick = Cells /\ pick = [x \in Cells |-> pick[x]]
    /\ renaming \in [Tabs -> OpenRow \cup {Nothing}]
    /\ typed \in Nat
    /\ \A c \in calls : PatchCall(c)
    /\ \A c \in calls : c.about \notin unsure => CarriesPick(c)
    /\ PicksStand

PicksInv ==
    /\ surface = "calendar" => FormsInv
    /\ surface # "calendar" => stored = pick

-----------------------------------------------------------------------------
(* The forms that make something                                           *)

DraftCall(c) ==
    /\ CallShape(c)
    /\ c.tab = Page
    /\ c.about[2] \in 1..drafts
    /\ c.about = <<"draft", c.about[2]>>
    /\ c.stage \in {"sent", "done", "adrift"}

\* The call that is awaited is the open form's.
OfTheForm(c) ==
    /\ form # Nothing
    /\ form.kind = c.control
    /\ form.draft = c.about[2]
    /\ form.target
    /\ \A d \in calls : Awaited(d) => d = c

NewInv ==
    /\ drafts \in Nat
    /\ form # Nothing => form.draft \in 0..drafts /\ {"kind", "draft", "target"} \subseteq DOMAIN form
    /\ \A r \in rows : r.draft \in 1..drafts
    /\ \A c \in calls : DraftCall(c)
    /\ \A c \in calls : Awaited(c) => OfTheForm(c)
    /\ \A c \in calls : ~Awaited(c) => c.about[2] \in broken
    /\ \A c \in calls : c.stage = "sent" /\ c.about[2] \notin broken
         => \A r \in rows : r.draft # c.about[2]
    \* The draft of a row that was made is with an answer on its way, or gone.
    /\ form # Nothing /\ form.draft \notin broken =>
         \A r \in rows : r.draft = form.draft => \E c \in calls : c.stage = "done"
    /\ TwinsOnlyAfterLoss

TwinsInv ==
    /\ surface = "new" => NewInv
    /\ surface # "new" => rows = {}

-----------------------------------------------------------------------------
(* Who sees what                                                           *)

\* Fields are told of where the time is, and nowhere else.
Tellable(r) == r.fields \subseteq RuleFields /\ (r.time # "exact" => r.fields = {})

\* A request about a rule names the key it is about; a deletion is of a rule
\* that has no other.
RuleCall(c) ==
    /\ CallShape(c)
    /\ c.request.op \in {"set", "delete"} => c.about \in Keys
    /\ c.request.op = "set" => Tellable(c.request)
    /\ c.request.op \notin {"set", "delete"} => c.about = Nothing
    /\ c.request.op = "remove" => c.request.who \in Audiences
    /\ c.request.op = "delete" =>
         /\ c.request.id \in 0..issued
         /\ \A r \in rules : r.id = c.request.id => KeyOf(r) = c.about

KnownRule(r) == r.id \in 0..issued /\ KeyOf(r) \in Keys /\ Tellable(r)

\* The fields are those that are wanted, but for what went along with a switch.
AsWished(key, fields) ==
    wish[key] # Nothing /\ Unlike(fields, wish[key]) \subseteq tacit[key]

Wished(key) ==
    IF Own(rules, key) = {} THEN wish[key] = Nothing
    ELSE \A r \in Own(rules, key) : AsWished(key, r.fields)

\* A wish, kept for every key.
WishShape ==
    /\ wish \in [Keys -> (SUBSET RuleFields) \cup {Nothing}]
    /\ tacit = [k \in Keys |-> tacit[k]]

OneRowEach(rs) == \A r, s \in rs : KeyOf(r) = KeyOf(s) => r = s

\* The one call about a key that is not in doubt brings the wish about.
CarriesWish(c) ==
    /\ c.stage \in {"sent", "done"}
    /\ c.stage = "done" => Wished(c.about)
    /\ c.stage = "sent" /\ c.request.op = "set" => AsWished(c.about, c.request.fields)
    /\ c.stage = "sent" /\ c.request.op = "delete" =>
         /\ wish[c.about] = Nothing
         /\ Own(rules, c.about) # {}
         /\ \A r \in Own(rules, c.about) : r.id = c.request.id
    /\ \A d \in calls : d.about = c.about => d = c

RulesInv ==
    /\ issued \in Nat
    /\ WishShape
    /\ drawn = [t \in Tabs |-> drawn[t]]
    /\ \A r \in rules : KnownRule(r)
    /\ OneRowEach(rules)
    /\ \A t \in Tabs : OneRowEach(drawn[t].rules)
    /\ \A t \in Tabs : \A r \in drawn[t].rules : KnownRule(r)
    /\ \A t \in Tabs : \A r \in drawn[t].rules, s \in rules : r.id = s.id => KeyOf(r) = KeyOf(s)
    /\ \A r, s \in rules : r.id = s.id => KeyOf(r) = KeyOf(s)
    /\ \A c \in calls : RuleCall(c)
    /\ \A c \in calls : c.about \in Keys \ doubt => CarriesWish(c)
    /\ SwitchesLand

LandInv ==
    /\ surface = "rules" => RulesInv
    /\ surface # "rules" =>
         rules = {} /\ wish = [k \in Keys |-> Nothing] /\ tacit = [k \in Keys |-> {}]

-----------------------------------------------------------------------------
(* The hours                                                               *)

\* "Saved." is said of the rows.
SavedIsStored == saved /\ ~overtaken => Range(draft) = hours

HoursInv ==
    /\ saved \in BOOLEAN /\ overtaken \in BOOLEAN
    /\ \A c \in calls : CallShape(c) /\ c.tab = Page /\ c.control = "hours"
    /\ \A c, d \in calls : Awaited(c) /\ Awaited(d) => c = d
    /\ \A c \in calls : c.stage = "done" /\ ~overtaken => Range(draft) = hours
    /\ SavedIsStored

SavedInv ==
    /\ surface = "hours" => HoursInv
    /\ surface # "hours" => ~saved


-----------------------------------------------------------------------------
(* What the steps of a call leave                                          *)

Same(c, d) ==
    /\ d.tab = c.tab /\ d.control = c.control
    /\ d.about = c.about /\ d.request = c.request

LEMMA Restaged ==
    ASSUME NEW c, CallShape(c), NEW s
    PROVE  CallShape([c EXCEPT !.stage = s]) /\ Same(c, [c EXCEPT !.stage = s])
           /\ [c EXCEPT !.stage = s].stage = s
BY DEF CallShape, Same

\* A call that is sent.
LEMMA SendAdds ==
    ASSUME NEW t, NEW control, NEW about, NEW request, Send(t, control, about, request)
    PROVE  \E d : /\ calls' = calls \cup {d}
                  /\ CallShape(d) /\ d.tab = t /\ d.control = control
                  /\ d.about = about /\ d.request = request /\ d.stage = "sent"
<1> DEFINE d == [id |-> made, tab |-> t, control |-> control, about |-> about,
                 request |-> request, stage |-> "sent"]
<1>1. calls' = calls \cup {d} BY DEF Send
<1>2. /\ CallShape(d) /\ d.tab = t /\ d.control = control
      /\ d.about = about /\ d.request = request /\ d.stage = "sent"
  BY DEF CallShape
<1> QED BY <1>1, <1>2

\* A call that is served is answered, or nobody waits for it.
LEMMA ServedMoves ==
    ASSUME NEW c \in calls, CallShape(c), NEW stage, Served(c, stage)
    PROVE  /\ c.stage = "sent" =>
                 \E d : /\ calls' = (calls \ {c}) \cup {d}
                        /\ CallShape(d) /\ Same(c, d) /\ d.stage = stage
           /\ c.stage # "sent" => c.stage = "adrift" /\ calls' = calls \ {c}
           /\ UNCHANGED <<made, refreshing>>
BY Restaged DEF Served

\* A call whose connection breaks is adrift, or was served and is gone.
LEMMA BrokenMoves ==
    ASSUME NEW c \in calls, CallShape(c), Broken(c)
    PROVE  /\ c.stage # "adrift"
           /\ c.stage = "sent" =>
                 \E d : /\ calls' = (calls \ {c}) \cup {d}
                        /\ CallShape(d) /\ Same(c, d) /\ d.stage = "adrift"
           /\ c.stage # "sent" => calls' = calls \ {c}
           /\ UNCHANGED <<made, refreshing>>
BY Restaged DEF Broken

-----------------------------------------------------------------------------
(* The calendar settings                                                   *)

LEMMA OverlaidFacts ==
    ASSUME DOMAIN stored = Cells, NEW patch
    PROVE  /\ DOMAIN Overlaid(patch) = Cells
           /\ Overlaid(patch) = [x \in Cells |-> Overlaid(patch)[x]]
           /\ \A x \in Cells : Overlaid(patch)[x] = IF x \in DOMAIN patch THEN patch[x] ELSE stored[x]
BY DEF Overlaid

\* The owner picks a value for a cell: the pick is theirs, and the cell is in
\* doubt when a call about it is under way.
LEMMA ChosenFacts ==
    ASSUME FormsInv, NEW x \in Cells, NEW value, Chosen(x, value)
    PROVE  /\ DOMAIN pick' = Cells /\ pick' = [y \in Cells |-> pick'[y]]
           /\ pick'[x] = value
           /\ \A y \in Cells : y # x => pick'[y] = pick[y]
           /\ \A y : y # x => (y \in unsure' <=> y \in unsure)
           /\ x \in unsure' <=> Pending(x)
<1>1. /\ DOMAIN pick' = Cells /\ pick' = [y \in Cells |-> pick'[y]]
      /\ pick'[x] = value
      /\ \A y \in Cells : y # x => pick'[y] = pick[y]
  BY DEF Chosen, FormsInv
<1>2. /\ \A y : y # x => (y \in unsure' <=> y \in unsure)
      /\ x \in unsure' <=> Pending(x)
  BY DEF Chosen
<1> QED BY <1>1, <1>2

LEMMA RequestKeeps ==
    ASSUME FormsInv, NEW t \in Tabs, NEW control, NEW x \in Cells, NEW value,
           Request(t, control, x, value)
    PROVE  /\ DOMAIN stored' = Cells /\ stored' = [y \in Cells |-> stored'[y]]
           /\ DOMAIN pick' = Cells /\ pick' = [y \in Cells |-> pick'[y]]
           /\ \A c \in calls' : PatchCall(c)'
           /\ \A c \in calls' : c.about \notin unsure' => CarriesPick(c)'
           /\ PicksStand'
<1>1. Send(t, control, x, Patch(t, x, value)) /\ Chosen(x, value) /\ UNCHANGED stored
  BY DEF Request
<1>2. PICK d : /\ calls' = calls \cup {d}
               /\ CallShape(d) /\ d.tab = t /\ d.control = control
               /\ d.about = x /\ d.request = Patch(t, x, value) /\ d.stage = "sent"
  BY <1>1, SendAdds
<1>3. /\ DOMAIN pick' = Cells /\ pick' = [y \in Cells |-> pick'[y]]
      /\ pick'[x] = value
      /\ \A y \in Cells : y # x => pick'[y] = pick[y]
      /\ \A y : y # x => (y \in unsure' <=> y \in unsure)
      /\ x \in unsure' <=> Pending(x)
  BY <1>1, ChosenFacts
<1>4. DOMAIN d.request = {x} /\ d.request[x] = value BY <1>2 DEF Patch
<1>5. \A c \in calls' : PatchCall(c)' BY <1>2, <1>4 DEF FormsInv, PatchCall, CallShape
<1>6. ASSUME NEW c \in calls', c.about \notin unsure' PROVE CarriesPick(c)'
  <2>1. CASE c.about = x
    <3>1. ~Pending(x) BY <1>3, <1>6, <2>1
    <3>2. \A e \in calls' : e.about = x => e = d BY <3>1, <1>2 DEF Pending
    <3>3. c = d BY <3>2, <2>1
    <3> QED BY <3>2, <3>3, <1>2, <1>3, <1>4, <2>1 DEF CarriesPick
  <2>2. CASE c.about # x
    <3>1. c \in calls /\ c.about \notin unsure /\ c.about \in Cells
      BY <2>2, <1>2, <1>3, <1>6 DEF FormsInv, PatchCall
    <3>2. CarriesPick(c) BY <3>1 DEF FormsInv
    <3>3. pick'[c.about] = pick[c.about] BY <1>3, <2>2, <3>1
    <3>4. \A e \in calls' : e.about = c.about => e = c
      BY <3>2, <1>2, <2>2 DEF CarriesPick
    <3> QED BY <3>2, <3>3, <3>4, <1>1 DEF CarriesPick
  <2> QED BY <2>1, <2>2
<1>7. PicksStand'
  <2> SUFFICES ASSUME NEW y \in Cells, y \notin unsure', ~Pending(y)' PROVE stored'[y] = pick'[y]
    BY DEF PicksStand, Cells, Pref, Colour, Name
  <2>1. y # x BY <1>2 DEF Pending
  <2>2. ~Pending(y) /\ y \notin unsure BY <2>1, <1>2, <1>3 DEF Pending
  <2> QED BY <2>1, <2>2, <1>1, <1>3 DEF FormsInv, PicksStand
<1>8. DOMAIN stored' = Cells /\ stored' = [y \in Cells |-> stored'[y]] BY <1>1 DEF FormsInv
<1> QED BY <1>3, <1>5, <1>6, <1>7, <1>8

LEMMA KeepKeeps ==
    ASSUME FormsInv, NEW t \in Tabs, NEW x \in Cells, NEW value, Keep(t, x, value)
    PROVE  /\ DOMAIN stored' = Cells /\ stored' = [y \in Cells |-> stored'[y]]
           /\ DOMAIN pick' = Cells /\ pick' = [y \in Cells |-> pick'[y]]
           /\ \A c \in calls' : PatchCall(c)'
           /\ \A c \in calls' : c.about \notin unsure' => CarriesPick(c)'
           /\ PicksStand'
<1>1. stored' = Overlaid(Patch(t, x, value)) /\ Chosen(x, value) /\ UNCHANGED calls
  BY DEF Keep
<1>2. /\ DOMAIN pick' = Cells /\ pick' = [y \in Cells |-> pick'[y]]
      /\ pick'[x] = value
      /\ \A y \in Cells : y # x => pick'[y] = pick[y]
      /\ \A y : y # x => (y \in unsure' <=> y \in unsure)
      /\ x \in unsure' <=> Pending(x)
  BY <1>1, ChosenFacts
<1>3. DOMAIN stored = Cells BY DEF FormsInv
<1>4. DOMAIN Patch(t, x, value) = {x} /\ Patch(t, x, value)[x] = value BY DEF Patch
<1>5. /\ DOMAIN stored' = Cells /\ stored' = [y \in Cells |-> stored'[y]]
      /\ stored'[x] = value
      /\ \A y \in Cells : y # x => stored'[y] = stored[y]
  BY <1>1, <1>3, <1>4, OverlaidFacts
<1>6. \A c \in calls' : PatchCall(c)' BY <1>1 DEF FormsInv, PatchCall
<1>7. ASSUME NEW c \in calls', c.about \notin unsure' PROVE CarriesPick(c)'
  <2>1. c \in calls /\ c.about \in Cells BY <1>1 DEF FormsInv, PatchCall
  <2>2. c.about # x BY <1>2, <1>7, <2>1 DEF Pending
  <2>3. CarriesPick(c) BY <1>2, <1>7, <2>1, <2>2 DEF FormsInv
  <2>4. pick'[c.about] = pick[c.about] /\ stored'[c.about] = stored[c.about]
    BY <1>2, <1>5, <2>1, <2>2
  <2> QED BY <2>3, <2>4, <1>1 DEF CarriesPick
<1>8. PicksStand'
  <2> SUFFICES ASSUME NEW y \in Cells, y \notin unsure', ~Pending(y)' PROVE stored'[y] = pick'[y]
    BY DEF PicksStand, Cells, Pref, Colour, Name
  <2>1. CASE y = x BY <2>1, <1>2, <1>5
  <2>2. CASE y # x
    <3>1. ~Pending(y) /\ y \notin unsure BY <2>2, <1>1, <1>2 DEF Pending
    <3> QED BY <2>2, <3>1, <1>2, <1>5 DEF FormsInv, PicksStand
  <2> QED BY <2>1, <2>2
<1> QED BY <1>2, <1>5, <1>6, <1>7, <1>8

\* Cells and picks as they are, the rest of the form as it may be.
LEMMA CellsStand ==
    ASSUME FormsInv, UNCHANGED <<calls, stored, pick, unsure>>
    PROVE  /\ DOMAIN stored' = Cells /\ stored' = [y \in Cells |-> stored'[y]]
           /\ DOMAIN pick' = Cells /\ pick' = [y \in Cells |-> pick'[y]]
           /\ \A c \in calls' : PatchCall(c)'
           /\ \A c \in calls' : c.about \notin unsure' => CarriesPick(c)'
           /\ PicksStand'
BY DEF FormsInv, PatchCall, CarriesPick, PicksStand, Pending, Cells, Pref, Colour, Name

LEMMA ApplyKeeps ==
    ASSUME FormsInv, NEW c \in calls, Apply(c)
    PROVE  /\ DOMAIN stored' = Cells /\ stored' = [y \in Cells |-> stored'[y]]
           /\ DOMAIN pick' = Cells /\ pick' = [y \in Cells |-> pick'[y]]
           /\ \A e \in calls' : PatchCall(e)'
           /\ \A e \in calls' : e.about \notin unsure' => CarriesPick(e)'
           /\ PicksStand'
<1>1. Served(c, "done") /\ stored' = Overlaid(c.request) /\ UNCHANGED <<pick, unsure>>
  BY DEF Apply
<1>2. PatchCall(c) /\ CallShape(c) /\ c.about \in Cells /\ DOMAIN c.request = {c.about}
  BY DEF FormsInv, PatchCall
<1>3. /\ DOMAIN stored' = Cells /\ stored' = [y \in Cells |-> stored'[y]]
      /\ stored'[c.about] = c.request[c.about]
      /\ \A y \in Cells : y # c.about => stored'[y] = stored[y]
  BY <1>1, <1>2, OverlaidFacts DEF FormsInv
<1>4. /\ c.stage = "sent" =>
           \E d : /\ calls' = (calls \ {c}) \cup {d}
                  /\ CallShape(d) /\ Same(c, d) /\ d.stage = "done"
      /\ c.stage # "sent" => c.stage = "adrift" /\ calls' = calls \ {c}
  BY <1>1, <1>2, ServedMoves
<1>5. \A e \in calls : e # c /\ e.about \notin unsure /\ c.about \notin unsure => e.about # c.about
  BY DEF FormsInv, CarriesPick
<1>6. ASSUME NEW e \in calls, e # c, e.about \notin unsure
      PROVE  /\ e.about \in Cells /\ e.about # c.about
             /\ CarriesPick(e) /\ stored'[e.about] = stored[e.about]
  <2>1. e.about \in Cells /\ CarriesPick(e) BY <1>6 DEF FormsInv, PatchCall
  <2>2. e.about # c.about BY <1>6, <2>1 DEF CarriesPick
  <2> QED BY <2>1, <2>2, <1>3
<1>7. CASE c.stage = "sent"
  <2>1. PICK d : /\ calls' = (calls \ {c}) \cup {d}
                 /\ CallShape(d) /\ Same(c, d) /\ d.stage = "done"
    BY <1>4, <1>7
  <2>2. \A e \in calls' : PatchCall(e)' BY <2>1, <1>2 DEF FormsInv, PatchCall, Same, CallShape
  <2>3. ASSUME NEW e \in calls', e.about \notin unsure' PROVE CarriesPick(e)'
    <3>1. CASE e = d
      <4>1. c.about \notin unsure /\ CarriesPick(c)
        BY <3>1, <2>3, <2>1, <1>1 DEF Same, FormsInv
      <4>2. c.request[c.about] = pick[c.about] BY <4>1, <1>7 DEF CarriesPick
      <4>3. \A f \in calls' : f.about = d.about => f = d
        BY <4>1, <2>1 DEF CarriesPick, Same
      <4> QED BY <3>1, <4>2, <4>3, <2>1, <1>1, <1>3 DEF CarriesPick, Same
    <3>2. CASE e # d
      <4>1. e \in calls /\ e # c /\ e.about \notin unsure BY <3>2, <2>1, <2>3, <1>1
      <4>2. /\ e.about # c.about
            /\ CarriesPick(e) /\ stored'[e.about] = stored[e.about]
        BY <4>1, <1>6
      <4>3. \A f \in calls' : f.about = e.about => f = e
        BY <4>2, <2>1 DEF CarriesPick, Same
      <4> QED BY <4>2, <4>3, <1>1 DEF CarriesPick
    <3> QED BY <3>1, <3>2
  <2>4. PicksStand'
    <3> SUFFICES ASSUME NEW y \in Cells, y \notin unsure', ~Pending(y)' PROVE stored'[y] = pick'[y]
      BY DEF PicksStand, Cells, Pref, Colour, Name
    <3>1. y # c.about /\ ~Pending(y) BY <2>1 DEF Pending, Same
    <3> QED BY <3>1, <1>1, <1>3 DEF FormsInv, PicksStand
  <2> QED BY <1>1, <1>3, <2>2, <2>3, <2>4 DEF FormsInv
<1>8. CASE c.stage # "sent"
  <2>1. calls' = calls \ {c} /\ c.stage = "adrift" BY <1>4, <1>8
  <2>2. c.about \in unsure BY <2>1 DEF FormsInv, CarriesPick
  <2>3. \A e \in calls' : PatchCall(e)' BY <2>1 DEF FormsInv, PatchCall
  <2>4. ASSUME NEW e \in calls', e.about \notin unsure' PROVE CarriesPick(e)'
    <3>1. CarriesPick(e) /\ stored'[e.about] = stored[e.about] BY <2>1, <2>4, <1>1, <1>6
    <3> QED BY <3>1, <2>1, <1>1 DEF CarriesPick
  <2>5. PicksStand'
    <3> SUFFICES ASSUME NEW y \in Cells, y \notin unsure', ~Pending(y)' PROVE stored'[y] = pick'[y]
      BY DEF PicksStand, Cells, Pref, Colour, Name
    <3>1. y # c.about BY <2>2, <1>1
    <3>2. ~Pending(y) BY <3>1, <2>1 DEF Pending
    <3> QED BY <3>1, <3>2, <1>1, <1>3 DEF FormsInv, PicksStand
  <2> QED BY <1>1, <1>3, <2>3, <2>4, <2>5 DEF FormsInv
<1> QED BY <1>7, <1>8

LEMMA SavedKeeps ==
    ASSUME FormsInv, NEW c \in calls, c.stage = "done" \/ c.about \in unsure',
           calls' = calls \ {c}, UNCHANGED <<stored, pick>>, unsure \subseteq unsure',
           \A y : y # c.about /\ y \in unsure' => y \in unsure
    PROVE  /\ DOMAIN stored' = Cells /\ stored' = [y \in Cells |-> stored'[y]]
           /\ DOMAIN pick' = Cells /\ pick' = [y \in Cells |-> pick'[y]]
           /\ \A e \in calls' : PatchCall(e)'
           /\ \A e \in calls' : e.about \notin unsure' => CarriesPick(e)'
           /\ PicksStand'
<1>1. \A e \in calls' : PatchCall(e)' BY DEF FormsInv, PatchCall
<1>2. ASSUME NEW e \in calls', e.about \notin unsure' PROVE CarriesPick(e)'
  <2>1. e \in calls /\ CarriesPick(e) BY <1>2 DEF FormsInv
  <2> QED BY <2>1 DEF CarriesPick
<1>3. PicksStand'
  <2> SUFFICES ASSUME NEW y \in Cells, y \notin unsure', ~Pending(y)' PROVE stored'[y] = pick'[y]
    BY DEF PicksStand, Cells, Pref, Colour, Name
  <2>1. CASE y = c.about
    <3>1. CarriesPick(c) /\ c.stage = "done" BY <2>1 DEF FormsInv
    <3> QED BY <3>1, <2>1 DEF CarriesPick
  <2>2. CASE y # c.about
    <3>1. ~Pending(y) BY <2>2 DEF Pending
    <3> QED BY <3>1 DEF FormsInv, PicksStand
  <2> QED BY <2>1, <2>2
<1> QED BY <1>1, <1>2, <1>3 DEF FormsInv

LEMMA LostKeeps ==
    ASSUME FormsInv, NEW c \in calls, Lost(c)
    PROVE  /\ DOMAIN stored' = Cells /\ stored' = [y \in Cells |-> stored'[y]]
           /\ DOMAIN pick' = Cells /\ pick' = [y \in Cells |-> pick'[y]]
           /\ \A e \in calls' : PatchCall(e)'
           /\ \A e \in calls' : e.about \notin unsure' => CarriesPick(e)'
           /\ PicksStand'
<1>1. Broken(c) /\ unsure' = unsure \cup {c.about} /\ UNCHANGED <<stored, pick>> BY DEF Lost
<1>2. CallShape(c) /\ PatchCall(c) BY DEF FormsInv, PatchCall
<1>3. /\ c.stage = "sent" =>
           \E d : /\ calls' = (calls \ {c}) \cup {d}
                  /\ CallShape(d) /\ Same(c, d) /\ d.stage = "adrift"
      /\ c.stage # "sent" => calls' = calls \ {c}
  BY <1>1, <1>2, BrokenMoves
<1>4. CASE c.stage = "sent"
  <2>1. PICK d : /\ calls' = (calls \ {c}) \cup {d}
                 /\ CallShape(d) /\ Same(c, d) /\ d.stage = "adrift"
    BY <1>3, <1>4
  <2>2. \A e \in calls' : PatchCall(e)' BY <2>1, <1>2 DEF FormsInv, PatchCall, Same, CallShape
  <2>3. ASSUME NEW e \in calls', e.about \notin unsure' PROVE CarriesPick(e)'
    <3>1. e # d /\ e \in calls /\ CarriesPick(e) BY <2>1, <2>3, <1>1 DEF Same, FormsInv
    <3>2. e.about # d.about BY <2>1, <2>3, <1>1 DEF Same
    <3> QED BY <3>1, <3>2, <2>1, <1>1 DEF CarriesPick
  <2>4. PicksStand'
    <3> SUFFICES ASSUME NEW y \in Cells, y \notin unsure', ~Pending(y)' PROVE stored'[y] = pick'[y]
      BY DEF PicksStand, Cells, Pref, Colour, Name
    <3>1. y # c.about /\ ~Pending(y) BY <2>1, <1>1 DEF Pending
    <3> QED BY <3>1, <1>1 DEF FormsInv, PicksStand
  <2> QED BY <1>1, <2>2, <2>3, <2>4 DEF FormsInv
<1>5. CASE c.stage # "sent" BY <1>5, <1>1, <1>3, SavedKeeps
<1> QED BY <1>4, <1>5

LEMMA FormsStep ==
    ASSUME FormsInv, FormsNext
    PROVE  FormsInv'
<1> DEFINE CellsInv == /\ DOMAIN stored' = Cells /\ stored' = [y \in Cells |-> stored'[y]]
                       /\ DOMAIN pick' = Cells /\ pick' = [y \in Cells |-> pick'[y]]
                       /\ \A c \in calls' : PatchCall(c)'
                       /\ \A c \in calls' : c.about \notin unsure' => CarriesPick(c)'
                       /\ PicksStand'
           RowsInv == renaming' \in [Tabs -> OpenRow \cup {Nothing}] /\ typed' \in Nat
<1>1. SUFFICES CellsInv /\ RowsInv
  BY DEF FormsInv, Cells, Pref, Colour, Name, OpenRow
<1>2. UNCHANGED <<renaming, typed>> => RowsInv BY DEF FormsInv
<1>3. UNCHANGED <<calls, stored, pick, unsure>> => CellsInv BY CellsStand
<1>4. ASSUME NEW t \in Tabs, NEW control, NEW x \in Cells, NEW value,
             Request(t, control, x, value) \/ Keep(t, x, value)
      PROVE  CellsInv /\ typed' = typed
  BY <1>4, RequestKeeps, KeepKeeps DEF Request, Keep
<1>5. ASSUME NEW t \in Tabs, NEW f \in PrefFields, NEW v, ChoosePref(t, f, v)
      PROVE  CellsInv /\ RowsInv
  <2>1. Pref(f) \in Cells BY DEF Cells
  <2>2. Request(t, Section(f), Pref(f), v) \/ Keep(t, Pref(f), v)
    BY <1>5 DEF ChoosePref, SavePrefs
  <2>3. UNCHANGED renaming BY <1>5 DEF ChoosePref
  <2> HIDE DEF CellsInv, RowsInv
  <2> QED BY <2>1, <2>2, <2>3, <1>4, <1>2
<1>6. ASSUME NEW t \in Tabs, ToggleHolidays(t) PROVE CellsInv /\ RowsInv
  <2>1. Pref("holidayRegion") \in Cells BY <1>6 DEF Cells, ToggleHolidays
  <2>2. PICK v : Request(t, "switch", Pref("holidayRegion"), v) \/ Keep(t, Pref("holidayRegion"), v)
    BY <1>6 DEF ToggleHolidays, SavePrefs
  <2>3. UNCHANGED renaming BY <1>6 DEF ToggleHolidays
  <2> HIDE DEF CellsInv, RowsInv
  <2> QED BY <2>1, <2>2, <2>3, <1>4, <1>2
<1>7. ASSUME NEW t \in Tabs, NEW c \in Calendars, NEW v, Recolor(t, c, v)
      PROVE  CellsInv /\ RowsInv
  <2>1. Colour(c) \in Cells BY DEF Cells
  <2>2. Request(t, "row", Colour(c), v) /\ UNCHANGED renaming BY <1>7 DEF Recolor
  <2> HIDE DEF CellsInv, RowsInv
  <2> QED BY <2>1, <2>2, <1>4, <1>2
<1>8. ASSUME NEW t \in Tabs, NEW c \in Calendars, StartRename(t, c)
      PROVE  CellsInv /\ RowsInv
  <2>1. UNCHANGED <<calls, stored, pick, unsure>> BY <1>8 DEF StartRename, callVars
  <2>2. [row |-> c, value |-> 0] \in OpenRow BY DEF OpenRow
  <2>3. RowsInv BY <1>8, <2>2 DEF StartRename, FormsInv
  <2> QED BY <2>1, <2>3, <1>3
<1>9. ASSUME NEW t \in Tabs, TypeName(t) PROVE CellsInv /\ RowsInv
  <2>1. UNCHANGED <<calls, stored, pick, unsure>> BY <1>9 DEF TypeName, callVars
  <2>2. typed' \in Nat BY <1>9 DEF TypeName, FormsInv
  <2>3. renaming[t] \in OpenRow BY <1>9 DEF TypeName, FormsInv
  <2>4. [renaming[t] EXCEPT !.value = typed'] \in OpenRow BY <2>2, <2>3 DEF OpenRow
  <2>5. renaming' = [renaming EXCEPT ![t] = [renaming[t] EXCEPT !.value = typed']]
    BY <1>9 DEF TypeName
  <2>6. renaming' \in [Tabs -> OpenRow \cup {Nothing}] BY <2>4, <2>5 DEF FormsInv
  <2> QED BY <2>1, <2>2, <2>6, <1>3
<1>10. ASSUME NEW t \in Tabs, CancelRename(t) PROVE CellsInv /\ RowsInv
  <2>1. UNCHANGED <<calls, stored, pick, unsure>> BY <1>10 DEF CancelRename, callVars
  <2>2. RowsInv BY <1>10 DEF CancelRename, FormsInv
  <2> QED BY <2>1, <2>2, <1>3
<1>11. ASSUME NEW t \in Tabs, Rename(t) PROVE CellsInv /\ RowsInv
  <2>1. renaming[t] \in OpenRow BY <1>11 DEF Rename, FormsInv
  <2>2. Name(renaming[t].row) \in Cells BY <2>1 DEF OpenRow, Cells
  <2>3. PICK v : Request(t, "name", Name(renaming[t].row), v) BY <1>11 DEF Rename
  <2>4. UNCHANGED renaming BY <1>11 DEF Rename
  <2> HIDE DEF CellsInv, RowsInv
  <2> QED BY <2>2, <2>3, <2>4, <1>4, <1>2
<1>12. ASSUME NEW t \in Tabs, Refreshed(t) PROVE CellsInv /\ RowsInv
  BY <1>12, <1>2, <1>3 DEF Refreshed
<1>13. ASSUME NEW c \in calls, Apply(c) PROVE CellsInv /\ RowsInv
  BY <1>13, <1>2, ApplyKeeps DEF Apply
<1>14. ASSUME NEW c \in calls, Saved(c) PROVE CellsInv /\ RowsInv
  <2>1. /\ c.stage = "done" /\ calls' = calls \ {c}
        /\ UNCHANGED <<stored, pick, unsure, typed>>
    BY <1>14 DEF Saved, Answered
  <2>2. CellsInv BY <2>1, SavedKeeps
  <2>3. RowsInv BY <1>14, <2>1 DEF Saved, FormsInv
  <2> QED BY <2>2, <2>3
<1>15. ASSUME NEW c \in calls, Lost(c) PROVE CellsInv /\ RowsInv
  BY <1>15, <1>2, LostKeeps DEF Lost
<1>16. ASSUME NEW c \in calls, NeverArrived(c) PROVE CellsInv /\ RowsInv
  <2>1. /\ c.stage = "adrift" /\ calls' = calls \ {c}
        /\ UNCHANGED <<stored, pick, unsure, typed, renaming>>
    BY <1>16 DEF NeverArrived, Vanished
  <2>2. c.about \in unsure BY <2>1 DEF FormsInv, CarriesPick
  <2>3. CellsInv BY <2>1, <2>2, SavedKeeps
  <2> QED BY <2>1, <2>3, <1>2
<1> HIDE DEF CellsInv, RowsInv
<1> QED
  BY <1>5, <1>6, <1>7, <1>8, <1>9, <1>10, <1>11, <1>12, <1>13, <1>14, <1>15, <1>16 DEF FormsNext

LEMMA PicksInit == Init => PicksInv
<1> SUFFICES ASSUME Init PROVE PicksInv
  OBVIOUS
<1>1. FormsInit BY DEF Init
<1>2. calls = {} /\ stored = pick /\ stored = [x \in Cells |-> 0]
      /\ renaming = [t \in Tabs |-> Nothing] /\ typed = 0
  BY <1>1 DEF FormsInit, CallsInit
<1>3. PicksStand BY <1>2 DEF PicksStand
<1> QED BY <1>2, <1>3 DEF PicksInv, FormsInv

\* Nothing but the calendar settings touches what they hold.
LEMMA PicksStep == PicksInv /\ [Next]_allVars => PicksInv'
<1> SUFFICES ASSUME PicksInv, [Next]_allVars PROVE PicksInv'
  OBVIOUS
<1>1. CASE UNCHANGED allVars
  <2>1. UNCHANGED <<calls, stored, pick, unsure, renaming, typed, surface>>
    BY <1>1 DEF allVars, formVars, callVars
  <2>2. FormsInv => FormsInv'
    <3>1. FormsInv => /\ DOMAIN stored' = Cells /\ stored' = [y \in Cells |-> stored'[y]]
                      /\ DOMAIN pick' = Cells /\ pick' = [y \in Cells |-> pick'[y]]
                      /\ \A c \in calls' : PatchCall(c)'
                      /\ \A c \in calls' : c.about \notin unsure' => CarriesPick(c)'
                      /\ PicksStand'
      BY <2>1, CellsStand
    <3> QED BY <3>1, <2>1 DEF FormsInv, Cells, Pref, Colour, Name, OpenRow
  <2> QED BY <2>1, <2>2 DEF PicksInv
<1>2. CASE Next
  <2>1. UNCHANGED surface BY <1>2 DEF Next
  <2>2. CASE surface = "calendar"
    <3>1. FormsNext BY <1>2, <2>2 DEF Next
    <3>2. FormsInv' BY <3>1, <2>2, FormsStep DEF PicksInv
    <3> QED BY <2>1, <2>2, <3>2 DEF PicksInv
  <2>3. CASE surface # "calendar"
    <3>1. UNCHANGED <<stored, pick>> BY <1>2, <2>3 DEF Next, OnCalendar
    <3> QED BY <2>1, <2>3, <3>1 DEF PicksInv
  <2> QED BY <2>2, <2>3
<1> QED BY <1>1, <1>2

\* However many tabs the owner has open and however old their pages are, a
\* cell of the settings holds what was last chosen for it, unless two choices
\* for it were under way at once or one of them had no answer.
THEOREM PicksAlwaysStand == Spec => []PicksStand
<1>1. PicksInv => PicksStand BY DEF PicksInv, FormsInv, PicksStand
<1> QED BY <1>1, PicksInit, PicksStep, PTL DEF Spec

-----------------------------------------------------------------------------
(* The forms that make something                                           *)

\* A free form has no call that is awaited, and what was made of its draft
\* cost an answer.
LEMMA FreeForm ==
    ASSUME NewInv, form # Nothing, ~Busy(Page, form.kind)
    PROVE  /\ \A c \in calls : ~Awaited(c)
           /\ form.draft \notin broken => \A r \in rows : r.draft # form.draft
<1>1. ASSUME NEW c \in calls, Awaited(c) PROVE FALSE
  <2>1. OfTheForm(c) /\ DraftCall(c) BY <1>1 DEF NewInv
  <2>2. c.tab = Page /\ c.control = form.kind /\ c.stage # "adrift"
    BY <2>1, <1>1 DEF OfTheForm, DraftCall, Awaited
  <2> QED BY <2>2 DEF Busy
<1>2. ASSUME form.draft \notin broken, NEW r \in rows, r.draft = form.draft PROVE FALSE
  <2>1. PICK c \in calls : c.stage = "done" BY <1>2 DEF NewInv
  <2> QED BY <2>1, <1>1 DEF Awaited
<1> QED BY <1>1, <1>2

\* A form that is free, or that there is none of, changes.
LEMMA FormChanges ==
    ASSUME NewInv, UNCHANGED <<calls, rows, broken>>,
           \A c \in calls : ~Awaited(c),
           drafts' \in Nat, drafts <= drafts',
           form' # Nothing =>
              /\ form'.draft \in 0..drafts' /\ {"kind", "draft", "target"} \subseteq DOMAIN form'
              /\ form'.draft \notin broken => \A r \in rows : r.draft # form'.draft
    PROVE  NewInv'
<1>1. \A r \in rows : r.draft \in 1..drafts' BY DEF NewInv
<1>2. \A c \in calls : DraftCall(c)'
  <2>1. \A c \in calls : c.about[2] \in 1..drafts => c.about[2] \in 1..drafts' BY DEF NewInv
  <2> QED BY <2>1 DEF NewInv, DraftCall, CallShape
<1>3. \A c \in calls : c.about[2] \in broken BY DEF NewInv
<1>4. TwinsOnlyAfterLoss' BY DEF NewInv, TwinsOnlyAfterLoss
<1> QED BY <1>1, <1>2, <1>3, <1>4 DEF NewInv, Awaited, CallShape

LEMMA DraftsStand ==
    ASSUME NewInv, UNCHANGED <<calls, rows, form, drafts, broken>>
    PROVE  NewInv'
BY DEF NewInv, DraftCall, CallShape, OfTheForm, Awaited, TwinsOnlyAfterLoss

LEMMA SubmitKeeps ==
    ASSUME NewInv, Submit
    PROVE  NewInv'
<1>1. /\ form # Nothing /\ ~Busy(Page, form.kind) /\ form.draft # 0 /\ form.target
      /\ Send(Page, form.kind, <<"draft", form.draft>>, form.minutes)
      /\ UNCHANGED <<rows, form, drafts, broken>>
  BY DEF Submit, Idle
<1>2. PICK d : /\ calls' = calls \cup {d}
               /\ CallShape(d) /\ d.tab = Page /\ d.control = form.kind
               /\ d.about = <<"draft", form.draft>> /\ d.stage = "sent"
  BY <1>1, SendAdds
<1>3. /\ \A c \in calls : ~Awaited(c)
      /\ form.draft \notin broken => \A r \in rows : r.draft # form.draft
  BY <1>1, FreeForm
<1>4. form.draft \in 1..drafts BY <1>1 DEF NewInv
<1>5. d.about[2] = form.draft BY <1>2
<1>6. \A c \in calls' : DraftCall(c)'
  BY <1>1, <1>2, <1>4, <1>5 DEF NewInv, DraftCall, CallShape
<1>7. \A c \in calls' : Awaited(c) => c = d BY <1>2, <1>3
<1>8. ASSUME NEW c \in calls', Awaited(c) PROVE OfTheForm(c)'
  BY <1>1, <1>2, <1>5, <1>7, <1>8 DEF OfTheForm, Awaited
<1>9. ASSUME NEW c \in calls', c.stage = "sent", c.about[2] \notin broken', NEW r \in rows'
      PROVE  r.draft # c.about[2]
  <2>1. c = d BY <1>7, <1>9 DEF Awaited
  <2> QED BY <2>1, <1>1, <1>3, <1>5, <1>9
<1>10. \A c \in calls' : ~Awaited(c) => c.about[2] \in broken'
  BY <1>1, <1>2 DEF NewInv, Awaited
<1>11. TwinsOnlyAfterLoss' BY <1>1 DEF NewInv, TwinsOnlyAfterLoss
<1> QED BY <1>1, <1>3, <1>6, <1>8, <1>9, <1>10, <1>11 DEF NewInv, Awaited

LEMMA CreateRowKeeps ==
    ASSUME NewInv, NEW c \in calls, CreateRow(c)
    PROVE  NewInv'
<1> DEFINE made_ == [id |-> c.id, kind |-> c.control, draft |-> c.about[2], minutes |-> c.request]
<1>1. /\ Served(c, "done") /\ rows' = rows \cup {made_}
      /\ UNCHANGED <<form, drafts, broken>>
  BY DEF CreateRow
<1>2. DraftCall(c) /\ CallShape(c) BY DEF NewInv, DraftCall
<1>3. /\ c.stage = "sent" =>
           \E d : /\ calls' = (calls \ {c}) \cup {d}
                  /\ CallShape(d) /\ Same(c, d) /\ d.stage = "done"
      /\ c.stage # "sent" => c.stage = "adrift" /\ calls' = calls \ {c}
  BY <1>1, <1>2, ServedMoves
<1>4. made_.draft = c.about[2] /\ c.about[2] \in 1..drafts BY <1>2 DEF DraftCall
<1> HIDE DEF made_
<1>5. \A r \in rows' : r.draft \in 1..drafts' BY <1>1, <1>4 DEF NewInv
<1>6. c.about[2] \notin broken => c.stage = "sent" /\ \A r \in rows : r.draft # c.about[2]
  <2>1. c.about[2] \notin broken => Awaited(c) BY DEF NewInv
  <2> QED BY <2>1, <1>3 DEF NewInv, Awaited
<1>7. TwinsOnlyAfterLoss'
  <2> SUFFICES ASSUME NEW a \in rows', NEW b \in rows', a.draft = b.draft, a.id # b.id
               PROVE  a.draft \in broken'
    BY DEF TwinsOnlyAfterLoss
  <2>1. CASE a \in rows /\ b \in rows BY <2>1, <1>1 DEF NewInv, TwinsOnlyAfterLoss
  <2>2. CASE a \notin rows \/ b \notin rows
    <3>1. a = made_ \/ b = made_ BY <2>2, <1>1
    <3>2. a.draft = c.about[2] /\ b.draft = c.about[2] BY <3>1, <1>4
    <3>3. a # b OBVIOUS
    <3>4. a \in rows \/ b \in rows BY <3>3, <1>1
    <3> QED BY <3>2, <3>4, <1>1, <1>6
  <2> QED BY <2>1, <2>2
<1>8. CASE c.stage = "sent"
  <2>1. PICK d : /\ calls' = (calls \ {c}) \cup {d}
                 /\ CallShape(d) /\ Same(c, d) /\ d.stage = "done"
    BY <1>3, <1>8
  <2>2. OfTheForm(c) /\ \A e \in calls : Awaited(e) => e = c
    BY <1>8 DEF NewInv, OfTheForm, Awaited
  <2>3. \A e \in calls' : Awaited(e) => e = d BY <2>1, <2>2
  <2>4. \A e \in calls' : DraftCall(e)'
    BY <2>1, <1>1, <1>2 DEF NewInv, DraftCall, CallShape, Same
  <2>5. OfTheForm(d)' BY <2>1, <2>2, <2>3, <1>1 DEF OfTheForm, Same, Awaited
  <2>6. \A e \in calls' : Awaited(e) => OfTheForm(e)' BY <2>3, <2>5
  <2>7. \A e \in calls' : ~Awaited(e) => e.about[2] \in broken'
    BY <2>1, <1>1 DEF NewInv, Awaited
  <2>8. \A e \in calls' : e.stage # "sent" BY <2>1, <2>3 DEF Awaited
  <2>9. \E e \in calls' : e.stage = "done" BY <2>1
  <2> QED BY <1>1, <1>5, <1>7, <2>4, <2>6, <2>7, <2>8, <2>9 DEF NewInv
<1>9. CASE c.stage # "sent"
  <2>1. calls' = calls \ {c} /\ ~Awaited(c) BY <1>3, <1>9 DEF Awaited
  <2>2. c.about[2] \in broken BY <2>1 DEF NewInv
  <2>3. \A e \in calls' : DraftCall(e)' BY <2>1, <1>1 DEF NewInv, DraftCall, CallShape
  <2>4. \A e \in calls' : Awaited(e) => OfTheForm(e)'
    BY <2>1, <1>1 DEF NewInv, OfTheForm, Awaited
  <2>5. \A e \in calls' : ~Awaited(e) => e.about[2] \in broken' BY <2>1, <1>1 DEF NewInv
  <2>6. \A e \in calls' : e.stage = "sent" /\ e.about[2] \notin broken'
          => \A r \in rows' : r.draft # e.about[2]
    BY <2>1, <2>2, <1>1, <1>4 DEF NewInv
  <2>7. form' # Nothing /\ form'.draft \notin broken' =>
          \A r \in rows' : r.draft = form'.draft => \E e \in calls' : e.stage = "done"
    <3> SUFFICES ASSUME form # Nothing, form.draft \notin broken, NEW r \in rows', r.draft = form.draft
                 PROVE  \E e \in calls' : e.stage = "done"
      BY <1>1
    <3>1. r \in rows BY <2>2, <1>1, <1>4
    <3>2. PICK e \in calls : e.stage = "done" BY <3>1 DEF NewInv
    <3> QED BY <3>2, <2>1 DEF Awaited
  <2> QED BY <1>1, <1>5, <1>7, <2>3, <2>4, <2>5, <2>6, <2>7 DEF NewInv
<1> QED BY <1>8, <1>9

\* A call that is over, answered or not, with what is left of the form.
LEMMA CallEnds ==
    ASSUME NewInv, NEW c \in calls, calls' = calls \ {c}, UNCHANGED <<rows, drafts>>,
           broken \subseteq broken',
           \/ form' = Nothing /\ Awaited(c)
           \/ UNCHANGED form /\ (~Awaited(c) \/ c.about[2] \in broken')
    PROVE  NewInv'
<1>1. \A e \in calls' : DraftCall(e)' BY DEF NewInv, DraftCall, CallShape
<1>2. \A e \in calls' : Awaited(e) => UNCHANGED form /\ OfTheForm(e)
  <2>1. ASSUME Awaited(c), NEW e \in calls', Awaited(e) PROVE FALSE
    <3>1. OfTheForm(c) BY <2>1 DEF NewInv
    <3> QED BY <3>1, <2>1 DEF OfTheForm
  <2> QED BY <2>1 DEF NewInv
<1>3. \A e \in calls' : Awaited(e) => OfTheForm(e)' BY <1>2 DEF OfTheForm, Awaited
<1>4. TwinsOnlyAfterLoss' BY DEF NewInv, TwinsOnlyAfterLoss
<1>5. form' # Nothing =>
        /\ form'.draft \in 0..drafts' /\ {"kind", "draft", "target"} \subseteq DOMAIN form'
        /\ form'.draft \notin broken' =>
             \A r \in rows' : r.draft = form'.draft => \E e \in calls' : e.stage = "done"
  <2> SUFFICES ASSUME form' # Nothing, UNCHANGED form, form.draft \notin broken', NEW r \in rows,
                      r.draft = form.draft
               PROVE  \E e \in calls' : e.stage = "done"
    BY DEF NewInv
  <2>1. PICK e \in calls : e.stage = "done" BY DEF NewInv
  <2>2. e # c
    <3>1. Awaited(e) /\ OfTheForm(e) BY <2>1 DEF NewInv, Awaited
    <3> QED BY <3>1 DEF OfTheForm
  <2> QED BY <2>1, <2>2
<1>6. \A e \in calls' : e.stage = "sent" /\ e.about[2] \notin broken'
        => \A r \in rows' : r.draft # e.about[2]
  BY DEF NewInv
<1>7. \A e \in calls' : ~Awaited(e) => e.about[2] \in broken' BY DEF NewInv
<1>8. \A r \in rows' : r.draft \in 1..drafts' BY DEF NewInv
<1>9. drafts' \in Nat BY DEF NewInv
<1> QED BY <1>1, <1>3, <1>4, <1>5, <1>6, <1>7, <1>8, <1>9 DEF NewInv

LEMMA CreationLostKeeps ==
    ASSUME NewInv, NEW c \in calls, CreationLost(c)
    PROVE  NewInv'
<1>1. Broken(c) /\ broken' = broken \cup {c.about[2]} /\ UNCHANGED <<rows, form, drafts>>
  BY DEF CreationLost
<1>2. DraftCall(c) /\ CallShape(c) BY DEF NewInv, DraftCall
<1>3. /\ c.stage # "adrift"
      /\ c.stage = "sent" =>
           \E d : /\ calls' = (calls \ {c}) \cup {d}
                  /\ CallShape(d) /\ Same(c, d) /\ d.stage = "adrift"
      /\ c.stage # "sent" => calls' = calls \ {c}
  BY <1>1, <1>2, BrokenMoves
<1>4. CASE c.stage = "sent"
  <2>1. PICK d : /\ calls' = (calls \ {c}) \cup {d}
                 /\ CallShape(d) /\ Same(c, d) /\ d.stage = "adrift"
    BY <1>3, <1>4
  <2>2. OfTheForm(c) /\ form # Nothing /\ form.draft = c.about[2] /\ \A e \in calls : Awaited(e) => e = c
    BY <1>3 DEF NewInv, OfTheForm, Awaited
  <2>3. \A e \in calls' : ~Awaited(e) BY <2>1, <2>2 DEF Awaited
  <2>4. \A e \in calls' : DraftCall(e)'
    BY <2>1, <1>1, <1>2 DEF NewInv, DraftCall, CallShape, Same
  <2>5. \A e \in calls' : e.about[2] \in broken'
    BY <2>1, <2>2, <1>1 DEF NewInv, Awaited, Same
  <2>6. TwinsOnlyAfterLoss' BY <1>1 DEF NewInv, TwinsOnlyAfterLoss
  <2> QED BY <1>1, <2>2, <2>3, <2>4, <2>5, <2>6 DEF NewInv
<1>5. CASE c.stage # "sent" BY <1>1, <1>3, <1>5, CallEnds
<1> QED BY <1>4, <1>5

LEMMA NewStep ==
    ASSUME NewInv, NewNext
    PROVE  NewInv'
<1>1. ASSUME NEW kind, OpenForm(kind) PROVE NewInv'
  <2>1. form = Nothing /\ UNCHANGED <<calls, rows, drafts, broken>>
    BY <1>1 DEF OpenForm, callVars
  <2>2. form'.draft = 0 /\ {"kind", "draft", "target"} \subseteq DOMAIN form' BY <1>1 DEF OpenForm
  <2>3. \A c \in calls : ~Awaited(c) BY <2>1 DEF NewInv, OfTheForm
  <2>4. \A r \in rows : r.draft # 0 BY DEF NewInv
  <2> QED BY <2>1, <2>2, <2>3, <2>4, FormChanges DEF NewInv
<1>2. CASE Target
  <2>1. /\ form # Nothing /\ ~form.target /\ form' = [form EXCEPT !.target = TRUE]
        /\ UNCHANGED <<calls, rows, drafts, broken>>
    BY <1>2 DEF Target, callVars
  <2>2. \A c \in calls : ~Awaited(c) BY <2>1 DEF NewInv, OfTheForm
  <2>3. form'.draft = form.draft /\ {"kind", "draft", "target"} \subseteq DOMAIN form'
    BY <2>1 DEF NewInv
  <2>4. form.draft \notin broken => \A r \in rows : r.draft # form.draft
    BY <2>1, <2>2 DEF NewInv, Awaited
  <2> QED BY <2>1, <2>2, <2>3, <2>4, FormChanges DEF NewInv
<1>3. CASE Draft
  <2>1. /\ form # Nothing /\ ~Busy(Page, form.kind) /\ drafts' = drafts + 1
        /\ form' = [form EXCEPT !.draft = drafts']
        /\ UNCHANGED <<calls, rows, broken>>
    BY <1>3 DEF Draft, callVars
  <2>2. \A c \in calls : ~Awaited(c) BY <2>1, FreeForm
  <2>3. form'.draft = drafts + 1 /\ {"kind", "draft", "target"} \subseteq DOMAIN form'
    BY <2>1 DEF NewInv
  <2>4. drafts \in Nat /\ \A r \in rows : r.draft # drafts + 1 BY DEF NewInv
  <2> QED BY <2>1, <2>2, <2>3, <2>4, FormChanges DEF NewInv
<1>4. CASE Submit BY <1>4, SubmitKeeps
<1>5. CASE Dismiss
  <2>1. /\ form # Nothing /\ ~Busy(Page, form.kind) /\ form' = Nothing
        /\ UNCHANGED <<calls, rows, drafts, broken>>
    BY <1>5 DEF Dismiss, callVars
  <2>2. \A c \in calls : ~Awaited(c) BY <2>1, FreeForm
  <2> QED BY <2>1, <2>2, FormChanges DEF NewInv
<1>6. CASE NewRefreshed BY <1>6, DraftsStand DEF NewRefreshed
<1>7. ASSUME Editable, form'.draft = form.draft, {"kind", "draft", "target"} \subseteq DOMAIN form',
             UNCHANGED <<calls, rows, drafts, broken>>
      PROVE  NewInv'
  <2>1. form # Nothing /\ ~Busy(Page, form.kind) BY <1>7 DEF Editable
  <2>2. /\ \A c \in calls : ~Awaited(c)
        /\ form.draft \notin broken => \A r \in rows : r.draft # form.draft
    BY <2>1, FreeForm
  <2> QED BY <1>7, <2>1, <2>2, FormChanges DEF NewInv
<1>8. CASE ChooseDuration \/ ChooseCustom \/ TypeMinutes
  <2>1. Editable /\ UNCHANGED <<calls, rows, drafts, broken>>
    BY <1>8 DEF ChooseDuration, ChooseCustom, TypeMinutes, callVars
  <2>2. {"kind", "draft", "target"} \subseteq DOMAIN form BY <2>1 DEF Editable, NewInv
  <2>3. form'.draft = form.draft /\ {"kind", "draft", "target"} \subseteq DOMAIN form'
    <3>1. CASE ChooseDuration BY <3>1, <2>2 DEF ChooseDuration
    <3>2. CASE ChooseCustom BY <3>2, <2>2 DEF ChooseCustom, OpenedOnDuration
    <3>3. CASE TypeMinutes BY <3>3, <2>2 DEF TypeMinutes
    <3> QED BY <1>8, <3>1, <3>2, <3>3
  <2> QED BY <2>1, <2>3, <1>7
<1>9. ASSUME NEW c \in calls, CreateRow(c) PROVE NewInv' BY <1>9, CreateRowKeeps
<1>10. ASSUME NEW c \in calls, Created(c) PROVE NewInv'
  <2>1. /\ c.stage = "done" /\ calls' = calls \ {c} /\ form' = Nothing
        /\ UNCHANGED <<rows, drafts, broken>>
    BY <1>10 DEF Created, Answered, Cleared
  <2> QED BY <2>1, CallEnds DEF Awaited
<1>11. ASSUME NEW c \in calls, CreationLost(c) PROVE NewInv' BY <1>11, CreationLostKeeps
<1>12. ASSUME NEW c \in calls, CreationGone(c) PROVE NewInv'
  <2>1. c.stage = "adrift" /\ calls' = calls \ {c} /\ UNCHANGED <<rows, form, drafts, broken>>
    BY <1>12 DEF CreationGone, Vanished
  <2> QED BY <2>1, CallEnds DEF Awaited
<1>13. CASE LockOrUnlock BY <1>13, DraftsStand DEF LockOrUnlock, callVars
<1> QED
  BY <1>1, <1>2, <1>3, <1>4, <1>5, <1>6, <1>8, <1>9, <1>10, <1>11, <1>12, <1>13 DEF NewNext

LEMMA TwinsInit == Init => TwinsInv
<1> SUFFICES ASSUME Init PROVE TwinsInv
  OBVIOUS
<1>1. NewInit BY DEF Init
<1>2. calls = {} /\ rows = {} /\ form = Nothing /\ drafts = 0 BY <1>1 DEF NewInit, CallsInit
<1> QED BY <1>2 DEF TwinsInv, NewInv, TwinsOnlyAfterLoss

\* Nothing but the forms themselves makes a row.
LEMMA TwinsStep == TwinsInv /\ [Next]_allVars => TwinsInv'
<1> SUFFICES ASSUME TwinsInv, [Next]_allVars PROVE TwinsInv'
  OBVIOUS
<1>1. CASE UNCHANGED allVars
  <2>1. UNCHANGED <<calls, rows, form, drafts, broken, surface>>
    BY <1>1 DEF allVars, newVars, callVars
  <2>2. NewInv => NewInv' BY <2>1, DraftsStand
  <2> QED BY <2>1, <2>2 DEF TwinsInv
<1>2. CASE Next
  <2>1. UNCHANGED surface BY <1>2 DEF Next
  <2>2. CASE surface = "new"
    <3>1. NewNext BY <1>2, <2>2 DEF Next
    <3>2. NewInv' BY <3>1, <2>2, NewStep DEF TwinsInv
    <3> QED BY <2>1, <2>2, <3>2 DEF TwinsInv
  <2>3. CASE surface # "new"
    <3>1. UNCHANGED rows BY <1>2, <2>3 DEF Next, OnNew
    <3> QED BY <2>1, <2>3, <3>1 DEF TwinsInv
  <2> QED BY <2>2, <2>3
<1> QED BY <1>1, <1>2

\* However the form is edited, dismissed, opened again and submitted, and
\* whatever becomes of its calls: two rows are made of one draft only after an
\* answer was lost.
THEOREM TwinsAlwaysOnlyAfterLoss == Spec => []TwinsOnlyAfterLoss
<1>1. TwinsInv => TwinsOnlyAfterLoss BY DEF TwinsInv, NewInv, TwinsOnlyAfterLoss
<1> QED BY <1>1, TwinsInit, TwinsStep, PTL DEF Spec

-----------------------------------------------------------------------------
(* The hours                                                               *)

LEMMA FreeHours ==
    ASSUME HoursInv, ~Busy(Page, "hours")
    PROVE  \A c \in calls : ~Awaited(c)
BY DEF HoursInv, Busy, Awaited

LEMMA HoursStand ==
    ASSUME HoursInv, UNCHANGED <<calls, hours, draft, saved, overtaken>>
    PROVE  HoursInv'
BY DEF HoursInv, CallShape, Awaited, SavedIsStored

\* An edit of a week that is being saved is not what "Saved." will mean.
LEMMA EditKeeps ==
    ASSUME HoursInv, NEW windows, EditHours(windows)
    PROVE  HoursInv'
<1>1. /\ saved' = FALSE /\ overtaken' = (overtaken \/ Busy(Page, "hours"))
      /\ UNCHANGED <<calls, hours>>
  BY DEF EditHours, Edits, callVars
<1>2. overtaken' \in BOOLEAN BY <1>1 DEF Busy
<1>3. ASSUME NEW c \in calls, c.stage = "done" PROVE overtaken'
  <2>1. Busy(Page, "hours") BY <1>3 DEF HoursInv, Busy
  <2> QED BY <2>1, <1>1
<1> QED BY <1>1, <1>2, <1>3 DEF HoursInv, CallShape, Awaited, SavedIsStored

LEMMA SaveKeeps ==
    ASSUME HoursInv, SaveHours
    PROVE  HoursInv'
<1>1. PICK d : /\ calls' = calls \cup {d}
               /\ CallShape(d) /\ d.tab = Page /\ d.control = "hours" /\ d.stage = "sent"
  BY SendAdds DEF SaveHours
<1>2. UNCHANGED <<hours, draft, saved, overtaken>> BY DEF SaveHours
<1>3. \A c \in calls : ~Awaited(c) BY FreeHours DEF SaveHours
<1>4. \A c, e \in calls' : Awaited(c) /\ Awaited(e) => c = e BY <1>1, <1>3
<1>5. \A c \in calls' : c.stage # "done" BY <1>1, <1>3 DEF Awaited
<1>6. \A c \in calls' : CallShape(c) /\ c.tab = Page /\ c.control = "hours"
  BY <1>1 DEF HoursInv
<1> QED BY <1>2, <1>4, <1>5, <1>6 DEF HoursInv, SavedIsStored, Awaited, CallShape

LEMMA HoursCallEnds ==
    ASSUME HoursInv, NEW c \in calls, calls' = calls \ {c}, UNCHANGED <<hours, draft, overtaken>>,
           UNCHANGED saved \/ (saved' = TRUE /\ c.stage = "done")
    PROVE  HoursInv'
<1>1. \A e \in calls' : CallShape(e) /\ e.tab = Page /\ e.control = "hours" BY DEF HoursInv
<1>2. \A e, f \in calls' : Awaited(e) /\ Awaited(f) => e = f BY DEF HoursInv
<1>3. \A e \in calls' : e.stage = "done" /\ ~overtaken' => Range(draft)' = hours'
  BY DEF HoursInv
<1>4. SavedIsStored' BY DEF HoursInv, SavedIsStored
<1>5. saved' \in BOOLEAN /\ overtaken' \in BOOLEAN BY DEF HoursInv
<1> QED BY <1>1, <1>2, <1>3, <1>4, <1>5 DEF HoursInv, CallShape, Awaited

LEMMA HoursRestaged ==
    ASSUME HoursInv, NEW c \in calls, c.stage = "sent", NEW d, CallShape(d), Same(c, d),
           calls' = (calls \ {c}) \cup {d}, UNCHANGED <<draft, saved>>, overtaken' \in BOOLEAN,
           \/ d.stage # "done" /\ UNCHANGED <<hours, overtaken>>
           \/ ~overtaken' => Range(draft) = hours'
    PROVE  HoursInv'
<1>1. \A e \in calls' : CallShape(e) /\ e.tab = Page /\ e.control = "hours"
  BY DEF HoursInv, Same
<1>2. \A e \in calls' : Awaited(e) => e = d BY DEF HoursInv, Awaited
<1>3. \A e \in calls' : e.stage = "done" /\ ~overtaken' => Range(draft)' = hours'
  BY <1>2 DEF Awaited
<1>4. SavedIsStored' BY DEF HoursInv, SavedIsStored
<1>5. saved' \in BOOLEAN BY DEF HoursInv
<1> QED BY <1>1, <1>2, <1>3, <1>4, <1>5 DEF HoursInv, CallShape, Awaited

LEMMA SetAvailabilityKeeps ==
    ASSUME HoursInv, NEW c \in calls, SetAvailability(c)
    PROVE  HoursInv'
<1>1. /\ Served(c, IF Accepts(c.request) THEN "done" ELSE "refused")
      /\ hours' = IF Accepts(c.request) THEN Range(c.request) ELSE hours
      /\ overtaken' = IF Accepts(c.request) THEN c.stage = "adrift" \/ draft # c.request
                                             ELSE overtaken
      /\ UNCHANGED <<draft, saved>>
  BY DEF SetAvailability
<1>2. CallShape(c) /\ overtaken \in BOOLEAN BY DEF HoursInv
<1>3. overtaken' \in BOOLEAN BY <1>1, <1>2
<1>4. /\ c.stage = "sent" =>
           \E d : /\ calls' = (calls \ {c}) \cup {d}
                  /\ CallShape(d) /\ Same(c, d)
                  /\ d.stage = IF Accepts(c.request) THEN "done" ELSE "refused"
      /\ c.stage # "sent" => c.stage = "adrift" /\ calls' = calls \ {c}
  BY <1>1, <1>2, ServedMoves
<1>5. Accepts(c.request) /\ c.stage = "sent" /\ ~overtaken' => Range(draft) = hours'
  BY <1>1
<1>6. CASE c.stage = "sent"
  <2>1. PICK d : /\ calls' = (calls \ {c}) \cup {d}
                 /\ CallShape(d) /\ Same(c, d)
                 /\ d.stage = IF Accepts(c.request) THEN "done" ELSE "refused"
    BY <1>4, <1>6
  <2>2. CASE Accepts(c.request) BY <2>1, <2>2, <1>1, <1>3, <1>5, <1>6, HoursRestaged
  <2>3. CASE ~Accepts(c.request) BY <2>1, <2>3, <1>1, <1>3, <1>6, HoursRestaged
  <2> QED BY <2>2, <2>3
<1>7. CASE c.stage # "sent"
  <2>1. c.stage = "adrift" /\ calls' = calls \ {c} BY <1>4, <1>7
  <2>2. CASE Accepts(c.request)
    <3>1. overtaken' = TRUE BY <2>1, <2>2, <1>1
    <3> QED BY <3>1, <2>1, <1>1 DEF HoursInv, CallShape, Awaited, SavedIsStored
  <2>3. CASE ~Accepts(c.request) BY <2>1, <2>3, <1>1, HoursCallEnds
  <2> QED BY <2>2, <2>3
<1> QED BY <1>6, <1>7

LEMMA HoursStep ==
    ASSUME HoursInv, HoursNext
    PROVE  HoursInv'
<1>1. CASE SetWindow BY <1>1, EditKeeps DEF SetWindow
<1>2. CASE AddWindow BY <1>2, EditKeeps DEF AddWindow
<1>3. CASE RemoveWindow BY <1>3, EditKeeps DEF RemoveWindow
<1>4. CASE SaveHours BY <1>4, SaveKeeps
<1>5. CASE HoursRefreshed BY <1>5, HoursStand DEF HoursRefreshed
<1>6. CASE OpenHours
  <2>1. ~Busy(Page, "hours") /\ saved' = FALSE /\ UNCHANGED <<calls, hours, overtaken>>
    BY <1>6 DEF OpenHours, callVars
  <2>2. \A c \in calls : ~Awaited(c) BY <2>1, FreeHours
  <2> QED BY <2>1, <2>2 DEF HoursInv, CallShape, Awaited, SavedIsStored
<1>7. ASSUME NEW c \in calls, SetAvailability(c) PROVE HoursInv'
  BY <1>7, SetAvailabilityKeeps
<1>8. ASSUME NEW c \in calls, HoursSaved(c) PROVE HoursInv'
  <2>1. /\ c.stage = "done" /\ calls' = calls \ {c} /\ saved' = TRUE
        /\ UNCHANGED <<hours, draft, overtaken>>
    BY <1>8 DEF HoursSaved, Answered
  <2> QED BY <2>1, HoursCallEnds
<1>9. ASSUME NEW c \in calls, HoursRefused(c) PROVE HoursInv'
  BY <1>9, HoursCallEnds DEF HoursRefused, Refused
<1>10. ASSUME NEW c \in calls, HoursLost(c) PROVE HoursInv'
  <2>1. UNCHANGED <<hours, draft, saved, overtaken>> BY <1>10 DEF HoursLost
  <2>2. CASE Vanished(c) BY <2>1, <2>2, HoursCallEnds DEF Vanished
  <2>3. CASE Broken(c)
    <3>1. CallShape(c) /\ overtaken \in BOOLEAN BY DEF HoursInv
    <3>2. CASE c.stage = "sent"
      <4>1. PICK d : /\ calls' = (calls \ {c}) \cup {d}
                     /\ CallShape(d) /\ Same(c, d) /\ d.stage = "adrift"
        BY <2>3, <3>1, <3>2, BrokenMoves
      <4> QED BY <4>1, <3>1, <3>2, <2>1, HoursRestaged
    <3>3. CASE c.stage # "sent"
      <4>1. calls' = calls \ {c} BY <2>3, <3>1, <3>3, BrokenMoves
      <4> QED BY <4>1, <2>1, HoursCallEnds
    <3> QED BY <3>2, <3>3
  <2> QED BY <1>10, <2>2, <2>3 DEF HoursLost
<1>11. CASE SavedElsewhere
  <2>1. overtaken' = TRUE /\ UNCHANGED <<calls, draft, saved>> BY <1>11 DEF SavedElsewhere
  <2> QED BY <2>1 DEF HoursInv, CallShape, Awaited, SavedIsStored
<1> QED BY <1>1, <1>2, <1>3, <1>4, <1>5, <1>6, <1>7, <1>8, <1>9, <1>10, <1>11 DEF HoursNext

LEMMA SavedInit == Init => SavedInv
<1> SUFFICES ASSUME Init PROVE SavedInv
  OBVIOUS
<1>1. HoursInit BY DEF Init
<1>2. calls = {} /\ saved = FALSE /\ overtaken = FALSE BY <1>1 DEF HoursInit, CallsInit
<1> QED BY <1>2 DEF SavedInv, HoursInv, SavedIsStored

LEMMA SavedStep == SavedInv /\ [Next]_allVars => SavedInv'
<1> SUFFICES ASSUME SavedInv, [Next]_allVars PROVE SavedInv'
  OBVIOUS
<1>1. CASE UNCHANGED allVars
  <2>1. UNCHANGED <<calls, hours, draft, saved, overtaken, surface>>
    BY <1>1 DEF allVars, hoursVars, callVars
  <2>2. HoursInv => HoursInv' BY <2>1, HoursStand
  <2> QED BY <2>1, <2>2 DEF SavedInv
<1>2. CASE Next
  <2>1. UNCHANGED surface BY <1>2 DEF Next
  <2>2. CASE surface = "hours"
    <3>1. HoursNext BY <1>2, <2>2 DEF Next
    <3>2. HoursInv' BY <3>1, <2>2, HoursStep DEF SavedInv
    <3> QED BY <2>1, <2>2, <3>2 DEF SavedInv
  <2>3. CASE surface # "hours"
    <3>1. UNCHANGED saved BY <1>2, <2>3 DEF Next, OnHours
    <3> QED BY <2>1, <2>3, <3>1 DEF SavedInv
  <2> QED BY <2>2, <2>3
<1> QED BY <1>1, <1>2

-----------------------------------------------------------------------------
(* Least and largest, and what a fold computes                             *)

\* A set of natural numbers has a least one.
LEMMA LeastNat ==
    ASSUME NEW T \in SUBSET Nat, T # {}
    PROVE  \E x \in T : \A y \in T : x <= y
<1>1. PICK less : less = OpToRel(<, Nat) OBVIOUS
<1>2. IsWellFoundedOn(less, Nat) BY <1>1, NatLessThanWellFounded
<1>3. PICK x \in T : \A y \in T : ~(<<y, x>> \in less) BY <1>2, WFMin
<1>4. \A y, z \in Nat : y < z => <<y, z>> \in less BY <1>1 DEF OpToRel
<1>5. \A y \in T : y \in Nat OBVIOUS
<1>6. \A y \in T : ~(y < x) BY <1>3, <1>4, <1>5
<1>7. \A y, z \in Nat : ~(y < z) => z <= y OBVIOUS
<1> QED BY <1>5, <1>6, <1>7

\* What Max picks.
LEMMA MaxIs ==
    ASSUME NEW n \in Nat, NEW s \in SUBSET (1..n), s # {}
    PROVE  Max(s) \in s /\ \A i \in s : i <= Max(s)
<1>1. \E x \in s : \A y \in s : x >= y
  <2> DEFINE T == {n - i : i \in s}
  <2>1. \A i \in s : i \in 1..n OBVIOUS
  <2>2. T \in SUBSET Nat /\ T # {}
    <3>1. \A i \in s : n - i \in Nat BY <2>1
    <3> QED BY <3>1
  <2>3. PICK t \in T : \A u \in T : t <= u BY <2>2, LeastNat
  <2>4. PICK x \in s : t = n - x BY <2>3
  <2>5. \A y \in s : n - y \in T OBVIOUS
  <2>6. \A y \in s : n - x <= n - y BY <2>3, <2>4, <2>5
  <2> QED BY <2>1, <2>6
<1> QED BY <1>1 DEF Max

\* A function over the parts of 1..n that is given by what it is without the
\* largest number there is.
Folds(h, n, A, base, g) ==
    /\ h \in [SUBSET (1..n) -> A]
    /\ \A s \in SUBSET (1..n) :
         h[s] = IF s = {} THEN base ELSE g[<<h[s \ {Max(s)}], Max(s)>>]

\* There is such a function: what a fold over 1..n is chosen from.
LEMMA FoldExists ==
    ASSUME NEW n \in Nat, NEW A, NEW base \in A, NEW g \in [A \X (1..n) -> A]
    PROVE  \E h : Folds(h, n, A, base, g)
<1> DEFINE D == SUBSET (1..n)
           Small(m) == {s \in D : \A i \in s : i <= m}
           Is(m, h) == /\ h \in [Small(m) -> A]
                       /\ \A s \in Small(m) :
                            h[s] = IF s = {} THEN base ELSE g[<<h[s \ {Max(s)}], Max(s)>>]
           Bad == {m \in 0..n : ~ \E h : Is(m, h)}
<1>1. ASSUME NEW s \in D, s # {} PROVE Max(s) \in s /\ \A i \in s : i <= Max(s)
  BY <1>1, MaxIs
<1>2. \E h : Is(0, h)
  <2>1. Small(0) = {{}} OBVIOUS
  <2>2. Is(0, [s \in Small(0) |-> base]) BY <2>1
  <2> QED BY <2>2
<1>3. ASSUME NEW m \in 0..n - 1, \E h : Is(m, h) PROVE \E h : Is(m + 1, h)
  <2>1. PICK h : Is(m, h) BY <1>3
  <2> DEFINE k == [s \in Small(m + 1) |->
                     IF s \in Small(m) THEN h[s] ELSE g[<<h[s \ {m + 1}], m + 1>>]]
  <2>2. ASSUME NEW s \in Small(m + 1), s \notin Small(m)
        PROVE  s # {} /\ Max(s) = m + 1 /\ s \ {m + 1} \in Small(m)
    <3>1. s \in D /\ s # {} BY <2>2
    <3>2. \A i \in s : i \in 1..n /\ i <= m + 1 BY <2>2
    <3>3. m + 1 \in s BY <2>2, <3>2
    <3>4. Max(s) = m + 1
      <4>1. Max(s) \in s /\ m + 1 <= Max(s) BY <1>1, <3>1, <3>3
      <4>2. Max(s) \in 1..n /\ Max(s) <= m + 1 BY <3>2, <4>1
      <4> QED BY <4>1, <4>2
    <3>5. \A i \in s \ {m + 1} : i <= m BY <3>2
    <3> QED BY <3>1, <3>4, <3>5
  <2>3. \A s \in Small(m) : s \in Small(m + 1) OBVIOUS
  <2>4. ASSUME NEW s \in Small(m), s # {} PROVE s \ {Max(s)} \in Small(m) /\ Max(s) \in 1..n
    BY <1>1, <2>4
  <2>5. k \in [Small(m + 1) -> A] BY <2>1, <2>2
  <2>6. ASSUME NEW s \in Small(m + 1)
        PROVE  k[s] = IF s = {} THEN base ELSE g[<<k[s \ {Max(s)}], Max(s)>>]
    <3>1. CASE s \in Small(m)
      <4>1. k[s] = h[s] BY <2>3, <3>1
      <4>2. CASE s # {}
        <5>1. s \ {Max(s)} \in Small(m) BY <2>4, <3>1, <4>2
        <5>2. k[s \ {Max(s)}] = h[s \ {Max(s)}] BY <2>3, <5>1
        <5> HIDE DEF k, Small
        <5> QED BY <2>1, <3>1, <4>1, <4>2, <5>2
      <4>3. CASE s = {} BY <2>1, <3>1, <4>1, <4>3
      <4> QED BY <4>2, <4>3
    <3>2. CASE s \notin Small(m)
      <4>1. s # {} /\ Max(s) = m + 1 /\ s \ {m + 1} \in Small(m) BY <2>2, <3>2
      <4>2. k[s] = g[<<h[s \ {m + 1}], m + 1>>] BY <3>2
      <4>3. k[s \ {m + 1}] = h[s \ {m + 1}] BY <2>3, <4>1
      <4> HIDE DEF k, Small
      <4> QED BY <4>1, <4>2, <4>3
    <3> QED BY <3>1, <3>2
  <2> HIDE DEF k, Small
  <2>7. Is(m + 1, k) BY <2>5, <2>6
  <2> QED BY <2>7
<1>4. Bad = {}
  <2> SUFFICES ASSUME Bad # {} PROVE FALSE OBVIOUS
  <2> HIDE DEF Is
  <2>0. Bad \in SUBSET Nat OBVIOUS
  <2>1. PICK m \in Bad : \A i \in Bad : m <= i BY <2>0, LeastNat
  <2>2. m # 0 BY <1>2
  <2>3. m \in 0..n /\ m - 1 \in 0..n - 1 /\ m - 1 \notin Bad BY <2>1, <2>2
  <2>4. \E h : Is(m - 1, h) BY <2>3
  <2>5. \E h : Is(m - 1 + 1, h) BY <1>3, <2>3, <2>4
  <2>6. m - 1 + 1 = m BY <2>3
  <2> QED BY <2>1, <2>5, <2>6
<1>5. PICK h : Is(n, h)
  <2> HIDE DEF Is
  <2>1. n \in 0..n OBVIOUS
  <2> QED BY <1>4, <2>1
<1>6. Small(n) = D OBVIOUS
<1>7. Folds(h, n, A, base, g) BY <1>5, <1>6 DEF Folds
<1> QED BY <1>7

-----------------------------------------------------------------------------
(* A finite set in order                                                   *)

\* Of two elements of S one is before the other, and never round in a circle.
Ordering(S, R) ==
    /\ \A x \in S : <<x, x>> \notin R
    /\ \A x, y \in S : x # y => <<x, y>> \in R \/ <<y, x>> \in R
    /\ \A x, y, z \in S : <<x, y>> \in R /\ <<y, z>> \in R => <<x, z>> \in R

\* A finite set can be written down in order.
LEMMA OrderExists ==
    ASSUME NEW S, IsFiniteSet(S), NEW R, Ordering(S, R)
    PROVE  \E s \in SetToSeqs(S) : \A i, j \in DOMAIN s : i < j => <<s[i], s[j]>> \in R
<1> DEFINE n == Cardinality(S)
           Below(x) == {y \in S : <<y, x>> \in R}
           rank == [x \in S |-> Cardinality(Below(x)) + 1]
<1>1. n \in Nat BY FS_CardinalityType
<1>2. ASSUME NEW x \in S
      PROVE  /\ IsFiniteSet(Below(x)) /\ Cardinality(Below(x)) \in Nat
             /\ rank[x] \in 1..n
  <2>1. Below(x) \in SUBSET S /\ x \in S /\ x \notin Below(x) BY DEF Ordering
  <2>2. IsFiniteSet(Below(x)) /\ Cardinality(Below(x)) <= n /\ (Cardinality(Below(x)) = n => Below(x) = S)
    BY <2>1, FS_Subset
  <2>3. Cardinality(Below(x)) \in Nat BY <2>2, FS_CardinalityType
  <2>4. Cardinality(Below(x)) # n BY <2>1, <2>2
  <2> HIDE DEF Below
  <2> QED BY <1>1, <2>2, <2>3, <2>4
<1>3. ASSUME NEW x \in S, NEW y \in S, <<x, y>> \in R PROVE rank[x] < rank[y]
  <2>1. Below(x) \in SUBSET Below(y)
    BY <1>3 DEF Ordering
  <2>2. x \in Below(y) /\ x \notin Below(x) BY <1>3 DEF Ordering
  <2>3. /\ Cardinality(Below(x)) <= Cardinality(Below(y))
        /\ Cardinality(Below(x)) # Cardinality(Below(y))
    <3> HIDE DEF Below
    <3> QED BY <1>2, <2>1, <2>2, FS_Subset
  <2> HIDE DEF Below
  <2> QED BY <1>2, <2>3
<1>4. \A x, y \in S : rank[x] = rank[y] => x = y
  <2> SUFFICES ASSUME NEW x \in S, NEW y \in S, x # y, rank[x] = rank[y] PROVE FALSE
    OBVIOUS
  <2>1. <<x, y>> \in R \/ <<y, x>> \in R BY DEF Ordering
  <2>2. rank[x] < rank[y] \/ rank[y] < rank[x] BY <1>3, <2>1
  <2>3. rank[x] \in 1..n /\ rank[y] \in 1..n BY <1>2
  <2> HIDE DEF rank
  <2> QED BY <2>2, <2>3
<1> HIDE DEF rank, n
<1>5. rank \in [S -> 1..n] BY <1>2 DEF rank
<1>6. rank \in Injection(S, 1..n) BY <1>4, <1>5 DEF Injection, IsInjective
<1>7. IsFiniteSet(1..n) /\ Cardinality(1..n) = n BY <1>1, FS_Interval
<1>8. rank \in Surjection(S, 1..n) BY <1>6, <1>7, FS_Injection DEF n
<1>9. \A i \in 1..n : \E x \in S : rank[x] = i BY <1>8 DEF Surjection
<1>10. PICK s : s = [i \in 1..n |-> CHOOSE x \in S : rank[x] = i] OBVIOUS
<1>11. \A i \in 1..n : s[i] \in S /\ rank[s[i]] = i BY <1>9, <1>10
<1>12. s \in [1..n -> S] /\ DOMAIN s = 1..n BY <1>10, <1>11
<1>13. s \in SetToSeqs(S) BY <1>11, <1>12 DEF SetToSeqs, n
<1>14. ASSUME NEW i \in 1..n, NEW j \in 1..n, i < j PROVE <<s[i], s[j]>> \in R
  <2>1. s[i] \in S /\ s[j] \in S /\ rank[s[i]] = i /\ rank[s[j]] = j BY <1>11
  <2>2. s[i] # s[j] BY <1>14, <2>1
  <2>3. <<s[j], s[i]>> \notin R
    <3>1. <<s[j], s[i]>> \in R => j < i BY <1>3, <2>1
    <3> QED BY <1>1, <1>14, <3>1
  <2> QED BY <2>1, <2>2, <2>3 DEF Ordering
<1> QED BY <1>12, <1>13, <1>14

\* What is in such a sequence.
LEMMA OrderHolds ==
    ASSUME NEW S, IsFiniteSet(S), NEW s \in SetToSeqs(S)
    PROVE  /\ Cardinality(S) \in Nat /\ Len(s) = Cardinality(S)
           /\ DOMAIN s = 1..Len(s) /\ s \in Seq(S)
           /\ \A x \in S : \E i \in DOMAIN s : s[i] = x
           /\ \A i, j \in DOMAIN s : s[i] = s[j] => i = j
<1>1. PICK n \in Nat : n = Cardinality(S) BY FS_CardinalityType
<1>2. s \in [1..n -> S] /\ \A i, j \in 1..n : s[i] = s[j] => i = j BY <1>1 DEF SetToSeqs
<1>3. s \in Injection(1..n, S) BY <1>2 DEF Injection, IsInjective
<1>4. IsFiniteSet(1..n) /\ Cardinality(1..n) = n BY <1>1, FS_Interval
<1>5. s \in Surjection(1..n, S) BY <1>1, <1>3, <1>4, FS_Injection
<1>6. \A x \in S : \E i \in 1..n : s[i] = x BY <1>5 DEF Surjection
<1>7. s \in Seq(S) /\ Len(s) = n BY <1>2
<1> QED BY <1>1, <1>2, <1>6, <1>7

-----------------------------------------------------------------------------
(* The week that is loaded                                                 *)

\* What a row is.
LEMMA RowsAre ==
    /\ DayEnd \in Nat
    /\ \A w \in Rows : w.from \in 0..DayEnd - 1 /\ w.to \in 1..DayEnd /\ w = Window(w.from, w.to)
    /\ \A a \in 0..DayEnd - 1, b \in 1..DayEnd :
         Window(a, b) \in Rows /\ Window(a, b).from = a /\ Window(a, b).to = b
    /\ \A ws \in SUBSET Rows : IsFiniteSet(ws)
<1>1. DayEnd \in Nat BY HoursAssumption
<1>2. \A w \in Rows : w.from \in 0..DayEnd - 1 /\ w.to \in 1..DayEnd /\ w = Window(w.from, w.to)
  BY DEF Rows, Window
<1>3. \A a \in 0..DayEnd - 1, b \in 1..DayEnd :
         Window(a, b) \in Rows /\ Window(a, b).from = a /\ Window(a, b).to = b
  BY DEF Rows, Window
<1>4. IsFiniteSet(Rows)
  <2>1. PICK A, B : A = 0..DayEnd - 1 /\ B = 1..DayEnd OBVIOUS
  <2>2. IsFiniteSet(A) /\ IsFiniteSet(B) BY <1>1, <2>1, FS_Interval
  <2>3. IsFiniteSet(A \X B) BY <2>2, FS_Product
  <2> DEFINE f == [p \in A \X B |-> Window(p[1], p[2])]
  <2>4. f \in Surjection(A \X B, Rows)
    <3>1. f \in [A \X B -> Rows] BY <1>3, <2>1
    <3>2. ASSUME NEW w \in Rows PROVE \E p \in A \X B : f[p] = w
      <4>1. <<w.from, w.to>> \in A \X B BY <1>2, <2>1
      <4>2. f[<<w.from, w.to>>] = w BY <1>2, <4>1
      <4> QED BY <4>1, <4>2
    <3> QED BY <3>1, <3>2 DEF Surjection
  <2> QED BY <2>3, <2>4, FS_Surjection
<1>5. \A ws \in SUBSET Rows : IsFiniteSet(ws) BY <1>4, FS_Subset
<1> QED BY <1>1, <1>2, <1>3, <1>5

\* The rows are sorted by where they begin.
LEMMA SortedIs ==
    ASSUME NEW ws \in SUBSET Rows
    PROVE  /\ Sorted(ws) \in Seq(Rows)
           /\ \A i \in 1..Len(Sorted(ws)) : Sorted(ws)[i] \in ws
           /\ \A w \in ws : \E i \in 1..Len(Sorted(ws)) : Sorted(ws)[i] = w
           /\ \A i, j \in 1..Len(Sorted(ws)) : i < j => Sorted(ws)[i].from <= Sorted(ws)[j].from
<1>1. IsFiniteSet(ws) BY RowsAre
<1>2. PICK R : R = {p \in ws \X ws : Before(p[1], p[2])} OBVIOUS
<1>3. \A v, w \in ws : <<v, w>> \in R <=> Before(v, w) BY <1>2
<1>4. Ordering(ws, R)
  <2>1. \A w \in ws : w.from \in Int /\ w.to \in Int /\ w = Window(w.from, w.to) BY RowsAre
  <2>2. \A w \in ws : ~Before(w, w) BY <2>1 DEF Before
  <2>3. ASSUME NEW v \in ws, NEW w \in ws, v # w PROVE Before(v, w) \/ Before(w, v)
    <3>1. v.from # w.from \/ v.to # w.to BY <2>1, <2>3
    <3> QED BY <2>1, <3>1 DEF Before
  <2>4. ASSUME NEW u \in ws, NEW v \in ws, NEW w \in ws, Before(u, v), Before(v, w)
        PROVE  Before(u, w)
    BY <2>1, <2>4 DEF Before
  <2> QED BY <1>3, <2>2, <2>3, <2>4 DEF Ordering
<1>5. \E s \in SetToSeqs(ws) : \A i, j \in DOMAIN s : i < j => Before(s[i], s[j])
  <2>1. PICK s \in SetToSeqs(ws) : \A i, j \in DOMAIN s : i < j => <<s[i], s[j]>> \in R
    BY <1>1, <1>4, OrderExists
  <2>2. \A i, j \in DOMAIN s : i < j => Before(s[i], s[j]) BY <1>2, <2>1
  <2> QED BY <2>2
<1>6. PICK s \in SetToSeqs(ws) : s = Sorted(ws) /\ \A i, j \in DOMAIN s : i < j => Before(s[i], s[j])
  BY <1>5 DEF Sorted
<1>7. /\ DOMAIN s = 1..Len(s) /\ s \in Seq(ws)
      /\ \A w \in ws : \E i \in DOMAIN s : s[i] = w
  BY <1>1, OrderHolds
<1>8. \A i \in 1..Len(s) : s[i] \in ws BY <1>7
<1>9. s \in Seq(Rows) BY <1>7
<1>10. \A i, j \in 1..Len(s) : i < j => s[i].from <= s[j].from
  <2> SUFFICES ASSUME NEW i \in 1..Len(s), NEW j \in 1..Len(s), i < j PROVE s[i].from <= s[j].from
    OBVIOUS
  <2>1. Before(s[i], s[j]) BY <1>6, <1>7
  <2>2. s[i].from \in Int /\ s[j].from \in Int BY <1>8, RowsAre
  <2> QED BY <2>1, <2>2 DEF Before
<1> QED BY <1>6, <1>7, <1>8, <1>9, <1>10

\* What joining a row does to the windows so far.
LEMMA JoinedIs ==
    ASSUME NEW out \in Seq(Rows), NEW w \in Rows
    PROVE  /\ Joined(out, w) \in Seq(Rows) /\ Joined(out, w) # <<>>
           /\ IF out # <<>> /\ w.from <= out[Len(out)].to
              THEN /\ Len(Joined(out, w)) = Len(out)
                   /\ \A i \in 1..Len(out) - 1 : Joined(out, w)[i] = out[i]
                   /\ Joined(out, w)[Len(out)] = Window(out[Len(out)].from,
                                                        Larger(out[Len(out)].to, w.to))
              ELSE /\ Len(Joined(out, w)) = Len(out) + 1
                   /\ \A i \in 1..Len(out) : Joined(out, w)[i] = out[i]
                   /\ Joined(out, w)[Len(out) + 1] = w
<1>1. CASE out # <<>> /\ w.from <= out[Len(out)].to
  <2>1. PICK n \in Nat : n = Len(out) /\ n > 0 BY <1>1
  <2>2. PICK v \in Rows : v = out[n] BY <2>1
  <2>3. PICK u : u = Window(v.from, Larger(v.to, w.to)) OBVIOUS
  <2>4. u \in Rows
    <3>1. Larger(v.to, w.to) \in 1..DayEnd BY RowsAre DEF Larger
    <3> QED BY <2>3, <3>1, RowsAre
  <2>5. PICK front : front = SubSeq(out, 1, n - 1) OBVIOUS
  <2>6. front \in Seq(Rows) /\ Len(front) = n - 1 /\ \A i \in 1..n - 1 : front[i] = out[i]
    BY <2>1, <2>5
  <2>7. Joined(out, w) = Append(front, u)
    BY <1>1, <2>1, <2>2, <2>3, <2>5 DEF Joined, Last, Front
  <2>8. Append(front, u) \in Seq(Rows) /\ Len(Append(front, u)) = n BY <2>1, <2>4, <2>6
  <2>9. \A i \in 1..n - 1 : Append(front, u)[i] = out[i] BY <2>1, <2>4, <2>6
  <2>10. Append(front, u)[n] = u BY <2>1, <2>4, <2>6
  <2> QED BY <1>1, <2>1, <2>2, <2>3, <2>7, <2>8, <2>9, <2>10
<1>2. CASE ~(out # <<>> /\ w.from <= out[Len(out)].to)
  <2>1. Joined(out, w) = Append(out, w) BY <1>2 DEF Joined, Last
  <2> QED BY <1>2, <2>1
<1> QED BY <1>1, <1>2

\* The first i numbers.
LEMMA FirstIs ==
    ASSUME NEW n \in Nat, NEW i \in 1..n
    PROVE  Max(1..i) = i /\ 1..i \in SUBSET (1..n) /\ 1..i # {}
<1>1. PICK s : s = 1..i OBVIOUS
<1>2. \A k \in 1..i : k \in 1..n OBVIOUS
<1>3. i \in s /\ \A k \in s : k \in 1..n BY <1>1, <1>2
<1>4. s \in SUBSET (1..n) /\ s # {} BY <1>3
<1>5. Max(s) \in s /\ \A k \in s : k <= Max(s) BY <1>4, MaxIs
<1>6. i <= Max(s) /\ Max(s) \in 1..i BY <1>1, <1>3, <1>5
<1>7. Max(s) = i BY <1>6
<1> QED BY <1>1, <1>4, <1>7

\* The rows are joined one after another.
LEMMA MergeSteps ==
    ASSUME NEW ws \in SUBSET Rows
    PROVE  \E f : /\ f[0] = <<>>
                  /\ \A i \in 1..Len(Sorted(ws)) : f[i] = Joined(f[i - 1], Sorted(ws)[i])
                  /\ MergeWindows(ws) = f[Len(Sorted(ws))]
<1>1. PICK seq \in Seq(Rows) : seq = Sorted(ws) BY SortedIs
<1> DEFINE iter == CHOOSE f : f = [s \in SUBSET DOMAIN seq |->
                      IF s = {} THEN <<>> ELSE Joined(f[s \ {Max(s)}], seq[Max(s)])]
<1>2. MergeWindows(ws) = iter[DOMAIN seq]
  BY <1>1 DEF MergeWindows, FoldLeft, MapThenFoldSet
<1>3. PICK n \in Nat : n = Len(seq) /\ DOMAIN seq = 1..n OBVIOUS
<1>4. PICK A : A = Seq(Rows) OBVIOUS
<1>5. PICK g : g = [p \in A \X (1..n) |-> Joined(p[1], seq[p[2]])] OBVIOUS
<1>6. g \in [A \X (1..n) -> A]
  <2>1. ASSUME NEW p \in A \X (1..n) PROVE Joined(p[1], seq[p[2]]) \in A
    <3>1. p[1] \in Seq(Rows) /\ seq[p[2]] \in Rows BY <1>3, <1>4
    <3> QED BY <1>4, <3>1, JoinedIs
  <2> QED BY <1>5, <2>1
<1>7. PICK h : Folds(h, n, A, <<>>, g)
  <2>1. <<>> \in A BY <1>4
  <2> QED BY <1>6, <2>1, FoldExists
<1>8. ASSUME NEW s \in SUBSET (1..n), s # {} PROVE Max(s) \in 1..n /\ s \ {Max(s)} \in SUBSET (1..n)
  BY <1>8, MaxIs
<1>9. h = [s \in SUBSET DOMAIN seq |->
             IF s = {} THEN <<>> ELSE Joined(h[s \ {Max(s)}], seq[Max(s)])]
  <2>1. ASSUME NEW s \in SUBSET (1..n)
        PROVE  h[s] = IF s = {} THEN <<>> ELSE Joined(h[s \ {Max(s)}], seq[Max(s)])
    <3>1. CASE s = {} BY <1>7, <3>1 DEF Folds
    <3>2. CASE s # {}
      <4>1. h[s \ {Max(s)}] \in A /\ Max(s) \in 1..n BY <1>7, <1>8, <3>2 DEF Folds
      <4>2. h[s] = g[<<h[s \ {Max(s)}], Max(s)>>] BY <1>7, <3>2 DEF Folds
      <4> QED BY <1>5, <3>2, <4>1, <4>2
    <3> QED BY <3>1, <3>2
  <2> QED BY <1>3, <1>7, <2>1 DEF Folds
<1>10. iter = [s \in SUBSET DOMAIN seq |->
                 IF s = {} THEN <<>> ELSE Joined(iter[s \ {Max(s)}], seq[Max(s)])]
  BY <1>9
<1> HIDE DEF iter
<1>11. \A s \in SUBSET (1..n) :
         iter[s] = IF s = {} THEN <<>> ELSE Joined(iter[s \ {Max(s)}], seq[Max(s)])
  BY <1>3, <1>10
<1>12. PICK f : f = [i \in 0..n |-> iter[1..i]] OBVIOUS
<1>13. f[0] = <<>> /\ f[n] = iter[1..n]
  <2>1. 1..0 = {} OBVIOUS
  <2> QED BY <1>11, <1>12, <2>1
<1>14. ASSUME NEW i \in 1..n PROVE f[i] = Joined(f[i - 1], seq[i])
  <2>1. Max(1..i) = i /\ 1..i \in SUBSET (1..n) /\ 1..i # {} BY FirstIs
  <2>2. (1..i) \ {i} = 1..i - 1 OBVIOUS
  <2>3. iter[1..i] = Joined(iter[1..i - 1], seq[i]) BY <1>11, <2>1, <2>2
  <2> QED BY <1>12, <2>3
<1> QED BY <1>1, <1>2, <1>3, <1>13, <1>14

\* The windows of a week are in order, and between two of them is a gap.
Apart(out) ==
    /\ out \in Seq(Rows)
    /\ \A a \in 1..Len(out) : out[a].from < out[a].to
    /\ \A a, b \in 1..Len(out) : a < b => out[a].to < out[b].from

Holds(w, m) == w.from <= m /\ m < w.to

\* Minute m is in one of the first i.
Covered(s, i, m) == \E k \in 1..i : Holds(s[k], m)

\* Joining a row that does not begin before the last window keeps the windows
\* apart and adds the row's minutes and no other.
LEMMA JoinKeeps ==
    ASSUME NEW out, Apart(out), NEW w \in ValidRows,
           out # <<>> => out[Len(out)].from <= w.from
    PROVE  /\ Apart(Joined(out, w)) /\ Joined(out, w) # <<>>
           /\ Joined(out, w)[Len(Joined(out, w))].from <= w.from
           /\ \A m \in Nat : Covered(Joined(out, w), Len(Joined(out, w)), m)
                               <=> Covered(out, Len(out), m) \/ Holds(w, m)
<1>1. PICK n \in Nat : n = Len(out) OBVIOUS
<1>2. w \in Rows /\ w.from \in Int /\ w.to \in Int /\ w.from < w.to BY RowsAre DEF ValidRows
<1>3. \A a \in 1..n : /\ out[a] \in Rows /\ out[a].from \in Int /\ out[a].to \in Int
                      /\ out[a].from < out[a].to
  BY <1>1, RowsAre DEF Apart
<1>4. \A a, b \in 1..n : a < b => out[a].to < out[b].from BY <1>1 DEF Apart
<1>5. PICK new : new = Joined(out, w) OBVIOUS
<1>6. new \in Seq(Rows) /\ new # <<>> BY <1>2, <1>5, JoinedIs DEF Apart
<1>7. CASE out # <<>> /\ w.from <= out[Len(out)].to
  <2>1. n \in 1..n /\ n >= 1 BY <1>1, <1>7 DEF Apart
  <2>2. Len(new) = n /\ \A a \in 1..n - 1 : new[a] = out[a] BY <1>1, <1>2, <1>5, <1>7, JoinedIs DEF Apart
  <2>3. PICK t : t = Larger(out[n].to, w.to) OBVIOUS
  <2>4. t \in Int /\ t >= out[n].to /\ t >= w.to /\ (t = out[n].to \/ t = w.to)
    BY <1>2, <1>3, <2>1, <2>3 DEF Larger
  <2>5. new[n] = Window(out[n].from, t) BY <1>1, <1>2, <1>5, <1>7, <2>3, JoinedIs DEF Apart
  <2>6. new[n].from = out[n].from /\ new[n].to = t BY <2>5 DEF Window
  <2>7. out[n].from <= w.from /\ w.from <= out[n].to BY <1>1, <1>7
  <2>8. \A a \in 1..n : new[a].from = out[a].from BY <2>1, <2>2, <2>6
  <2>9. \A a \in 1..n : new[a].from < new[a].to
    <3> SUFFICES ASSUME NEW a \in 1..n PROVE new[a].from < new[a].to OBVIOUS
    <3>1. CASE a = n BY <3>1, <1>3, <2>1, <2>4, <2>6
    <3>2. CASE a # n
      <4>1. a \in 1..n - 1 BY <3>2
      <4> QED BY <4>1, <1>3, <2>2
    <3> QED BY <3>1, <3>2
  <2>10. \A a, b \in 1..n : a < b => new[a].to < new[b].from
    <3> SUFFICES ASSUME NEW a \in 1..n, NEW b \in 1..n, a < b PROVE new[a].to < new[b].from
      OBVIOUS
    <3>1. a \in 1..n - 1 OBVIOUS
    <3>2. new[a] = out[a] BY <3>1, <2>2
    <3> QED BY <3>2, <1>4, <2>8
  <2>11. Apart(new) BY <1>6, <2>2, <2>9, <2>10 DEF Apart
  <2>12. ASSUME NEW m \in Nat
         PROVE  Covered(new, n, m) <=> Covered(out, n, m) \/ Holds(w, m)
    <3>1. Holds(new[n], m) <=> Holds(out[n], m) \/ Holds(w, m)
      BY <1>2, <1>3, <2>1, <2>4, <2>6, <2>7 DEF Holds
    <3>2. \A a \in 1..n - 1 : Holds(new[a], m) <=> Holds(out[a], m) BY <2>2
    <3>3. \A a \in 1..n : a = n \/ a \in 1..n - 1 OBVIOUS
    <3>4. \A a \in 1..n - 1 : a \in 1..n OBVIOUS
    <3> HIDE DEF Holds
    <3> QED BY <2>1, <3>1, <3>2, <3>3, <3>4 DEF Covered
  <2> QED BY <1>1, <1>5, <1>6, <2>2, <2>6, <2>7, <2>11, <2>12
<1>8. CASE ~(out # <<>> /\ w.from <= out[Len(out)].to)
  <2>1. Len(new) = n + 1 /\ (\A a \in 1..n : new[a] = out[a]) /\ new[n + 1] = w
    BY <1>1, <1>2, <1>5, <1>8, JoinedIs DEF Apart
  <2>2. \A a \in 1..n : out[a].to < w.from
    <3> SUFFICES ASSUME NEW a \in 1..n PROVE out[a].to < w.from OBVIOUS
    <3>1. n \in 1..n /\ out # <<>> BY <1>1
    <3>2. out[n].to < w.from BY <1>1, <1>2, <1>3, <1>8, <3>1
    <3>3. CASE a = n BY <3>2, <3>3
    <3>4. CASE a # n
      <4>1. a < n BY <3>4
      <4>2. out[a].to < out[n].from BY <1>4, <3>1, <4>1
      <4> QED BY <1>2, <1>3, <3>1, <3>2, <4>2
    <3> QED BY <3>3, <3>4
  <2>3. \A a \in 1..n + 1 : a = n + 1 \/ a \in 1..n OBVIOUS
  <2>4. \A a \in 1..n + 1 : new[a].from < new[a].to BY <1>2, <1>3, <2>1, <2>3
  <2>5. \A a, b \in 1..n + 1 : a < b => new[a].to < new[b].from
    <3> SUFFICES ASSUME NEW a \in 1..n + 1, NEW b \in 1..n + 1, a < b
                 PROVE  new[a].to < new[b].from
      OBVIOUS
    <3>1. a \in 1..n OBVIOUS
    <3>2. CASE b = n + 1 BY <2>1, <2>2, <3>1, <3>2
    <3>3. CASE b # n + 1
      <4>1. b \in 1..n BY <3>3
      <4> QED BY <1>4, <2>1, <3>1, <4>1
    <3> QED BY <3>2, <3>3
  <2>6. Apart(new) BY <1>6, <2>1, <2>4, <2>5 DEF Apart
  <2>7. ASSUME NEW m \in Nat
        PROVE  Covered(new, n + 1, m) <=> Covered(out, n, m) \/ Holds(w, m)
    <3>1. \A a \in 1..n : a \in 1..n + 1 OBVIOUS
    <3>2. n + 1 \in 1..n + 1 OBVIOUS
    <3> QED BY <2>1, <2>3, <3>1, <3>2 DEF Covered
  <2>8. w.from <= w.from BY <1>2
  <2> QED BY <1>1, <1>5, <1>6, <2>1, <2>6, <2>7, <2>8
<1> QED BY <1>7, <1>8

\* What the windows so far are of the first i rows.
WeekSoFar(out, s, i) ==
    /\ Apart(out)
    /\ (out = <<>>) = (i = 0)
    /\ i > 0 => out[Len(out)].from <= s[i].from
    /\ \A m \in Nat : Covered(out, Len(out), m) <=> Covered(s, i, m)

\* The week that is loaded: its windows are apart and have the minutes of the
\* rows.
LEMMA WeekLoaded ==
    ASSUME NEW ws \in SUBSET ValidRows
    PROVE  /\ Apart(MergeWindows(ws))
           /\ \A m \in Nat : Covered(MergeWindows(ws), Len(MergeWindows(ws)), m)
                               <=> \E w \in ws : Holds(w, m)
<1>0. ws \in SUBSET Rows BY DEF ValidRows
<1>1. PICK s \in Seq(Rows) : s = Sorted(ws) BY <1>0, SortedIs
<1>2. PICK n \in Nat : n = Len(s) OBVIOUS
<1>3. /\ \A i \in 1..n : s[i] \in ws /\ s[i] \in ValidRows
      /\ \A w \in ws : \E i \in 1..n : s[i] = w
      /\ \A i, j \in 1..n : i < j => s[i].from <= s[j].from
  BY <1>0, <1>1, <1>2, SortedIs
<1>4. PICK f : /\ f[0] = <<>>
               /\ \A i \in 1..n : f[i] = Joined(f[i - 1], s[i])
               /\ MergeWindows(ws) = f[n]
  BY <1>0, <1>1, <1>2, MergeSteps
<1>5. WeekSoFar(f[0], s, 0)
  <2>1. <<>> \in Seq(Rows) /\ Len(<<>>) = 0 OBVIOUS
  <2>2. Apart(<<>>) BY <2>1 DEF Apart
  <2>3. \A m \in Nat : Covered(<<>>, 0, m) <=> Covered(s, 0, m) BY DEF Covered
  <2> QED BY <1>4, <2>1, <2>2, <2>3 DEF WeekSoFar
<1>6. ASSUME NEW i \in 1..n, WeekSoFar(f[i - 1], s, i - 1) PROVE WeekSoFar(f[i], s, i)
  <2>1. PICK out : out = f[i - 1] OBVIOUS
  <2>2. Apart(out) BY <1>6, <2>1 DEF WeekSoFar
  <2>3. s[i] \in ValidRows BY <1>3
  <2>4. out # <<>> => out[Len(out)].from <= s[i].from
    <3> SUFFICES ASSUME out # <<>> PROVE out[Len(out)].from <= s[i].from OBVIOUS
    <3>1. i - 1 > 0 /\ out[Len(out)].from <= s[i - 1].from BY <1>6, <2>1 DEF WeekSoFar
    <3>2. i - 1 \in 1..n /\ i - 1 < i BY <3>1
    <3>3. s[i - 1].from <= s[i].from BY <1>3, <3>2
    <3>4. s[i - 1].from \in Int /\ s[i].from \in Int BY <3>2, <1>3, RowsAre DEF ValidRows
    <3>5. out[Len(out)].from \in Int
      <4>1. out \in Seq(Rows) BY <2>2 DEF Apart
      <4>2. out[Len(out)] \in Rows BY <4>1
      <4> QED BY <4>2, RowsAre
    <3> QED BY <3>1, <3>3, <3>4, <3>5
  <2>5. PICK new : new = Joined(out, s[i]) OBVIOUS
  <2>6. /\ Apart(new) /\ new # <<>>
        /\ new[Len(new)].from <= s[i].from
        /\ \A m \in Nat : Covered(new, Len(new), m) <=> Covered(out, Len(out), m) \/ Holds(s[i], m)
    BY <2>2, <2>3, <2>4, <2>5, JoinKeeps
  <2>7. f[i] = new BY <1>4, <2>1, <2>5
  <2>8. ASSUME NEW m \in Nat PROVE Covered(new, Len(new), m) <=> Covered(s, i, m)
    <3>1. Covered(out, Len(out), m) <=> Covered(s, i - 1, m) BY <1>6, <2>1 DEF WeekSoFar
    <3>2. \A k \in 1..i : k = i \/ k \in 1..i - 1 OBVIOUS
    <3>3. \A k \in 1..i - 1 : k \in 1..i OBVIOUS
    <3>4. i \in 1..i OBVIOUS
    <3>5. Covered(s, i, m) <=> Covered(s, i - 1, m) \/ Holds(s[i], m)
      BY <3>2, <3>3, <3>4 DEF Covered
    <3> QED BY <2>6, <3>1, <3>5
  <2>9. i # 0 OBVIOUS
  <2> QED BY <2>6, <2>7, <2>8, <2>9 DEF WeekSoFar
<1>7. \A i \in 0..n : WeekSoFar(f[i], s, i)
  <2>1. PICK Bad : Bad = {i \in 0..n : ~WeekSoFar(f[i], s, i)} OBVIOUS
  <2>2. Bad = {}
    <3> SUFFICES ASSUME Bad # {} PROVE FALSE OBVIOUS
    <3>1. Bad \in SUBSET Nat BY <2>1
    <3>2. PICK i \in Bad : \A j \in Bad : i <= j BY <3>1, LeastNat
    <3>3. i \in 0..n /\ i # 0 BY <1>5, <2>1
    <3>4. i \in 1..n /\ i - 1 \in 0..n /\ ~(i <= i - 1) BY <3>3
    <3>5. WeekSoFar(f[i - 1], s, i - 1) BY <2>1, <3>2, <3>4
    <3> QED BY <1>6, <2>1, <3>4, <3>5
  <2> QED BY <2>1, <2>2
<1>8. WeekSoFar(f[n], s, n) BY <1>7
<1>9. ASSUME NEW m \in Nat PROVE Covered(s, n, m) <=> \E w \in ws : Holds(w, m)
  BY <1>3 DEF Covered
<1> QED BY <1>4, <1>8, <1>9 DEF WeekSoFar

\* Such a week is one the page may save.
LEMMA WeekSaves ==
    ASSUME hours \in SUBSET ValidRows
    PROVE  LoadedWeekSaves
<1>1. PICK week : week = MergeWindows(hours) OBVIOUS
<1>2. PICK n \in Nat : n = Len(week) BY <1>1, WeekLoaded DEF Apart
<1>3. /\ week \in Seq(Rows)
      /\ \A a \in 1..n : week[a].from < week[a].to
      /\ \A a, b \in 1..n : a < b => week[a].to < week[b].from
      /\ \A m \in Nat : Covered(week, n, m) <=> \E w \in hours : Holds(w, m)
  BY <1>1, <1>2, WeekLoaded DEF Apart
<1>4. Minutes(Range(week)) = Minutes(hours)
  <2>1. DayEnd \in Nat BY RowsAre
  <2>2. \A m \in 0..DayEnd - 1 : (\E w \in Range(week) : Holds(w, m)) <=> \E w \in hours : Holds(w, m)
    <3>1. Range(week) = {week[a] : a \in 1..n} BY <1>2, <1>3 DEF Range
    <3>2. \A m : (\E w \in Range(week) : Holds(w, m)) <=> Covered(week, n, m) BY <3>1 DEF Covered
    <3>3. \A m \in 0..DayEnd - 1 : m \in Nat BY <2>1
    <3> QED BY <1>3, <3>2, <3>3
  <2> QED BY <2>2 DEF Minutes, Holds
<1>5. \A i \in 1..n - 1 : week[i].to < week[i + 1].from
  <2> SUFFICES ASSUME NEW i \in 1..n - 1 PROVE week[i].to < week[i + 1].from OBVIOUS
  <2>1. i \in 1..n /\ i + 1 \in 1..n /\ i < i + 1 OBVIOUS
  <2> QED BY <1>3, <2>1
<1>6. Accepts(week)
  <2>1. DOMAIN week = 1..n BY <1>2, <1>3
  <2>2. \A a \in 1..n : week[a].from \in Int /\ week[a].to \in Int BY <1>2, <1>3, RowsAre
  <2>3. ASSUME NEW i \in 1..n, NEW j \in 1..n, i # j
        PROVE  week[i].to <= week[j].from \/ week[j].to <= week[i].from
    <3>1. i < j \/ j < i BY <2>3
    <3>2. week[i].to < week[j].from \/ week[j].to < week[i].from BY <1>3, <3>1
    <3> QED BY <2>2, <3>2
  <2> QED BY <1>3, <2>1, <2>3 DEF Accepts
<1> QED BY <1>1, <1>2, <1>4, <1>5, <1>6 DEF LoadedWeekSaves

-----------------------------------------------------------------------------
(* The rows and the windows on the page                                    *)

\* What is stored, what is on the page and what is being saved are windows of
\* a day, and those that are stored begin before they end.
WeekRows ==
    /\ hours \in SUBSET ValidRows
    /\ draft \in Seq(Rows)
    /\ \A c \in calls : c.request \in Seq(Rows)

RowsInv ==
    /\ SavedInv
    /\ surface = "hours" => WeekRows
    /\ surface # "hours" => hours = {}

LEMMA LoadedRows ==
    ASSUME hours \in SUBSET ValidRows, NEW week \in LoadAvailability
    PROVE  week \in Seq(Rows)
<1>1. week = MergeWindows(hours) \/ week = <<>> BY DEF LoadAvailability
<1>2. MergeWindows(hours) \in Seq(Rows) BY WeekLoaded DEF Apart
<1>3. <<>> \in Seq(Rows) OBVIOUS
<1>4. CASE week = <<>> BY <1>3, <1>4
<1>5. CASE week = MergeWindows(hours) BY <1>2, <1>5
<1> QED BY <1>1, <1>4, <1>5

LEMMA WeekRowsStand ==
    ASSUME WeekRows, UNCHANGED hours, draft' \in Seq(Rows), calls' \in SUBSET calls
    PROVE  WeekRows'
BY DEF WeekRows

LEMMA EditedRows ==
    ASSUME WeekRows, NEW windows \in Seq(Rows), EditHours(windows)
    PROVE  WeekRows'
<1>1. draft' = windows /\ UNCHANGED <<calls, hours>> BY DEF EditHours, Edits, callVars
<1> QED BY <1>1, WeekRowsStand

LEMMA AddedRow ==
    ASSUME WeekRows, AddWindow
    PROVE  WeekRows'
<1>1. PICK start : start = IF draft = <<>> THEN FirstStart
                           ELSE Smaller(Last(draft).to + 1, DayEnd - 2)
  OBVIOUS
<1>2. EditHours(Append(draft, Window(start, Smaller(start + 2, DayEnd))))
  BY <1>1 DEF AddWindow
<1>3. DayEnd \in Nat /\ DayEnd >= 2 /\ FirstStart \in 0..DayEnd - 1 BY HoursAssumption
<1>4. start \in 0..DayEnd - 1
  <2>1. CASE draft = <<>> BY <1>1, <1>3, <2>1
  <2>2. CASE draft # <<>>
    <3>1. draft \in Seq(Rows) BY DEF WeekRows
    <3>2. Last(draft) = draft[Len(draft)] BY DEF Last
    <3>3. Last(draft) \in Rows BY <2>2, <3>1, <3>2
    <3>4. PICK t \in 1..DayEnd : t = Last(draft).to BY <3>3, RowsAre
    <3>5. start = Smaller(t + 1, DayEnd - 2) BY <1>1, <2>2, <3>4
    <3> QED BY <1>3, <3>4, <3>5 DEF Smaller
  <2> QED BY <2>1, <2>2
<1>5. Smaller(start + 2, DayEnd) \in 1..DayEnd BY <1>3, <1>4 DEF Smaller
<1>6. Window(start, Smaller(start + 2, DayEnd)) \in Rows BY <1>4, <1>5, RowsAre
<1>7. Append(draft, Window(start, Smaller(start + 2, DayEnd))) \in Seq(Rows)
  BY <1>6 DEF WeekRows
<1> QED BY <1>2, <1>7, EditedRows

LEMMA StoredRows ==
    ASSUME HoursInv, WeekRows, NEW c \in calls, SetAvailability(c)
    PROVE  WeekRows'
<1>1. /\ Served(c, IF Accepts(c.request) THEN "done" ELSE "refused")
      /\ hours' = IF Accepts(c.request) THEN Range(c.request) ELSE hours
      /\ UNCHANGED draft
  BY DEF SetAvailability
<1>2. CallShape(c) BY DEF HoursInv
<1>3. hours' \in SUBSET ValidRows
  <2>1. CASE Accepts(c.request)
    <3>1. c.request \in Seq(Rows) BY DEF WeekRows
    <3>2. \A i \in DOMAIN c.request : c.request[i] \in ValidRows
      BY <2>1, <3>1 DEF Accepts, ValidRows
    <3> QED BY <1>1, <2>1, <3>2 DEF Range
  <2>2. CASE ~Accepts(c.request) BY <1>1, <2>2 DEF WeekRows
  <2> QED BY <2>1, <2>2
<1>4. \A e \in calls' : e.request \in Seq(Rows)
  <2>1. CASE c.stage = "sent"
    <3>1. PICK d : calls' = (calls \ {c}) \cup {d} /\ Same(c, d)
      BY <1>1, <1>2, <2>1, ServedMoves
    <3> QED BY <3>1 DEF WeekRows, Same
  <2>2. CASE c.stage # "sent"
    <3>1. calls' = calls \ {c} BY <1>1, <1>2, <2>2, ServedMoves
    <3> QED BY <3>1 DEF WeekRows
  <2> QED BY <2>1, <2>2
<1> QED BY <1>1, <1>3, <1>4 DEF WeekRows

LEMMA RowsStep ==
    ASSUME HoursInv, WeekRows, HoursNext
    PROVE  WeekRows'
<1>1. CASE SetWindow
  <2>1. PICK i \in DOMAIN draft, w \in Rows : EditHours([draft EXCEPT ![i] = w])
    BY <1>1 DEF SetWindow
  <2>2. [draft EXCEPT ![i] = w] \in Seq(Rows) BY DEF WeekRows
  <2> QED BY <2>1, <2>2, EditedRows
<1>2. CASE AddWindow BY <1>2, AddedRow
<1>3. CASE RemoveWindow
  <2>1. PICK i \in DOMAIN draft : EditHours(RemoveAt(draft, i)) BY <1>3 DEF RemoveWindow
  <2>2. PICK d \in Seq(Rows) : d = draft BY DEF WeekRows
  <2>3. i \in 1..Len(d) BY <2>2
  <2>4. SubSeq(d, 1, i - 1) \in Seq(Rows) /\ SubSeq(d, i + 1, Len(d)) \in Seq(Rows)
    BY <2>2, <2>3
  <2>5. RemoveAt(d, i) \in Seq(Rows) BY <2>4 DEF RemoveAt
  <2> QED BY <2>1, <2>2, <2>5, EditedRows
<1>4. CASE SaveHours
  <2>1. PICK d : calls' = calls \cup {d} /\ d.request = draft BY <1>4, SendAdds DEF SaveHours
  <2>2. UNCHANGED <<hours, draft>> BY <1>4 DEF SaveHours
  <2> QED BY <2>1, <2>2 DEF WeekRows
<1>5. CASE HoursRefreshed BY <1>5, WeekRowsStand DEF HoursRefreshed, WeekRows
<1>6. CASE OpenHours
  <2>1. draft' \in LoadAvailability /\ UNCHANGED <<calls, hours>> BY <1>6 DEF OpenHours, callVars
  <2>2. draft' \in Seq(Rows) BY <2>1, LoadedRows DEF WeekRows
  <2> QED BY <2>1, <2>2, WeekRowsStand
<1>7. ASSUME NEW c \in calls, SetAvailability(c) PROVE WeekRows' BY <1>7, StoredRows
<1>8. ASSUME NEW c \in calls, HoursSaved(c) \/ HoursRefused(c) PROVE WeekRows'
  <2>1. calls' = calls \ {c} /\ UNCHANGED <<hours, draft>>
    BY <1>8 DEF HoursSaved, HoursRefused, Answered, Refused
  <2> QED BY <2>1, WeekRowsStand DEF WeekRows
<1>9. ASSUME NEW c \in calls, HoursLost(c) PROVE WeekRows'
  <2>1. UNCHANGED <<hours, draft>> BY <1>9 DEF HoursLost
  <2>2. CASE calls' = calls \ {c} BY <2>1, <2>2, WeekRowsStand DEF WeekRows
  <2>3. CASE Broken(c) /\ c.stage = "sent"
    <3>1. CallShape(c) BY DEF HoursInv
    <3>2. PICK d : calls' = (calls \ {c}) \cup {d} /\ Same(c, d)
      BY <2>3, <3>1, BrokenMoves
    <3> QED BY <2>1, <3>2 DEF WeekRows, Same
  <2>4. CASE Broken(c) /\ c.stage # "sent"
    <3>1. CallShape(c) BY DEF HoursInv
    <3> QED BY <2>2, <2>4, <3>1, BrokenMoves
  <2>5. CASE Vanished(c) BY <2>2, <2>5 DEF Vanished
  <2> QED BY <1>9, <2>3, <2>4, <2>5 DEF HoursLost
<1>10. CASE SavedElsewhere
  <2>1. hours' \in SUBSET ValidRows /\ UNCHANGED <<calls, draft>> BY <1>10 DEF SavedElsewhere
  <2> QED BY <2>1 DEF WeekRows
<1> QED BY <1>1, <1>2, <1>3, <1>4, <1>5, <1>6, <1>7, <1>8, <1>9, <1>10 DEF HoursNext

LEMMA RowsInit == Init => RowsInv
<1> SUFFICES ASSUME Init PROVE RowsInv OBVIOUS
<1>1. HoursInit /\ (surface # "hours" => hours = {}) BY DEF Init
<1>2. calls = {} /\ hours \in SUBSET ValidRows /\ draft \in LoadAvailability
  BY <1>1 DEF HoursInit, CallsInit
<1>3. WeekRows BY <1>2, LoadedRows DEF WeekRows
<1> QED BY <1>1, <1>3, SavedInit DEF RowsInv

LEMMA AllRowsStep == RowsInv /\ [Next]_allVars => RowsInv'
<1> SUFFICES ASSUME RowsInv, [Next]_allVars PROVE RowsInv' OBVIOUS
<1>1. SavedInv' BY SavedStep DEF RowsInv
<1>2. CASE UNCHANGED allVars
  <2>1. UNCHANGED <<calls, hours, draft, surface>>
    BY <1>2 DEF allVars, hoursVars, callVars
  <2>2. WeekRows => WeekRows' BY <2>1 DEF WeekRows
  <2> QED BY <1>1, <2>1, <2>2 DEF RowsInv
<1>3. CASE Next
  <2>1. UNCHANGED surface BY <1>3 DEF Next
  <2>2. CASE surface = "hours"
    <3>1. HoursNext BY <1>3, <2>2 DEF Next
    <3>2. HoursInv /\ WeekRows BY <2>2 DEF RowsInv, SavedInv
    <3>3. WeekRows' BY <3>1, <3>2, RowsStep
    <3> QED BY <1>1, <2>1, <2>2, <3>3 DEF RowsInv
  <2>3. CASE surface # "hours"
    <3>1. UNCHANGED hours BY <1>3, <2>3 DEF Next, OnHours
    <3> QED BY <1>1, <2>1, <2>3, <3>1 DEF RowsInv
  <2> QED BY <2>2, <2>3
<1> QED BY <1>2, <1>3

\* The page and the table agree whenever the page says so: whatever rows there
\* are, overlapping ones too, the week that is loaded has exactly their minutes
\* and is one a Save is taken of, and "Saved." is said of the rows.
THEOREM HoursAlwaysThoseStored == Spec => []HoursAreThoseStored
<1>1. RowsInv => HoursAreThoseStored
  <2> SUFFICES ASSUME RowsInv PROVE HoursAreThoseStored OBVIOUS
  <2>1. hours \in SUBSET ValidRows BY DEF RowsInv, WeekRows
  <2>2. LoadedWeekSaves BY <2>1, WeekSaves
  <2>3. SavedIsStored
    <3>1. CASE surface = "hours" BY <3>1 DEF RowsInv, SavedInv, HoursInv
    <3>2. CASE surface # "hours" BY <3>2 DEF RowsInv, SavedInv, SavedIsStored
    <3> QED BY <3>1, <3>2
  <2> QED BY <2>2, <2>3 DEF HoursAreThoseStored, SavedIsStored
<1> QED BY <1>1, RowsInit, AllRowsStep, PTL DEF Spec

-----------------------------------------------------------------------------
(* Who sees what                                                           *)

LEMMA LandsAsWished ==
    SwitchesLand <=> \A key \in Keys \ doubt : ~Pending(key) => Wished(key)
BY DEF SwitchesLand, Wished, AsWished

\* Nothing that a wish hangs on changes.
LEMMA WishStands ==
    ASSUME NEW key \in Keys, wish'[key] = wish[key], tacit'[key] = tacit[key],
           Own(rules', key) = Own(rules, key)
    PROVE  Wished(key)' <=> Wished(key)
BY DEF Wished, AsWished, Own, KeyOf

LEMMA CarriesStands ==
    ASSUME NEW c \in calls, c.about \in Keys, CarriesWish(c),
           wish'[c.about] = wish[c.about], tacit'[c.about] = tacit[c.about],
           Own(rules', c.about) = Own(rules, c.about),
           \A d \in calls' : d.about = c.about => d = c
    PROVE  CarriesWish(c)'
<1>1. Wished(c.about)' <=> Wished(c.about) BY WishStands
<1>2. Own(rules, c.about)' = Own(rules, c.about) BY DEF Own, KeyOf
<1>3. (c.stage = "done" => Wished(c.about))' BY <1>1 DEF CarriesWish
<1>4. (c.stage = "sent" /\ c.request.op = "delete" =>
         /\ wish[c.about] = Nothing
         /\ Own(rules, c.about) # {}
         /\ \A r \in Own(rules, c.about) : r.id = c.request.id)'
  BY <1>2 DEF CarriesWish
<1>5. (c.stage = "sent" /\ c.request.op = "set" => AsWished(c.about, c.request.fields))'
  BY DEF CarriesWish, AsWished
<1> QED BY <1>3, <1>4, <1>5 DEF CarriesWish

\* The rows, the pages and the requests fit as long as ids and keys do.
RowsFit ==
    /\ issued \in Nat
    /\ drawn = [t \in Tabs |-> drawn[t]]
    /\ \A r \in rules : KnownRule(r)
    /\ OneRowEach(rules)
    /\ \A t \in Tabs : OneRowEach(drawn[t].rules)
    /\ \A t \in Tabs : \A r \in drawn[t].rules : KnownRule(r)
    /\ \A t \in Tabs : \A r \in drawn[t].rules, s \in rules : r.id = s.id => KeyOf(r) = KeyOf(s)
    /\ \A r, s \in rules : r.id = s.id => KeyOf(r) = KeyOf(s)
    /\ \A c \in calls : RuleCall(c)

WishesFit ==
    /\ WishShape
    /\ \A c \in calls : c.about \in Keys \ doubt => CarriesWish(c)
    /\ \A key \in Keys \ doubt : ~Pending(key) => Wished(key)

LEMMA RulesParts == RulesInv <=> RowsFit /\ WishesFit
BY LandsAsWished DEF RulesInv, RowsFit, WishesFit

LEMMA RulesPartsNext == RulesInv' <=> RowsFit' /\ WishesFit'
BY RulesParts, PTL

LEMMA RowsStand ==
    ASSUME RowsFit, UNCHANGED <<rules, issued, drawn>>,
           \A e \in calls' : e \in calls \/ RuleCall(e)
    PROVE  RowsFit'
<1>1. \A e \in calls' : RuleCall(e)'
  BY DEF RowsFit, RuleCall, KeyOf, Keys, Audiences, CallShape, Scopes, Tellable
<1> QED BY <1>1 DEF RowsFit, KnownRule, OneRowEach, KeyOf, Keys, Scopes, Audiences, Tellable

\* A choice is asked for: the call carries what is wished from now on.
LEMMA AskKeeps ==
    ASSUME RulesInv, NEW t \in Tabs, NEW key \in Keys, NEW request,
           NEW w \in (SUBSET RuleFields) \cup {Nothing}, NEW o, Ask(t, key, request),
           wish' = [wish EXCEPT ![key] = w], tacit' = [tacit EXCEPT ![key] = o],
           \A k : k # key => (k \in doubt' <=> k \in doubt),
           Pending(key) => key \in doubt',
           request.op \in {"set", "delete"},
           request.op = "set" => Tellable(request),
           request.op = "delete" =>
              /\ request.id \in 0..issued
              /\ \A r \in rules : r.id = request.id => KeyOf(r) = key,
           key \notin doubt' =>
              /\ request.op = "set" => w # Nothing /\ Unlike(request.fields, w) \subseteq o
              /\ request.op = "delete" =>
                   /\ w = Nothing
                   /\ Own(rules, key) # {}
                   /\ \A r \in Own(rules, key) : r.id = request.id
    PROVE  RulesInv'
<1>1. RowsFit /\ WishesFit BY RulesParts
<1>2. UNCHANGED <<rules, issued, drawn>> BY DEF Ask
<1>3. PICK d : /\ calls' = calls \cup {d}
               /\ CallShape(d) /\ d.about = key /\ d.request = request /\ d.stage = "sent"
  BY SendAdds DEF Ask
<1>4. RuleCall(d) BY <1>3 DEF RuleCall
<1>5. RowsFit' BY <1>1, <1>2, <1>3, <1>4, RowsStand
<1>6. /\ WishShape'
      /\ wish'[key] = w /\ \A k \in Keys : k # key => wish'[k] = wish[k]
      /\ tacit'[key] = o /\ \A k \in Keys : k # key => tacit'[k] = tacit[k]
  <2>1. /\ wish' \in [Keys -> (SUBSET RuleFields) \cup {Nothing}]
        /\ wish'[key] = w /\ \A k \in Keys : k # key => wish'[k] = wish[k]
    BY <1>1 DEF WishesFit, WishShape
  <2>2. /\ tacit' = [k \in Keys |-> tacit'[k]]
        /\ tacit'[key] = o /\ \A k \in Keys : k # key => tacit'[k] = tacit[k]
    BY <1>1 DEF WishesFit, WishShape
  <2> QED BY <2>1, <2>2 DEF WishShape, Keys, Scopes, Audiences
<1>7. \A k : Own(rules', k) = Own(rules, k) BY <1>2
<1>8. ASSUME NEW c \in calls', c.about \in Keys \ doubt' PROVE CarriesWish(c)'
  <2>1. CASE c.about = key
    <3>1. ~Pending(key) BY <1>8, <2>1
    <3>2. c = d /\ \A e \in calls' : e.about = key => e = d BY <3>1, <1>3, <2>1 DEF Pending
    <3>3. (c.stage = "sent" /\ c.request.op = "delete" =>
            /\ wish[c.about] = Nothing
            /\ Own(rules, c.about) # {}
            /\ \A r \in Own(rules, c.about) : r.id = c.request.id)'
      BY <3>2, <1>3, <1>6, <1>2, <1>8, <2>1 DEF Own, KeyOf
    <3>4. (c.stage = "sent" /\ c.request.op = "set" => AsWished(c.about, c.request.fields))'
      BY <3>2, <1>3, <1>6, <1>8, <2>1 DEF AsWished
    <3> QED BY <3>2, <3>3, <3>4, <1>3, <2>1 DEF CarriesWish
  <2>2. CASE c.about # key
    <3>1. c \in calls /\ c.about \in Keys \ doubt BY <2>2, <1>3, <1>8
    <3>2. CarriesWish(c) BY <3>1, <1>1 DEF WishesFit
    <3>3. \A e \in calls' : e.about = c.about => e = c BY <3>2, <1>3, <2>2 DEF CarriesWish
    <3> QED BY <3>1, <3>2, <3>3, <1>6, <1>7, <2>2, CarriesStands
  <2> QED BY <2>1, <2>2
<1>9. ASSUME NEW k \in Keys \ doubt', ~Pending(k)' PROVE Wished(k)'
  <2>1. k # key BY <1>3, <1>9 DEF Pending
  <2>2. ~Pending(k) BY <1>3, <1>9 DEF Pending
  <2>3. Wished(k) BY <2>1, <2>2, <1>1 DEF WishesFit
  <2> QED BY <2>1, <2>3, <1>6, <1>7, WishStands
<1>10. WishesFit'
  <2>1. \A k \in (Keys \ doubt)' : ~Pending(k)' => Wished(k)' BY <1>9 DEF Keys, Scopes, Audiences
  <2>2. \A c \in calls' : c.about \in (Keys \ doubt)' => CarriesWish(c)'
    BY <1>8 DEF Keys, Scopes, Audiences
  <2> QED BY <1>6, <2>1, <2>2 DEF WishesFit, WishShape, Keys, Scopes, Audiences
<1> QED BY <1>5, <1>10, RulesPartsNext

\* A call moves on, or goes, and brings no rule about: its key, if it is
\* about one, is in doubt.
LEMMA MoveKeeps ==
    ASSUME RulesInv, NEW c \in calls, UNCHANGED <<rules, issued, drawn, wish, tacit>>,
           calls \ {c} \subseteq calls',
           \A e \in calls' : e \in calls \ {c} \/ (Same(c, e) /\ CallShape(e)),
           doubt \subseteq doubt', doubt' \subseteq doubt \cup {c.about},
           c.about \in Keys => c.about \in doubt'
    PROVE  RulesInv'
<1>1. RowsFit /\ WishesFit BY RulesParts
<1>2. RuleCall(c) BY <1>1 DEF RowsFit
<1>3. \A e \in calls' : e \in calls \/ RuleCall(e) BY <1>2 DEF RuleCall, Same
<1>4. RowsFit' BY <1>1, <1>3, RowsStand
<1>5. \A k : Own(rules', k) = Own(rules, k) OBVIOUS
<1>6. ASSUME NEW e \in calls', e.about \in Keys \ doubt' PROVE CarriesWish(e)'
  <2>1. e \in calls /\ e.about # c.about /\ e.about \in Keys \ doubt BY <1>6 DEF Same
  <2>2. CarriesWish(e) BY <2>1, <1>1 DEF WishesFit
  <2>3. \A f \in calls' : f.about = e.about => f = e BY <2>1, <2>2 DEF CarriesWish, Same
  <2> QED BY <2>1, <2>2, <2>3, <1>5, CarriesStands
<1>7. ASSUME NEW k \in Keys \ doubt', ~Pending(k)' PROVE Wished(k)'
  <2>1. k # c.about /\ k \in Keys \ doubt BY <1>7
  <2>2. ~Pending(k) BY <2>1, <1>7 DEF Pending
  <2>3. Wished(k) BY <2>1, <2>2, <1>1 DEF WishesFit
  <2> QED BY <2>3, <1>5, WishStands
<1>8. WishesFit' BY <1>1, <1>6, <1>7 DEF WishesFit, WishShape, Keys, Scopes, Audiences
<1> QED BY <1>4, <1>8, RulesPartsNext

\* A call that did what was wished is answered.
LEMMA AnswerKeeps ==
    ASSUME RulesInv, NEW c \in calls, RuleAnswered(c)
    PROVE  RulesInv'
<1>1. c.stage = "done" /\ calls' = calls \ {c} /\ UNCHANGED <<rules, issued, drawn, wish, doubt, tacit>>
  BY DEF RuleAnswered, Answered
<1>2. RowsFit /\ WishesFit BY RulesParts
<1>3. RowsFit' BY <1>1, <1>2, RowsStand
<1>4. \A k : Own(rules', k) = Own(rules, k) BY <1>1
<1>5. ASSUME NEW e \in calls', e.about \in Keys \ doubt' PROVE CarriesWish(e)'
  <2>1. e \in calls /\ CarriesWish(e) BY <1>1, <1>2, <1>5 DEF WishesFit
  <2>2. \A f \in calls' : f.about = e.about => f = e BY <2>1, <1>1 DEF CarriesWish
  <2> QED BY <2>1, <2>2, <1>1, <1>4, <1>5, CarriesStands
<1>6. ASSUME NEW k \in Keys \ doubt', ~Pending(k)' PROVE Wished(k)'
  <2>1. CASE k = c.about
    <3>1. CarriesWish(c) BY <2>1, <1>1, <1>2, <1>6 DEF WishesFit
    <3>2. Wished(k) BY <3>1, <2>1, <1>1 DEF CarriesWish
    <3> QED BY <3>2, <1>1, <1>4, WishStands
  <2>2. CASE k # c.about
    <3>1. ~Pending(k) BY <2>2, <1>1, <1>6 DEF Pending
    <3>2. Wished(k) BY <3>1, <1>1, <1>2, <1>6 DEF WishesFit
    <3> QED BY <3>2, <1>1, <1>4, WishStands
  <2> QED BY <2>1, <2>2
<1>7. WishesFit' BY <1>1, <1>2, <1>5, <1>6 DEF WishesFit, WishShape, Keys, Scopes, Audiences
<1> QED BY <1>3, <1>7, RulesPartsNext

\* A call about a rule is served: it is "done", and its key as was wished, or
\* its key was in doubt.
LEMMA ServedWishes ==
    ASSUME WishesFit, NEW c \in calls, CallShape(c), NEW stage, Served(c, stage),
           c.about \in Keys, UNCHANGED <<wish, doubt, tacit>>,
           \A k \in Keys : k # c.about => Own(rules', k) = Own(rules, k),
           c.about \notin doubt => stage = "done" /\ Wished(c.about)'
    PROVE  WishesFit'
<1>1. /\ c.stage = "sent" =>
           \E d : /\ calls' = (calls \ {c}) \cup {d}
                  /\ CallShape(d) /\ Same(c, d) /\ d.stage = stage
      /\ c.stage # "sent" => c.stage = "adrift" /\ calls' = calls \ {c}
  BY ServedMoves
<1>2. c.stage # "sent" => c.about \in doubt BY <1>1 DEF WishesFit, CarriesWish
<1>3. \A e \in calls' : e \in calls \ {c} \/ (e.stage = stage /\ e.about = c.about)
  BY <1>1 DEF Same
<1>4. \A k : k # c.about /\ Pending(k) => Pending(k)' BY <1>1 DEF Pending
<1>5. c.about \notin doubt =>
        \A e, f \in calls' : e.about = c.about /\ f.about = c.about => e = f
  <2> SUFFICES ASSUME c.about \notin doubt PROVE \A e, f \in calls' : e.about = c.about /\ f.about = c.about => e = f
    OBVIOUS
  <2>1. \A e \in calls : e.about = c.about => e = c BY DEF WishesFit, CarriesWish
  <2>2. PICK d : calls' = (calls \ {c}) \cup {d} BY <1>1, <1>2
  <2> QED BY <2>1, <2>2
<1>6. ASSUME NEW e \in calls', e.about \in Keys \ doubt' PROVE CarriesWish(e)'
  <2>1. CASE e.about = c.about
    <3>1. e.stage = stage /\ stage = "done" /\ Wished(c.about)'
      <4>1. e \notin calls \ {c} BY <2>1, <1>6 DEF WishesFit, CarriesWish
      <4> QED BY <4>1, <1>3, <1>6, <2>1
    <3>2. (\A f \in calls : f.about = e.about => f = e)' BY <1>5, <1>6, <2>1
    <3>3. e.stage = "done" /\ Wished(e.about)' BY <3>1, <2>1
    <3> QED BY <3>2, <3>3 DEF CarriesWish
  <2>2. CASE e.about # c.about
    <3>1. e \in calls /\ CarriesWish(e) BY <2>2, <1>3, <1>6 DEF WishesFit
    <3>2. \A f \in calls' : f.about = e.about => f = e BY <3>1, <1>3, <2>2 DEF CarriesWish
    <3> QED BY <3>1, <3>2, <2>2, <1>6, CarriesStands
  <2> QED BY <2>1, <2>2
<1>7. ASSUME NEW k \in Keys \ doubt', ~Pending(k)' PROVE Wished(k)'
  <2>1. CASE k = c.about BY <2>1, <1>7
  <2>2. CASE k # c.about
    <3>1. Wished(k) BY <2>2, <1>4, <1>7 DEF WishesFit
    <3> QED BY <3>1, <2>2, WishStands
  <2> QED BY <2>1, <2>2
<1> QED BY <1>6, <1>7 DEF WishesFit, WishShape, Keys, Scopes, Audiences

\* Calls that move on go on being about what they were.
LEMMA ServedRequests ==
    ASSUME NEW c \in calls, CallShape(c), NEW stage, Served(c, stage)
    PROVE  \A e \in calls' : e \in calls \/ (Same(c, e) /\ CallShape(e))
BY ServedMoves

LEMMA SetRuleKeeps ==
    ASSUME RulesInv, NEW c \in calls, SetRule(c)
    PROVE  RulesInv'
<1> DEFINE old == Own(rules, c.about)
<1>1. RowsFit /\ WishesFit BY RulesParts
<1>2. RuleCall(c) /\ CallShape(c) /\ c.request.op = "set" /\ c.about \in Keys
  BY <1>1 DEF RowsFit, RuleCall, SetRule
<1>3. CASE c.about[2] = "group" /\ ~people.team
  <2>1. /\ Served(c, "refused") /\ doubt' = doubt \cup {c.about}
        /\ UNCHANGED <<rules, issued, drawn, wish, tacit>>
    BY <1>3 DEF SetRule
  <2>2. /\ calls \ {c} \subseteq calls'
        /\ \A e \in calls' : e \in calls \ {c} \/ (Same(c, e) /\ CallShape(e))
    BY <2>1, <1>2, ServedMoves
  <2> QED BY <2>1, <2>2, MoveKeeps
<1>4. CASE ~(c.about[2] = "group" /\ ~people.team)
  <2>1. PICK id, n :
          /\ id = (IF old = {} THEN issued + 1 ELSE (CHOOSE r \in old : TRUE).id)
          /\ n.id = id /\ n.fields = c.request.fields /\ n.time = c.request.time
          /\ n.event = c.about[1] /\ n.audience = c.about[2]
          /\ rules' = (rules \ old) \cup {n}
    <3> DEFINE id == IF old = {} THEN issued + 1 ELSE (CHOOSE r \in old : TRUE).id
               n == [id |-> id, event |-> c.about[1], audience |-> c.about[2],
                     ref |-> RefOf(c.about[2]),
                     priority |-> IF c.about[2] = "group" THEN 0 ELSE Nothing,
                     time |-> c.request.time, fields |-> c.request.fields]
    <3>1. rules' = (rules \ old) \cup {n} BY <1>4 DEF SetRule
    <3>2. n.id = id /\ n.fields = c.request.fields /\ n.time = c.request.time
          /\ n.event = c.about[1] /\ n.audience = c.about[2]
      OBVIOUS
    <3> QED BY <3>1, <3>2
  <2>2. /\ Served(c, "done") /\ UNCHANGED <<people, drawn, wish, doubt, tacit>>
        /\ issued' = IF old = {} THEN issued + 1 ELSE issued
    BY <1>4 DEF SetRule
  <2>3. KeyOf(n) = c.about BY <2>1, <1>2 DEF KeyOf, Keys
  <2>4. issued \in Nat /\ issued' \in Nat /\ issued <= issued' BY <2>2, <1>1 DEF RowsFit
  <2>5. id \in 0..issued' /\ (id = issued + 1 \/ \E o \in old : id = o.id)
    <3>1. CASE old = {} BY <3>1, <2>1, <2>2, <1>1 DEF RowsFit
    <3>2. CASE old # {}
      <4>1. PICK o \in old : id = o.id BY <3>2, <2>1
      <4>2. o \in rules BY <4>1 DEF Own
      <4>3. KnownRule(o) BY <4>2, <1>1 DEF RowsFit
      <4> QED BY <4>1, <4>3, <2>4, <3>2, <2>2 DEF KnownRule
    <3> QED BY <3>1, <3>2
  <2>6. \A o \in old : o \in rules /\ KeyOf(o) = c.about BY DEF Own
  <2>7. \A r \in rules' : r = n \/ (r \in rules /\ KeyOf(r) # c.about) BY <2>1 DEF Own
  <2>8. /\ \A r \in rules' : KnownRule(r)'
        /\ \A t \in Tabs : \A r \in drawn[t].rules : KnownRule(r)'
    <3>1. Tellable(n) BY <2>1, <1>2 DEF RuleCall, Tellable
    <3>2. \A i \in 0..issued : i \in 0..issued' BY <2>4
    <3> HIDE DEF old
    <3>6. ASSUME NEW r, KnownRule(r) PROVE KnownRule(r)'
      <4>1. r.id \in 0..issued' BY <3>2, <3>6 DEF KnownRule
      <4> QED BY <4>1, <3>6 DEF KnownRule, KeyOf, Keys, Scopes, Audiences, Tellable
    <3>3. \A r \in rules : KnownRule(r)' BY <3>6, <1>1 DEF RowsFit
    <3>4. KnownRule(n)' BY <3>1, <2>1, <2>3, <2>5, <1>2 DEF KnownRule, KeyOf, Keys, Scopes, Audiences, Tellable
    <3>5. \A t \in Tabs : \A r \in drawn[t].rules : KnownRule(r)'
      BY <3>6, <1>1 DEF RowsFit
    <3> QED BY <3>3, <3>4, <3>5, <2>7
  \* A number that is not the new one's own belongs to the key it always did.
  <2>9. ASSUME NEW i \in 0..issued, NEW k, \A s \in rules : s.id = i => KeyOf(s) = k,
               NEW s \in rules', s.id = i
        PROVE  KeyOf(s) = k
    <3>1. CASE s # n BY <3>1, <2>7, <2>9
    <3>2. CASE s = n
      <4>1. id # issued + 1 BY <3>2, <2>1, <2>4, <2>9
      <4>2. PICK o \in old : id = o.id BY <4>1, <2>5
      <4> QED BY <4>2, <3>2, <2>1, <2>3, <2>6, <2>9
    <3> QED BY <3>1, <3>2
  <2>10. \A t \in Tabs : \A r \in drawn[t].rules, s \in rules' : r.id = s.id => KeyOf(r) = KeyOf(s)
    BY <2>9, <1>1 DEF RowsFit, KnownRule
  <2>11. \A r, s \in rules' : r.id = s.id => KeyOf(r) = KeyOf(s)
    <3>1. \A r \in rules : r.id \in 0..issued /\ \A s \in rules : s.id = r.id => KeyOf(s) = KeyOf(r)
      BY <1>1 DEF RowsFit, KnownRule
    <3> QED BY <3>1, <2>7, <2>9
  <2>12. OneRowEach(rules') BY <2>3, <2>7, <1>1 DEF RowsFit, OneRowEach
  <2>13. ASSUME NEW e \in calls' PROVE RuleCall(e)'
    <3>1. RuleCall(e)
      <4>1. e \in calls \/ (Same(c, e) /\ CallShape(e)) BY <2>2, <1>2, ServedRequests
      <4> QED BY <4>1, <1>1, <1>2 DEF RowsFit, RuleCall, Same
    <3>2. e.request.op = "delete" =>
            /\ e.request.id \in 0..issued'
            /\ \A r \in rules' : r.id = e.request.id => KeyOf(r) = e.about
      BY <3>1, <2>4, <2>9 DEF RuleCall
    <3>3. CallShape(e) /\ (e.request.op \in {"set", "delete"} => e.about \in Keys)
          /\ (e.request.op \notin {"set", "delete"} => e.about = Nothing)
          /\ (e.request.op = "remove" => e.request.who \in Audiences)
          /\ (e.request.op = "set" => Tellable(e.request))
      BY <3>1 DEF RuleCall
    <3> HIDE DEF old
    <3> QED BY <3>2, <3>3 DEF RuleCall, Keys, Scopes, Audiences, CallShape, KeyOf, Tellable
  <2>14. RowsFit'
    <3>1. drawn' = [t \in Tabs |-> drawn'[t]] BY <2>2, <1>1 DEF RowsFit
    <3>2. drawn' = drawn BY <2>2
    <3>3. OneRowEach(rules)' BY <2>12 DEF OneRowEach, KeyOf
    <3>4. (\A t \in Tabs : OneRowEach(drawn[t].rules))'
      BY <3>2, <1>1 DEF RowsFit, OneRowEach, KeyOf
    <3> HIDE DEF old
    <3> QED BY <3>1, <3>2, <3>3, <3>4, <2>4, <2>8, <2>10, <2>11, <2>13 DEF RowsFit, KeyOf
  <2>15. \A k \in Keys : k # c.about => Own(rules', k) = Own(rules, k)
    BY <2>1, <2>3, <2>6 DEF Own
  <2>16. Own(rules', c.about) = {n} BY <2>1, <2>3, <2>7 DEF Own
  <2>17. c.about \notin doubt => Wished(c.about)'
    <3> SUFFICES ASSUME c.about \notin doubt PROVE Wished(c.about)'
      OBVIOUS
    <3>1. AsWished(c.about, c.request.fields)
      <4>1. CarriesWish(c) BY <1>1, <1>2 DEF WishesFit
      <4>2. c.stage = "sent" BY <4>1, <2>2 DEF CarriesWish, Served
      <4> QED BY <4>1, <4>2, <1>2 DEF CarriesWish
    <3> QED BY <3>1, <2>1, <2>2, <2>16 DEF Wished, AsWished, Own, KeyOf
  <2>18. WishesFit' BY <1>1, <1>2, <2>2, <2>15, <2>17, ServedWishes
  <2> QED BY <2>14, <2>18, RulesPartsNext
<1> QED BY <1>3, <1>4

\* Rows that go take nothing else with them.
LEMMA FewerRows ==
    ASSUME RowsFit, rules' \subseteq rules, UNCHANGED <<issued, drawn>>,
           \A e \in calls' : e \in calls \/ RuleCall(e)
    PROVE  RowsFit'
<1>1. ASSUME NEW e \in calls' PROVE RuleCall(e)'
  <2>1. RuleCall(e) BY DEF RowsFit
  <2> QED BY <2>1 DEF RuleCall, KeyOf, Keys, Audiences, CallShape, Scopes, Tellable
<1> QED BY <1>1 DEF RowsFit, OneRowEach, KnownRule, KeyOf, Keys, Scopes, Audiences, Tellable

LEMMA DeleteRuleKeeps ==
    ASSUME RulesInv, NEW c \in calls, DeleteRule(c)
    PROVE  RulesInv'
<1>1. RowsFit /\ WishesFit BY RulesParts
<1>2. /\ RuleCall(c) /\ CallShape(c) /\ c.request.op = "delete" /\ c.about \in Keys
      /\ \A r \in rules : r.id = c.request.id => KeyOf(r) = c.about
  BY <1>1 DEF RowsFit, RuleCall, DeleteRule
<1>3. PICK found : found = {r \in rules : r.id = c.request.id} OBVIOUS
<1>4. /\ Served(c, IF found = {} THEN "refused" ELSE "done")
      /\ rules' = rules \ found
      /\ UNCHANGED <<people, issued, drawn, wish, doubt, tacit>>
  BY <1>2, <1>3 DEF DeleteRule
<1>5. \A e \in calls' : e \in calls \/ RuleCall(e)
  <2>1. \A e \in calls' : e \in calls \/ (Same(c, e) /\ CallShape(e))
    BY <1>2, <1>4, ServedRequests
  <2> QED BY <2>1, <1>2 DEF RuleCall, Same
<1>6. RowsFit' BY <1>1, <1>4, <1>5, FewerRows
<1>7. \A k \in Keys : k # c.about => Own(rules', k) = Own(rules, k) BY <1>2, <1>3, <1>4 DEF Own
<1>8. c.about \notin doubt => found # {} /\ Wished(c.about)'
  <2> SUFFICES ASSUME c.about \notin doubt PROVE found # {} /\ Wished(c.about)'
    OBVIOUS
  <2>1. CarriesWish(c) BY <1>1, <1>2 DEF WishesFit
  <2>2. c.stage = "sent" BY <2>1, <1>4 DEF CarriesWish, Served
  <2>3. /\ wish[c.about] = Nothing /\ Own(rules, c.about) # {}
        /\ \A r \in Own(rules, c.about) : r.id = c.request.id
    BY <2>1, <2>2, <1>2 DEF CarriesWish
  <2>4. Own(rules, c.about) \subseteq found BY <2>3, <1>3 DEF Own
  <2>5. Own(rules', c.about) = {} BY <2>4, <1>4 DEF Own
  <2>6. wish'[c.about] = Nothing BY <2>3, <1>4
  <2> QED BY <2>3, <2>4, <2>5, <2>6 DEF Wished, Own, KeyOf
<1>9. WishesFit' BY <1>1, <1>2, <1>4, <1>7, <1>8, ServedWishes
<1> QED BY <1>6, <1>9, RulesPartsNext

LEMMA RemoveRowKeeps ==
    ASSUME RulesInv, NEW c \in calls, RemoveRow(c)
    PROVE  RulesInv'
<1>1. RowsFit /\ WishesFit BY RulesParts
<1>2. PICK who, gone : who = c.request.who /\ gone = {<<s, who>> : s \in Scopes} OBVIOUS
<1>3. RuleCall(c) /\ CallShape(c) /\ who \in Audiences /\ c.about = Nothing /\ c.about \notin Keys
  BY <1>1, <1>2, NothingAssumption DEF RowsFit, RuleCall, RemoveRow
<1>4. CASE ~IF who = "group" THEN people.team ELSE people.person
  <2>1. Served(c, "refused") /\ UNCHANGED <<rules, issued, drawn, wish, doubt, tacit>>
    BY <1>2, <1>4 DEF RemoveRow
  <2>2. /\ calls \ {c} \subseteq calls'
        /\ \A e \in calls' : e \in calls \ {c} \/ (Same(c, e) /\ CallShape(e))
    BY <2>1, <1>3, ServedMoves
  <2> QED BY <2>1, <2>2, <1>3, MoveKeeps
<1>5. CASE IF who = "group" THEN people.team ELSE people.person
  <2>1. /\ Served(c, "done") /\ UNCHANGED <<issued, drawn>>
        /\ rules' = {r \in rules : r.audience # who}
        /\ wish' = [k \in Keys |-> IF k \in gone THEN Nothing ELSE wish[k]]
        /\ tacit' = [k \in Keys |-> IF k \in gone THEN {} ELSE tacit[k]]
        /\ doubt' = (doubt \ gone) \cup {k \in gone : Pending(k)}
    BY <1>2, <1>5 DEF RemoveRow
  <2>2. \A e \in calls' : e \in calls \ {c} \/ (e.about = c.about /\ Same(c, e) /\ CallShape(e))
    BY <2>1, <1>3, ServedMoves DEF Same
  <2>3. calls \ {c} \subseteq calls' BY <2>1, <1>3, ServedMoves
  <2>4. \A e \in calls' : e \in calls \/ RuleCall(e) BY <2>2, <1>3 DEF RuleCall, Same
  <2>5. RowsFit' BY <2>1, <2>4, <1>1, FewerRows
  <2>6. \A k \in Keys : k \in gone <=> k[2] = who BY <1>2, <1>3 DEF Keys
  <2>7. \A k \in Keys : k \notin gone =>
          Own(rules', k) = Own(rules, k) /\ wish'[k] = wish[k] /\ tacit'[k] = tacit[k]
    BY <2>1, <2>6 DEF Own, KeyOf
  <2>8. \A k \in Keys : k \in gone => Own(rules', k) = {} /\ wish'[k] = Nothing
    BY <2>1, <2>6 DEF Own, KeyOf
  <2>9. \A k \in Keys : Pending(k)' <=> Pending(k)
    BY <2>2, <2>3, <1>3 DEF Pending
  <2>10. ASSUME NEW e \in calls', e.about \in Keys \ doubt' PROVE CarriesWish(e)'
    <3>1. e \in calls BY <2>2, <2>10, <1>3
    <3>2. e.about \notin gone
      <4>1. Pending(e.about) BY <3>1 DEF Pending
      <4> QED BY <4>1, <2>1, <2>10
    <3>3. CarriesWish(e) BY <3>1, <3>2, <2>1, <2>10, <1>1 DEF WishesFit
    <3>4. \A f \in calls' : f.about = e.about => f = e
      BY <3>3, <2>2, <2>10, <1>3 DEF CarriesWish
    <3> QED BY <3>1, <3>2, <3>3, <3>4, <2>7, <2>10, CarriesStands
  <2>11. ASSUME NEW k \in Keys \ doubt', ~Pending(k)' PROVE Wished(k)'
    <3>1. CASE k \in gone BY <3>1, <2>8 DEF Wished, Own, KeyOf
    <3>2. CASE k \notin gone
      <4>1. Wished(k) BY <3>2, <2>1, <2>9, <2>11, <1>1 DEF WishesFit
      <4> QED BY <4>1, <3>2, <2>7, WishStands
    <3> QED BY <3>1, <3>2
  <2>12. WishShape'
    <3>1. wish' \in [Keys -> (SUBSET RuleFields) \cup {Nothing}]
      <4>1. \A k \in Keys : wish[k] \in (SUBSET RuleFields) \cup {Nothing}
        BY <1>1 DEF WishesFit, WishShape
      <4> QED BY <4>1, <2>1
    <3>2. tacit' = [k \in Keys |-> tacit'[k]] BY <2>1
    <3> QED BY <3>1, <3>2 DEF WishShape, Keys, Scopes, Audiences
  <2>13. WishesFit' BY <2>10, <2>11, <2>12 DEF WishesFit, WishShape, Keys, Scopes, Audiences
  <2> QED BY <2>5, <2>13, RulesPartsNext
<1> QED BY <1>4, <1>5

LEMMA FlipFields ==
    ASSUME NEW fields \in SUBSET RuleFields, NEW f \in RuleFields, NEW on
    PROVE  Flip(fields, f, on) \in SUBSET RuleFields /\ Flip(fields, f, on) # Nothing
BY RuleFormsAssumption DEF Flip

\* A switch moves its own field alike in two sets of fields.
LEMMA FlipsAlike ==
    ASSUME NEW a, NEW b, NEW f, NEW on
    PROVE  Unlike(Flip(a, f, on), Flip(b, f, on)) \subseteq Unlike(a, b) \ {f}
BY DEF Flip, Unlike

\* What a row starts from is the fields of its own rule, one on the page.
LEMMA StartIs ==
    ASSUME RowsFit, NEW t \in Tabs, NEW key \in Keys
    PROVE  /\ ShownFields(Own(drawn[t].rules, key)) \in SUBSET RuleFields
           /\ \A r \in Own(drawn[t].rules, key) :
                ShownFields(Own(drawn[t].rules, key)) = r.fields /\ Tellable(r)
<1> DEFINE own == Own(drawn[t].rules, key)
<1>1. \A r \in own : Tellable(r) BY DEF RowsFit, KnownRule, Own
<1>2. \A r, s \in own : r = s BY DEF RowsFit, OneRowEach, Own
<1>3. own # {} => \E r \in own : ShownFields(own) = r.fields BY DEF ShownFields
<1>4. own = {} => ShownFields(own) = {Title} BY DEF ShownFields
<1> HIDE DEF own
<1>5. ShownFields(own) \in SUBSET RuleFields BY <1>1, <1>3, <1>4, RuleFormsAssumption DEF Tellable
<1>6. \A r \in own : ShownFields(own) = r.fields BY <1>2, <1>3
<1> QED BY <1>1, <1>5, <1>6 DEF own

\* Where the row's own rule is what the screen shows, it starts from that.
LEMMA StartsFromScreen ==
    ASSUME RowsFit, NEW t \in Tabs, NEW key \in Keys, OwnDecides(t, key)
    PROVE  ShownFields(Own(drawn[t].rules, key)) = OnScreen(t, key)
<1>1. PICK r \in Own(drawn[t].rules, key) :
        DecisionFor(t, key) = Engine!Materialise(r.time, r.fields)
  BY DEF OwnDecides
<1>2. DecisionFor(t, key).fields = IF r.time = "exact" THEN r.fields ELSE {}
  BY <1>1 DEF Engine!Materialise
<1>3. r.fields \subseteq RuleFields /\ (r.time # "exact" => r.fields = {})
      /\ ShownFields(Own(drawn[t].rules, key)) = r.fields
  BY StartIs DEF Tellable
<1> QED BY <1>2, <1>3 DEF OnScreen

LEMMA SetCustomFieldKeeps ==
    ASSUME RulesInv, NEW t \in Tabs, NEW key \in Keys, NEW f \in RuleFields,
           SetCustomField(t, key, f)
    PROVE  RulesInv'
<1> DEFINE on == f \notin OnScreen(t, key)
           own == Own(drawn[t].rules, key)
           start == ShownFields(own)
           anew == wish[key] = Nothing \/ key \in doubt
           wanted == IF anew THEN OnScreen(t, key) ELSE wish[key]
           along == IF ~anew THEN tacit[key]
                    ELSE IF OwnDecides(t, key) THEN {} ELSE Unlike(start, OnScreen(t, key))
           request == [op |-> "set", time |-> "exact", fields |-> Flip(start, f, on)]
           w == Flip(wanted, f, on)
           o == along \ {f}
<1>1. /\ Ask(t, key, request)
      /\ wish' = [wish EXCEPT ![key] = w] /\ tacit' = [tacit EXCEPT ![key] = o]
      /\ doubt' = IF Pending(key) \/ ~Fresh(t, key) THEN doubt \cup {key} ELSE doubt \ {key}
  BY DEF SetCustomField, Wishing, DoubtOver
<1>2. RowsFit /\ WishesFit BY RulesParts
<1>3. start \in SUBSET RuleFields /\ wanted \in SUBSET RuleFields
  <2>1. OnScreen(t, key) \in SUBSET RuleFields BY DEF OnScreen
  <2>2. wish[key] \in (SUBSET RuleFields) \cup {Nothing} BY <1>2 DEF WishesFit, WishShape
  <2>3. start \in SUBSET RuleFields BY <1>2, StartIs
  <2>4. wanted \in SUBSET RuleFields BY <2>1, <2>2
  <2> QED BY <2>3, <2>4
<1>4. key \notin doubt' => Unlike(start, wanted) \subseteq along
  <2> SUFFICES ASSUME key \notin doubt' PROVE Unlike(start, wanted) \subseteq along
    OBVIOUS
  <2>1. ~Pending(key) /\ own = Own(rules, key) BY <1>1 DEF Fresh
  <2>2. CASE anew /\ OwnDecides(t, key)
    <3>1. start = wanted BY <2>2, <1>2, StartsFromScreen
    <3> QED BY <3>1 DEF Unlike
  <2>3. CASE anew /\ ~OwnDecides(t, key) BY <2>3
  <2>4. CASE ~anew
    <3>1. Wished(key) BY <2>1, <2>4, <1>2 DEF WishesFit
    <3>2. own # {} /\ \A r \in own : AsWished(key, r.fields) BY <3>1, <2>1, <2>4 DEF Wished
    <3>3. PICK r \in own : AsWished(key, r.fields) /\ start = r.fields BY <3>2, <1>2, StartIs
    <3> QED BY <3>3, <2>4 DEF AsWished
  <2> QED BY <2>2, <2>3, <2>4
<1>5. w \in SUBSET RuleFields /\ w # Nothing /\ Flip(start, f, on) \in SUBSET RuleFields
  BY <1>3, FlipFields
<1>6. key \notin doubt' => Unlike(Flip(start, f, on), w) \subseteq o
  <2>1. Unlike(Flip(start, f, on), w) \subseteq Unlike(start, wanted) \ {f} BY FlipsAlike
  <2> QED BY <2>1, <1>4
<1>7. /\ \A k : k # key => (k \in doubt' <=> k \in doubt)
      /\ Pending(key) => key \in doubt'
  BY <1>1
<1>8. request.op = "set" /\ request.fields = Flip(start, f, on) /\ Tellable(request)
  BY <1>5 DEF Tellable
<1>9. w \in (SUBSET RuleFields) \cup {Nothing} BY <1>5
<1>10. key \notin doubt' => Unlike(request.fields, w) \subseteq o BY <1>6, <1>8
<1>11. /\ Ask(t, key, request)
       /\ wish' = [wish EXCEPT ![key] = w] /\ tacit' = [tacit EXCEPT ![key] = o]
  BY <1>1
<1> HIDE DEF request, w, o
<1> QED BY <1>5, <1>7, <1>8, <1>9, <1>10, <1>11, AskKeeps

LEMMA UseDefaultKeeps ==
    ASSUME RulesInv, NEW t \in Tabs, NEW key \in Keys, UseDefault(t, key)
    PROVE  RulesInv'
<1>1. PICK r \in Own(drawn[t].rules, key) :
        /\ Ask(t, key, [op |-> "delete", id |-> r.id])
        /\ wish' = [wish EXCEPT ![key] = Nothing] /\ tacit' = [tacit EXCEPT ![key] = {}]
        /\ doubt' = IF Pending(key) \/ ~Fresh(t, key) THEN doubt \cup {key} ELSE doubt \ {key}
  BY DEF UseDefault, Wishing, DoubtOver
<1>2. RowsFit BY RulesParts
<1>3. r \in drawn[t].rules /\ KeyOf(r) = key BY DEF Own
<1>4. r.id \in 0..issued /\ \A s \in rules : s.id = r.id => KeyOf(s) = key
  BY <1>2, <1>3 DEF RowsFit, KnownRule
<1>5. key \notin doubt' => Own(rules, key) # {} /\ \A s \in Own(rules, key) : s.id = r.id
  <2> SUFFICES ASSUME key \notin doubt'
               PROVE  Own(rules, key) # {} /\ \A s \in Own(rules, key) : s.id = r.id
    OBVIOUS
  <2>1. r \in Own(rules, key) BY <1>1 DEF Fresh
  <2>2. \A s \in Own(rules, key) : s = r BY <2>1, <1>2 DEF RowsFit, OneRowEach, Own
  <2> QED BY <2>1, <2>2
<1>6. /\ \A k : k # key => (k \in doubt' <=> k \in doubt)
      /\ Pending(key) => key \in doubt'
  BY <1>1
<1>7. PICK request : /\ request.op = "delete" /\ request.id = r.id
                     /\ Ask(t, key, request)
  BY <1>1
<1> QED BY <1>1, <1>4, <1>5, <1>6, <1>7, AskKeeps

LEMMA AskPeopleKeeps ==
    ASSUME RulesInv, NEW t \in Tabs, NEW request, AskPeople(t, request),
           request.op \notin {"set", "delete"},
           request.op = "remove" => request.who \in Audiences
    PROVE  RulesInv'
<1>1. RowsFit /\ WishesFit BY RulesParts
<1>2. UNCHANGED <<rules, issued, drawn, wish, doubt, tacit>> BY DEF AskPeople
<1>3. PICK d : /\ calls' = calls \cup {d}
               /\ CallShape(d) /\ d.about = Nothing /\ d.request = request
  BY SendAdds DEF AskPeople
<1>4. RuleCall(d) BY <1>3 DEF RuleCall
<1>5. RowsFit' BY <1>1, <1>2, <1>3, <1>4, RowsStand
<1>6. \A k : Own(rules', k) = Own(rules, k) BY <1>2
<1>7. ASSUME NEW e \in calls', e.about \in Keys \ doubt' PROVE CarriesWish(e)'
  <2>1. e \in calls /\ CarriesWish(e)
    BY <1>1, <1>2, <1>3, <1>7, NothingAssumption DEF WishesFit
  <2>2. \A f \in calls' : f.about = e.about => f = e
    BY <2>1, <1>3, <1>7, NothingAssumption DEF CarriesWish
  <2> QED BY <2>1, <2>2, <1>2, <1>6, <1>7, CarriesStands
<1>8. ASSUME NEW k \in Keys \ doubt', ~Pending(k)' PROVE Wished(k)'
  <2>1. Wished(k) BY <1>1, <1>2, <1>3, <1>8 DEF WishesFit, Pending
  <2> QED BY <2>1, <1>2, <1>6, WishStands
<1>9. WishesFit' BY <1>1, <1>2, <1>7, <1>8 DEF WishesFit, WishShape, Keys, Scopes, Audiences
<1> QED BY <1>5, <1>9, RulesPartsNext

\* What the rows, the calls and the wishes do not change in.
LEMMA WishesStand ==
    ASSUME WishesFit, UNCHANGED <<calls, rules, wish, doubt, tacit>>
    PROVE  WishesFit'
<1>1. \A k : Own(rules', k) = Own(rules, k) OBVIOUS
<1>2. ASSUME NEW e \in calls', e.about \in Keys \ doubt' PROVE CarriesWish(e)'
  <2>1. CarriesWish(e) BY <1>2 DEF WishesFit
  <2>2. \A f \in calls' : f.about = e.about => f = e BY <2>1 DEF CarriesWish
  <2> QED BY <2>1, <2>2, <1>1, <1>2, CarriesStands
<1>3. ASSUME NEW k \in Keys \ doubt', ~Pending(k)' PROVE Wished(k)'
  <2>1. Wished(k) BY <1>3 DEF WishesFit, Pending
  <2> QED BY <2>1, <1>1, WishStands
<1> QED BY <1>2, <1>3 DEF WishesFit, WishShape, Keys, Scopes, Audiences

LEMMA RulesStep ==
    ASSUME RulesInv, RulesNext
    PROVE  RulesInv'
<1>1. ASSUME NEW t \in Tabs, NEW key \in Keys, NEW level \in Levels, SetPreset(t, key, level)
      PROVE  RulesInv'
  <2>1. PICK request : /\ request.op = "set" /\ request.fields = PresetFields[level]
                       /\ request.time = PresetTime[level] /\ Ask(t, key, request)
    BY <1>1 DEF SetPreset
  <2>2. /\ wish' = [wish EXCEPT ![key] = PresetFields[level]]
        /\ tacit' = [tacit EXCEPT ![key] = {}]
        /\ doubt' = IF Pending(key) THEN doubt \cup {key} ELSE doubt \ {key}
    BY <1>1 DEF SetPreset, Wishing, DoubtOver
  <2>4. /\ PresetFields[level] \in SUBSET RuleFields
        /\ PresetTime[level] # "exact" => PresetFields[level] = {}
    BY RuleFormsAssumption DEF PresetFields, PresetTime
  <2>5. Tellable(request) /\ PresetFields[level] # Nothing
    BY <2>1, <2>4, RuleFormsAssumption DEF Tellable
  <2>6. Unlike(request.fields, PresetFields[level]) = {} BY <2>1 DEF Unlike
  <2>3. /\ \A k : k # key => (k \in doubt' <=> k \in doubt)
        /\ Pending(key) => key \in doubt'
    BY <2>2
  <2> QED BY <2>1, <2>2, <2>3, <2>4, <2>5, <2>6, AskKeeps
<1>2. ASSUME NEW t \in Tabs, NEW key \in Keys, NEW f \in RuleFields, SetCustomField(t, key, f) PROVE RulesInv'
  BY <1>2, SetCustomFieldKeeps
<1>3. ASSUME NEW t \in Tabs, NEW key \in Keys, UseDefault(t, key) PROVE RulesInv'
  BY <1>3, UseDefaultKeeps
<1>4. ASSUME NEW t \in Tabs, ToggleMember(t) PROVE RulesInv'
  <2>1. PICK request : request.op = "member" /\ AskPeople(t, request) BY <1>4 DEF ToggleMember
  <2> QED BY <2>1, AskPeopleKeeps
<1>5. ASSUME NEW t \in Tabs, RenamePerson(t) PROVE RulesInv'
  <2>1. PICK request : request.op = "upsert" /\ AskPeople(t, request) BY <1>5 DEF RenamePerson
  <2> QED BY <2>1, AskPeopleKeeps
<1>6. ASSUME NEW t \in Tabs, RemovePerson(t) \/ RemoveTeam(t) PROVE RulesInv'
  <2>1. PICK request : /\ request.op = "remove" /\ request.who \in Audiences
                       /\ AskPeople(t, request)
    BY <1>6 DEF RemovePerson, RemoveTeam, Audiences
  <2> QED BY <2>1, AskPeopleKeeps
<1>7. ASSUME NEW t \in Tabs, PageDrawn(t) PROVE RulesInv'
  <2>1. /\ drawn' = [drawn EXCEPT ![t] = PageNow]
        /\ UNCHANGED <<calls, rules, issued, wish, doubt, tacit>>
    BY <1>7 DEF PageDrawn
  <2>2. RowsFit /\ WishesFit BY RulesParts
  <2>3. /\ drawn' = [u \in Tabs |-> drawn'[u]]
        /\ \A u \in Tabs : drawn'[u].rules = drawn[u].rules \/ drawn'[u].rules = rules
    BY <2>1, <2>2 DEF RowsFit, PageNow
  <2>4. \A c \in calls' : RuleCall(c)'
    BY <2>1, <2>2 DEF RowsFit, RuleCall, KeyOf, Keys, Audiences, CallShape, Scopes, Tellable
  <2>5. /\ \A r \in rules' : KnownRule(r)'
        /\ \A u \in Tabs : \A r \in drawn'[u].rules : KnownRule(r)'
    BY <2>1, <2>2, <2>3 DEF RowsFit, KnownRule, KeyOf, Keys, Scopes, Audiences, Tellable
  <2>6. \A u \in Tabs : \A r \in drawn'[u].rules, s \in rules' : r.id = s.id => KeyOf(r) = KeyOf(s)
    BY <2>1, <2>2, <2>3 DEF RowsFit
  <2>7. RowsFit'
    <3>1. OneRowEach(rules)' /\ \A u \in Tabs : OneRowEach(drawn'[u].rules)
      BY <2>1, <2>2, <2>3 DEF RowsFit, OneRowEach, KeyOf
    <3> QED BY <3>1, <2>1, <2>2, <2>3, <2>4, <2>5, <2>6 DEF RowsFit, OneRowEach, KeyOf
  <2> QED BY <2>1, <2>2, <2>7, WishesStand, RulesPartsNext
<1>8. ASSUME NEW c \in calls, SetRule(c) PROVE RulesInv' BY <1>8, SetRuleKeeps
<1>9. ASSUME NEW c \in calls, DeleteRule(c) PROVE RulesInv' BY <1>9, DeleteRuleKeeps
<1>10. ASSUME NEW c \in calls, SetMember(c) \/ UpsertPerson(c) PROVE RulesInv'
  <2>1. RuleCall(c) BY DEF RulesInv
  <2>2. PICK stage : Served(c, stage) BY <1>10 DEF SetMember, UpsertPerson
  <2>3. /\ c.request.op \notin {"set", "delete"}
        /\ UNCHANGED <<rules, issued, drawn, wish, doubt, tacit>>
    BY <1>10 DEF SetMember, UpsertPerson
  <2>4. CallShape(c) /\ c.about \notin Keys BY <2>1, <2>3, NothingAssumption DEF RuleCall
  <2>5. /\ calls \ {c} \subseteq calls'
        /\ \A e \in calls' : e \in calls \ {c} \/ (Same(c, e) /\ CallShape(e))
    BY <2>2, <2>4, ServedMoves
  <2> QED BY <2>3, <2>4, <2>5, MoveKeeps
<1>11. ASSUME NEW c \in calls, RemoveRow(c) PROVE RulesInv' BY <1>11, RemoveRowKeeps
<1>12. ASSUME NEW c \in calls, RuleAnswered(c) PROVE RulesInv' BY <1>12, AnswerKeeps
<1>13. ASSUME NEW c \in calls, RuleUnheard(c) PROVE RulesInv'
  <2>1. CallShape(c) BY DEF RulesInv, RuleCall
  <2>2. UNCHANGED <<rules, issued, drawn, wish, tacit>>
        /\ doubt' = IF c.about = Nothing THEN doubt ELSE doubt \cup {c.about}
    BY <1>13 DEF RuleUnheard
  <2>3. /\ calls \ {c} \subseteq calls'
        /\ \A e \in calls' : e \in calls \ {c} \/ (Same(c, e) /\ CallShape(e))
    <3>1. CASE Refused(c) \/ Vanished(c) BY <3>1 DEF Refused, Vanished
    <3>2. CASE Broken(c) BY <3>2, <2>1, BrokenMoves
    <3> QED BY <1>13, <3>1, <3>2 DEF RuleUnheard
  <2>4. c.about \in Keys => c.about # Nothing BY NothingAssumption
  <2> QED BY <2>2, <2>3, <2>4, MoveKeeps
<1> QED
  BY <1>1, <1>2, <1>3, <1>4, <1>5, <1>6, <1>7, <1>8, <1>9, <1>10, <1>11, <1>12, <1>13 DEF RulesNext

LEMMA LandInit == Init => LandInv
<1> SUFFICES ASSUME Init PROVE LandInv
  OBVIOUS
<1>1. RulesInit BY DEF Init
<1>2. /\ calls = {} /\ rules = {} /\ issued = 0
      /\ drawn = [t \in Tabs |-> PageNow] /\ wish = [k \in Keys |-> Nothing] /\ doubt = {}
      /\ tacit = [k \in Keys |-> {}]
  BY <1>1 DEF RulesInit, CallsInit
<1>3. RowsFit BY <1>2 DEF RowsFit, OneRowEach, PageNow
<1>4. WishesFit
  <2>1. wish \in [Keys -> (SUBSET RuleFields) \cup {Nothing}] BY <1>2
  <2>2. tacit = [k \in Keys |-> tacit[k]] BY <1>2
  <2>3. \A key \in Keys : Wished(key) BY <1>2 DEF Wished, Own
  <2> QED BY <2>1, <2>2, <2>3, <1>2 DEF WishesFit, WishShape
<1> QED BY <1>2, <1>3, <1>4, RulesParts DEF LandInv

\* Nothing but the sheet, the privacy page and a person's file makes a rule.
LEMMA LandStep == LandInv /\ [Next]_allVars => LandInv'
<1> SUFFICES ASSUME LandInv, [Next]_allVars PROVE LandInv'
  OBVIOUS
<1>1. CASE UNCHANGED allVars
  <2>1. UNCHANGED <<calls, rules, issued, drawn, wish, doubt, tacit, surface>>
    BY <1>1 DEF allVars, ruleVars, callVars
  <2>2. RulesInv => RulesInv'
    <3>1. RulesInv => RowsFit' BY <2>1, RulesParts, RowsStand
    <3>2. RulesInv => WishesFit' BY <2>1, RulesParts, WishesStand
    <3> QED BY <3>1, <3>2, RulesPartsNext
  <2> QED BY <2>1, <2>2 DEF LandInv, Keys, Scopes, Audiences
<1>2. CASE Next
  <2>1. UNCHANGED surface BY <1>2 DEF Next
  <2>2. CASE surface = "rules"
    <3>1. RulesNext BY <1>2, <2>2 DEF Next
    <3>2. RulesInv' BY <3>1, <2>2, RulesStep DEF LandInv
    <3> QED BY <2>1, <2>2, <3>2 DEF LandInv
  <2>3. CASE surface # "rules"
    <3>1. UNCHANGED <<rules, wish, tacit>> BY <1>2, <2>3 DEF Next, OnRules
    <3> QED BY <2>1, <2>3, <3>1 DEF LandInv, Keys, Scopes, Audiences
  <2> QED BY <2>2, <2>3
<1> QED BY <1>1, <1>2

\* However old the pages are that presets, switches and resets are chosen on,
\* and however the person or the group comes and goes: the rule of a key shows
\* the fields the owner last wanted seen - those on screen, each switch counted
\* in - unless a choice for it was made on a page not yet drawn anew, met
\* another under way, or was refused or unheard.  Fields a switch is not of move
\* with it only if it was thrown on a row whose own rule is not what it shows.
THEOREM SwitchesAlwaysLand == Spec => []SwitchesLand
<1>1. LandInv => SwitchesLand
  <2> SUFFICES ASSUME LandInv PROVE SwitchesLand
    OBVIOUS
  <2>1. CASE surface = "rules" BY <2>1 DEF LandInv, RulesInv
  <2>2. CASE surface # "rules"
    <3>1. ASSUME NEW key \in Keys PROVE Wished(key)
      <4>1. Own(rules, key) = {} BY <2>2 DEF LandInv, Own
      <4>2. wish[key] = Nothing BY <2>2 DEF LandInv
      <4> QED BY <4>1, <4>2 DEF Wished
    <3> QED BY <3>1, LandsAsWished
  <2> QED BY <2>1, <2>2
<1> QED BY <1>1, LandInit, LandStep, PTL DEF Spec

\* What Max and Min pick of numbers that are bounded.
LEMMA LargestIs ==
    ASSUME NEW n \in Nat, NEW s \in SUBSET (0..n), s # {}
    PROVE  Max(s) \in s /\ \A i \in s : i <= Max(s)
<1>1. \E x \in s : \A y \in s : x >= y
  <2> DEFINE T == {n - i : i \in s}
  <2>1. \A i \in s : i \in 0..n OBVIOUS
  <2>2. T \in SUBSET Nat /\ T # {}
    <3>1. \A i \in s : n - i \in Nat BY <2>1
    <3> QED BY <3>1
  <2>3. PICK t \in T : \A u \in T : t <= u BY <2>2, LeastNat
  <2>4. PICK x \in s : t = n - x BY <2>3
  <2>5. \A y \in s : n - y \in T OBVIOUS
  <2>6. \A y \in s : n - x <= n - y BY <2>3, <2>4, <2>5
  <2> QED BY <2>1, <2>6
<1> QED BY <1>1 DEF Max

LEMMA SmallestIs ==
    ASSUME NEW s \in SUBSET Nat, s # {}
    PROVE  Min(s) \in s /\ \A i \in s : Min(s) <= i
<1>1. \E x \in s : \A y \in s : x <= y BY LeastNat
<1> QED BY <1>1 DEF Min

LEMMA LargerOf ==
    ASSUME NEW a \in Int, NEW b \in Int
    PROVE  Max({a, b}) = IF a >= b THEN a ELSE b
<1>1. \E x \in {a, b} : \A y \in {a, b} : x >= y OBVIOUS
<1>2. Max({a, b}) \in {a, b} /\ \A y \in {a, b} : Max({a, b}) >= y BY <1>1 DEF Max
<1> QED BY <1>2

LEMMA SmallerOf ==
    ASSUME NEW a \in Int, NEW b \in Int
    PROVE  Min({a, b}) = IF a <= b THEN a ELSE b
<1>1. \E x \in {a, b} : \A y \in {a, b} : x <= y OBVIOUS
<1>2. Min({a, b}) \in {a, b} /\ \A y \in {a, b} : Min({a, b}) <= y BY <1>1 DEF Min
<1> QED BY <1>2

-----------------------------------------------------------------------------
(* The grid and its cells                                                  *)

GridRows == blocks \in Seq(Stretches)

LEMMA StretchIs == \A s \in Stretches : s.start \in ClockTimes /\ s.end \in ClockTimes
BY GridAssumption

\* A block lasts.
LEMMA BlockIs ==
    ASSUME GridRows
    PROVE  \A i \in DOMAIN blocks :
             /\ blocks[i].end \in Int /\ 0 <= blocks[i].end /\ blocks[i].end <= 1439
             /\ From(i) \in Int /\ 0 <= From(i) /\ From(i) <= 1439
             /\ To(i) \in Int /\ To(i) <= 1469 /\ From(i) < To(i)
             /\ To(i) = blocks[i].end \/ To(i) = From(i) + 30
<1> SUFFICES ASSUME NEW i \in DOMAIN blocks
             PROVE  /\ blocks[i].end \in Int /\ 0 <= blocks[i].end /\ blocks[i].end <= 1439
                    /\ From(i) \in Int /\ 0 <= From(i) /\ From(i) <= 1439
                    /\ To(i) \in Int /\ To(i) <= 1469 /\ From(i) < To(i)
                    /\ To(i) = blocks[i].end \/ To(i) = From(i) + 30
  OBVIOUS
<1>1. PICK s \in Stretches : s = blocks[i] BY DEF GridRows
<1>2. s.start \in ClockTimes /\ s.end \in ClockTimes BY StretchIs
<1>3. PICK from, to : from = s.start /\ to = s.end OBVIOUS
<1>4. /\ from \in Int /\ 0 <= from /\ from <= 1439
      /\ to \in Int /\ 0 <= to /\ to <= 1439
  <2>1. from \in ClockTimes /\ to \in ClockTimes BY <1>2, <1>3
  <2> QED BY <2>1 DEF ClockTimes
<1>5. From(i) = from /\ blocks[i].end = to BY <1>1, <1>3 DEF From
<1>6. To(i) = IF to > from THEN to ELSE from + 30 BY <1>1, <1>3 DEF To
<1>7. /\ To(i) \in Int /\ To(i) <= 1469 /\ from < To(i)
      /\ To(i) = to \/ To(i) = from + 30
  BY <1>4, <1>6
<1> QED BY <1>4, <1>5, <1>7

\* The grid spans whole hours of one day, from before its first block until
\* after its last.
LEMMA GridSpans ==
    ASSUME GridRows
    PROVE  \E a, b \in Nat : /\ StartMinute = 60 * a /\ EndMinute = 60 * b
                             /\ a < b /\ b <= 24 /\ Span = 60 * (b - a)
                             /\ \A i \in DOMAIN blocks :
                                  /\ 60 * a <= From(i)
                                  /\ To(i) <= 60 * b \/ To(i) > 1440
<1>1. ASSUME NEW a \in Nat, NEW b \in Nat, StartMinute = 60 * a, EndMinute = 60 * b, a < b
      PROVE  Span = 60 * (b - a)
  <2>1. 60 * b - 60 * a \in Int /\ 60 * b - 60 * a >= 60 BY <1>1
  <2>2. Max({60, 60 * b - 60 * a}) = 60 * b - 60 * a BY <2>1, LargerOf
  <2> QED BY <1>1, <2>2 DEF Span
<1>2. CASE blocks = <<>>
  <2>1. StartMinute = 60 * 8 /\ EndMinute = 60 * 20
    BY <1>2 DEF StartMinute, EndMinute, DefaultStart, DefaultEnd
  <2>2. DOMAIN blocks = {} BY <1>2
  <2>3. Span = 60 * (20 - 8) BY <1>1, <2>1
  <2>4. 8 \in Nat /\ 20 \in Nat /\ 8 < 20 /\ 20 <= 24 OBVIOUS
  <2> QED BY <2>1, <2>2, <2>3, <2>4
<1>3. CASE blocks # <<>>
  <2>1. DOMAIN blocks # {}
    <3>1. Len(blocks) \in Nat /\ Len(blocks) # 0 /\ DOMAIN blocks = 1..Len(blocks)
      BY <1>3 DEF GridRows
    <3>2. 1 \in 1..Len(blocks) BY <3>1
    <3> QED BY <3>1, <3>2
  <2>2. PICK F : F = {From(i) : i \in DOMAIN blocks} OBVIOUS
  <2>3. F \in SUBSET Nat /\ F # {} /\ \A i \in DOMAIN blocks : From(i) \in F
    BY <2>1, <2>2, BlockIs
  <2>4. PICK first : first = Min(F) OBVIOUS
  <2>5. first \in F /\ \A i \in DOMAIN blocks : first <= From(i) BY <2>3, <2>4, SmallestIs
  <2>6. first \in 0..1439 BY <2>2, <2>5, BlockIs
  <2>7. PICK E : E = {Max({blocks[i].end, From(i) + 30}) : i \in DOMAIN blocks} OBVIOUS
  <2>8. ASSUME NEW i \in DOMAIN blocks
        PROVE  /\ Max({blocks[i].end, From(i) + 30}) \in Int
               /\ 30 <= Max({blocks[i].end, From(i) + 30})
               /\ Max({blocks[i].end, From(i) + 30}) <= 1469
               /\ To(i) <= Max({blocks[i].end, From(i) + 30})
               /\ first + 30 <= Max({blocks[i].end, From(i) + 30})
    <3>1. blocks[i].end \in Int /\ From(i) + 30 \in Int BY BlockIs
    <3>2. Max({blocks[i].end, From(i) + 30}) =
            IF blocks[i].end >= From(i) + 30 THEN blocks[i].end ELSE From(i) + 30
      BY <3>1, LargerOf
    <3>3. first <= From(i) BY <2>5
    <3>4. PICK e, f, t : e = blocks[i].end /\ f = From(i) /\ t = To(i) OBVIOUS
    <3>5. /\ e \in Int /\ e <= 1439 /\ f \in Int /\ 0 <= f /\ f <= 1439
          /\ t \in Int /\ (t = e \/ t = f + 30)
      BY <3>4, BlockIs
    <3>6. PICK x : x = IF e >= f + 30 THEN e ELSE f + 30 OBVIOUS
    <3>7. x \in Int /\ 30 <= x /\ x <= 1469 /\ t <= x /\ f + 30 <= x BY <3>5, <3>6
    <3>8. x = Max({blocks[i].end, From(i) + 30}) BY <3>2, <3>4, <3>6
    <3>9. first + 30 <= x BY <2>6, <3>3, <3>4, <3>5, <3>7
    <3> QED BY <3>4, <3>7, <3>8, <3>9
  <2>9. PICK n \in Nat : n = 1469 OBVIOUS
  <2>99. E \in SUBSET (0..n) /\ E # {}
    <3>1. ASSUME NEW x \in E PROVE x \in Int /\ 30 <= x /\ x <= 1469
      <4>1. PICK i \in DOMAIN blocks : x = Max({blocks[i].end, From(i) + 30}) BY <2>7
      <4> QED BY <2>8, <4>1
    <3>2. \A x \in E : x \in 0..n BY <2>9, <3>1
    <3> QED BY <2>1, <2>7, <3>2
  <2>10. PICK last : last = Max(E) OBVIOUS
  <2>12. last \in E /\ \A x \in E : x <= last BY <2>99, <2>10, LargestIs
  <2>13. last \in Int /\ 30 <= last /\ last <= 1469 /\ first + 30 <= last
    <3>1. PICK i \in DOMAIN blocks : last = Max({blocks[i].end, From(i) + 30}) BY <2>7, <2>12
    <3> QED BY <2>8, <3>1
  <2>14. \A i \in DOMAIN blocks : To(i) <= last
    <3> SUFFICES ASSUME NEW i \in DOMAIN blocks PROVE To(i) <= last OBVIOUS
    <3>1. PICK x : x = Max({blocks[i].end, From(i) + 30}) OBVIOUS
    <3>2. x \in E BY <2>7, <3>1
    <3>3. x <= last /\ x \in Int /\ To(i) <= x BY <2>8, <2>12, <3>1, <3>2
    <3> QED BY <2>13, <3>3, BlockIs
  <2>15. PICK q \in Int : q = first \div 60 /\ 60 * q <= first /\ first < 60 * q + 60
    BY <2>6
  <2>16. PICK r \in Int : r = (last + 59) \div 60 /\ 60 * r <= last + 59 /\ last < 60 * r + 1
    BY <2>13
  <2>17. StartMinute = Max({0, 60 * q - 60})
    BY <1>3, <2>2, <2>4, <2>15 DEF StartMinute
  <2>18. EndMinute = Min({1440, 60 * r + 60})
    <3>1. Latest = last BY <2>7, <2>10 DEF Latest
    <3> QED BY <1>3, <2>16, <3>1 DEF EndMinute
  <2>19. PICK a : a = IF q >= 1 THEN q - 1 ELSE 0 OBVIOUS
  <2>20. PICK b : b = IF r <= 22 THEN r + 1 ELSE 24 OBVIOUS
  <2>21. q \in Int /\ 0 <= q /\ q <= 23 /\ r \in Int /\ 1 <= r /\ r <= 25 /\ q <= r
    BY <2>6, <2>13, <2>15, <2>16
  <2>22. a \in Nat /\ b \in Nat /\ a < b /\ b <= 24 BY <2>19, <2>20, <2>21
  <2>23. StartMinute = 60 * a
    <3>1. 0 \in Int /\ 60 * q - 60 \in Int BY <2>21
    <3>2. Max({0, 60 * q - 60}) = IF 0 >= 60 * q - 60 THEN 0 ELSE 60 * q - 60 BY <3>1, LargerOf
    <3> QED BY <2>17, <2>19, <2>21, <3>2
  <2>24. EndMinute = 60 * b
    <3>1. 1440 \in Int /\ 60 * r + 60 \in Int BY <2>21
    <3>2. Min({1440, 60 * r + 60}) = IF 1440 <= 60 * r + 60 THEN 1440 ELSE 60 * r + 60
      BY <3>1, SmallerOf
    <3> QED BY <2>18, <2>20, <2>21, <3>2
  <2>25. ASSUME NEW i \in DOMAIN blocks PROVE 60 * a <= From(i) /\ (To(i) <= 60 * b \/ To(i) > 1440)
    <3>1. first <= From(i) /\ From(i) \in Int /\ To(i) \in Int /\ To(i) <= last
      BY <2>5, <2>14, BlockIs
    <3> QED BY <2>6, <2>13, <2>15, <2>16, <2>19, <2>20, <2>21, <3>1
  <2>26. Span = 60 * (b - a) BY <1>1, <2>22, <2>23, <2>24
  <2> QED BY <2>22, <2>23, <2>24, <2>25, <2>26
<1> QED BY <1>2, <1>3

\* The minutes an empty cell of the grid composes at.
Composed == {ComposedAt(hour, lower) : hour \in HourCells, lower \in BOOLEAN}

LEMMA CellsCompose ==
    ASSUME NEW a \in Nat, NEW b \in Nat, a < b, b <= 24,
           StartMinute = 60 * a, EndMinute = 60 * b, Span = 60 * (b - a)
    PROVE  Composed = {m \in HalfHours : 60 * a <= m /\ m < 60 * b}
<1>1. HourCells = a..b - 1
  <2>1. StartMinute \div 60 = a /\ (Span + 59) \div 60 - 1 = b - a - 1 OBVIOUS
  <2>2. HourCells = {a + n : n \in 0..b - a - 1} BY <2>1 DEF HourCells
  <2>3. ASSUME NEW h \in a..b - 1 PROVE \E n \in 0..b - a - 1 : h = a + n
    <3>1. h - a \in 0..b - a - 1 /\ h = a + (h - a) OBVIOUS
    <3> QED BY <3>1
  <2>4. \A n \in 0..b - a - 1 : a + n \in a..b - 1 OBVIOUS
  <2> QED BY <2>2, <2>3, <2>4
<1>2. ASSUME NEW h \in a..b - 1
      PROVE  ComposedAt(h, TRUE) = 30 * (2 * h + 1) /\ ComposedAt(h, FALSE) = 30 * (2 * h)
  <2>1. h % 24 = h OBVIOUS
  <2> QED BY <2>1 DEF ComposedAt, SlotMinute
<1>3. ASSUME NEW h \in a..b - 1, NEW lower \in BOOLEAN
      PROVE  /\ ComposedAt(h, lower) \in HalfHours
             /\ 60 * a <= ComposedAt(h, lower) /\ ComposedAt(h, lower) < 60 * b
  <2>1. PICK n \in {2 * h, 2 * h + 1} : ComposedAt(h, lower) = 30 * n BY <1>2
  <2>2. n \in 0..47 BY <2>1
  <2>3. 60 * a <= 30 * n /\ 30 * n < 60 * b BY <2>1
  <2> QED BY <2>1, <2>2, <2>3 DEF HalfHours
<1>4. ASSUME NEW m \in HalfHours, 60 * a <= m, m < 60 * b PROVE m \in Composed
  <2>1. PICK n \in 0..47 : m = 30 * n BY DEF HalfHours
  <2>2. PICK h \in Int : n = 2 * h \/ n = 2 * h + 1
    <3>1. n \div 2 \in Int /\ (n = 2 * (n \div 2) \/ n = 2 * (n \div 2) + 1) OBVIOUS
    <3> QED BY <3>1
  <2>3. h \in a..b - 1 BY <1>4, <2>1, <2>2
  <2>4. m = ComposedAt(h, TRUE) \/ m = ComposedAt(h, FALSE) BY <1>2, <2>1, <2>2, <2>3
  <2>5. h \in HourCells /\ TRUE \in BOOLEAN /\ FALSE \in BOOLEAN BY <1>1, <2>3
  <2>6. \E lower \in BOOLEAN : m = ComposedAt(h, lower)
    <3> HIDE DEF ComposedAt
    <3>1. CASE m = ComposedAt(h, TRUE) BY <3>1, Zenon
    <3>2. CASE m = ComposedAt(h, FALSE) BY <3>2, Zenon
    <3> QED BY <2>4, <3>1, <3>2
  <2>7. PICK lower \in BOOLEAN : m = ComposedAt(h, lower) BY <2>6
  <2>8. h \in HourCells BY <2>5
  <2> QED BY <2>7, <2>8 DEF Composed
<1>5. ASSUME NEW m \in Composed PROVE m \in HalfHours /\ 60 * a <= m /\ m < 60 * b
  <2>1. PICK h \in a..b - 1, lower \in BOOLEAN : m = ComposedAt(h, lower)
    BY <1>1 DEF Composed
  <2> QED BY <1>3, <2>1
<1> QED BY <1>4, <1>5

-----------------------------------------------------------------------------
(* The hours outside the owner's own                                       *)

\* Windows of one day, no two of which begin together.
DayHours(ws) ==
    /\ IsFiniteSet(ws)
    /\ \A w \in ws : w.from \in Nat /\ w.to \in Nat /\ w.from < w.to
    /\ \A v, w \in ws : v.from = w.from => v = w

LEMMA WeekDaysOpen == \A week \in Open, d \in 0..6 : DayHours(week[d])
BY GridAssumption DEF DayHours

\* They are gone through from the first of the day.
LEMMA StartOrder ==
    ASSUME NEW ws, DayHours(ws)
    PROVE  /\ FromTheStart(ws) \in Seq(ws)
           /\ \A w \in ws : \E i \in 1..Len(FromTheStart(ws)) : FromTheStart(ws)[i] = w
           /\ \A i, j \in 1..Len(FromTheStart(ws)) :
                i < j => FromTheStart(ws)[i].from < FromTheStart(ws)[j].from
<1>1. IsFiniteSet(ws) BY DEF DayHours
<1>2. PICK R : R = {p \in ws \X ws : p[1].from < p[2].from} OBVIOUS
<1>3. \A v, w \in ws : <<v, w>> \in R <=> v.from < w.from BY <1>2
<1>4. Ordering(ws, R)
  <2>1. \A w \in ws : w.from \in Int BY DEF DayHours
  <2>2. \A w \in ws : ~(w.from < w.from) BY <2>1
  <2>3. \A v, w \in ws : v # w => v.from < w.from \/ w.from < v.from BY <2>1 DEF DayHours
  <2>4. \A u, v, w \in ws : u.from < v.from /\ v.from < w.from => u.from < w.from BY <2>1
  <2> QED BY <1>3, <2>2, <2>3, <2>4 DEF Ordering
<1>5. \E s \in SetToSeqs(ws) : \A i, j \in DOMAIN s : i < j => s[i].from < s[j].from
  <2>1. PICK s \in SetToSeqs(ws) : \A i, j \in DOMAIN s : i < j => <<s[i], s[j]>> \in R
    BY <1>1, <1>4, OrderExists
  <2>2. \A i, j \in DOMAIN s : i < j => s[i].from < s[j].from BY <1>2, <2>1
  <2> QED BY <2>2
<1>6. PICK s \in SetToSeqs(ws) :
        s = FromTheStart(ws) /\ \A i, j \in DOMAIN s : i < j => s[i].from < s[j].from
  BY <1>5 DEF FromTheStart
<1>7. /\ DOMAIN s = 1..Len(s) /\ s \in Seq(ws)
      /\ \A w \in ws : \E i \in DOMAIN s : s[i] = w
  BY <1>1, OrderHolds
<1> QED BY <1>6, <1>7

Bands == [from : Int, to : Int]
GapStates == [bands : SUBSET Bands, cursor : Int]

LEMMA BehindIs ==
    ASSUME NEW g \in GapStates, NEW w, w.from \in Int, w.to \in Int
    PROVE  /\ Behind(g, w) \in GapStates
           /\ Behind(g, w).bands = g.bands \cup {[from |-> g.cursor, to |-> w.from]}
           /\ Behind(g, w).cursor = IF g.cursor >= w.to THEN g.cursor ELSE w.to
<1>1. g.cursor \in Int /\ g.bands \in SUBSET Bands BY DEF GapStates
<1>2. Max({g.cursor, w.to}) = IF g.cursor >= w.to THEN g.cursor ELSE w.to BY <1>1, LargerOf
<1>3. [from |-> g.cursor, to |-> w.from] \in Bands BY <1>1 DEF Bands
<1>4. Max({g.cursor, w.to}) \in Int BY <1>1, <1>2
<1> QED BY <1>1, <1>2, <1>3, <1>4 DEF Behind, GapStates

\* The gaps are found one window after another.
LEMMA GapSteps ==
    ASSUME NEW ws, DayHours(ws)
    PROVE  \E f : /\ f[0] = [bands |-> {}, cursor |-> 0]
                  /\ \A i \in 1..Len(FromTheStart(ws)) :
                       f[i] = Behind(f[i - 1], FromTheStart(ws)[i])
                  /\ LET last == f[Len(FromTheStart(ws))]
                     IN  Gaps(ws) = last.bands \cup {[from |-> last.cursor, to |-> 1440]}
<1>1. PICK seq \in Seq(ws) : seq = FromTheStart(ws) BY StartOrder
<1> DEFINE base == [bands |-> {}, cursor |-> 0]
           iter == CHOOSE f : f = [s \in SUBSET DOMAIN seq |->
                      IF s = {} THEN base ELSE Behind(f[s \ {Max(s)}], seq[Max(s)])]
<1>2. Gaps(ws) = iter[DOMAIN seq].bands \cup {[from |-> iter[DOMAIN seq].cursor, to |-> 1440]}
  BY <1>1 DEF Gaps, FoldLeft, MapThenFoldSet
<1>3. PICK n \in Nat : n = Len(seq) /\ DOMAIN seq = 1..n OBVIOUS
<1>4. PICK A : A = GapStates OBVIOUS
<1>5. PICK g : g = [p \in A \X (1..n) |-> Behind(p[1], seq[p[2]])] OBVIOUS
<1>6. g \in [A \X (1..n) -> A]
  <2>1. ASSUME NEW p \in A \X (1..n) PROVE Behind(p[1], seq[p[2]]) \in A
    <3>1. p[1] \in GapStates /\ seq[p[2]] \in ws BY <1>3, <1>4
    <3>2. seq[p[2]].from \in Int /\ seq[p[2]].to \in Int BY <3>1 DEF DayHours
    <3> QED BY <1>4, <3>1, <3>2, BehindIs
  <2> QED BY <1>5, <2>1
<1> HIDE DEF base
<1>7. PICK h : Folds(h, n, A, base, g)
  <2>1. base \in A BY <1>4 DEF base, GapStates
  <2> QED BY <1>6, <2>1, FoldExists
<1>8. ASSUME NEW s \in SUBSET (1..n), s # {} PROVE Max(s) \in 1..n /\ s \ {Max(s)} \in SUBSET (1..n)
  BY <1>8, MaxIs
<1>9. h = [s \in SUBSET DOMAIN seq |->
             IF s = {} THEN base ELSE Behind(h[s \ {Max(s)}], seq[Max(s)])]
  <2>1. ASSUME NEW s \in SUBSET (1..n)
        PROVE  h[s] = IF s = {} THEN base ELSE Behind(h[s \ {Max(s)}], seq[Max(s)])
    <3>1. CASE s = {} BY <1>7, <3>1 DEF Folds
    <3>2. CASE s # {}
      <4>1. h[s \ {Max(s)}] \in A /\ Max(s) \in 1..n BY <1>7, <1>8, <3>2 DEF Folds
      <4>2. h[s] = g[<<h[s \ {Max(s)}], Max(s)>>] BY <1>7, <3>2 DEF Folds
      <4> QED BY <1>5, <3>2, <4>1, <4>2
    <3> QED BY <3>1, <3>2
  <2> QED BY <1>3, <1>7, <2>1 DEF Folds
<1>10. iter = [s \in SUBSET DOMAIN seq |->
                 IF s = {} THEN base ELSE Behind(iter[s \ {Max(s)}], seq[Max(s)])]
  BY <1>9
<1> HIDE DEF iter
<1>11. \A s \in SUBSET (1..n) :
         iter[s] = IF s = {} THEN base ELSE Behind(iter[s \ {Max(s)}], seq[Max(s)])
  BY <1>3, <1>10
<1>12. PICK f : f = [i \in 0..n |-> iter[1..i]] OBVIOUS
<1>13. f[0] = base /\ f[n] = iter[1..n]
  <2>1. 1..0 = {} OBVIOUS
  <2> QED BY <1>11, <1>12, <2>1
<1>14. ASSUME NEW i \in 1..n PROVE f[i] = Behind(f[i - 1], seq[i])
  <2>1. Max(1..i) = i /\ 1..i \in SUBSET (1..n) /\ 1..i # {} BY FirstIs
  <2>2. (1..i) \ {i} = 1..i - 1 OBVIOUS
  <2>3. iter[1..i] = Behind(iter[1..i - 1], seq[i]) BY <1>11, <2>1, <2>2
  <2> QED BY <1>12, <2>3
<1> QED BY <1>1, <1>2, <1>3, <1>13, <1>14 DEF base

\* What the gaps so far leave out is what the first i windows hold.
GapsSoFar(g, s, i) ==
    /\ g \in GapStates /\ g.cursor >= 0
    /\ \A k \in 1..i : s[k].to <= g.cursor
    /\ g.cursor > 0 => \E k \in 1..i : s[k].to = g.cursor
    /\ \A m \in Nat : (\E b \in g.bands : Holds(b, m)) <=> m < g.cursor /\ ~Covered(s, i, m)

LEMMA GapsGrow ==
    ASSUME NEW s, NEW n \in Nat, NEW i \in 1..n, NEW g, GapsSoFar(g, s, i - 1),
           \A k \in 1..n : s[k].from \in Nat /\ s[k].to \in Nat /\ s[k].from < s[k].to,
           \A j, k \in 1..n : j < k => s[j].from < s[k].from
    PROVE  GapsSoFar(Behind(g, s[i]), s, i)
<1>1. PICK from, to, c : from = s[i].from /\ to = s[i].to /\ c = g.cursor OBVIOUS
<1>2. from \in Nat /\ to \in Nat /\ from < to /\ c \in Int /\ c >= 0
  BY <1>1 DEF GapsSoFar, GapStates
<1>3. PICK new : new = Behind(g, s[i]) OBVIOUS
<1>4. PICK d : d = IF c >= to THEN c ELSE to OBVIOUS
<1>5. d \in Int /\ d >= 0 /\ d >= c /\ d >= to /\ d > 0 /\ (d = c \/ d = to) BY <1>2, <1>4
<1>6. /\ new \in GapStates /\ new.cursor = d
      /\ new.bands = g.bands \cup {[from |-> c, to |-> from]}
  <2>1. g \in GapStates BY DEF GapsSoFar
  <2>2. s[i].from \in Int /\ s[i].to \in Int BY <1>1, <1>2
  <2> QED BY <1>1, <1>3, <1>4, <2>1, <2>2, BehindIs
<1>7. \A k \in 1..i : k = i \/ k \in 1..i - 1 OBVIOUS
<1>8. \A k \in 1..i - 1 : k \in 1..i /\ k \in 1..n /\ k < i OBVIOUS
<1>9. i \in 1..i /\ i \in 1..n OBVIOUS
<1>10. \A k \in 1..i - 1 : s[k].to \in Int /\ s[k].to <= c /\ s[k].from \in Int /\ s[k].from < from
  BY <1>1, <1>8 DEF GapsSoFar
<1>11. ASSUME NEW k \in 1..i PROVE s[k].to <= d
  <2>1. CASE k = i BY <1>1, <1>5, <2>1
  <2>2. CASE k # i
    <3>1. s[k].to \in Int /\ s[k].to <= c BY <1>7, <1>10, <2>2
    <3> QED BY <1>2, <1>5, <3>1
  <2> QED BY <2>1, <2>2
<1>12. \E k \in 1..i : s[k].to = d
  <2>1. CASE d = to BY <1>1, <1>9, <2>1
  <2>2. CASE d # to
    <3>1. d = c /\ c > 0 BY <1>5, <2>2
    <3>2. \E k \in 1..i - 1 : s[k].to = c BY <1>1, <3>1 DEF GapsSoFar
    <3> QED BY <1>8, <3>1, <3>2
  <2> QED BY <2>1, <2>2
<1>13. ASSUME NEW m \in Nat
       PROVE  (\E b \in new.bands : Holds(b, m)) <=> m < d /\ ~Covered(s, i, m)
  <2>1. (\E b \in g.bands : Holds(b, m)) <=> m < c /\ ~Covered(s, i - 1, m)
    BY <1>1 DEF GapsSoFar
  <2>2. Holds([from |-> c, to |-> from], m) <=> c <= m /\ m < from BY DEF Holds
  <2>3. (\E b \in new.bands : Holds(b, m))
          <=> (m < c /\ ~Covered(s, i - 1, m)) \/ (c <= m /\ m < from)
    <3> HIDE DEF Holds
    <3> QED BY <1>6, <2>1, <2>2
  <2>4. Covered(s, i, m) <=> Covered(s, i - 1, m) \/ (from <= m /\ m < to)
    <3>1. Holds(s[i], m) <=> from <= m /\ m < to BY <1>1 DEF Holds
    <3> HIDE DEF Holds
    <3> QED BY <1>7, <1>8, <1>9, <3>1 DEF Covered
  <2>5. Covered(s, i - 1, m) => m < c
    <3>1. ASSUME NEW k \in 1..i - 1, Holds(s[k], m) PROVE m < c
      <4>1. m < s[k].to /\ s[k].to \in Int /\ s[k].to <= c BY <1>10, <3>1 DEF Holds
      <4> QED BY <1>2, <4>1
    <3> QED BY <3>1 DEF Covered
  <2>6. m < c /\ from <= m => Covered(s, i - 1, m)
    <3> SUFFICES ASSUME m < c, from <= m PROVE Covered(s, i - 1, m) OBVIOUS
    <3>1. c > 0 BY <1>2
    <3>2. PICK k \in 1..i - 1 : s[k].to = c BY <1>1, <3>1 DEF GapsSoFar
    <3>3. s[k].from \in Int /\ s[k].from < from BY <1>10
    <3>4. Holds(s[k], m) BY <1>2, <3>2, <3>3 DEF Holds
    <3> QED BY <3>4 DEF Covered
  <2> QED BY <1>2, <1>4, <2>3, <2>4, <2>5, <2>6
<1> QED BY <1>3, <1>5, <1>6, <1>11, <1>12, <1>13 DEF GapsSoFar

\* The gaps of a day hold the minutes that none of its windows holds.
LEMMA GapsAre ==
    ASSUME NEW ws, DayHours(ws)
    PROVE  /\ Gaps(ws) \in SUBSET Bands
           /\ \A m \in Nat : m < 1440 =>
                ((\E b \in Gaps(ws) : Holds(b, m)) <=> \A w \in ws : ~Holds(w, m))
<1>1. PICK s \in Seq(ws) : s = FromTheStart(ws) BY StartOrder
<1>2. PICK n \in Nat : n = Len(s) OBVIOUS
<1>3. /\ \A i \in 1..n : s[i] \in ws
      /\ \A w \in ws : \E i \in 1..n : s[i] = w
      /\ \A i, j \in 1..n : i < j => s[i].from < s[j].from
  BY <1>1, <1>2, StartOrder
<1>4. \A k \in 1..n : s[k].from \in Nat /\ s[k].to \in Nat /\ s[k].from < s[k].to
  BY <1>3 DEF DayHours
<1>5. PICK f : /\ f[0] = [bands |-> {}, cursor |-> 0]
               /\ \A i \in 1..n : f[i] = Behind(f[i - 1], s[i])
               /\ Gaps(ws) = f[n].bands \cup {[from |-> f[n].cursor, to |-> 1440]}
  BY <1>1, <1>2, GapSteps
<1>6. GapsSoFar(f[0], s, 0)
  <2>1. f[0] \in GapStates /\ f[0].bands = {} /\ f[0].cursor = 0 BY <1>5 DEF GapStates
  <2>2. 1..0 = {} OBVIOUS
  <2> QED BY <2>1, <2>2 DEF GapsSoFar
<1>7. ASSUME NEW i \in 1..n, GapsSoFar(f[i - 1], s, i - 1) PROVE GapsSoFar(f[i], s, i)
  <2>1. PICK g : g = f[i - 1] OBVIOUS
  <2>2. GapsSoFar(g, s, i - 1) BY <1>7, <2>1
  <2>3. GapsSoFar(Behind(g, s[i]), s, i) BY <1>3, <1>4, <2>2, GapsGrow
  <2> QED BY <1>5, <2>1, <2>3
<1>8. \A i \in 0..n : GapsSoFar(f[i], s, i)
  <2>1. PICK Bad : Bad = {i \in 0..n : ~GapsSoFar(f[i], s, i)} OBVIOUS
  <2>2. Bad = {}
    <3> SUFFICES ASSUME Bad # {} PROVE FALSE OBVIOUS
    <3>1. Bad \in SUBSET Nat BY <2>1
    <3>2. PICK i \in Bad : \A j \in Bad : i <= j BY <3>1, LeastNat
    <3>3. i \in 0..n /\ i # 0 BY <1>6, <2>1
    <3>4. i \in 1..n /\ i - 1 \in 0..n /\ ~(i <= i - 1) BY <3>3
    <3>5. GapsSoFar(f[i - 1], s, i - 1) BY <2>1, <3>2, <3>4
    <3> QED BY <1>7, <2>1, <3>4, <3>5
  <2> QED BY <2>1, <2>2
<1>9. PICK g : g = f[n] /\ GapsSoFar(g, s, n) BY <1>8
<1>10. PICK c \in Int : c = g.cursor BY <1>9 DEF GapsSoFar, GapStates
<1>11. Gaps(ws) = g.bands \cup {[from |-> c, to |-> 1440]} BY <1>5, <1>9, <1>10
<1>12. Gaps(ws) \in SUBSET Bands
  <2>1. g.bands \in SUBSET Bands BY <1>9 DEF GapsSoFar, GapStates
  <2>2. [from |-> c, to |-> 1440] \in Bands BY DEF Bands
  <2> QED BY <1>11, <2>1, <2>2
<1>13. ASSUME NEW m \in Nat, m < 1440
       PROVE  (\E b \in Gaps(ws) : Holds(b, m)) <=> \A w \in ws : ~Holds(w, m)
  <2>1. (\E b \in g.bands : Holds(b, m)) <=> m < c /\ ~Covered(s, n, m)
    BY <1>9, <1>10 DEF GapsSoFar
  <2>2. Holds([from |-> c, to |-> 1440], m) <=> c <= m BY <1>13 DEF Holds
  <2>3. (\E b \in Gaps(ws) : Holds(b, m)) <=> (m < c /\ ~Covered(s, n, m)) \/ c <= m
    <3> HIDE DEF Holds
    <3> QED BY <1>11, <2>1, <2>2
  <2>4. Covered(s, n, m) => m < c
    <3>1. ASSUME NEW k \in 1..n, Holds(s[k], m) PROVE m < c
      <4>1. m < s[k].to /\ s[k].to \in Int /\ s[k].to <= c
        BY <1>4, <1>9, <1>10, <3>1 DEF GapsSoFar, Holds
      <4> QED BY <4>1
    <3> QED BY <3>1 DEF Covered
  <2>5. Covered(s, n, m) <=> \E w \in ws : Holds(w, m)
    <3> HIDE DEF Holds
    <3> QED BY <1>3 DEF Covered
  <2> QED BY <2>3, <2>4, <2>5
<1> QED BY <1>12, <1>13

LEMMA WeekdayIs == \A day \in Int : Weekday(day) % 7 \in 0..6
BY DEF Weekday

\* What is shaded in the grid is what the day's windows do not hold.
LEMMA BandsShade ==
    ASSUME availability \in Open, NEW day \in Int, NEW m \in Nat, m < 1440,
           NEW start \in Int, NEW end \in Int, start = StartMinute, end = EndMinute,
           start <= m, m < end
    PROVE  Shaded(day, m) <=> \E b \in OutsideHours(day) : b.from <= m /\ m < b.to
<1>1. PICK ws : ws = availability[Weekday(day) % 7] OBVIOUS
<1>2. DayHours(ws) BY <1>1, WeekdayIs, WeekDaysOpen
<1> DEFINE Clip(b) == [from |-> Max({b.from, start}), to |-> Min({b.to, end})]
           clipped == {Clip(b) : b \in IF ws = {} THEN {} ELSE Gaps(ws)}
<1>3. OutsideHours(day) = {b \in clipped : b.from < b.to} BY <1>1 DEF OutsideHours
<1>4. ASSUME NEW b \in Bands
      PROVE  /\ Clip(b).from \in Int /\ Clip(b).to \in Int
             /\ (Clip(b).from <= m /\ m < Clip(b).to) <=> Holds(b, m)
  <2>1. b.from \in Int /\ b.to \in Int BY DEF Bands
  <2>2. Max({b.from, start}) = IF b.from >= start THEN b.from ELSE start BY <2>1, LargerOf
  <2>3. Min({b.to, end}) = IF b.to <= end THEN b.to ELSE end BY <2>1, SmallerOf
  <2>4. PICK from, to : from = Max({b.from, start}) /\ to = Min({b.to, end}) OBVIOUS
  <2>5. from \in Int /\ to \in Int BY <2>1, <2>2, <2>3, <2>4
  <2>6. (from <= m /\ m < to) <=> (b.from <= m /\ m < b.to) BY <2>1, <2>2, <2>3, <2>4
  <2>7. Clip(b).from = from /\ Clip(b).to = to BY <2>4
  <2> QED BY <2>5, <2>6, <2>7 DEF Holds
<1>5. Shaded(day, m) <=> ws # {} /\ \A w \in ws : ~Holds(w, m)
  <2>1. \A w \in ws : (m < w.from \/ w.to <= m) <=> ~Holds(w, m)
    BY <1>2 DEF DayHours, Holds
  <2> QED BY <1>1, <2>1 DEF Shaded
<1> HIDE DEF Clip
<1>6. CASE ws = {}
  <2>1. OutsideHours(day) = {} BY <1>3, <1>6
  <2> QED BY <1>5, <1>6, <2>1
<1>7. CASE ws # {}
  <2>1. clipped = {Clip(b) : b \in Gaps(ws)} BY <1>7
  <2>2. (\E b \in Gaps(ws) : Holds(b, m)) <=> \A w \in ws : ~Holds(w, m) BY <1>2, GapsAre
  <2>3. \A b \in Gaps(ws) : b \in Bands BY <1>2, GapsAre
  <2>4. ASSUME NEW b \in Gaps(ws), Holds(b, m)
        PROVE  \E c \in OutsideHours(day) : c.from <= m /\ m < c.to
    <3>1. PICK c : c = Clip(b) OBVIOUS
    <3>2. c.from \in Int /\ c.to \in Int /\ c.from <= m /\ m < c.to
      BY <1>4, <2>3, <2>4, <3>1
    <3>3. c \in clipped BY <2>1, <3>1
    <3>4. c.from < c.to BY <3>2
    <3> QED BY <1>3, <3>2, <3>3, <3>4
  <2>5. ASSUME NEW c \in OutsideHours(day), c.from <= m, m < c.to
        PROVE  \E b \in Gaps(ws) : Holds(b, m)
    <3>1. PICK b \in Gaps(ws) : c = Clip(b) BY <1>3, <2>1
    <3> QED BY <1>4, <2>3, <2>5, <3>1
  <2> QED BY <1>5, <1>7, <2>2, <2>4, <2>5
<1> QED BY <1>6, <1>7

-----------------------------------------------------------------------------
(* The clusters of a day                                                   *)

LEMMA StartOrdered ==
    ASSUME GridRows, NEW day
    PROVE  /\ InStartOrder(day) \in Seq(ByDay(day))
           /\ \A i, j \in 1..Len(InStartOrder(day)) :
                i < j => From(InStartOrder(day)[i]) <= From(InStartOrder(day)[j])
<1>1. PICK D : D = ByDay(day) OBVIOUS
<1>2. D \in SUBSET DOMAIN blocks BY <1>1 DEF ByDay
<1>3. PICK n \in Nat : n = Len(blocks) /\ DOMAIN blocks = 1..n BY DEF GridRows
<1>4. IsFiniteSet(D)
  <2>1. PICK N : N = 1..n OBVIOUS
  <2>2. IsFiniteSet(N) BY <2>1, FS_Interval
  <2> QED BY <1>2, <1>3, <2>1, <2>2, FS_Subset
<1>5. \A i \in D : i \in Int /\ From(i) \in Int
  <2>1. \A i \in D : i \in DOMAIN blocks BY <1>2
  <2>2. \A i \in DOMAIN blocks : From(i) \in Int BY BlockIs
  <2>3. \A i \in DOMAIN blocks : i \in Int BY <1>3
  <2> QED BY <2>1, <2>2, <2>3
<1>6. PICK R : R = {p \in D \X D : StartsBefore(p[1], p[2])} OBVIOUS
<1>7. \A i, j \in D : <<i, j>> \in R <=> StartsBefore(i, j) BY <1>6
<1>8. Ordering(D, R)
  <2>1. \A i \in D : ~StartsBefore(i, i) BY <1>5 DEF StartsBefore
  <2>2. \A i, j \in D : i # j => StartsBefore(i, j) \/ StartsBefore(j, i)
    BY <1>5 DEF StartsBefore
  <2>3. \A i, j, k \in D : StartsBefore(i, j) /\ StartsBefore(j, k) => StartsBefore(i, k)
    BY <1>5 DEF StartsBefore
  <2> QED BY <1>7, <2>1, <2>2, <2>3 DEF Ordering
<1>9. \E s \in SetToSeqs(D) : \A i, j \in DOMAIN s : i < j => StartsBefore(s[i], s[j])
  <2>1. PICK s \in SetToSeqs(D) : \A i, j \in DOMAIN s : i < j => <<s[i], s[j]>> \in R
    BY <1>4, <1>8, OrderExists
  <2>2. \A i, j \in DOMAIN s : i < j => StartsBefore(s[i], s[j]) BY <1>6, <2>1
  <2> QED BY <2>2
<1>10. PICK s \in SetToSeqs(D) :
         s = InStartOrder(day) /\ \A i, j \in DOMAIN s : i < j => StartsBefore(s[i], s[j])
  BY <1>1, <1>9 DEF InStartOrder
<1>11. DOMAIN s = 1..Len(s) /\ s \in Seq(D) BY <1>4, OrderHolds
<1>12. \A i, j \in 1..Len(s) : i < j => From(s[i]) <= From(s[j])
  <2> SUFFICES ASSUME NEW i \in 1..Len(s), NEW j \in 1..Len(s), i < j
               PROVE  From(s[i]) <= From(s[j])
    OBVIOUS
  <2>1. StartsBefore(s[i], s[j]) BY <1>10, <1>11
  <2>2. s[i] \in D /\ s[j] \in D BY <1>11
  <2>3. From(s[i]) \in Int /\ From(s[j]) \in Int BY <1>5, <2>2
  <2> QED BY <2>1, <2>3 DEF StartsBefore
<1> QED BY <1>1, <1>10, <1>11, <1>12

\* A cluster is open until the last of its blocks has ended.
LEMMA OpenUntil ==
    ASSUME GridRows, NEW group \in Seq(DOMAIN blocks), group # <<>>
    PROVE  /\ OpenEnd(group) \in Int
           /\ \A k \in 1..Len(group) : To(group[k]) <= OpenEnd(group)
           /\ \E k \in 1..Len(group) : To(group[k]) = OpenEnd(group)
<1>1. PICK n \in Nat : n = Len(group) /\ n > 0 /\ DOMAIN group = 1..n OBVIOUS
<1>2. PICK T : T = {To(group[k]) : k \in 1..n} OBVIOUS
<1>3. OpenEnd(group) = Max(T)
  <2>1. Range(group) = {group[k] : k \in 1..n} BY <1>1 DEF Range
  <2>2. {To(i) : i \in Range(group)} = T BY <1>2, <2>1
  <2> QED BY <2>2 DEF OpenEnd
<1>4. PICK top \in Nat : top = 1469 OBVIOUS
<1>5. ASSUME NEW k \in 1..n PROVE To(group[k]) \in Int /\ 0 <= To(group[k]) /\ To(group[k]) <= top
  <2>1. PICK i \in DOMAIN blocks : i = group[k] BY <1>1
  <2>2. PICK from, to : from = From(i) /\ to = To(i) OBVIOUS
  <2>3. from \in Int /\ 0 <= from /\ to \in Int /\ to <= 1469 /\ from < to BY <2>2, BlockIs
  <2>4. 0 <= to BY <2>3
  <2> QED BY <1>4, <2>1, <2>2, <2>3, <2>4
<1>6. T \in SUBSET (0..top) /\ T # {}
  <2>1. \A x \in T : x \in 0..top BY <1>2, <1>5
  <2>2. 1 \in 1..n BY <1>1
  <2> QED BY <1>2, <2>1, <2>2
<1>7. Max(T) \in T /\ \A x \in T : x <= Max(T) BY <1>6, LargestIs
<1> QED BY <1>1, <1>2, <1>3, <1>5, <1>7

\* A block joins the open cluster or begins one.
GroupsOf(D) == {groups \in Seq(Seq(D)) : \A c \in 1..Len(groups) : groups[c] # <<>>}

LEMMA GroupedIs ==
    ASSUME GridRows, NEW D \in SUBSET DOMAIN blocks, NEW groups \in GroupsOf(D), NEW i \in D
    PROVE  /\ Grouped(groups, i) \in GroupsOf(D)
           /\ IF groups = <<>> \/ From(i) >= OpenEnd(groups[Len(groups)])
              THEN /\ Len(Grouped(groups, i)) = Len(groups) + 1
                   /\ \A c \in 1..Len(groups) : Grouped(groups, i)[c] = groups[c]
                   /\ Grouped(groups, i)[Len(groups) + 1] = <<i>>
              ELSE /\ Len(Grouped(groups, i)) = Len(groups)
                   /\ \A c \in 1..Len(groups) - 1 : Grouped(groups, i)[c] = groups[c]
                   /\ Grouped(groups, i)[Len(groups)] = Append(groups[Len(groups)], i)
<1>1. groups \in Seq(Seq(D)) /\ \A c \in 1..Len(groups) : groups[c] # <<>> BY DEF GroupsOf
<1>2. PICK n \in Nat : n = Len(groups) BY <1>1
<1>3. PICK new : new = Grouped(groups, i) OBVIOUS
<1>4. CASE groups = <<>> \/ From(i) >= OpenEnd(groups[Len(groups)])
  <2>1. new = Append(groups, <<i>>) BY <1>3, <1>4 DEF Grouped, Last
  <2>2. <<i>> \in Seq(D) /\ <<i>> # <<>> OBVIOUS
  <2>3. /\ new \in Seq(Seq(D)) /\ Len(new) = n + 1
        /\ \A c \in 1..n : new[c] = groups[c]
        /\ new[n + 1] = <<i>>
    BY <1>1, <1>2, <2>1, <2>2
  <2>4. \A c \in 1..n + 1 : c = n + 1 \/ c \in 1..n OBVIOUS
  <2>5. \A c \in 1..n + 1 : new[c] # <<>> BY <1>1, <1>2, <2>2, <2>3, <2>4
  <2>6. new \in GroupsOf(D) BY <2>3, <2>5 DEF GroupsOf
  <2> QED BY <1>2, <1>3, <1>4, <2>3, <2>6
<1>5. CASE ~(groups = <<>> \/ From(i) >= OpenEnd(groups[Len(groups)]))
  <2>1. n > 0 /\ n \in 1..n BY <1>1, <1>2, <1>5
  <2>2. PICK last : last = Append(groups[n], i) OBVIOUS
  <2>3. last \in Seq(D) /\ last # <<>>
    <3>1. groups[n] \in Seq(D) BY <1>1, <1>2, <2>1
    <3> QED BY <2>2, <3>1
  <2>4. PICK front : front = SubSeq(groups, 1, n - 1) OBVIOUS
  <2>5. front \in Seq(Seq(D)) /\ Len(front) = n - 1 /\ \A c \in 1..n - 1 : front[c] = groups[c]
    BY <1>1, <1>2, <2>1, <2>4
  <2>6. new = Append(front, last) BY <1>2, <1>3, <1>5, <2>2, <2>4 DEF Grouped, Last, Front
  <2>7. new \in Seq(Seq(D)) /\ Len(new) = n BY <2>1, <2>3, <2>5, <2>6
  <2>8. \A c \in 1..n - 1 : new[c] = groups[c] BY <2>1, <2>3, <2>5, <2>6
  <2>9. new[n] = last BY <2>1, <2>3, <2>5, <2>6
  <2>10. \A c \in 1..n : c = n \/ c \in 1..n - 1 OBVIOUS
  <2>11. \A c \in 1..n - 1 : c \in 1..n OBVIOUS
  <2>12. \A c \in 1..n : new[c] # <<>> BY <1>1, <1>2, <2>3, <2>8, <2>9, <2>10, <2>11
  <2>13. new \in GroupsOf(D) BY <2>7, <2>12 DEF GroupsOf
  <2> QED BY <1>2, <1>3, <1>5, <2>2, <2>7, <2>8, <2>9, <2>13
<1> QED BY <1>4, <1>5

\* The clusters are made one block after another.
LEMMA ClusterSteps ==
    ASSUME GridRows, NEW day
    PROVE  \E f : /\ f[0] = <<>>
                  /\ \A i \in 1..Len(InStartOrder(day)) :
                       f[i] = Grouped(f[i - 1], InStartOrder(day)[i])
                  /\ Clusters(day) = f[Len(InStartOrder(day))]
<1>1. PICK D : D = ByDay(day) OBVIOUS
<1>2. D \in SUBSET DOMAIN blocks BY <1>1 DEF ByDay
<1>3. PICK seq \in Seq(D) : seq = InStartOrder(day) BY <1>1, StartOrdered
<1> DEFINE iter == CHOOSE f : f = [s \in SUBSET DOMAIN seq |->
                      IF s = {} THEN <<>> ELSE Grouped(f[s \ {Max(s)}], seq[Max(s)])]
<1>4. Clusters(day) = iter[DOMAIN seq]
  BY <1>3 DEF Clusters, FoldLeft, MapThenFoldSet
<1>5. PICK n \in Nat : n = Len(seq) /\ DOMAIN seq = 1..n OBVIOUS
<1>6. PICK A : A = GroupsOf(D) OBVIOUS
<1>7. PICK g : g = [p \in A \X (1..n) |-> Grouped(p[1], seq[p[2]])] OBVIOUS
<1>8. g \in [A \X (1..n) -> A]
  <2>1. ASSUME NEW p \in A \X (1..n) PROVE Grouped(p[1], seq[p[2]]) \in A
    <3>1. p[1] \in GroupsOf(D) /\ seq[p[2]] \in D BY <1>5, <1>6
    <3> QED BY <1>2, <1>6, <3>1, GroupedIs
  <2> QED BY <1>7, <2>1
<1>9. PICK h : Folds(h, n, A, <<>>, g)
  <2>1. <<>> \in A
    <3>1. <<>> \in Seq(Seq(D)) /\ Len(<<>>) = 0 OBVIOUS
    <3>2. \A c \in 1..0 : FALSE OBVIOUS
    <3> QED BY <1>6, <3>1, <3>2 DEF GroupsOf
  <2> QED BY <1>8, <2>1, FoldExists
<1>10. ASSUME NEW s \in SUBSET (1..n), s # {}
       PROVE  Max(s) \in 1..n /\ s \ {Max(s)} \in SUBSET (1..n)
  BY <1>10, MaxIs
<1>11. h = [s \in SUBSET DOMAIN seq |->
              IF s = {} THEN <<>> ELSE Grouped(h[s \ {Max(s)}], seq[Max(s)])]
  <2>1. ASSUME NEW s \in SUBSET (1..n)
        PROVE  h[s] = IF s = {} THEN <<>> ELSE Grouped(h[s \ {Max(s)}], seq[Max(s)])
    <3>1. CASE s = {} BY <1>9, <3>1 DEF Folds
    <3>2. CASE s # {}
      <4>1. h[s \ {Max(s)}] \in A /\ Max(s) \in 1..n BY <1>9, <1>10, <3>2 DEF Folds
      <4>2. h[s] = g[<<h[s \ {Max(s)}], Max(s)>>] BY <1>9, <3>2 DEF Folds
      <4> QED BY <1>7, <3>2, <4>1, <4>2
    <3> QED BY <3>1, <3>2
  <2> QED BY <1>5, <1>9, <2>1 DEF Folds
<1>12. iter = [s \in SUBSET DOMAIN seq |->
                 IF s = {} THEN <<>> ELSE Grouped(iter[s \ {Max(s)}], seq[Max(s)])]
  BY <1>11
<1> HIDE DEF iter
<1>13. \A s \in SUBSET (1..n) :
         iter[s] = IF s = {} THEN <<>> ELSE Grouped(iter[s \ {Max(s)}], seq[Max(s)])
  BY <1>5, <1>12
<1>14. PICK f : f = [i \in 0..n |-> iter[1..i]] OBVIOUS
<1>15. f[0] = <<>> /\ f[n] = iter[1..n]
  <2>1. 1..0 = {} OBVIOUS
  <2> QED BY <1>13, <1>14, <2>1
<1>16. ASSUME NEW i \in 1..n PROVE f[i] = Grouped(f[i - 1], seq[i])
  <2>1. Max(1..i) = i /\ 1..i \in SUBSET (1..n) /\ 1..i # {} BY FirstIs
  <2>2. (1..i) \ {i} = 1..i - 1 OBVIOUS
  <2>3. iter[1..i] = Grouped(iter[1..i - 1], seq[i]) BY <1>13, <2>1, <2>2
  <2> QED BY <1>14, <2>3
<1> QED BY <1>3, <1>4, <1>5, <1>15, <1>16

\* The blocks of a cluster are in order, and each begins before all that are
\* ahead of it have ended.
Linked(group) ==
    \A n \in 1..Len(group) :
      /\ \A m \in 1..n - 1 : From(group[m]) <= From(group[n])
      /\ n > 1 => \E m \in 1..n - 1 : From(group[n]) < To(group[m])

\* All blocks of a cluster have ended when the next one begins.
Follows(g, h) == \A n \in 1..Len(g), m \in 1..Len(h) : To(g[n]) <= From(h[m])

ClustersSoFar(groups, s, i, D) ==
    /\ groups \in GroupsOf(D)
    /\ \A c \in 1..Len(groups) : Linked(groups[c])
    /\ \A c, d \in 1..Len(groups) : c < d => Follows(groups[c], groups[d])
    /\ \A c \in 1..Len(groups) : \A n \in 1..Len(groups[c]) : \E k \in 1..i : groups[c][n] = s[k]

LEMMA ClustersGrow ==
    ASSUME GridRows, NEW D \in SUBSET DOMAIN blocks, NEW s \in Seq(D), NEW i \in 1..Len(s),
           \A j, k \in 1..Len(s) : j < k => From(s[j]) <= From(s[k]),
           NEW groups, ClustersSoFar(groups, s, i - 1, D)
    PROVE  ClustersSoFar(Grouped(groups, s[i]), s, i, D)
<1>1. PICK x \in D : x = s[i] OBVIOUS
<1>2. groups \in GroupsOf(D) BY DEF ClustersSoFar
<1>3. PICK N \in Nat : N = Len(groups) BY <1>2 DEF GroupsOf
<1>4. PICK new : new = Grouped(groups, x) OBVIOUS
<1>5. new \in GroupsOf(D) BY <1>2, <1>4, GroupedIs
<1>6. \A y \in D : From(y) \in Int /\ To(y) \in Int /\ From(y) < To(y)
  <2>1. \A y \in D : y \in DOMAIN blocks OBVIOUS
  <2> QED BY <2>1, BlockIs
<1>7. \A c \in 1..N : groups[c] \in Seq(D) /\ groups[c] # <<>> /\ Linked(groups[c])
  BY <1>2, <1>3 DEF GroupsOf, ClustersSoFar
<1>8. ASSUME NEW c \in 1..N, NEW n \in 1..Len(groups[c])
      PROVE  groups[c][n] \in D /\ From(groups[c][n]) <= From(x)
  <2>1. PICK k \in 1..i - 1 : groups[c][n] = s[k] BY <1>3 DEF ClustersSoFar
  <2>2. k \in 1..Len(s) /\ k < i /\ i \in 1..Len(s) OBVIOUS
  <2>3. s[k] \in D /\ From(s[k]) <= From(s[i]) BY <2>2
  <2> QED BY <1>1, <2>1, <2>3
<1>9. \A c, d \in 1..N : c < d => Follows(groups[c], groups[d])
  BY <1>3 DEF ClustersSoFar
<1>10. \A c \in 1..N : \A n \in 1..Len(groups[c]) : \E k \in 1..i : groups[c][n] = s[k]
  <2>1. \A k \in 1..i - 1 : k \in 1..i OBVIOUS
  <2> QED BY <1>3, <2>1 DEF ClustersSoFar
<1>11. i \in 1..i OBVIOUS
<1>12. ASSUME NEW c \in 1..N - 1, NEW n \in 1..Len(groups[c])
       PROVE  To(groups[c][n]) <= From(x)
  <2>1. c \in 1..N /\ N \in 1..N /\ c < N OBVIOUS
  <2>2. Follows(groups[c], groups[N]) BY <1>9, <2>1
  <2>3. groups[N] \in Seq(D) /\ groups[N] # <<>> BY <1>7, <2>1
  <2>4. 1 \in 1..Len(groups[N]) BY <2>3
  <2>5. To(groups[c][n]) <= From(groups[N][1]) BY <2>2, <2>4 DEF Follows
  <2>6. groups[N][1] \in D /\ From(groups[N][1]) <= From(x) BY <1>8, <2>1, <2>4
  <2>7. groups[c][n] \in D BY <1>8, <2>1
  <2>8. From(groups[N][1]) \in Int /\ From(x) \in Int /\ To(groups[c][n]) \in Int
    BY <1>6, <2>6, <2>7
  <2> QED BY <2>5, <2>6, <2>8
<1>13. CASE groups = <<>> \/ From(x) >= OpenEnd(groups[Len(groups)])
  <2>1. Len(new) = N + 1 /\ (\A c \in 1..N : new[c] = groups[c]) /\ new[N + 1] = <<x>>
    BY <1>2, <1>3, <1>4, <1>13, GroupedIs
  <2>2. \A c \in 1..N + 1 : c = N + 1 \/ c \in 1..N OBVIOUS
  <2>3. Len(<<x>>) = 1 /\ <<x>>[1] = x OBVIOUS
  <2>4. Linked(<<x>>) BY <2>3 DEF Linked
  <2>5. \A c \in 1..N + 1 : Linked(new[c]) BY <1>7, <2>1, <2>2, <2>4
  <2>6. ASSUME NEW c \in 1..N PROVE Follows(groups[c], <<x>>)
    <3>1. ASSUME NEW n \in 1..Len(groups[c]) PROVE To(groups[c][n]) <= From(x)
      <4>1. CASE c = N
        <5>1. groups # <<>> BY <1>3, <4>1
        <5>2. From(x) >= OpenEnd(groups[c]) BY <1>3, <1>13, <4>1, <5>1
        <5>3. groups[c] \in Seq(D) /\ groups[c] # <<>> BY <1>7
        <5>4. groups[c] \in Seq(DOMAIN blocks) BY <5>3
        <5>5. To(groups[c][n]) <= OpenEnd(groups[c]) /\ OpenEnd(groups[c]) \in Int
          BY <5>3, <5>4, OpenUntil
        <5>6. To(groups[c][n]) \in Int /\ From(x) \in Int BY <1>6, <1>8
        <5> QED BY <5>2, <5>5, <5>6
      <4>2. CASE c # N
        <5>1. c \in 1..N - 1 BY <4>2
        <5> QED BY <1>12, <5>1
      <4> QED BY <4>1, <4>2
    <3>2. \A m \in 1..1 : m = 1 OBVIOUS
    <3> QED BY <2>3, <3>1, <3>2 DEF Follows
  <2>7. ASSUME NEW c \in 1..N + 1, NEW d \in 1..N + 1, c < d PROVE Follows(new[c], new[d])
    <3>1. c \in 1..N BY <2>7
    <3>2. CASE d = N + 1 BY <2>1, <2>6, <3>1, <3>2
    <3>3. CASE d \in 1..N BY <1>9, <2>1, <2>7, <3>1, <3>3
    <3> QED BY <2>2, <3>2, <3>3
  <2>8. ASSUME NEW c \in 1..N + 1, NEW n \in 1..Len(new[c])
        PROVE  \E k \in 1..i : new[c][n] = s[k]
    <3>1. CASE c = N + 1
      <4>1. new[c] = <<x>> BY <2>1, <3>1
      <4>2. Len(new[c]) = 1 /\ new[c][1] = x BY <2>3, <4>1
      <4>3. n \in 1..1 BY <4>2
      <4>4. n = 1 BY <4>3
      <4> QED BY <1>1, <1>11, <4>2, <4>4
    <3>2. CASE c \in 1..N BY <1>10, <2>1, <3>2
    <3> QED BY <2>2, <3>1, <3>2
  <2>9. ClustersSoFar(new, s, i, D) BY <1>5, <2>1, <2>5, <2>7, <2>8 DEF ClustersSoFar
  <2> QED BY <1>1, <1>4, <2>9
<1>14. CASE ~(groups = <<>> \/ From(x) >= OpenEnd(groups[Len(groups)]))
  <2>1. PICK last : last = groups[N] OBVIOUS
  <2>2. N \in 1..N /\ N > 0 BY <1>2, <1>3, <1>14 DEF GroupsOf
  <2>3. last \in Seq(D) /\ last # <<>> /\ Linked(last) BY <1>7, <2>1, <2>2
  <2>4. PICK M \in Nat : M = Len(last) /\ M > 0 BY <2>3
  <2>5. PICK more : more = Append(last, x) OBVIOUS
  <2>6. Len(more) = M + 1 /\ (\A n \in 1..M : more[n] = last[n]) /\ more[M + 1] = x
    BY <2>3, <2>4, <2>5
  <2>7. Len(new) = N /\ (\A c \in 1..N - 1 : new[c] = groups[c]) /\ new[N] = more
    BY <1>2, <1>3, <1>4, <1>14, <2>1, <2>5, GroupedIs
  <2>8. \A c \in 1..N : c = N \/ c \in 1..N - 1 OBVIOUS
  <2>9. \A c \in 1..N - 1 : c \in 1..N OBVIOUS
  <2>10. \A n \in 1..M + 1 : n = M + 1 \/ n \in 1..M OBVIOUS
  <2>11. \A n \in 1..M : last[n] \in D /\ From(last[n]) <= From(x) BY <1>8, <2>1, <2>2, <2>4
  <2>12. From(x) < OpenEnd(last) /\ \E k \in 1..M : To(last[k]) = OpenEnd(last)
    <3>1. last \in Seq(DOMAIN blocks) BY <2>3
    <3>2. OpenEnd(last) \in Int /\ \E k \in 1..M : To(last[k]) = OpenEnd(last)
      BY <2>3, <2>4, <3>1, OpenUntil
    <3>3. From(x) \in Int BY <1>6
    <3>4. ~(From(x) >= OpenEnd(last)) BY <1>3, <1>14, <2>1
    <3> QED BY <3>2, <3>3, <3>4
  <2>13. Linked(more)
    <3>1. ASSUME NEW n \in 1..M + 1
          PROVE  /\ \A m \in 1..n - 1 : From(more[m]) <= From(more[n])
                 /\ n > 1 => \E m \in 1..n - 1 : From(more[n]) < To(more[m])
      <4>1. CASE n = M + 1
        <5>1. n - 1 = M BY <4>1
        <5>2. \A m \in 1..M : From(more[m]) <= From(more[n]) BY <2>6, <2>11, <4>1
        <5>3. \E m \in 1..M : From(more[n]) < To(more[m]) BY <2>6, <2>12, <4>1
        <5> QED BY <5>1, <5>2, <5>3
      <4>2. CASE n \in 1..M
        <5>1. \A m \in 1..n - 1 : m \in 1..M BY <4>2
        <5>2. /\ \A m \in 1..n - 1 : From(last[m]) <= From(last[n])
              /\ n > 1 => \E m \in 1..n - 1 : From(last[n]) < To(last[m])
          BY <2>3, <2>4, <4>2 DEF Linked
        <5> QED BY <2>6, <4>2, <5>1, <5>2
      <4> QED BY <2>10, <4>1, <4>2
    <3> QED BY <2>6, <3>1 DEF Linked
  <2>14. \A c \in 1..N : Linked(new[c]) BY <1>7, <2>7, <2>8, <2>9, <2>13
  <2>15. ASSUME NEW c \in 1..N, NEW d \in 1..N, c < d PROVE Follows(new[c], new[d])
    <3>1. c \in 1..N - 1 BY <2>15
    <3>2. new[c] = groups[c] BY <2>7, <3>1
    <3>3. CASE d = N
      <4>1. Follows(groups[c], last) BY <1>9, <2>1, <2>15, <3>3
      <4>2. ASSUME NEW n \in 1..Len(groups[c]), NEW m \in 1..M + 1
            PROVE  To(groups[c][n]) <= From(more[m])
        <5>1. CASE m = M + 1
          <6>1. To(groups[c][n]) <= From(x) BY <1>12, <3>1
          <6> QED BY <2>6, <5>1, <6>1
        <5>2. CASE m \in 1..M
          <6>1. To(groups[c][n]) <= From(last[m]) BY <2>4, <4>1, <5>2 DEF Follows
          <6> QED BY <2>6, <5>2, <6>1
        <5> QED BY <2>10, <5>1, <5>2
      <4>3. Follows(groups[c], more) BY <2>6, <4>2 DEF Follows
      <4> QED BY <2>7, <3>2, <3>3, <4>3
    <3>4. CASE d \in 1..N - 1
      <4>1. new[d] = groups[d] BY <2>7, <3>4
      <4> QED BY <1>9, <2>15, <3>2, <4>1
    <3> QED BY <2>8, <3>3, <3>4
  <2>16. ASSUME NEW c \in 1..N, NEW n \in 1..Len(new[c])
         PROVE  \E k \in 1..i : new[c][n] = s[k]
    <3>1. CASE c = N
      <4>1. n \in 1..M + 1 /\ new[c][n] = more[n] BY <2>6, <2>7, <3>1
      <4>2. CASE n = M + 1 BY <1>1, <1>11, <2>6, <4>1, <4>2
      <4>3. CASE n \in 1..M
        <5>1. \E k \in 1..i : last[n] = s[k] BY <1>10, <2>1, <2>2, <2>4, <4>3
        <5> QED BY <2>6, <4>1, <4>3, <5>1
      <4> QED BY <2>10, <4>1, <4>2, <4>3
    <3>2. CASE c \in 1..N - 1
      <4>1. new[c] = groups[c] BY <2>7, <3>2
      <4> QED BY <1>10, <4>1
    <3> QED BY <2>8, <3>1, <3>2
  <2>17. ClustersSoFar(new, s, i, D) BY <1>5, <2>7, <2>14, <2>15, <2>16 DEF ClustersSoFar
  <2> QED BY <1>1, <1>4, <2>17
<1> QED BY <1>13, <1>14

\* The clusters of a day: each is linked, and has ended when the next begins.
LEMMA ClustersAre ==
    ASSUME GridRows, NEW day
    PROVE  /\ Clusters(day) \in Seq(Seq(DOMAIN blocks))
           /\ \A c \in 1..Len(Clusters(day)) :
                Clusters(day)[c] \in Seq(DOMAIN blocks) /\ Linked(Clusters(day)[c])
           /\ \A c, d \in 1..Len(Clusters(day)) :
                c < d => Follows(Clusters(day)[c], Clusters(day)[d])
<1>1. PICK D : D = ByDay(day) OBVIOUS
<1>2. D \in SUBSET DOMAIN blocks BY <1>1 DEF ByDay
<1>3. PICK s \in Seq(D) : s = InStartOrder(day) BY <1>1, StartOrdered
<1>4. PICK n \in Nat : n = Len(s) OBVIOUS
<1>5. \A j, k \in 1..Len(s) : j < k => From(s[j]) <= From(s[k]) BY <1>3, StartOrdered
<1>6. PICK f : /\ f[0] = <<>>
               /\ \A i \in 1..n : f[i] = Grouped(f[i - 1], s[i])
               /\ Clusters(day) = f[n]
  BY <1>3, <1>4, ClusterSteps
<1>7. ClustersSoFar(f[0], s, 0, D)
  <2>1. <<>> \in Seq(Seq(D)) /\ Len(<<>>) = 0 OBVIOUS
  <2>2. 1..0 = {} OBVIOUS
  <2>3. <<>> \in GroupsOf(D) BY <2>1, <2>2 DEF GroupsOf
  <2> QED BY <1>6, <2>1, <2>2, <2>3 DEF ClustersSoFar
<1>8. ASSUME NEW i \in 1..n, ClustersSoFar(f[i - 1], s, i - 1, D) PROVE ClustersSoFar(f[i], s, i, D)
  <2>1. PICK g : g = f[i - 1] OBVIOUS
  <2>2. ClustersSoFar(g, s, i - 1, D) BY <1>8, <2>1
  <2>3. i \in 1..Len(s) BY <1>4
  <2>4. ClustersSoFar(Grouped(g, s[i]), s, i, D) BY <1>2, <1>5, <2>2, <2>3, ClustersGrow
  <2> QED BY <1>6, <2>1, <2>4
<1>9. \A i \in 0..n : ClustersSoFar(f[i], s, i, D)
  <2>1. PICK Bad : Bad = {i \in 0..n : ~ClustersSoFar(f[i], s, i, D)} OBVIOUS
  <2>2. Bad = {}
    <3> SUFFICES ASSUME Bad # {} PROVE FALSE OBVIOUS
    <3>1. Bad \in SUBSET Nat BY <2>1
    <3>2. PICK i \in Bad : \A j \in Bad : i <= j BY <3>1, LeastNat
    <3>3. i \in 0..n /\ i # 0 BY <1>7, <2>1
    <3>4. i \in 1..n /\ i - 1 \in 0..n /\ ~(i <= i - 1) BY <3>3
    <3>5. ClustersSoFar(f[i - 1], s, i - 1, D) BY <2>1, <3>2, <3>4
    <3> QED BY <1>8, <2>1, <3>4, <3>5
  <2> QED BY <2>1, <2>2
<1>10. PICK groups : groups = Clusters(day) /\ ClustersSoFar(groups, s, n, D) BY <1>6, <1>9
<1>11. groups \in Seq(Seq(D)) BY <1>10 DEF ClustersSoFar, GroupsOf
<1>12. \A g \in Seq(D) : g \in Seq(DOMAIN blocks) BY <1>2
<1>13. groups \in Seq(Seq(DOMAIN blocks)) BY <1>11, <1>12
<1>14. \A c \in 1..Len(groups) : groups[c] \in Seq(D) BY <1>11
<1> QED BY <1>10, <1>12, <1>13, <1>14 DEF ClustersSoFar

-----------------------------------------------------------------------------
(* The lanes of a cluster                                                  *)

SeatStates == [ends : Seq(Int), lanes : Seq(Nat)]

Free(seats, i) == {l \in DOMAIN seats.ends : seats.ends[l] <= From(i)}

LEMMA SeatedIs ==
    ASSUME GridRows, NEW seats \in SeatStates, NEW i \in DOMAIN blocks
    PROVE  /\ Seated(seats, i) \in SeatStates
           /\ IF Free(seats, i) = {}
              THEN /\ Seated(seats, i).ends = Append(seats.ends, To(i))
                   /\ Seated(seats, i).lanes = Append(seats.lanes, Len(seats.ends) + 1)
              ELSE \E lane \in 1..Len(seats.ends) :
                     /\ seats.ends[lane] <= From(i)
                     /\ Seated(seats, i).ends = [seats.ends EXCEPT ![lane] = To(i)]
                     /\ Seated(seats, i).lanes = Append(seats.lanes, lane)
<1>1. PICK ends \in Seq(Int), lanes \in Seq(Nat) : ends = seats.ends /\ lanes = seats.lanes
  BY DEF SeatStates
<1>2. PICK n \in Nat : n = Len(ends) /\ DOMAIN ends = 1..n OBVIOUS
<1>3. PICK new : new = Seated(seats, i) OBVIOUS
<1>4. To(i) \in Int BY BlockIs
<1>5. PICK free : free = {l \in DOMAIN ends : ends[l] <= From(i)} OBVIOUS
<1>6. free = Free(seats, i) BY <1>1, <1>5 DEF Free
<1>7. CASE free = {}
  <2>1. new = [ends |-> Append(ends, To(i)), lanes |-> Append(lanes, n + 1)]
    BY <1>1, <1>2, <1>3, <1>5, <1>7 DEF Seated
  <2>2. Append(ends, To(i)) \in Seq(Int) /\ Append(lanes, n + 1) \in Seq(Nat) BY <1>4
  <2>3. new \in SeatStates BY <2>1, <2>2 DEF SeatStates
  <2> QED BY <1>1, <1>2, <1>3, <1>6, <1>7, <2>1, <2>3
<1>8. CASE free # {}
  <2>1. \A l \in free : l \in 1..n /\ ends[l] <= From(i) BY <1>2, <1>5
  <2>2. free \in SUBSET Nat BY <2>1
  <2>3. PICK lane : lane = Min(free) OBVIOUS
  <2>4. lane \in free BY <1>8, <2>2, <2>3, SmallestIs
  <2>5. new = [ends |-> [ends EXCEPT ![lane] = To(i)], lanes |-> Append(lanes, lane)]
    BY <1>1, <1>2, <1>3, <1>5, <1>8, <2>3 DEF Seated
  <2>6. lane \in 1..n /\ lane \in Nat /\ ends[lane] <= From(i) BY <2>1, <2>2, <2>4
  <2>7. [ends EXCEPT ![lane] = To(i)] \in Seq(Int) /\ Append(lanes, lane) \in Seq(Nat)
    BY <1>2, <1>4, <2>6
  <2>8. new \in SeatStates BY <2>5, <2>7 DEF SeatStates
  <2>9. /\ lane \in 1..Len(seats.ends) /\ seats.ends[lane] <= From(i)
        /\ new.ends = [seats.ends EXCEPT ![lane] = To(i)]
        /\ new.lanes = Append(seats.lanes, lane)
    BY <1>1, <1>2, <2>5, <2>6
  <2>10. \E l \in 1..Len(seats.ends) :
           /\ seats.ends[l] <= From(i)
           /\ new.ends = [seats.ends EXCEPT ![l] = To(i)]
           /\ new.lanes = Append(seats.lanes, l)
    BY <2>9
  <2> QED BY <1>3, <1>6, <1>8, <2>8, <2>10
<1> QED BY <1>7, <1>8

NoSeats == [ends |-> <<>>, lanes |-> <<>>]

\* The blocks of a cluster take their lanes one after another.
LEMMA LaneSteps ==
    ASSUME GridRows, NEW seq \in Seq(DOMAIN blocks)
    PROVE  \E f : /\ f[0] = NoSeats
                  /\ \A i \in 1..Len(seq) : f[i] = Seated(f[i - 1], seq[i])
                  /\ Lanes(seq) = f[Len(seq)]
<1> DEFINE iter == CHOOSE f : f = [s \in SUBSET DOMAIN seq |->
                      IF s = {} THEN NoSeats ELSE Seated(f[s \ {Max(s)}], seq[Max(s)])]
<1>1. Lanes(seq) = iter[DOMAIN seq]
  BY DEF Lanes, FoldLeft, MapThenFoldSet, NoSeats
<1>2. PICK n \in Nat : n = Len(seq) /\ DOMAIN seq = 1..n OBVIOUS
<1>3. PICK A : A = SeatStates OBVIOUS
<1>4. PICK g : g = [p \in A \X (1..n) |-> Seated(p[1], seq[p[2]])] OBVIOUS
<1>5. g \in [A \X (1..n) -> A]
  <2>1. ASSUME NEW p \in A \X (1..n) PROVE Seated(p[1], seq[p[2]]) \in A
    <3>1. p[1] \in SeatStates /\ seq[p[2]] \in DOMAIN blocks BY <1>2, <1>3
    <3> QED BY <1>3, <3>1, SeatedIs
  <2> QED BY <1>4, <2>1
<1>6. PICK h : Folds(h, n, A, NoSeats, g)
  <2>1. <<>> \in Seq(Int) /\ <<>> \in Seq(Nat) OBVIOUS
  <2>2. NoSeats \in A BY <1>3, <2>1 DEF NoSeats, SeatStates
  <2> QED BY <1>5, <2>2, FoldExists
<1>7. ASSUME NEW s \in SUBSET (1..n), s # {}
      PROVE  Max(s) \in 1..n /\ s \ {Max(s)} \in SUBSET (1..n)
  BY <1>7, MaxIs
<1>8. h = [s \in SUBSET DOMAIN seq |->
             IF s = {} THEN NoSeats ELSE Seated(h[s \ {Max(s)}], seq[Max(s)])]
  <2>1. ASSUME NEW s \in SUBSET (1..n)
        PROVE  h[s] = IF s = {} THEN NoSeats ELSE Seated(h[s \ {Max(s)}], seq[Max(s)])
    <3>1. CASE s = {} BY <1>6, <3>1 DEF Folds
    <3>2. CASE s # {}
      <4>1. h[s \ {Max(s)}] \in A /\ Max(s) \in 1..n BY <1>6, <1>7, <3>2 DEF Folds
      <4>2. h[s] = g[<<h[s \ {Max(s)}], Max(s)>>] BY <1>6, <3>2 DEF Folds
      <4> QED BY <1>4, <3>2, <4>1, <4>2
    <3> QED BY <3>1, <3>2
  <2> QED BY <1>2, <1>6, <2>1 DEF Folds
<1>9. iter = [s \in SUBSET DOMAIN seq |->
                IF s = {} THEN NoSeats ELSE Seated(iter[s \ {Max(s)}], seq[Max(s)])]
  BY <1>8
<1> HIDE DEF iter
<1>10. \A s \in SUBSET (1..n) :
         iter[s] = IF s = {} THEN NoSeats ELSE Seated(iter[s \ {Max(s)}], seq[Max(s)])
  BY <1>2, <1>9
<1>11. PICK f : f = [i \in 0..n |-> iter[1..i]] OBVIOUS
<1>12. f[0] = NoSeats /\ f[n] = iter[1..n]
  <2>1. 1..0 = {} OBVIOUS
  <2> QED BY <1>10, <1>11, <2>1
<1>13. ASSUME NEW i \in 1..n PROVE f[i] = Seated(f[i - 1], seq[i])
  <2>1. Max(1..i) = i /\ 1..i \in SUBSET (1..n) /\ 1..i # {} BY FirstIs
  <2>2. (1..i) \ {i} = 1..i - 1 OBVIOUS
  <2>3. iter[1..i] = Seated(iter[1..i - 1], seq[i]) BY <1>10, <2>1, <2>2
  <2> QED BY <1>11, <2>3
<1> QED BY <1>1, <1>2, <1>12, <1>13

\* The lanes so far: in a lane one block ends before the next begins, and at
\* some block all of them were taken.
SeatsHold(ends, lanes, seq, i) ==
    /\ Len(lanes) = i
    /\ \A j \in 1..i : lanes[j] \in 1..Len(ends) /\ To(seq[j]) <= ends[lanes[j]]
    /\ \A l \in 1..Len(ends) : \E j \in 1..i : lanes[j] = l /\ To(seq[j]) = ends[l]
    /\ \A j, k \in 1..i : j < k /\ lanes[j] = lanes[k] => To(seq[j]) <= From(seq[k])
    /\ i > 0 => \E j \in 1..i : \A l \in 1..Len(ends) :
                  \E k \in 1..j : lanes[k] = l /\ From(seq[j]) < To(seq[k])

SeatsSoFar(seats, seq, i) ==
    seats \in SeatStates /\ SeatsHold(seats.ends, seats.lanes, seq, i)

LEMMA SeatsGrow ==
    ASSUME GridRows, NEW seq \in Seq(DOMAIN blocks), Linked(seq), NEW i \in 1..Len(seq),
           NEW seats, SeatsSoFar(seats, seq, i - 1)
    PROVE  SeatsSoFar(Seated(seats, seq[i]), seq, i)
<1>1. PICK x \in DOMAIN blocks : x = seq[i] OBVIOUS
<1>2. PICK from, to : from = From(x) /\ to = To(x) OBVIOUS
<1>3. from \in Int /\ to \in Int /\ from < to BY <1>2, BlockIs
<1>4. seats \in SeatStates BY DEF SeatsSoFar, SeatsHold
<1>5. PICK ends \in Seq(Int), lanes \in Seq(Nat) : ends = seats.ends /\ lanes = seats.lanes
  BY <1>4 DEF SeatStates
<1>6. PICK n \in Nat : n = Len(ends) /\ DOMAIN ends = 1..n OBVIOUS
<1>7. Len(lanes) = i - 1 BY <1>5 DEF SeatsSoFar, SeatsHold
<1>8. \A j \in 1..i - 1 : lanes[j] \in 1..n /\ To(seq[j]) <= ends[lanes[j]]
  BY <1>5, <1>6 DEF SeatsSoFar, SeatsHold
<1>9. \A l \in 1..n : \E j \in 1..i - 1 : lanes[j] = l /\ To(seq[j]) = ends[l]
  BY <1>5, <1>6 DEF SeatsSoFar, SeatsHold
<1>10. \A j, k \in 1..i - 1 : j < k /\ lanes[j] = lanes[k] => To(seq[j]) <= From(seq[k])
  BY <1>5 DEF SeatsSoFar, SeatsHold
<1>11. \A j \in 1..i - 1 : To(seq[j]) \in Int
  <2>1. \A j \in 1..i - 1 : seq[j] \in DOMAIN blocks OBVIOUS
  <2> QED BY <2>1, BlockIs
<1>12. \A j \in 1..i : j = i \/ j \in 1..i - 1 OBVIOUS
<1>13. \A j \in 1..i - 1 : j \in 1..i OBVIOUS
<1>14. i \in 1..i OBVIOUS
<1>15. PICK new : new = Seated(seats, x) OBVIOUS
<1>16. new \in SeatStates BY <1>4, <1>15, SeatedIs
<1>17. \A l \in 1..n : ends[l] \in Int BY <1>6
<1>18. CASE Free(seats, x) = {}
  <2>1. PICK ends2, lanes2 : ends2 = new.ends /\ lanes2 = new.lanes OBVIOUS
  <2>2. ends2 = Append(ends, to) /\ lanes2 = Append(lanes, n + 1)
    BY <1>2, <1>4, <1>5, <1>6, <1>15, <1>18, <2>1, SeatedIs
  <2>3. Len(ends2) = n + 1 /\ (\A l \in 1..n : ends2[l] = ends[l]) /\ ends2[n + 1] = to
    BY <1>3, <1>6, <2>2
  <2>4. Len(lanes2) = i /\ (\A j \in 1..i - 1 : lanes2[j] = lanes[j]) /\ lanes2[i] = n + 1
    BY <1>7, <2>2
  <2>5. \A l \in 1..n + 1 : l = n + 1 \/ l \in 1..n OBVIOUS
  <2>6. \A l \in 1..n : l \in 1..n + 1 OBVIOUS
  <2>7. n + 1 \in 1..n + 1 /\ n + 1 \notin 1..n OBVIOUS
  <2>8. \A l \in 1..n : from < ends[l]
    <3>1. \A l \in 1..n : ~(ends[l] <= from) BY <1>2, <1>5, <1>6, <1>18 DEF Free
    <3> QED BY <1>3, <1>17, <3>1
  <2>9. ASSUME NEW j \in 1..i PROVE lanes2[j] \in 1..n + 1 /\ To(seq[j]) <= ends2[lanes2[j]]
    <3>1. CASE j = i BY <1>1, <1>2, <1>3, <2>3, <2>4, <2>7, <3>1
    <3>2. CASE j \in 1..i - 1
      <4>1. lanes2[j] \in 1..n /\ To(seq[j]) <= ends[lanes2[j]] BY <1>8, <2>4, <3>2
      <4> QED BY <2>3, <2>6, <4>1
    <3> QED BY <1>12, <3>1, <3>2
  <2>10. ASSUME NEW l \in 1..n + 1 PROVE \E j \in 1..i : lanes2[j] = l /\ To(seq[j]) = ends2[l]
    <3>1. CASE l = n + 1 BY <1>1, <1>2, <1>14, <2>3, <2>4, <3>1
    <3>2. CASE l \in 1..n
      <4>1. PICK j \in 1..i - 1 : lanes[j] = l /\ To(seq[j]) = ends[l] BY <1>9, <3>2
      <4> QED BY <1>13, <2>3, <2>4, <3>2, <4>1
    <3> QED BY <2>5, <3>1, <3>2
  <2>11. ASSUME NEW j \in 1..i, NEW k \in 1..i, j < k, lanes2[j] = lanes2[k]
         PROVE  To(seq[j]) <= From(seq[k])
    <3>1. j \in 1..i - 1 BY <2>11
    <3>2. lanes2[j] \in 1..n BY <1>8, <2>4, <3>1
    <3>3. k # i BY <2>4, <2>7, <2>11, <3>2
    <3>4. k \in 1..i - 1 BY <1>12, <3>3
    <3> QED BY <1>10, <2>4, <2>11, <3>1, <3>4
  <2>12. ASSUME NEW l \in 1..n + 1
         PROVE  \E k \in 1..i : lanes2[k] = l /\ From(seq[i]) < To(seq[k])
    <3>1. CASE l = n + 1 BY <1>1, <1>2, <1>3, <1>14, <2>4, <3>1
    <3>2. CASE l \in 1..n
      <4>1. PICK j \in 1..i - 1 : lanes[j] = l /\ To(seq[j]) = ends[l] BY <1>9, <3>2
      <4> QED BY <1>1, <1>2, <1>13, <2>4, <2>8, <3>2, <4>1
    <3> QED BY <2>5, <3>1, <3>2
  <2>13. \E j \in 1..i : \A l \in 1..n + 1 :
           \E k \in 1..j : lanes2[k] = l /\ From(seq[j]) < To(seq[k])
    BY <1>14, <2>12
  <2>14. SeatsHold(ends2, lanes2, seq, i)
    BY <2>3, <2>4, <2>9, <2>10, <2>11, <2>13 DEF SeatsHold
  <2>15. SeatsSoFar(new, seq, i) BY <1>16, <2>1, <2>14 DEF SeatsSoFar
  <2> QED BY <1>1, <1>15, <2>15
<1>19. CASE Free(seats, x) # {}
  <2>1. PICK ends2, lanes2 : ends2 = new.ends /\ lanes2 = new.lanes OBVIOUS
  <2>2. PICK lane \in 1..n : /\ ends[lane] <= from
                             /\ ends2 = [ends EXCEPT ![lane] = to]
                             /\ lanes2 = Append(lanes, lane)
    BY <1>2, <1>4, <1>5, <1>6, <1>15, <1>19, <2>1, SeatedIs
  <2>3. /\ Len(ends2) = n /\ ends2[lane] = to
        /\ \A l \in 1..n : l # lane => ends2[l] = ends[l]
    BY <1>3, <1>6, <2>2
  <2>4. Len(lanes2) = i /\ (\A j \in 1..i - 1 : lanes2[j] = lanes[j]) /\ lanes2[i] = lane
    BY <1>7, <2>2
  <2>5. ends[lane] \in Int /\ ends[lane] <= from BY <1>17, <2>2
  <2>6. ASSUME NEW j \in 1..i PROVE lanes2[j] \in 1..n /\ To(seq[j]) <= ends2[lanes2[j]]
    <3>1. CASE j = i BY <1>1, <1>2, <1>3, <2>3, <2>4, <3>1
    <3>2. CASE j \in 1..i - 1
      <4>1. lanes2[j] \in 1..n /\ To(seq[j]) <= ends[lanes2[j]] BY <1>8, <2>4, <3>2
      <4>2. CASE lanes2[j] = lane
        <5>1. To(seq[j]) \in Int /\ To(seq[j]) <= ends[lane] BY <1>11, <3>2, <4>1, <4>2
        <5>2. To(seq[j]) <= to BY <1>3, <2>5, <5>1
        <5> QED BY <2>3, <4>1, <4>2, <5>2
      <4>3. CASE lanes2[j] # lane BY <2>3, <4>1, <4>3
      <4> QED BY <4>2, <4>3
    <3> QED BY <1>12, <3>1, <3>2
  <2>7. ASSUME NEW l \in 1..n PROVE \E j \in 1..i : lanes2[j] = l /\ To(seq[j]) = ends2[l]
    <3>1. CASE l = lane BY <1>1, <1>2, <1>14, <2>3, <2>4, <3>1
    <3>2. CASE l # lane
      <4>1. PICK j \in 1..i - 1 : lanes[j] = l /\ To(seq[j]) = ends[l] BY <1>9, <3>2
      <4> QED BY <1>13, <2>3, <2>4, <3>2, <4>1
    <3> QED BY <3>1, <3>2
  <2>8. ASSUME NEW j \in 1..i, NEW k \in 1..i, j < k, lanes2[j] = lanes2[k]
        PROVE  To(seq[j]) <= From(seq[k])
    <3>1. j \in 1..i - 1 BY <2>8
    <3>2. CASE k = i
      <4>1. lanes[j] = lane BY <2>4, <2>8, <3>1, <3>2
      <4>2. To(seq[j]) \in Int /\ To(seq[j]) <= ends[lane] BY <1>8, <1>11, <3>1, <4>1
      <4>3. To(seq[j]) <= from BY <1>3, <2>5, <4>2
      <4> QED BY <1>1, <1>2, <3>2, <4>3
    <3>3. CASE k \in 1..i - 1 BY <1>10, <2>4, <2>8, <3>1, <3>3
    <3> QED BY <1>12, <3>2, <3>3
  <2>9. \E j \in 1..i : \A l \in 1..n : \E k \in 1..j : lanes2[k] = l /\ From(seq[j]) < To(seq[k])
    <3>1. PICK j0 \in 1..i - 1 : TRUE BY <1>9
    <3>2. i - 1 > 0 BY <3>1
    <3>3. PICK j \in 1..i - 1 :
            \A l \in 1..n : \E k \in 1..j : lanes[k] = l /\ From(seq[j]) < To(seq[k])
      BY <1>5, <1>6, <3>2 DEF SeatsSoFar, SeatsHold
    <3>4. \A k \in 1..j : k \in 1..i - 1 OBVIOUS
    <3>5. ASSUME NEW l \in 1..n
          PROVE  \E k \in 1..j : lanes2[k] = l /\ From(seq[j]) < To(seq[k])
      <4>1. PICK k \in 1..j : lanes[k] = l /\ From(seq[j]) < To(seq[k]) BY <3>3
      <4> QED BY <2>4, <3>4, <4>1
    <3> QED BY <1>13, <3>5
  <2>10. SeatsHold(ends2, lanes2, seq, i)
    BY <2>3, <2>4, <2>6, <2>7, <2>8, <2>9 DEF SeatsHold
  <2>11. SeatsSoFar(new, seq, i) BY <1>16, <2>1, <2>10 DEF SeatsSoFar
  <2> QED BY <1>1, <1>15, <2>11
<1> QED BY <1>18, <1>19

LEMMA LanesAre ==
    ASSUME GridRows, NEW seq \in Seq(DOMAIN blocks), Linked(seq)
    PROVE  SeatsSoFar(Lanes(seq), seq, Len(seq))
<1>1. PICK n \in Nat : n = Len(seq) OBVIOUS
<1>2. PICK f : /\ f[0] = NoSeats
               /\ \A i \in 1..n : f[i] = Seated(f[i - 1], seq[i])
               /\ Lanes(seq) = f[n]
  BY <1>1, LaneSteps
<1>3. SeatsSoFar(f[0], seq, 0)
  <2>1. <<>> \in Seq(Int) /\ <<>> \in Seq(Nat) /\ Len(<<>>) = 0 OBVIOUS
  <2>2. 1..0 = {} OBVIOUS
  <2>3. NoSeats \in SeatStates /\ NoSeats.ends = <<>> /\ NoSeats.lanes = <<>>
    BY <2>1 DEF NoSeats, SeatStates
  <2> QED BY <1>2, <2>1, <2>2, <2>3 DEF SeatsSoFar, SeatsHold
<1>4. ASSUME NEW i \in 1..n, SeatsSoFar(f[i - 1], seq, i - 1) PROVE SeatsSoFar(f[i], seq, i)
  <2>1. PICK g : g = f[i - 1] OBVIOUS
  <2>2. SeatsSoFar(g, seq, i - 1) BY <1>4, <2>1
  <2>3. i \in 1..Len(seq) BY <1>1
  <2>4. SeatsSoFar(Seated(g, seq[i]), seq, i) BY <2>2, <2>3, SeatsGrow
  <2> QED BY <1>2, <2>1, <2>4
<1>5. \A i \in 0..n : SeatsSoFar(f[i], seq, i)
  <2>1. PICK Bad : Bad = {i \in 0..n : ~SeatsSoFar(f[i], seq, i)} OBVIOUS
  <2>2. Bad = {}
    <3> SUFFICES ASSUME Bad # {} PROVE FALSE OBVIOUS
    <3>1. Bad \in SUBSET Nat BY <2>1
    <3>2. PICK i \in Bad : \A j \in Bad : i <= j BY <3>1, LeastNat
    <3>3. i \in 0..n /\ i # 0 BY <1>3, <2>1
    <3>4. i \in 1..n /\ i - 1 \in 0..n /\ ~(i <= i - 1) BY <3>3
    <3>5. SeatsSoFar(f[i - 1], seq, i - 1) BY <2>1, <3>2, <3>4
    <3> QED BY <1>4, <2>1, <3>4, <3>5
  <2> QED BY <2>1, <2>2
<1> QED BY <1>1, <1>2, <1>5

\* What the lanes of a cluster of n blocks come to: blocks that meet are in
\* lanes of their own, and at one of them all L lanes are taken; a block that
\* meets no other is alone.
LanesServed(seq, n, L, lane) ==
    /\ \A j \in 1..n : lane[j] \in 1..L
    /\ \A j, k \in 1..n : j # k /\ Meet(seq[j], seq[k]) => lane[j] # lane[k]
    /\ n > 0 => \E j \in 1..n : \A l \in 1..L : \E k \in 1..n :
                  /\ lane[k] = l /\ From(seq[k]) <= From(seq[j])
                  /\ From(seq[j]) < To(seq[k])
    /\ \A j \in 1..n : (\A k \in 1..n : k # j => ~Meet(seq[j], seq[k])) => n = 1

LEMMA LanesServe ==
    ASSUME GridRows, NEW seq \in Seq(DOMAIN blocks), Linked(seq), NEW n \in Nat, n = Len(seq),
           NEW ends, NEW lanes, SeatsHold(ends, lanes, seq, n)
    PROVE  LanesServed(seq, n, Len(ends), lanes)
<1>1. ASSUME NEW j \in 1..n
      PROVE  From(seq[j]) \in Int /\ To(seq[j]) \in Int /\ From(seq[j]) < To(seq[j])
  <2>1. seq[j] \in DOMAIN blocks OBVIOUS
  <2> QED BY <2>1, BlockIs
<1>2. \A j \in 1..n : lanes[j] \in 1..Len(ends) BY DEF SeatsHold
<1>3. ASSUME NEW j \in 1..n, NEW k \in 1..n, j < k, lanes[j] = lanes[k]
      PROVE  ~Meet(seq[j], seq[k])
  <2>1. To(seq[j]) <= From(seq[k]) BY <1>3 DEF SeatsHold
  <2> QED BY <1>1, <2>1 DEF Meet
<1>4. ASSUME NEW j \in 1..n, NEW k \in 1..n, j # k, Meet(seq[j], seq[k])
      PROVE  lanes[j] # lanes[k]
  <2>1. Meet(seq[k], seq[j]) BY <1>4 DEF Meet
  <2>2. j < k \/ k < j BY <1>4
  <2>3. CASE j < k BY <1>3, <1>4, <2>3
  <2>4. CASE k < j
    <3>1. lanes[k] = lanes[j] => ~Meet(seq[k], seq[j]) BY <1>3, <2>4
    <3> QED BY <2>1, <3>1
  <2> QED BY <2>2, <2>3, <2>4
<1>5. ASSUME n > 0
      PROVE  \E j \in 1..n : \A l \in 1..Len(ends) : \E k \in 1..n :
               /\ lanes[k] = l /\ From(seq[k]) <= From(seq[j])
               /\ From(seq[j]) < To(seq[k])
  <2>1. PICK j \in 1..n : \A l \in 1..Len(ends) :
          \E k \in 1..j : lanes[k] = l /\ From(seq[j]) < To(seq[k])
    BY <1>5 DEF SeatsHold
  <2>2. ASSUME NEW k \in 1..j PROVE k \in 1..n /\ From(seq[k]) <= From(seq[j])
    <3>1. k \in 1..n OBVIOUS
    <3>2. CASE k = j BY <1>1, <3>1, <3>2
    <3>3. CASE k # j
      <4>1. k \in 1..j - 1 BY <3>3
      <4>2. j \in 1..Len(seq) OBVIOUS
      <4> QED BY <3>1, <4>1, <4>2 DEF Linked
    <3> QED BY <3>2, <3>3
  <2>3. ASSUME NEW l \in 1..Len(ends)
        PROVE  \E k \in 1..n : /\ lanes[k] = l /\ From(seq[k]) <= From(seq[j])
                               /\ From(seq[j]) < To(seq[k])
    <3>1. PICK k \in 1..j : lanes[k] = l /\ From(seq[j]) < To(seq[k]) BY <2>1
    <3> QED BY <2>2, <3>1
  <2> QED BY <2>3
<1>6. ASSUME NEW k \in 1..n, k > 1
      PROVE  \E m \in 1..n : m < k /\ Meet(seq[m], seq[k])
  <2>1. k \in 1..Len(seq) OBVIOUS
  <2>2. PICK m \in 1..k - 1 : From(seq[k]) < To(seq[m]) BY <1>6, <2>1 DEF Linked
  <2>3. From(seq[m]) <= From(seq[k]) BY <2>1 DEF Linked
  <2>4. m \in 1..n /\ m < k OBVIOUS
  <2>5. Meet(seq[m], seq[k]) BY <1>1, <2>2, <2>3, <2>4 DEF Meet
  <2> QED BY <2>4, <2>5
<1>7. ASSUME NEW j \in 1..n, \A k \in 1..n : k # j => ~Meet(seq[j], seq[k])
      PROVE  n = 1
  <2>1. \A i, k : Meet(i, k) <=> Meet(k, i) BY DEF Meet
  <2>2. j = 1
    <3> SUFFICES ASSUME j > 1 PROVE FALSE OBVIOUS
    <3>1. PICK m \in 1..n : m < j /\ Meet(seq[m], seq[j]) BY <1>6
    <3> QED BY <1>7, <2>1, <3>1
  <2>3. ASSUME n > 1 PROVE FALSE
    <3>1. 2 \in 1..n /\ 2 > 1 BY <2>3
    <3>2. PICK m \in 1..n : m < 2 /\ Meet(seq[m], seq[2]) BY <1>6, <3>1
    <3>3. m = 1 BY <3>2
    <3> QED BY <1>7, <2>2, <3>1, <3>2, <3>3
  <2> QED BY <2>2, <2>3
<1> QED BY <1>2, <1>4, <1>5, <1>7 DEF LanesServed

\* Blocks that are in lanes of their own are no more than there are lanes, and
\* as many when every lane has one.
LEMMA CountLanes ==
    ASSUME NEW L \in Nat, NEW U, \A u \in U : u.lane \in 1..L,
           \A u, v \in U : u.lane = v.lane => u = v
    PROVE  /\ Cardinality(U) \in 0..L
           /\ (\A l \in 1..L : \E u \in U : u.lane = l) => Cardinality(U) = L
<1>1. PICK S : S = 1..L OBVIOUS
<1>2. IsFiniteSet(S) /\ Cardinality(S) = L BY <1>1, FS_Interval
<1>3. PICK f : f = [u \in U |-> u.lane] OBVIOUS
<1>4. f \in Injection(U, S) BY <1>1, <1>3 DEF Injection, IsInjective
<1>5. IsFiniteSet(U) /\ Cardinality(U) <= L BY <1>2, <1>4, FS_Injection
<1>6. Cardinality(U) \in Nat BY <1>5, FS_CardinalityType
<1>7. ASSUME \A l \in 1..L : \E u \in U : u.lane = l PROVE Cardinality(U) = L
  <2>1. f \in Surjection(U, S)
    <3>1. \A l \in S : \E u \in U : f[u] = l BY <1>1, <1>3, <1>7
    <3> QED BY <1>4, <3>1 DEF Surjection, Injection
  <2> QED BY <1>2, <1>4, <2>1, FS_Injection
<1> QED BY <1>5, <1>6, <1>7

-----------------------------------------------------------------------------
(* The columns                                                             *)

Place(clusters, c, n) ==
    [block |-> clusters[c][n], cluster |-> c, lane |-> Lanes(clusters[c]).lanes[n],
     lanes |-> Len(Lanes(clusters[c]).ends)]

LEMMA LayoutIs ==
    \A day, p : p \in Layout(day) <=>
      \E c \in DOMAIN Clusters(day) : \E n \in DOMAIN Clusters(day)[c] : p = Place(Clusters(day), c, n)
BY DEF Layout, Place

LEMMA SideBySide ==
    ASSUME GridRows, NEW day
    PROVE  LaidOutSideBySide(Layout(day))
<1>1. PICK cs \in Seq(Seq(DOMAIN blocks)) : cs = Clusters(day) BY ClustersAre
<1>2. PICK K \in Nat : K = Len(cs) /\ DOMAIN cs = 1..K OBVIOUS
<1>3. PICK size : size = [c \in 1..K |-> Len(cs[c])] OBVIOUS
<1>4. ASSUME NEW c \in 1..K
      PROVE  /\ cs[c] \in Seq(DOMAIN blocks) /\ Linked(cs[c])
             /\ size[c] \in Nat /\ size[c] = Len(cs[c]) /\ DOMAIN cs[c] = 1..size[c]
  <2>1. cs[c] \in Seq(DOMAIN blocks) BY <1>2
  <2>2. Linked(cs[c]) BY <1>1, <1>2, ClustersAre
  <2>3. size[c] = Len(cs[c]) BY <1>3
  <2> QED BY <2>1, <2>2, <2>3
<1>5. PICK lane : lane = [c \in 1..K |-> Lanes(cs[c]).lanes] OBVIOUS
<1>6. PICK lanes : lanes = [c \in 1..K |-> Len(Lanes(cs[c]).ends)] OBVIOUS
<1>7. PICK placed : placed = Layout(day) OBVIOUS
<1>8. PICK At : At = [c \in 1..K |-> [n \in 1..size[c] |-> Place(cs, c, n)]] OBVIOUS
<1>9. ASSUME NEW c \in 1..K, NEW n \in 1..size[c]
      PROVE  /\ At[c][n] \in placed
             /\ At[c][n].block = cs[c][n] /\ At[c][n].cluster = c
             /\ At[c][n].lane = lane[c][n] /\ At[c][n].lanes = lanes[c]
  <2>1. At[c][n] = Place(cs, c, n) BY <1>8
  <2>2. c \in DOMAIN cs /\ n \in DOMAIN cs[c] BY <1>2, <1>4
  <2>3. Place(cs, c, n) \in placed BY <1>1, <1>7, <2>2, LayoutIs
  <2> QED BY <1>5, <1>6, <2>1, <2>3 DEF Place
<1>10. ASSUME NEW p \in placed PROVE \E c \in 1..K : \E n \in 1..size[c] : p = At[c][n]
  <2>1. PICK c \in DOMAIN cs : \E n \in DOMAIN cs[c] : p = Place(cs, c, n)
    BY <1>1, <1>7, LayoutIs
  <2>2. PICK n \in DOMAIN cs[c] : p = Place(cs, c, n) BY <2>1
  <2>3. c \in 1..K BY <1>2, <2>1
  <2>4. n \in 1..size[c] BY <1>4, <2>2, <2>3
  <2>5. p = At[c][n] BY <1>8, <2>2, <2>3, <2>4
  <2> QED BY <2>3, <2>4, <2>5
<1>11. ASSUME NEW c \in 1..K
       PROVE  lanes[c] \in Nat /\ LanesServed(cs[c], size[c], lanes[c], lane[c])
  <2>1. PICK seq \in Seq(DOMAIN blocks) : seq = cs[c] /\ Linked(seq) BY <1>4
  <2>2. PICK n \in Nat : n = size[c] /\ n = Len(seq) BY <1>4, <2>1
  <2>3. SeatsSoFar(Lanes(seq), seq, n) BY <2>1, <2>2, LanesAre
  <2>4. PICK es, ls : es = Lanes(seq).ends /\ ls = Lanes(seq).lanes OBVIOUS
  <2>5. es \in Seq(Int) BY <2>3, <2>4 DEF SeatsSoFar, SeatStates
  <2>6. SeatsHold(es, ls, seq, n) BY <2>3, <2>4 DEF SeatsSoFar
  <2>7. lane[c] = ls /\ lanes[c] = Len(es) BY <1>5, <1>6, <2>1, <2>4
  <2>8. Len(es) \in Nat BY <2>5
  <2>9. LanesServed(seq, n, Len(es), ls) BY <2>1, <2>2, <2>6, LanesServe
  <2> QED BY <2>1, <2>2, <2>7, <2>8, <2>9
<1>12. ASSUME NEW c \in 1..K, NEW n \in 1..size[c]
       PROVE  /\ From(cs[c][n]) \in Int /\ To(cs[c][n]) \in Int
              /\ From(cs[c][n]) < To(cs[c][n])
  <2>1. cs[c] \in Seq(DOMAIN blocks) /\ n \in 1..Len(cs[c]) BY <1>4
  <2>2. cs[c][n] \in DOMAIN blocks BY <2>1
  <2> QED BY <2>2, BlockIs
<1>13. ASSUME NEW p \in placed, NEW q \in placed, p # q, Meet(p.block, q.block)
       PROVE  p.cluster = q.cluster /\ p.lane # q.lane
  <2>1. PICK c \in 1..K : \E n \in 1..size[c] : p = At[c][n] BY <1>10
  <2>2. PICK n \in 1..size[c] : p = At[c][n] BY <2>1
  <2>3. PICK d \in 1..K : \E m \in 1..size[d] : q = At[d][m] BY <1>10
  <2>4. PICK m \in 1..size[d] : q = At[d][m] BY <2>3
  <2>5. p.block = cs[c][n] /\ p.cluster = c /\ p.lane = lane[c][n] BY <1>9, <2>2
  <2>6. q.block = cs[d][m] /\ q.cluster = d /\ q.lane = lane[d][m] BY <1>9, <2>4
  <2>7. Meet(cs[c][n], cs[d][m]) BY <1>13, <2>5, <2>6
  <2>8. c = d
    <3>1. ASSUME c < d PROVE FALSE
      <4>1. Follows(cs[c], cs[d]) BY <1>1, <1>2, <3>1, ClustersAre
      <4>2. To(cs[c][n]) <= From(cs[d][m]) BY <1>4, <4>1 DEF Follows
      <4> QED BY <1>12, <2>7, <4>2 DEF Meet
    <3>2. ASSUME d < c PROVE FALSE
      <4>1. Follows(cs[d], cs[c]) BY <1>1, <1>2, <3>2, ClustersAre
      <4>2. To(cs[d][m]) <= From(cs[c][n]) BY <1>4, <4>1 DEF Follows
      <4> QED BY <1>12, <2>7, <4>2 DEF Meet
    <3>3. c < d \/ d < c \/ c = d OBVIOUS
    <3> QED BY <3>1, <3>2, <3>3
  <2>9. n # m BY <1>13, <2>2, <2>4, <2>8
  <2>10. lane[c][n] # lane[c][m]
    <3>1. LanesServed(cs[c], size[c], lanes[c], lane[c]) BY <1>11
    <3>2. m \in 1..size[c] /\ Meet(cs[c][n], cs[c][m]) BY <2>7, <2>8
    <3>3. \A i \in 1..size[c] : \A j \in 1..size[c] :
            i # j /\ Meet(cs[c][i], cs[c][j]) => lane[c][i] # lane[c][j]
      BY ONLY <3>1 DEF LanesServed
    <3> QED BY ONLY <2>9, <3>2, <3>3, n \in 1..size[c]
  <2> QED BY <2>5, <2>6, <2>8, <2>10
<1>14. ASSUME NEW p \in placed
       PROVE  /\ p.lane <= p.lanes
              /\ p.lanes = Max({Cardinality(UnderWay(placed, q)) :
                                  q \in {r \in placed : r.cluster = p.cluster}})
              /\ (\A q \in placed : q # p => ~Meet(p.block, q.block)) => p.lanes = 1
  <2>1. PICK c \in 1..K : \E n \in 1..size[c] : p = At[c][n] BY <1>10
  <2>2. PICK n \in 1..size[c] : p = At[c][n] BY <2>1
  <2>3. PICK L \in Nat : L = lanes[c] BY <1>11
  <2>4. /\ p.block = cs[c][n] /\ p.cluster = c
        /\ p.lane = lane[c][n] /\ p.lanes = L
    BY <1>9, <2>2, <2>3
  <2>5. p.lane \in 1..L BY <1>11, <2>3, <2>4 DEF LanesServed
  <2>6. p.lane <= p.lanes BY <2>4, <2>5
  <2>7. PICK N : N = {Cardinality(UnderWay(placed, q)) :
                        q \in {r \in placed : r.cluster = p.cluster}}
    OBVIOUS
  <2>8. ASSUME NEW q \in placed, q.cluster = c
        PROVE  /\ Cardinality(UnderWay(placed, q)) \in 0..L
               /\ (\A l \in 1..L : \E u \in UnderWay(placed, q) : u.lane = l)
                    => Cardinality(UnderWay(placed, q)) = L
    <3>1. PICK U : U = UnderWay(placed, q) OBVIOUS
    <3>2. \A u \in U : /\ u \in placed /\ u.cluster = c
                       /\ From(u.block) <= From(q.block) /\ From(q.block) < To(u.block)
      BY <2>8, <3>1 DEF UnderWay
    <3>3. \A r \in placed : From(r.block) \in Int /\ To(r.block) \in Int
      <4>1. ASSUME NEW r \in placed PROVE From(r.block) \in Int /\ To(r.block) \in Int
        <5>1. PICK d \in 1..K : \E m \in 1..size[d] : r = At[d][m] BY <1>10
        <5>2. PICK m \in 1..size[d] : r = At[d][m] BY <5>1
        <5>3. r.block = cs[d][m] BY <1>9, <5>2
        <5> QED BY <1>12, <5>3
      <4> QED BY <4>1
    <3>4. ASSUME NEW u \in U, NEW v \in U, u.lane = v.lane PROVE u = v
      <4>1. Meet(u.block, v.block)
        <5>1. /\ From(u.block) \in Int /\ To(u.block) \in Int
              /\ From(v.block) \in Int /\ To(v.block) \in Int /\ From(q.block) \in Int
          BY <2>8, <3>2, <3>3
        <5> QED BY <3>2, <5>1 DEF Meet
      <4>2. u \in placed /\ v \in placed BY <3>2
      <4> QED BY <1>13, <3>4, <4>1, <4>2
    <3>5. ASSUME NEW u \in U PROVE u.lane \in 1..L
      <4>1. PICK d \in 1..K : \E m \in 1..size[d] : u = At[d][m] BY <1>10, <3>2
      <4>2. PICK m \in 1..size[d] : u = At[d][m] BY <4>1
      <4>3. u.cluster = d /\ u.lane = lane[d][m] BY <1>9, <4>2
      <4>4. d = c BY <3>2, <4>3
      <4> QED BY <1>11, <2>3, <4>3, <4>4 DEF LanesServed
    <3> QED BY <3>1, <3>4, <3>5, CountLanes
  <2>9. \E q \in placed : q.cluster = c /\ Cardinality(UnderWay(placed, q)) = L
    <3>1. size[c] \in Nat /\ size[c] > 0 BY <1>4, <2>2
    <3>2. PICK j \in 1..size[c] : \A l \in 1..L : \E k \in 1..size[c] :
                   /\ lane[c][k] = l /\ From(cs[c][k]) <= From(cs[c][j])
                   /\ From(cs[c][j]) < To(cs[c][k])
      BY <1>11, <2>3, <3>1 DEF LanesServed
    <3>3. PICK q \in placed : q = At[c][j] /\ q.block = cs[c][j] /\ q.cluster = c BY <1>9
    <3>4. ASSUME NEW l \in 1..L PROVE \E u \in UnderWay(placed, q) : u.lane = l
      <4>1. PICK k \in 1..size[c] : /\ lane[c][k] = l /\ From(cs[c][k]) <= From(cs[c][j])
                                    /\ From(cs[c][j]) < To(cs[c][k])
        BY <3>2
      <4>2. PICK u \in placed : u.block = cs[c][k] /\ u.cluster = c /\ u.lane = lane[c][k]
        BY <1>9
      <4>3. u \in UnderWay(placed, q) BY <3>3, <4>1, <4>2 DEF UnderWay
      <4> QED BY <4>1, <4>2, <4>3
    <3>5. Cardinality(UnderWay(placed, q)) = L BY <2>8, <3>3, <3>4
    <3> QED BY <3>3, <3>5
  <2>10. N \in SUBSET (0..L) /\ L \in N
    <3>1. \A x \in N : x \in 0..L BY <2>4, <2>7, <2>8
    <3>2. L \in N BY <2>4, <2>7, <2>9
    <3> QED BY <3>1, <3>2
  <2>11. Max(N) = L
    <3>1. Max(N) \in N /\ \A x \in N : x <= Max(N) BY <2>10, LargestIs
    <3>2. Max(N) \in 0..L /\ L <= Max(N) BY <2>10, <3>1
    <3> QED BY <3>2
  <2>12. ASSUME \A q \in placed : q # p => ~Meet(p.block, q.block) PROVE L = 1
    <3>1. ASSUME NEW k \in 1..size[c], k # n PROVE ~Meet(cs[c][n], cs[c][k])
      <4> SUFFICES ASSUME Meet(cs[c][n], cs[c][k]) PROVE FALSE OBVIOUS
      <4>1. lane[c][n] # lane[c][k] BY <1>11, <3>1 DEF LanesServed
      <4>2. PICK q \in placed : q.block = cs[c][k] /\ q.lane = lane[c][k] BY <1>9
      <4>3. q # p BY <2>4, <4>1, <4>2
      <4> QED BY <2>4, <2>12, <4>2, <4>3
    <3>2. size[c] = 1 BY <1>11, <3>1 DEF LanesServed
    <3>3. PICK j \in 1..1 : \A l \in 1..L : \E k \in 1..1 : lane[c][k] = l
      BY <1>11, <2>3, <3>2 DEF LanesServed
    <3>4. \A l \in 1..L : lane[c][1] = l BY <3>3
    <3>5. n = 1 /\ lane[c][1] \in 1..L BY <1>11, <2>3, <3>2 DEF LanesServed
    <3>6. 1 \in 1..L /\ L \in 1..L BY <3>5
    <3>7. 1 = L BY <3>4, <3>6
    <3> QED BY <3>7
  <2> QED BY <2>4, <2>6, <2>7, <2>11, <2>12
<1> QED BY <1>7, <1>13, <1>14 DEF LaidOutSideBySide

-----------------------------------------------------------------------------
(* The grid while the page changes                                         *)

GridInv ==
    /\ GridRows
    /\ gridDays \in SUBSET Int
    /\ availability \in Open

LEMMA GridBegins == Init => GridInv
<1> SUFFICES ASSUME Init PROVE GridInv OBVIOUS
<1>1. GridInit BY DEF Init
<1>2. GridWeek \in Int /\ GridDay \in Int BY GridAssumption
<1>3. WeekDays \in SUBSET Int /\ {GridDay} \in SUBSET Int BY <1>2 DEF WeekDays
<1>4. <<>> \in Seq(Stretches) OBVIOUS
<1> QED BY <1>1, <1>3, <1>4 DEF GridInit, GridInv, GridRows

LEMMA GridStep == GridInv /\ [Next]_allVars => GridInv'
<1> SUFFICES ASSUME GridInv, [Next]_allVars PROVE GridInv' OBVIOUS
<1>1. CASE UNCHANGED gridVars BY <1>1 DEF GridInv, GridRows, gridVars
<1>2. CASE GridNext
  <2>1. CASE BlockAppears
    <3>1. UNCHANGED <<gridDays, availability>> BY <2>1 DEF BlockAppears
    <3>2. PICK s \in Stretches : blocks' = Append(blocks, s) BY <2>1 DEF BlockAppears
    <3>3. blocks' \in Seq(Stretches) BY <3>2 DEF GridInv, GridRows
    <3> QED BY <3>1, <3>3 DEF GridInv, GridRows
  <2>2. CASE BlockGoes
    <3>1. UNCHANGED <<gridDays, availability>> BY <2>2 DEF BlockGoes
    <3>2. PICK i \in DOMAIN blocks : blocks' = RemoveAt(blocks, i) BY <2>2 DEF BlockGoes
    <3>3. PICK b \in Seq(Stretches) : b = blocks BY DEF GridInv, GridRows
    <3>4. i \in 1..Len(b) BY <3>2, <3>3
    <3>5. SubSeq(b, 1, i - 1) \in Seq(Stretches) /\ SubSeq(b, i + 1, Len(b)) \in Seq(Stretches)
      BY <3>3, <3>4
    <3>6. RemoveAt(b, i) \in Seq(Stretches) BY <3>5 DEF RemoveAt
    <3>7. blocks' \in Seq(Stretches) BY <3>2, <3>3, <3>6
    <3> QED BY <3>1, <3>7 DEF GridInv, GridRows
  <2>3. CASE HoursChange BY <2>3 DEF HoursChange, GridInv, GridRows
  <2> QED BY <1>2, <2>1, <2>2, <2>3 DEF GridNext
<1>3. UNCHANGED gridVars \/ GridNext
  <2>1. CASE UNCHANGED allVars BY <2>1 DEF allVars
  <2>2. CASE Next BY <2>2 DEF Next, OnGrid
  <2> QED BY <2>1, <2>2
<1> QED BY <1>1, <1>2, <1>3

LEMMA ColumnsRead ==
    ASSUME GridInv
    PROVE  ColumnsCanBeRead
<1>1. GridRows /\ availability \in Open BY DEF GridInv
<1>2. PICK a, b \in Nat : /\ StartMinute = 60 * a /\ EndMinute = 60 * b
                          /\ a < b /\ b <= 24 /\ Span = 60 * (b - a)
                          /\ \A i \in DOMAIN blocks :
                               /\ 60 * a <= From(i)
                               /\ To(i) <= 60 * b \/ To(i) > 1440
  BY <1>1, GridSpans
<1>3. PICK start \in Int, end \in Int : start = StartMinute /\ end = EndMinute BY <1>2
<1>4. Composed = {m \in HalfHours : start <= m /\ m < end}
  <2>1. Composed = {m \in HalfHours : 60 * a <= m /\ m < 60 * b} BY <1>2, CellsCompose
  <2> QED BY <1>2, <1>3, <2>1
<1>5. \A i \in DOMAIN blocks : start <= From(i) /\ (To(i) <= end \/ To(i) > 1440)
  BY <1>2, <1>3
<1>6. ASSUME NEW day \in gridDays PROVE LaidOutSideBySide(Layout(day))
  BY <1>1, SideBySide
<1>7. ASSUME NEW day \in gridDays, NEW m \in Composed
      PROVE  Shaded(day, m) <=> \E c \in OutsideHours(day) : c.from <= m /\ m < c.to
  <2>1. day \in Int BY DEF GridInv
  <2>2. m \in HalfHours /\ start <= m /\ m < end BY <1>4
  <2>3. m \in Nat BY <2>2 DEF HalfHours
  <2>4. m < 1440 BY <1>2, <1>3, <2>2, <2>3
  <2> QED BY <1>1, <1>3, <2>1, <2>2, <2>3, <2>4, BandsShade
<1> QED BY <1>3, <1>4, <1>5, <1>6, <1>7 DEF ColumnsCanBeRead, Composed

\* A column can be read, whatever occurrences a page brings and whatever hours
\* the owner keeps: its blocks lie side by side, in no more lanes than are
\* needed, inside the grid; what is shaded is what the hours leave out; and an
\* empty cell composes at a time it is drawn at.
THEOREM ColumnsAlwaysRead == Spec => []ColumnsCanBeRead
BY GridBegins, GridStep, ColumnsRead, PTL DEF Spec

-----------------------------------------------------------------------------
(* Easter                                                                  *)

\* Easter Sunday and the Paschal moon as days of March.
LEMMA EasterIs ==
    ASSUME NEW year \in Int
    PROVE  /\ EasterSunday(year) = Paschal(year) + 7 - (Weekday(Paschal(year)) % 7)
           /\ Date(year, 3, 1) \in Int /\ EasterSunday(year) \in Int
           /\ EasterSunday(year) - Date(year, 3, 1) \in 21..55
<1>1. PICK b \in Int, c \in 0..99 : b = year \div 100 /\ c = year % 100 /\ year = 100 * b + c
  OBVIOUS
<1>2. PICK p \in Int, r \in 0..3 : p = b \div 4 /\ r = b % 4 /\ b = 4 * p + r OBVIOUS
<1>3. PICK q \in Int, k \in 0..3 : q = c \div 4 /\ k = c % 4 /\ c = 4 * q + k OBVIOUS
<1>4. PICK a \in 0..18 : a = year % 19 OBVIOUS
<1>5. PICK march \in Int :
        /\ march = Date(year, 3, 1)
        /\ march = 365 * (year - 1970) + 24 * b + q + p - 418
        /\ \A d \in Int : Date(year, 3, d) = march + d - 1
        /\ \A d \in Int : Date(year, 4, d) = march + 30 + d
  <2>1. LeapsBefore(year + 1) = 24 * b + q + p
    <3>1. year \div 4 = 25 * b + q BY <1>1, <1>3
    <3>2. year \div 400 = p BY <1>1, <1>2
    <3> QED BY <1>1, <3>1, <3>2 DEF LeapsBefore
  <2>2. LeapsBefore(1970) = 477 BY DEF LeapsBefore
  <2>3. PICK f \in Int : f = LeapsBefore(year) BY DEF LeapsBefore
  <2>4. LeapsBefore(year + 1) - f \in {0, 1} BY <2>3 DEF LeapsBefore
  <2>5. YearFirst(year) = 365 * (year - 1970) + f - 477 BY <2>2, <2>3 DEF YearFirst
  <2>6. IsLeap(year) <=> LeapsBefore(year + 1) > f BY <2>3 DEF IsLeap
  <2>7. YearFirst(year) + (IF IsLeap(year) THEN 1 ELSE 0) = 365 * (year - 1970) + 24 * b + q + p - 477
    BY <2>1, <2>3, <2>4, <2>5, <2>6
  <2>8. DaysBefore[3] = 59 /\ DaysBefore[4] = 90 BY DEF DaysBefore
  <2>9. PICK e \in Int : e = YearFirst(year) BY <2>3, <2>5
  <2>10. PICK j \in {0, 1} : j = IF IsLeap(year) THEN 1 ELSE 0 OBVIOUS
  <2>11. \A d \in Int : Date(year, 3, d) = e + 59 + d - 1 + j /\ Date(year, 4, d) = e + 90 + d - 1 + j
    BY <2>8, <2>9, <2>10 DEF Date
  <2>12. e + j = 365 * (year - 1970) + 24 * b + q + p - 477 BY <2>7, <2>9, <2>10
  <2> QED BY <2>11, <2>12
<1>6. PICK g \in Int : g = (b - (b + 8) \div 25 + 1) \div 3 OBVIOUS
<1>7. PICK h \in 0..29 : h = (19 * a + b - p - g + 15) % 30 OBVIOUS
<1>8. PICK l \in 0..6 : l = (32 + 2 * r + 2 * q - h - k) % 7 OBVIOUS
<1>9. PICK m \in Int : m = (a + 11 * h + 22 * l) \div 451 OBVIOUS
<1>10. m = IF l = 6 /\ (h = 29 \/ (h = 28 /\ a > 10)) THEN 1 ELSE 0
  BY <1>9
<1>11. PICK n \in 114..149 : n = h + l - 7 * m + 114
  BY <1>10
<1>12. EasterSunday(year) = march + n - 93
  <2>1. EasterSunday(year) = Date(year, n \div 31, (n % 31) + 1)
    <3>1. EasterSunday(year) =
            LET g1 == (b - (b + 8) \div 25 + 1) \div 3
                h1 == (19 * a + b - b \div 4 - g1 + 15) % 30
                l1 == (32 + 2 * (b % 4) + 2 * (c \div 4) - h1 - (c % 4)) % 7
                n1 == h1 + l1 - 7 * ((a + 11 * h1 + 22 * l1) \div 451) + 114
            IN  Date(year, n1 \div 31, (n1 % 31) + 1)
      BY <1>1, <1>4 DEF EasterSunday
    <3>2. (19 * a + b - b \div 4 - ((b - (b + 8) \div 25 + 1) \div 3) + 15) % 30 = h
      BY <1>2, <1>6, <1>7
    <3>3. (32 + 2 * (b % 4) + 2 * (c \div 4) - h - (c % 4)) % 7 = l BY <1>2, <1>3, <1>8
    <3>4. h + l - 7 * ((a + 11 * h + 22 * l) \div 451) + 114 = n BY <1>9, <1>11
    <3> QED BY <3>1, <3>2, <3>3, <3>4
  <2>2. CASE n < 124
    <3>1. n \div 31 = 3 /\ n % 31 = n - 93 BY <2>2
    <3> QED BY <1>5, <2>1, <3>1
  <2>3. CASE n >= 124
    <3>1. n \div 31 = 4 /\ n % 31 = n - 124 BY <2>3
    <3> QED BY <1>5, <2>1, <3>1
  <2> QED BY <2>2, <2>3
<1>13. n - 93 \in 21..55 BY <1>10, <1>11
<1>14. Paschal(year) = march + 20 + h - (IF h = 29 \/ (h = 28 /\ a > 10) THEN 1 ELSE 0)
  <2>1. PICK leaps \in Int : leaps = (3 * (b + 1)) \div 4 - 12 /\ leaps = b - p - 12 BY <1>2
  <2>2. PICK moon \in Int : moon = (8 * (b + 1) + 5) \div 25 - 5 /\ moon = g - 5 BY <1>6
  <2>3. PICK raw \in 0..29 : raw = (11 * (a + 1) + 20 + moon - leaps) % 30 OBVIOUS
  <2>4. raw = IF h <= 23 THEN 23 - h ELSE 53 - h BY <1>7, <2>1, <2>2, <2>3
  <2>5. PICK epact \in 0..30 : epact = IF raw = 24 \/ (raw = 25 /\ a + 1 > 11) THEN raw + 1 ELSE raw
    OBVIOUS
  <2>6. PICK full \in Int : full = IF 44 - epact < 21 THEN 74 - epact ELSE 44 - epact OBVIOUS
  <2>7. full = 21 + h - (IF h = 29 \/ (h = 28 /\ a > 10) THEN 1 ELSE 0)
    BY <2>4, <2>5, <2>6
  <2>8. Paschal(year) = march + full - 1
    <3>1. Paschal(year) =
            LET leaps1 == (3 * (b + 1)) \div 4 - 12
                moon1 == (8 * (b + 1) + 5) \div 25 - 5
                raw1 == (11 * (a + 1) + 20 + moon1 - leaps1) % 30
                epact1 == IF raw1 = 24 \/ (raw1 = 25 /\ a + 1 > 11) THEN raw1 + 1 ELSE raw1
                full1 == IF 44 - epact1 < 21 THEN 74 - epact1 ELSE 44 - epact1
            IN  march + full1 - 1
      BY <1>1, <1>4, <1>5 DEF Paschal
    <3>2. (11 * (a + 1) + 20 + ((8 * (b + 1) + 5) \div 25 - 5) - ((3 * (b + 1)) \div 4 - 12)) % 30 = raw
      BY <2>1, <2>2, <2>3
    <3> QED BY <2>5, <2>6, <3>1, <3>2
  <2> QED BY <2>7, <2>8
<1>15. (march + 21 + h + l + 3) % 7 = 6
  <2>1. PICK t \in Int : /\ t = (32 + 2 * r + 2 * q - h - k) \div 7
                         /\ 32 + 2 * r + 2 * q - h - k = 7 * t + l
    BY <1>8
  <2>2. year = 400 * p + 100 * r + 4 * q + k /\ b = 4 * p + r BY <1>1, <1>2, <1>3
  <2>3. march = 146097 * p + 36524 * r + 1461 * q + 365 * k - 719468 BY <1>5, <2>2
  <2>4. h + l = 32 + 2 * r + 2 * q - k - 7 * t BY <2>1
  <2>5. march + 21 + h + l + 3 =
          7 * (20871 * p + 5218 * r + 209 * q + 52 * k - t - 102774) + 6
    BY <2>3, <2>4
  <2> QED BY <2>5
<1>16. PICK moon \in Int : moon = Paschal(year) BY <1>14
<1>17. Weekday(moon) = 1 + ((moon + 3) % 7) BY DEF Weekday
<1>18. march + n - 93 = moon + 7 - (Weekday(moon) % 7)
  BY <1>10, <1>11, <1>14, <1>15, <1>16, <1>17
<1> QED BY <1>5, <1>12, <1>13, <1>16, <1>18

-----------------------------------------------------------------------------
(* Dates: what BrowserProofs shows of them, as far as the holidays need it *)

\* A year has 365 days or 366.
LEMMA YearLasts ==
    ASSUME NEW y \in Int
    PROVE  /\ YearFirst(y) \in Int
           /\ YearFirst(y + 1) = YearFirst(y) + (IF IsLeap(y) THEN 366 ELSE 365)
<1>1. PICK a \in Int, b \in Int, c \in Int :
        a = LeapsBefore(y) /\ b = LeapsBefore(y + 1) /\ c = LeapsBefore(1970)
  BY DEF LeapsBefore
<1>2. b - a \in {0, 1} BY <1>1 DEF LeapsBefore
<1>3. YearFirst(y) = 365 * (y - 1970) + a - c /\ YearFirst(y + 1) = 365 * (y + 1 - 1970) + b - c
  BY <1>1 DEF YearFirst
<1>4. IsLeap(y) <=> b > a BY <1>1 DEF IsLeap
<1> QED BY <1>1, <1>2, <1>3, <1>4

\* A date is in its year.
LEMMA YearIs ==
    ASSUME NEW date \in Int
    PROVE  /\ YearOf(date) \in Int
           /\ YearFirst(YearOf(date)) <= date /\ date < YearFirst(YearOf(date) + 1)
<1>1. PICK g \in Int : /\ g = (400 * (date - 2)) \div 146097
                       /\ 146097 * g <= 400 * (date - 2) /\ 400 * (date - 2) < 146097 * g + 146097
  OBVIOUS
<1>2. YearFirst(1970 + g) <= date /\ date < YearFirst(1970 + g + 2)
  <2>1. YearFirst(1970 + g) <= date
    BY <1>1 DEF YearFirst, LeapsBefore
  <2>2. date < YearFirst(1970 + g + 2)
    BY <1>1 DEF YearFirst, LeapsBefore
  <2> QED BY <2>1, <2>2
<1>3. YearOf(date) = IF YearFirst(1970 + g + 1) <= date THEN 1970 + g + 1 ELSE 1970 + g
  BY <1>1 DEF YearOf
<1>4. YearFirst(1970 + g + 1) \in Int BY YearLasts
<1> QED BY <1>2, <1>3, <1>4

\* Years follow each other, and a date is in one of them.
LEMMA YearsFollow ==
    ASSUME NEW y \in Int, NEW z \in Int, y < z
    PROVE  YearFirst(y + 1) <= YearFirst(z)
BY DEF YearFirst, LeapsBefore

\* A date is in no other year.
LEMMA YearFound ==
    ASSUME NEW date \in Int, NEW y \in Int, YearFirst(y) <= date, date < YearFirst(y + 1)
    PROVE  YearOf(date) = y
<1>1. PICK z \in Int : z = YearOf(date) /\ YearFirst(z) <= date /\ date < YearFirst(z + 1)
  BY YearIs
<1>2. YearFirst(y) \in Int /\ YearFirst(y + 1) \in Int /\ YearFirst(z) \in Int /\ YearFirst(z + 1) \in Int
  <2>1. y + 1 \in Int /\ z + 1 \in Int OBVIOUS
  <2> QED BY <2>1, YearLasts
<1>3. ~(y < z) BY <1>1, <1>2, YearsFollow
<1>4. ~(z < y) BY <1>1, <1>2, YearsFollow
<1> QED BY <1>1, <1>3, <1>4

\* The days of a year, month by month.
LEMMA MonthStarts ==
    /\ DaysBefore[1] = 0 /\ DaysBefore[2] = 31 /\ DaysBefore[3] = 59 /\ DaysBefore[4] = 90
    /\ DaysBefore[5] = 120 /\ DaysBefore[6] = 151 /\ DaysBefore[7] = 181 /\ DaysBefore[8] = 212
    /\ DaysBefore[9] = 243 /\ DaysBefore[10] = 273 /\ DaysBefore[11] = 304 /\ DaysBefore[12] = 334
BY DEF DaysBefore

\* A date is counted from the first of its year.
LEMMA DateIs ==
    ASSUME NEW y \in Int
    PROVE  \E a \in Int, leap \in {0, 1} :
             /\ a = YearFirst(y) /\ YearFirst(y + 1) = a + 365 + leap
             /\ \A k \in 1..12, d \in Int :
                  Date(y, k, d) = a + DaysBefore[k] + d - 1 + (IF k > 2 THEN leap ELSE 0)
<1>1. PICK leap \in {0, 1} : leap = IF IsLeap(y) THEN 1 ELSE 0 OBVIOUS
<1>2. PICK a \in Int : a = YearFirst(y) /\ YearFirst(y + 1) = a + 365 + leap
  BY <1>1, YearLasts
<1>3. \A k \in 1..12 : DaysBefore[k] \in Int BY DEF DaysBefore
<1>4. ASSUME NEW k \in 1..12, NEW d \in Int
      PROVE  Date(y, k, d) = a + DaysBefore[k] + d - 1 + (IF k > 2 THEN leap ELSE 0)
  <2>1. PICK b \in Int : b = DaysBefore[k] BY <1>3
  <2> QED BY <1>1, <1>2, <2>1 DEF Date
<1> QED BY <1>2, <1>4

\* The month of a date begins at most a month before it.
LEMMA MonthBegins ==
    ASSUME NEW date \in Int
    PROVE  MonthFirst(date) \in date - 30..date
<1>1. PICK y \in Int : y = YearOf(date) /\ YearFirst(y) <= date /\ date < YearFirst(y + 1)
  BY YearIs
<1>2. PICK a \in Int, leap \in {0, 1} :
        /\ a = YearFirst(y) /\ YearFirst(y + 1) = a + 365 + leap
        /\ \A k \in 1..12, d \in Int :
             Date(y, k, d) = a + DaysBefore[k] + d - 1 + (IF k > 2 THEN leap ELSE 0)
  BY DateIs
<1>3. PICK g \in 1..12 : /\ g = 1 + (date - a) \div 32
                         /\ 32 * (g - 1) <= date - a /\ date - a < 32 * g
  BY <1>1, <1>2
<1>4. MonthOf(date) = IF g < 12 /\ Date(y, g + 1, 1) <= date THEN g + 1 ELSE g
  BY <1>1, <1>2, <1>3 DEF MonthOf
<1>5. PICK first \in [1..12 -> Int] :
        first = [k \in 1..12 |-> a + DaysBefore[k] + (IF k > 2 THEN leap ELSE 0)]
  <2>1. ASSUME NEW k \in 1..12 PROVE a + DaysBefore[k] + (IF k > 2 THEN leap ELSE 0) \in Int
    <3>1. DaysBefore[k] \in Int BY DEF DaysBefore
    <3> QED BY <3>1
  <2> QED BY <2>1
<1>6. \A k \in 1..12 : Date(y, k, 1) = first[k]
  <2> SUFFICES ASSUME NEW k \in 1..12 PROVE Date(y, k, 1) = first[k] OBVIOUS
  <2>1. DaysBefore[k] \in Int BY DEF DaysBefore
  <2>2. Date(y, k, 1) = a + DaysBefore[k] + 1 - 1 + (IF k > 2 THEN leap ELSE 0) BY <1>2
  <2> QED BY <1>5, <2>1, <2>2
<1>7. /\ first[1] = a /\ first[2] = a + 31
      /\ first[3] = a + leap + 59 /\ first[4] = a + leap + 90
      /\ first[5] = a + leap + 120 /\ first[6] = a + leap + 151
      /\ first[7] = a + leap + 181 /\ first[8] = a + leap + 212
      /\ first[9] = a + leap + 243 /\ first[10] = a + leap + 273
      /\ first[11] = a + leap + 304 /\ first[12] = a + leap + 334
  BY <1>5, MonthStarts
<1>8. MonthFirst(date) = IF g < 12 /\ first[g + 1] <= date THEN first[g + 1] ELSE first[g]
  <2>1. MonthFirst(date) = Date(y, MonthOf(date), 1) BY <1>1 DEF MonthFirst
  <2>2. g < 12 => g + 1 \in 1..12 BY <1>3
  <2> QED BY <1>3, <1>4, <1>6, <2>1, <2>2
<1>9. /\ first[g] <= date
      /\ g < 12 => first[g + 1] \in Int /\ first[g + 1] <= first[g] + 31 /\ date <= first[g + 1] + 30
      /\ g = 12 => date <= first[g] + 30
  BY <1>1, <1>2, <1>3, <1>7
<1> QED BY <1>3, <1>5, <1>8, <1>9

\* The last days of the three months whose last Monday is a holiday.
LEMMA MonthEnds ==
    ASSUME NEW y \in Int, NEW m \in {5, 8, 10}
    PROVE  MonthLast(Date(y, m, 1)) = Date(y, m, 31)
<1>1. PICK a \in Int, leap \in {0, 1} :
        /\ a = YearFirst(y) /\ YearFirst(y + 1) = a + 365 + leap
        /\ \A k \in 1..12, d \in Int :
             Date(y, k, d) = a + DaysBefore[k] + d - 1 + (IF k > 2 THEN leap ELSE 0)
  BY DateIs
<1>2. PICK first \in 0..365 :
        /\ first = leap + (IF m = 5 THEN 120 ELSE IF m = 8 THEN 212 ELSE 273)
        /\ m - 2 = first \div 32
  OBVIOUS
<1>3. /\ Date(y, m, 1) = a + first /\ Date(y, m + 1, 1) = a + first + 31
      /\ Date(y, m, 31) = a + first + 30
  <2>1. \A k \in 3..12, d \in Int : Date(y, k, d) = a + DaysBefore[k] + d - 1 + leap BY <1>1
  <2>2. CASE m = 5 BY <1>2, <2>1, <2>2, MonthStarts
  <2>3. CASE m = 8 BY <1>2, <2>1, <2>3, MonthStarts
  <2>4. CASE m = 10 BY <1>2, <2>1, <2>4, MonthStarts
  <2> QED BY <2>2, <2>3, <2>4
<1>4. PICK date \in Int : date = Date(y, m, 1) /\ date = a + first BY <1>3
<1>5. YearOf(date) = y BY <1>1, <1>2, <1>4, YearFound
<1>6. MonthOf(date) = m
  <2>1. date - YearFirst(y) = first BY <1>1, <1>4
  <2>2. 1 + (date - YearFirst(y)) \div 32 = m - 1 BY <1>2, <2>1
  <2>3. m - 1 + 1 = m /\ m - 1 < 12 BY <1>2
  <2> QED BY <1>4, <1>5, <2>2, <2>3 DEF MonthOf
<1>7. MonthsAway(date, 1) = Date(y, m + 1, 1)
  <2>1. PICK t \in Int : t = 12 * y + m - 1 + 1 OBVIOUS
  <2>2. t \div 12 = y /\ (t % 12) + 1 = m + 1 BY <2>1
  <2> QED BY <1>5, <1>6, <2>1, <2>2 DEF MonthsAway
<1> QED BY <1>3, <1>4, <1>7 DEF MonthLast

-----------------------------------------------------------------------------
(* Rules: where in the year a holiday falls                                *)

\* The years that matter: 1970, and two before it.
Years == {y \in Int : y >= 1968}

\* Counted from 1 January, in a leap year and in any other.
Between(s, lo, hi) ==
    \A y \in Years : Applies(s, y) =>
       Resolve(s, y) \in Int /\ YearFirst(y) + lo <= Resolve(s, y) /\ Resolve(s, y) <= YearFirst(y) + hi

InYear(s) ==
    \A y \in Years : Applies(s, y) =>
       Resolve(s, y) \in Int /\ YearFirst(y) <= Resolve(s, y) /\ Resolve(s, y) < YearFirst(y + 1)

\* What is between two such days is in the year.
LEMMA Nearer ==
    ASSUME NEW s, NEW lo \in Int, NEW hi \in Int, 0 <= lo, hi <= 364, Between(s, lo, hi)
    PROVE  InYear(s)
<1> SUFFICES ASSUME NEW y \in Years, Applies(s, y)
             PROVE  /\ Resolve(s, y) \in Int /\ YearFirst(y) <= Resolve(s, y)
                    /\ Resolve(s, y) < YearFirst(y + 1)
  BY DEF InYear
<1>1. y \in Int BY DEF Years
<1>2. YearFirst(y) \in Int /\ YearFirst(y + 1) >= YearFirst(y) + 365 BY <1>1, YearLasts
<1>3. YearFirst(y + 1) \in Int BY <1>1, YearLasts
<1>4. /\ Resolve(s, y) \in Int /\ YearFirst(y) + lo <= Resolve(s, y)
      /\ Resolve(s, y) <= YearFirst(y) + hi
  BY DEF Between
<1> QED BY <1>2, <1>3, <1>4

\* A day of a month, and a week of one.
LEMMA DayInYear ==
    ASSUME NEW y \in Int, NEW m \in 1..12
    PROVE  /\ YearFirst(y) \in Int /\ DaysBefore[m] \in Int
           /\ \A d \in Int : /\ Date(y, m, d) \in Int
                             /\ YearFirst(y) + DaysBefore[m] + d - 1 <= Date(y, m, d)
                             /\ Date(y, m, d) <= YearFirst(y) + DaysBefore[m] + d
                             /\ m <= 2 => Date(y, m, d) = YearFirst(y) + DaysBefore[m] + d - 1
<1>1. PICK a \in Int, leap \in {0, 1} :
        /\ a = YearFirst(y) /\ YearFirst(y + 1) = a + 365 + leap
        /\ \A k \in 1..12, d \in Int :
             Date(y, k, d) = a + DaysBefore[k] + d - 1 + (IF k > 2 THEN leap ELSE 0)
  BY DateIs
<1>2. PICK b \in Int : b = DaysBefore[m] BY DEF DaysBefore
<1>3. ASSUME NEW d \in Int
      PROVE  /\ Date(y, m, d) \in Int
             /\ a + b + d - 1 <= Date(y, m, d) /\ Date(y, m, d) <= a + b + d
             /\ m <= 2 => Date(y, m, d) = a + b + d - 1
  <2>1. Date(y, m, d) = a + b + d - 1 + (IF m > 2 THEN leap ELSE 0) BY <1>1, <1>2
  <2> QED BY <2>1
<1> QED BY <1>1, <1>2, <1>3

\* A day of a month is one of two in the year, and one before March.
LEMMA FixedIn ==
    ASSUME NEW s, NEW m \in 1..12, NEW d \in 1..31, s.rule = On(m, d)
    PROVE  /\ \A y : Resolve(s, y) = Date(y, m, d)
           /\ Between(s, DaysBefore[m] + d - 1, DaysBefore[m] + d)
           /\ m <= 2 => Between(s, DaysBefore[m] + d - 1, DaysBefore[m] + d - 1)
<1>1. s.rule.on = "fixed" /\ s.rule.month = m /\ s.rule.day = d BY DEF On
<1>2. \A y : Resolve(s, y) = Date(y, m, d) BY <1>1 DEF Resolve
<1>3. PICK b \in Int : b = DaysBefore[m] BY DEF DaysBefore
<1>4. ASSUME NEW y \in Years
      PROVE  /\ Resolve(s, y) \in Int
             /\ YearFirst(y) + (b + d - 1) <= Resolve(s, y)
             /\ Resolve(s, y) <= YearFirst(y) + (b + d)
             /\ m <= 2 => Resolve(s, y) <= YearFirst(y) + (b + d - 1)
  <2>1. y \in Int BY DEF Years
  <2>2. /\ YearFirst(y) \in Int /\ Date(y, m, d) \in Int
        /\ YearFirst(y) + b + d - 1 <= Date(y, m, d)
        /\ Date(y, m, d) <= YearFirst(y) + b + d
        /\ m <= 2 => Date(y, m, d) = YearFirst(y) + b + d - 1
    <3>1. d \in Int OBVIOUS
    <3>2. YearFirst(y) \in Int BY <2>1, DayInYear
    <3>3. \A e \in Int : /\ Date(y, m, e) \in Int
                         /\ YearFirst(y) + DaysBefore[m] + e - 1 <= Date(y, m, e)
                         /\ Date(y, m, e) <= YearFirst(y) + DaysBefore[m] + e
                         /\ m <= 2 => Date(y, m, e) = YearFirst(y) + DaysBefore[m] + e - 1
      BY <2>1, DayInYear
    <3> QED BY <1>3, <3>1, <3>2, <3>3
  <2> QED BY <1>2, <2>2
<1>5. Between(s, b + d - 1, b + d) /\ (m <= 2 => Between(s, b + d - 1, b + d - 1))
  BY <1>4 DEF Between
<1> QED BY <1>2, <1>3, <1>5

\* The n-th weekday w of a month is in its n-th week.
LEMMA NthIn ==
    ASSUME NEW s, NEW m \in 1..12, NEW w \in 1..7, NEW n \in 1..5, s.rule = Nth(m, w, n),
           s.name # "StBrigidsDay"
    PROVE  Between(s, DaysBefore[m] + 7 * (n - 1), DaysBefore[m] + 7 * n)
<1>1. s.rule.on = "nth-weekday" /\ s.rule.month = m /\ s.rule.weekday = w /\ s.rule.nth = n
  BY DEF Nth
<1>2. \A y : Resolve(s, y) = NthWeekday(y, m, w, n) BY <1>1 DEF Resolve
<1>3. PICK b \in Int : b = DaysBefore[m] BY DEF DaysBefore
<1>4. ASSUME NEW y \in Years
      PROVE  /\ Resolve(s, y) \in Int
             /\ YearFirst(y) + (b + 7 * (n - 1)) <= Resolve(s, y)
             /\ Resolve(s, y) <= YearFirst(y) + (b + 7 * n)
  <2>1. y \in Int BY DEF Years
  <2>2. PICK a \in Int, first \in Int :
          /\ a = YearFirst(y) /\ first = Date(y, m, 1)
          /\ a + b <= first /\ first <= a + b + 1
    <3>1. 1 \in Int OBVIOUS
    <3>2. /\ YearFirst(y) \in Int /\ Date(y, m, 1) \in Int
          /\ YearFirst(y) + b + 1 - 1 <= Date(y, m, 1) /\ Date(y, m, 1) <= YearFirst(y) + b + 1
      BY <1>3, <2>1, <3>1, DayInYear
    <3> QED BY <3>2
  <2>3. NthWeekday(y, m, w, n) = first + ((w - Weekday(first)) % 7) + 7 * (n - 1)
    BY <2>2 DEF NthWeekday
  <2>4. PICK v \in 0..6 : v = (w - Weekday(first)) % 7
    <3>1. PICK u \in 1..7 : u = Weekday(first) BY <2>2 DEF Weekday
    <3> QED BY <3>1
  <2> QED BY <1>2, <2>2, <2>3, <2>4
<1>5. Between(s, b + 7 * (n - 1), b + 7 * n) BY <1>4 DEF Between
<1> QED BY <1>3, <1>5

\* The last one is in the last week.
LEMMA LastIn ==
    ASSUME NEW s, NEW m \in {5, 8, 10}, NEW w \in 1..7, s.rule = Nth(m, w, -1),
           s.name # "StBrigidsDay"
    PROVE  Between(s, DaysBefore[m] + 24, DaysBefore[m] + 31)
<1>1. s.rule.on = "nth-weekday" /\ s.rule.month = m /\ s.rule.weekday = w /\ s.rule.nth = -1
  BY DEF Nth
<1>2. \A y : Resolve(s, y) = NthWeekday(y, m, w, -1) BY <1>1 DEF Resolve
<1>3. PICK b \in Int : b = DaysBefore[m] BY DEF DaysBefore
<1>4. ASSUME NEW y \in Years
      PROVE  /\ Resolve(s, y) \in Int
             /\ YearFirst(y) + (b + 24) <= Resolve(s, y)
             /\ Resolve(s, y) <= YearFirst(y) + (b + 31)
  <2>1. y \in Int BY DEF Years
  <2>2. PICK a \in Int, last \in Int :
          /\ a = YearFirst(y) /\ last = Date(y, m, 31)
          /\ a + b + 30 <= last /\ last <= a + b + 31
    <3>1. 31 \in Int /\ m \in 1..12 OBVIOUS
    <3>2. /\ YearFirst(y) \in Int /\ Date(y, m, 31) \in Int
          /\ YearFirst(y) + b + 31 - 1 <= Date(y, m, 31) /\ Date(y, m, 31) <= YearFirst(y) + b + 31
      BY <1>3, <2>1, <3>1, DayInYear
    <3> QED BY <3>2
  <2>3. MonthLast(Date(y, m, 1)) = last BY <2>1, <2>2, MonthEnds
  <2>4. NthWeekday(y, m, w, -1) = last - ((Weekday(last) - w) % 7) - 7 * 0
    BY <2>3 DEF NthWeekday
  <2>5. PICK v \in 0..6 : v = (Weekday(last) - w) % 7
    <3>1. PICK u \in 1..7 : u = Weekday(last) BY <2>2 DEF Weekday
    <3> QED BY <3>1
  <2> QED BY <1>2, <2>2, <2>4, <2>5
<1>5. Between(s, b + 24, b + 31) BY <1>4 DEF Between
<1> QED BY <1>3, <1>5

\* The weekday on or before a day is in the week that ends on it.
LEMMA BeforeIn ==
    ASSUME NEW s, NEW m \in 1..12, NEW d \in 1..31, NEW w \in 1..7, s.rule = OnOrBefore(m, d, w)
    PROVE  Between(s, DaysBefore[m] + d - 7, DaysBefore[m] + d)
<1>1. s.rule.on = "weekday-on-or-before" /\ s.rule.month = m /\ s.rule.day = d /\ s.rule.weekday = w
  BY DEF OnOrBefore
<1>2. PICK b \in Int : b = DaysBefore[m] BY DEF DaysBefore
<1>3. ASSUME NEW y \in Years
      PROVE  /\ Resolve(s, y) \in Int
             /\ YearFirst(y) + (b + d - 7) <= Resolve(s, y)
             /\ Resolve(s, y) <= YearFirst(y) + (b + d)
  <2>1. y \in Int BY DEF Years
  <2>2. PICK a \in Int, day \in Int :
          /\ a = YearFirst(y) /\ day = Date(y, m, d)
          /\ a + b + d - 1 <= day /\ day <= a + b + d
    <3>1. d \in Int OBVIOUS
    <3> QED BY <1>2, <2>1, <3>1, DayInYear
  <2>3. Resolve(s, y) = day - ((Weekday(day) - w) % 7) BY <1>1, <2>2 DEF Resolve
  <2>4. PICK v \in 0..6 : v = (Weekday(day) - w) % 7
    <3>1. PICK u \in 1..7 : u = Weekday(day) BY <2>2 DEF Weekday
    <3> QED BY <3>1
  <2> QED BY <2>2, <2>3, <2>4
<1>4. Between(s, b + d - 7, b + d) BY <1>3 DEF Between
<1> QED BY <1>2, <1>4

\* Easter Sunday is from 22 March to 25 April.
LEMMA EasterIn ==
    ASSUME NEW s, NEW n \in Int, s.rule = Easter(n)
    PROVE  Between(s, 80 + n, 115 + n)
<1>1. s.rule.on = "easter" /\ s.rule.offset = n BY DEF Easter
<1>2. ASSUME NEW y \in Years
      PROVE  /\ Resolve(s, y) \in Int
             /\ YearFirst(y) + (80 + n) <= Resolve(s, y)
             /\ Resolve(s, y) <= YearFirst(y) + (115 + n)
  <2>1. y \in Int BY DEF Years
  <2>2. PICK a \in Int, march \in Int :
          a = YearFirst(y) /\ march = Date(y, 3, 1) /\ a + 59 <= march /\ march <= a + 60
    <3>1. 1 \in Int /\ 3 \in 1..12 OBVIOUS
    <3>2. DaysBefore[3] = 59 BY MonthStarts
    <3>3. YearFirst(y) \in Int BY <2>1, YearLasts
    <3>4. /\ Date(y, 3, 1) \in Int
          /\ YearFirst(y) + 59 + 1 - 1 <= Date(y, 3, 1) /\ Date(y, 3, 1) <= YearFirst(y) + 59 + 1
      <4>1. 3 \in 1..12 OBVIOUS
      <4>2. \A e \in Int : /\ Date(y, 3, e) \in Int
                           /\ YearFirst(y) + DaysBefore[3] + e - 1 <= Date(y, 3, e)
                           /\ Date(y, 3, e) <= YearFirst(y) + DaysBefore[3] + e
        BY <2>1, <4>1, DayInYear
      <4> QED BY <3>1, <3>2, <4>2
    <3> QED BY <3>3, <3>4
  <2>3. EasterSunday(y) - march \in 21..55 BY <2>1, <2>2, EasterIs
  <2>4. Resolve(s, y) = EasterSunday(y) + n BY <1>1 DEF Resolve
  <2>5. EasterSunday(y) \in Int BY <2>1, EasterIs
  <2> QED BY <2>2, <2>3, <2>4, <2>5
<1> QED BY <1>2 DEF Between

-----------------------------------------------------------------------------
(* The tables: what of a region's may fall close together                  *)

\* The first n rows of a table are those whose days matter, by their spots in the
\* year; the others are days nobody has off.  Of those that are moved off a
\* weekend, each has one neighbour at most within reach of its substitute.
Spaced(t, k, n, lo, hi, near) ==
    /\ k \in Nat /\ n \in 0..k /\ DOMAIN t = 1..k
    /\ \A j \in 1..k : InYear(t[j])
    /\ \A j \in 1..k : j > n => t[j].kind # "public" /\ t[j].weekend = "none"
    /\ \A j \in 1..n :
         /\ lo[j] \in 0..360 /\ hi[j] \in 0..360 /\ near[j] \in 0..n
         /\ t[j].kind = "public" => Between(t[j], lo[j], hi[j])
         /\ t[j].weekend \in {"none", "us", "forward"}
    /\ \A i \in 1..n : t[i].weekend # "none" =>
         /\ t[i].kind = "public"
         /\ t[i].weekend = "us" => near[i] = 0
         /\ \A j \in 1..n : j # i /\ j # near[i] /\ t[j].kind = "public" =>
              \/ hi[j] + 4 < lo[i]
              \/ hi[i] + 4 < lo[j]
              \/ t[j].weekend = "none" /\ t[i].weekend = "forward" /\ hi[j] <= lo[i]

\* The observances all regions have.
LEMMA CommonAre ==
    /\ CommonObservances \in Seq(Range(CommonObservances)) /\ Len(CommonObservances) = 6
    /\ \A j \in 1..6 : /\ CommonObservances[j].kind = "observance"
                       /\ CommonObservances[j].weekend = "none"
                       /\ InYear(CommonObservances[j])
<1>1. PICK c : c = CommonObservances OBVIOUS
<1>2. /\ Len(c) = 6
      /\ c[1] = Observance("ValentinesDay", On(2, 14)) /\ c[2] = Observance("EasterSunday", Easter(0))
      /\ c[3] = Observance("FathersDay", Nth(6, 7, 3)) /\ c[4] = Observance("Halloween", On(10, 31))
      /\ c[5] = Observance("ChristmasEve", On(12, 24)) /\ c[6] = Observance("NewYearsEve", On(12, 31))
  BY <1>1 DEF CommonObservances
<1>3. c \in Seq(Range(c)) /\ DOMAIN c = 1..6
  BY <1>1 DEF CommonObservances, Range
<1>4. ASSUME NEW name, NEW rule
      PROVE  /\ Observance(name, rule).name = name
             /\ Observance(name, rule).kind = "observance" /\ Observance(name, rule).weekend = "none"
             /\ Observance(name, rule).rule = rule
  BY DEF Observance, Spec0
<1>5. ASSUME NEW j \in 1..6 PROVE c[j].kind = "observance" /\ c[j].weekend = "none"
  BY <1>2, <1>4
<1>6. InYear(c[1])
  <2>1. c[1].rule = On(2, 14) BY <1>2, <1>4
  <2>2. Between(c[1], DaysBefore[2] + 14 - 1, DaysBefore[2] + 14) BY <2>1, FixedIn
  <2>3. Between(c[1], 44, 45) BY <2>2, MonthStarts
  <2> QED BY <2>3, Nearer
<1>7. InYear(c[2])
  <2>1. c[2].rule = Easter(0) BY <1>2, <1>4
  <2>2. Between(c[2], 80 + 0, 115 + 0) BY <2>1, EasterIn
  <2> QED BY <2>2, Nearer
<1>8. InYear(c[3])
  <2>1. c[3].rule = Nth(6, 7, 3) /\ c[3].name = "FathersDay" BY <1>2, <1>4
  <2>2. Between(c[3], DaysBefore[6] + 7 * (3 - 1), DaysBefore[6] + 7 * 3) BY <2>1, NthIn
  <2>3. Between(c[3], 165, 172) BY <2>2, MonthStarts
  <2> QED BY <2>3, Nearer
<1>9. InYear(c[4])
  <2>1. c[4].rule = On(10, 31) BY <1>2, <1>4
  <2>2. Between(c[4], DaysBefore[10] + 31 - 1, DaysBefore[10] + 31) BY <2>1, FixedIn
  <2>3. Between(c[4], 303, 304) BY <2>2, MonthStarts
  <2> QED BY <2>3, Nearer
<1>10. InYear(c[5])
  <2>1. c[5].rule = On(12, 24) BY <1>2, <1>4
  <2>2. Between(c[5], DaysBefore[12] + 24 - 1, DaysBefore[12] + 24) BY <2>1, FixedIn
  <2>3. Between(c[5], 357, 358) BY <2>2, MonthStarts
  <2> QED BY <2>3, Nearer
<1>11. InYear(c[6])
  <2>1. c[6].rule = On(12, 31) BY <1>2, <1>4
  <2>2. ASSUME NEW y \in Years
        PROVE  /\ Resolve(c[6], y) \in Int /\ YearFirst(y) <= Resolve(c[6], y)
               /\ Resolve(c[6], y) < YearFirst(y + 1)
    <3>1. y \in Int BY DEF Years
    <3>2. PICK a \in Int, leap \in {0, 1} :
            /\ a = YearFirst(y) /\ YearFirst(y + 1) = a + 365 + leap
            /\ \A m \in 1..12, d \in Int :
                 Date(y, m, d) = a + DaysBefore[m] + d - 1 + (IF m > 2 THEN leap ELSE 0)
      BY <3>1, DateIs
    <3>3. Date(y, 12, 31) = a + 334 + 30 + leap
      <4>1. 12 \in 1..12 /\ 31 \in Int OBVIOUS
      <4>2. Date(y, 12, 31) = a + DaysBefore[12] + 31 - 1 + (IF 12 > 2 THEN leap ELSE 0)
        BY <3>2, <4>1
      <4> QED BY <4>2, MonthStarts
    <3>4. Resolve(c[6], y) = Date(y, 12, 31) BY <2>1, FixedIn
    <3> QED BY <3>2, <3>3, <3>4
  <2> QED BY <2>2 DEF InYear
<1>12. \A j \in 1..6 : InYear(c[j])
  <2> HIDE DEF InYear
  <2>1. \A j \in 1..6 : j = 1 \/ j = 2 \/ j = 3 \/ j = 4 \/ j = 5 \/ j = 6 OBVIOUS
  <2> QED BY <1>6, <1>7, <1>8, <1>9, <1>10, <1>11, <2>1
<1> QED BY <1>1, <1>2, <1>3, <1>5, <1>12

\* The rows of a table: the region's own, then those all have.
LEMMA RowsHold ==
    ASSUME NEW S, NEW head \in Seq(S), NEW n \in Nat, Len(head) = n
    PROVE  /\ DOMAIN (head \o CommonObservances) = 1..n + 6
           /\ \A j \in 1..n + 6 : (head \o CommonObservances)[j] =
                IF j <= n THEN head[j] ELSE CommonObservances[j - n]
<1>1. PICK c : c = CommonObservances /\ Len(c) = 6 /\ c \in Seq(Range(c)) BY CommonAre
<1>2. PICK V : V = S \cup Range(c) OBVIOUS
<1>3. head \in Seq(V) /\ c \in Seq(V) BY <1>1, <1>2
<1>4. PICK t : t = head \o c OBVIOUS
<1>5. /\ t \in Seq(V) /\ Len(t) = Len(head) + Len(c)
      /\ \A j \in 1..Len(head) + Len(c) : t[j] = IF j <= Len(head) THEN head[j] ELSE c[j - Len(head)]
  BY ONLY <1>3, <1>4, ConcatProperties
<1>6. DOMAIN t = 1..n + 6 BY <1>1, <1>5
<1> QED BY <1>1, <1>4, <1>5, <1>6

\* The rows a region has of its own, by their spots in the year.  Those that are moved
\* off a weekend have at most one neighbour within reach of the substitute.
RowsSpaced(t, n, lo, hi, near) ==
    /\ n \in Nat /\ t \in Seq({t[j] : j \in 1..n}) /\ Len(t) = n
    /\ \A j \in 1..n :
         /\ lo[j] \in 0..360 /\ hi[j] \in 0..360 /\ near[j] \in 0..n
         /\ Between(t[j], lo[j], hi[j])
         /\ t[j].weekend \in {"none", "us", "forward"}
    /\ \A i \in 1..n : t[i].weekend # "none" =>
         /\ t[i].kind = "public"
         /\ t[i].weekend = "us" => near[i] = 0
         /\ \A j \in 1..n : j # i /\ j # near[i] /\ t[j].kind = "public" =>
              \/ hi[j] + 4 < lo[i]
              \/ hi[i] + 4 < lo[j]
              \/ t[j].weekend = "none" /\ t[i].weekend = "forward" /\ hi[j] <= lo[i]

\* A table whose first rows are so is spaced out.
LEMMA SpacedOut ==
    ASSUME NEW t, NEW n, NEW lo, NEW hi, NEW near, RowsSpaced(t, n, lo, hi, near)
    PROVE  Spaced(t \o CommonObservances, n + 6, n, lo, hi, near)
<1>1. PICK all : all = t \o CommonObservances OBVIOUS
<1>2. /\ n \in Nat /\ DOMAIN all = 1..n + 6
      /\ \A j \in 1..n : all[j] = t[j]
      /\ \A j \in 1..n + 6 : j > n => all[j] = CommonObservances[j - n] /\ j - n \in 1..6
  BY <1>1, RowsHold DEF RowsSpaced
<1>3. \A j \in 1..n + 6 : InYear(all[j])
  <2> SUFFICES ASSUME NEW j \in 1..n + 6 PROVE InYear(all[j]) OBVIOUS
  <2>1. CASE j > n BY <1>2, <2>1, CommonAre
  <2>2. CASE ~(j > n)
    <3>1. j \in 1..n BY <1>2, <2>2
    <3>2. Between(t[j], lo[j], hi[j]) /\ lo[j] \in 0..360 /\ hi[j] \in 0..360
      BY <3>1 DEF RowsSpaced
    <3>3. lo[j] \in Int /\ hi[j] \in Int /\ 0 <= lo[j] /\ hi[j] <= 364 BY <3>2
    <3>4. InYear(t[j]) BY <3>2, <3>3, Nearer
    <3> QED BY <1>2, <3>1, <3>4
  <2> QED BY <2>1, <2>2
<1>4. \A j \in 1..n + 6 : j > n => all[j].kind # "public" /\ all[j].weekend = "none"
  BY <1>2, CommonAre
<1>5. n + 6 \in Nat /\ n \in 0..n + 6 BY <1>2
<1>6. \A j \in 1..n :
         /\ lo[j] \in 0..360 /\ hi[j] \in 0..360 /\ near[j] \in 0..n
         /\ all[j].kind = "public" => Between(all[j], lo[j], hi[j])
         /\ all[j].weekend \in {"none", "us", "forward"}
  BY <1>2 DEF RowsSpaced
<1>7. \A i \in 1..n : all[i].weekend # "none" =>
         /\ all[i].kind = "public"
         /\ all[i].weekend = "us" => near[i] = 0
         /\ \A j \in 1..n : j # i /\ j # near[i] /\ all[j].kind = "public" =>
              \/ hi[j] + 4 < lo[i]
              \/ hi[i] + 4 < lo[j]
              \/ all[j].weekend = "none" /\ all[i].weekend = "forward" /\ hi[j] <= lo[i]
  BY <1>2 DEF RowsSpaced
<1>8. Spaced(all, n + 6, n, lo, hi, near) BY <1>2, <1>3, <1>4, <1>5, <1>6, <1>7 DEF Spaced
<1> QED BY <1>1, <1>8

\* Matariki is from 20 June to 14 July in the years that are listed.
LEMMA MatarikiIn ==
    ASSUME NEW s, s.rule = Table(Matariki)
    PROVE  Between(s, 170, 195)
<1>1. s.rule.on = "table" /\ s.rule.dates = Matariki BY DEF Table
<1>2. DOMAIN Matariki = 2022..2032 BY DEF Matariki
<1>3. ASSUME NEW y \in Years, Applies(s, y)
      PROVE  /\ Resolve(s, y) \in Int
             /\ YearFirst(y) + 170 <= Resolve(s, y)
             /\ Resolve(s, y) <= YearFirst(y) + 195
  <2>1. y \in Int BY DEF Years
  <2>2. y \in 2022..2032 /\ Resolve(s, y) = Matariki[y]
    <3>1. Resolve(s, y) = IF y \in DOMAIN Matariki THEN Matariki[y] ELSE NoDate
      BY <1>1 DEF Resolve
    <3>2. Resolve(s, y) # NoDate BY <1>3 DEF Applies
    <3> QED BY <1>2, <3>1, <3>2
  <2>3. \/ Matariki[y] \in {Date(y, 6, 20), Date(y, 6, 21), Date(y, 6, 24), Date(y, 6, 25),
                            Date(y, 6, 28)}
        \/ Matariki[y] \in {Date(y, 7, 2), Date(y, 7, 6), Date(y, 7, 10), Date(y, 7, 11),
                            Date(y, 7, 14)}
    <3>1. \/ y = 2022 \/ y = 2023 \/ y = 2024 \/ y = 2025 \/ y = 2026 \/ y = 2027 \/ y = 2028
          \/ y = 2029 \/ y = 2030 \/ y = 2031 \/ y = 2032
      BY <2>2
    <3>2. /\ Matariki[2022] = Date(2022, 6, 24) /\ Matariki[2023] = Date(2023, 7, 14)
          /\ Matariki[2024] = Date(2024, 6, 28) /\ Matariki[2025] = Date(2025, 6, 20)
          /\ Matariki[2026] = Date(2026, 7, 10) /\ Matariki[2027] = Date(2027, 6, 25)
          /\ Matariki[2028] = Date(2028, 7, 14) /\ Matariki[2029] = Date(2029, 7, 6)
          /\ Matariki[2030] = Date(2030, 6, 21) /\ Matariki[2031] = Date(2031, 7, 11)
          /\ Matariki[2032] = Date(2032, 7, 2)
      BY DEF Matariki
    <3> QED BY <3>1, <3>2
  <2>4. PICK a \in Int, leap \in {0, 1} :
          /\ a = YearFirst(y) /\ YearFirst(y + 1) = a + 365 + leap
          /\ \A m \in 1..12, d \in Int :
               Date(y, m, d) = a + DaysBefore[m] + d - 1 + (IF m > 2 THEN leap ELSE 0)
    BY <2>1, DateIs
  <2>5. \A d \in Int : Date(y, 6, d) = a + 150 + d + leap
    <3>1. 6 \in 1..12 OBVIOUS
    <3>2. \A d \in Int : Date(y, 6, d) = a + DaysBefore[6] + d - 1 + (IF 6 > 2 THEN leap ELSE 0)
      BY <2>4, <3>1
    <3> QED BY <3>2, MonthStarts
  <2>6. \A d \in Int : Date(y, 7, d) = a + 180 + d + leap
    <3>1. 7 \in 1..12 OBVIOUS
    <3>2. \A d \in Int : Date(y, 7, d) = a + DaysBefore[7] + d - 1 + (IF 7 > 2 THEN leap ELSE 0)
      BY <2>4, <3>1
    <3> QED BY <3>2, MonthStarts
  <2>7. /\ Date(y, 6, 20) = a + 170 + leap /\ Date(y, 6, 21) = a + 171 + leap
        /\ Date(y, 6, 24) = a + 174 + leap /\ Date(y, 6, 25) = a + 175 + leap
        /\ Date(y, 6, 28) = a + 178 + leap
    BY <2>5
  <2>8. /\ Date(y, 7, 2) = a + 182 + leap /\ Date(y, 7, 6) = a + 186 + leap
        /\ Date(y, 7, 10) = a + 190 + leap /\ Date(y, 7, 11) = a + 191 + leap
        /\ Date(y, 7, 14) = a + 194 + leap
    BY <2>6
  <2>9. PICK date : date = Matariki[y] OBVIOUS
  <2>10. date \in Int /\ a + 170 <= date /\ date <= a + 195 BY <2>3, <2>4, <2>7, <2>8, <2>9
  <2> QED BY <2>2, <2>4, <2>9, <2>10
<1> QED BY <1>3 DEF Between

\* The first Monday of February, or the first of February.
LEMMA BrigidIn ==
    ASSUME NEW s, s.rule = Nth(2, 1, 1)
    PROVE  Between(s, 31, 38)
<1>1. s.rule.on = "nth-weekday" /\ s.rule.month = 2 /\ s.rule.weekday = 1 /\ s.rule.nth = 1
  BY DEF Nth
<1>2. ASSUME NEW y \in Years
      PROVE  /\ Resolve(s, y) \in Int
             /\ YearFirst(y) + 31 <= Resolve(s, y)
             /\ Resolve(s, y) <= YearFirst(y) + 38
  <2>1. y \in Int BY DEF Years
  <2>2. PICK a \in Int, first \in Int : a = YearFirst(y) /\ first = Date(y, 2, 1) /\ first = a + 31
    <3>1. PICK a \in Int, leap \in {0, 1} :
            /\ a = YearFirst(y) /\ YearFirst(y + 1) = a + 365 + leap
            /\ \A m \in 1..12, d \in Int :
                 Date(y, m, d) = a + DaysBefore[m] + d - 1 + (IF m > 2 THEN leap ELSE 0)
      BY <2>1, DateIs
    <3>2. 2 \in 1..12 /\ 1 \in Int OBVIOUS
    <3> QED BY SMTT(60), <3>1, <3>2, MonthStarts
  <2>3. NthWeekday(y, 2, 1, 1) = first + ((1 - Weekday(first)) % 7) + 7 * (1 - 1)
    BY <2>2 DEF NthWeekday
  <2>4. PICK v \in 0..6 : v = (1 - Weekday(first)) % 7
    <3>1. PICK u \in 1..7 : u = Weekday(first) BY <2>2 DEF Weekday
    <3> QED BY <3>1
  <2>5. Resolve(s, y) = first \/ Resolve(s, y) = NthWeekday(y, 2, 1, 1)
    BY <1>1, <2>2 DEF Resolve
  <2> QED BY <2>2, <2>3, <2>4, <2>5
<1> QED BY <1>2 DEF Between

-----------------------------------------------------------------------------
(* The tables of the regions                                               *)

\* The rows of the United States.
LEMMA USSpaced == \E lo, hi, near : RowsSpaced(US, 13, lo, hi, near)
<1>1. US \in Seq({US[j] : j \in 1..13}) /\ Len(US) = 13 BY DEF US
<1>2.
  /\ US[1].rule = On(1, 1) /\ US[2].rule = Nth(1, 1, 3) /\ US[3].rule = Nth(2, 1, 3)
  /\ US[4].rule = Nth(5, 1, -1) /\ US[5].rule = On(6, 19) /\ US[6].rule = On(7, 4)
  /\ US[7].rule = Nth(9, 1, 1) /\ US[8].rule = Nth(10, 1, 2) /\ US[9].rule = On(11, 11)
  /\ US[10].rule = Nth(11, 4, 4) /\ US[11].rule = On(12, 25) /\ US[12].rule = Nth(5, 7, 2)
  /\ US[13].rule = On(3, 17)
  BY DEF US, NewYear, Christmas, BoxingDay, MothersDayMay, Moved, Public, Observance, Spec0
<1>3.
  /\ US[2].name = "MartinLutherKingJrDay" /\ US[3].name = "PresidentsDay"
  /\ US[4].name = "MemorialDay" /\ US[7].name = "LaborDay" /\ US[8].name = "ColumbusDay"
  /\ US[10].name = "Thanksgiving" /\ US[12].name = "MothersDay"
  BY DEF US, NewYear, Christmas, BoxingDay, MothersDayMay, Moved, Public, Observance, Spec0
<1>4.
  /\ US[1].kind = "public" /\ US[2].kind = "public" /\ US[3].kind = "public"
  /\ US[4].kind = "public" /\ US[5].kind = "public" /\ US[6].kind = "public"
  /\ US[7].kind = "public" /\ US[8].kind = "public" /\ US[9].kind = "public"
  /\ US[10].kind = "public" /\ US[11].kind = "public" /\ US[12].kind = "observance"
  /\ US[13].kind = "observance"
  BY DEF US, NewYear, Christmas, BoxingDay, MothersDayMay, Moved, Public, Observance, Spec0
<1>5.
  /\ US[1].weekend = "us" /\ US[2].weekend = "none" /\ US[3].weekend = "none"
  /\ US[4].weekend = "none" /\ US[5].weekend = "us" /\ US[6].weekend = "us"
  /\ US[7].weekend = "none" /\ US[8].weekend = "none" /\ US[9].weekend = "us"
  /\ US[10].weekend = "none" /\ US[11].weekend = "us" /\ US[12].weekend = "none"
  /\ US[13].weekend = "none"
  BY DEF US, NewYear, Christmas, BoxingDay, MothersDayMay, Moved, Public, Observance, Spec0
<1>6. Between(US[1], 0, 0) BY <1>2, FixedIn, MonthStarts
<1>7. Between(US[2], 14, 21) BY <1>2, <1>3, NthIn, MonthStarts
<1>8. Between(US[3], 45, 52) BY <1>2, <1>3, NthIn, MonthStarts
<1>9. Between(US[4], 144, 151) BY <1>2, <1>3, LastIn, MonthStarts
<1>10. Between(US[5], 169, 170) BY <1>2, FixedIn, MonthStarts
<1>11. Between(US[6], 184, 185) BY <1>2, FixedIn, MonthStarts
<1>12. Between(US[7], 243, 250) BY <1>2, <1>3, NthIn, MonthStarts
<1>13. Between(US[8], 280, 287) BY <1>2, <1>3, NthIn, MonthStarts
<1>14. Between(US[9], 314, 315) BY <1>2, FixedIn, MonthStarts
<1>15. Between(US[10], 325, 332) BY <1>2, <1>3, NthIn, MonthStarts
<1>16. Between(US[11], 358, 359) BY <1>2, FixedIn, MonthStarts
<1>17. Between(US[12], 127, 134) BY <1>2, <1>3, NthIn, MonthStarts
<1>18. Between(US[13], 75, 76) BY <1>2, FixedIn, MonthStarts
<1>19. PICK lo : lo = <<0, 14, 45, 144, 169, 184, 243, 280, 314, 325, 358, 127, 75>> OBVIOUS
<1>20. PICK hi : hi = <<0, 21, 52, 151, 170, 185, 250, 287, 315, 332, 359, 134, 76>> OBVIOUS
<1>21. PICK near : near = <<0, 0, 0, 0, 0, 0, 0, 0, 0, 0, 0, 0, 0>> OBVIOUS
<1>22. \A j \in 1..13 :
        \/ j = 1 \/ j = 2 \/ j = 3 \/ j = 4 \/ j = 5 \/ j = 6 \/ j = 7 \/ j = 8 \/ j = 9
        \/ j = 10 \/ j = 11 \/ j = 12 \/ j = 13
  OBVIOUS
<1>23. \A j \in 1..13 : lo[j] \in 0..360 /\ hi[j] \in 0..360 /\ near[j] \in 0..13
  BY <1>19, <1>20, <1>21
<1>24. \A j \in 1..13 : Between(US[j], lo[j], hi[j])
  BY <1>6, <1>7, <1>8, <1>9, <1>10, <1>11, <1>12, <1>13, <1>14, <1>15, <1>16, <1>17, <1>18,
     <1>19, <1>20, <1>22
<1>25. \A j \in 1..13 : US[j].weekend \in {"none", "us", "forward"} BY <1>5, <1>22
<1>26. \A i \in 1..13 : US[i].weekend # "none" => i = 1 \/ i = 5 \/ i = 6 \/ i = 9 \/ i = 11
  BY <1>5, <1>22
<1>27. \A j \in 1..13 : j # 1 /\ j # near[1] /\ US[j].kind = "public" =>
          \/ hi[j] + 4 < lo[1]
          \/ hi[1] + 4 < lo[j]
          \/ US[j].weekend = "none" /\ US[1].weekend = "forward" /\ hi[j] <= lo[1]
  BY <1>4, <1>5, <1>19, <1>20, <1>21, <1>22
<1>28. \A j \in 1..13 : j # 5 /\ j # near[5] /\ US[j].kind = "public" =>
          \/ hi[j] + 4 < lo[5]
          \/ hi[5] + 4 < lo[j]
          \/ US[j].weekend = "none" /\ US[5].weekend = "forward" /\ hi[j] <= lo[5]
  BY <1>4, <1>5, <1>19, <1>20, <1>21, <1>22
<1>29. \A j \in 1..13 : j # 6 /\ j # near[6] /\ US[j].kind = "public" =>
          \/ hi[j] + 4 < lo[6]
          \/ hi[6] + 4 < lo[j]
          \/ US[j].weekend = "none" /\ US[6].weekend = "forward" /\ hi[j] <= lo[6]
  BY <1>4, <1>5, <1>19, <1>20, <1>21, <1>22
<1>30. \A j \in 1..13 : j # 9 /\ j # near[9] /\ US[j].kind = "public" =>
          \/ hi[j] + 4 < lo[9]
          \/ hi[9] + 4 < lo[j]
          \/ US[j].weekend = "none" /\ US[9].weekend = "forward" /\ hi[j] <= lo[9]
  BY <1>4, <1>5, <1>19, <1>20, <1>21, <1>22
<1>31. \A j \in 1..13 : j # 11 /\ j # near[11] /\ US[j].kind = "public" =>
          \/ hi[j] + 4 < lo[11]
          \/ hi[11] + 4 < lo[j]
          \/ US[j].weekend = "none" /\ US[11].weekend = "forward" /\ hi[j] <= lo[11]
  BY <1>4, <1>5, <1>19, <1>20, <1>21, <1>22
<1>32. \A i \in 1..13 : near[i] = 0 BY <1>21, <1>22
<1>33. \A i \in 1..13 : US[i].weekend # "none" =>
         /\ US[i].kind = "public"
         /\ US[i].weekend = "us" => near[i] = 0
         /\ \A j \in 1..13 : j # i /\ j # near[i] /\ US[j].kind = "public" =>
              \/ hi[j] + 4 < lo[i]
              \/ hi[i] + 4 < lo[j]
              \/ US[j].weekend = "none" /\ US[i].weekend = "forward" /\ hi[j] <= lo[i]
  BY <1>4, <1>26, <1>27, <1>28, <1>29, <1>30, <1>31, <1>32
<1>34. \A j \in 1..13 :
         /\ lo[j] \in 0..360 /\ hi[j] \in 0..360 /\ near[j] \in 0..13
         /\ Between(US[j], lo[j], hi[j])
         /\ US[j].weekend \in {"none", "us", "forward"}
  <2> TAKE j \in 1..13
  <2>1. lo[j] \in 0..360 /\ hi[j] \in 0..360 /\ near[j] \in 0..13 BY <1>23
  <2>2. Between(US[j], lo[j], hi[j]) BY <1>24
  <2>3. US[j].weekend \in {"none", "us", "forward"} BY <1>25
  <2> QED BY ZenonT(60), <2>1, <2>2, <2>3
<1>35. 13 \in Nat OBVIOUS
<1>36. RowsSpaced(US, 13, lo, hi, near)
  BY ZenonT(60), <1>1, <1>33, <1>34, <1>35 DEF RowsSpaced
<1> QED BY <1>36

\* The rows of the United Kingdom.
LEMMA GBSpaced == \E lo, hi, near : RowsSpaced(GB, 11, lo, hi, near)
<1>1. GB \in Seq({GB[j] : j \in 1..11}) /\ Len(GB) = 11 BY DEF GB
<1>2.
  /\ GB[1].rule = On(1, 1) /\ GB[2].rule = Easter(-2) /\ GB[3].rule = Easter(1)
  /\ GB[4].rule = Nth(5, 1, 1) /\ GB[5].rule = Nth(5, 1, -1) /\ GB[6].rule = Nth(8, 1, -1)
  /\ GB[7].rule = On(12, 25) /\ GB[8].rule = On(12, 26) /\ GB[9].rule = Easter(-21)
  /\ GB[10].rule = On(11, 5) /\ GB[11].rule = Nth(11, 7, 2)
  BY DEF GB, NewYear, Christmas, BoxingDay, MothersDayMay, Moved, Public, Observance, Spec0
<1>3.
  /\ GB[4].name = "EarlyMayBankHoliday" /\ GB[5].name = "SpringBankHoliday"
  /\ GB[6].name = "SummerBankHoliday" /\ GB[11].name = "RemembranceSunday"
  BY DEF GB, NewYear, Christmas, BoxingDay, MothersDayMay, Moved, Public, Observance, Spec0
<1>4.
  /\ GB[1].kind = "public" /\ GB[2].kind = "public" /\ GB[3].kind = "public"
  /\ GB[4].kind = "public" /\ GB[5].kind = "public" /\ GB[6].kind = "public"
  /\ GB[7].kind = "public" /\ GB[8].kind = "public" /\ GB[9].kind = "observance"
  /\ GB[10].kind = "observance" /\ GB[11].kind = "observance"
  BY DEF GB, NewYear, Christmas, BoxingDay, MothersDayMay, Moved, Public, Observance, Spec0
<1>5.
  /\ GB[1].weekend = "forward" /\ GB[2].weekend = "none" /\ GB[3].weekend = "none"
  /\ GB[4].weekend = "none" /\ GB[5].weekend = "none" /\ GB[6].weekend = "none"
  /\ GB[7].weekend = "forward" /\ GB[8].weekend = "forward" /\ GB[9].weekend = "none"
  /\ GB[10].weekend = "none" /\ GB[11].weekend = "none"
  BY DEF GB, NewYear, Christmas, BoxingDay, MothersDayMay, Moved, Public, Observance, Spec0
<1>6. Between(GB[1], 0, 0) BY <1>2, FixedIn, MonthStarts
<1>7. Between(GB[2], 78, 113) BY <1>2, EasterIn
<1>8. Between(GB[3], 81, 116) BY <1>2, EasterIn
<1>9. Between(GB[4], 120, 127) BY <1>2, <1>3, NthIn, MonthStarts
<1>10. Between(GB[5], 144, 151) BY <1>2, <1>3, LastIn, MonthStarts
<1>11. Between(GB[6], 236, 243) BY <1>2, <1>3, LastIn, MonthStarts
<1>12. Between(GB[7], 358, 359) BY <1>2, FixedIn, MonthStarts
<1>13. Between(GB[8], 359, 360) BY <1>2, FixedIn, MonthStarts
<1>14. Between(GB[9], 59, 94) BY <1>2, EasterIn
<1>15. Between(GB[10], 308, 309) BY <1>2, FixedIn, MonthStarts
<1>16. Between(GB[11], 311, 318) BY <1>2, <1>3, NthIn, MonthStarts
<1>17. PICK lo : lo = <<0, 78, 81, 120, 144, 236, 358, 359, 59, 308, 311>> OBVIOUS
<1>18. PICK hi : hi = <<0, 113, 116, 127, 151, 243, 359, 360, 94, 309, 318>> OBVIOUS
<1>19. PICK near : near = <<0, 0, 0, 0, 0, 0, 8, 7, 0, 0, 0>> OBVIOUS
<1>20. \A j \in 1..11 :
        \/ j = 1 \/ j = 2 \/ j = 3 \/ j = 4 \/ j = 5 \/ j = 6 \/ j = 7 \/ j = 8 \/ j = 9
        \/ j = 10 \/ j = 11
  OBVIOUS
<1>21. \A j \in 1..11 : lo[j] \in 0..360 /\ hi[j] \in 0..360 /\ near[j] \in 0..11
  BY <1>17, <1>18, <1>19
<1>22. \A j \in 1..11 : Between(GB[j], lo[j], hi[j])
  BY <1>6, <1>7, <1>8, <1>9, <1>10, <1>11, <1>12, <1>13, <1>14, <1>15, <1>16, <1>17, <1>18, <1>20
<1>23. \A j \in 1..11 : GB[j].weekend \in {"none", "us", "forward"} BY <1>5, <1>20
<1>24. \A i \in 1..11 : GB[i].weekend # "none" => i = 1 \/ i = 7 \/ i = 8
  BY <1>5, <1>20
<1>25. \A j \in 1..11 : j # 1 /\ j # near[1] /\ GB[j].kind = "public" =>
          \/ hi[j] + 4 < lo[1]
          \/ hi[1] + 4 < lo[j]
          \/ GB[j].weekend = "none" /\ GB[1].weekend = "forward" /\ hi[j] <= lo[1]
  BY <1>4, <1>5, <1>17, <1>18, <1>19, <1>20
<1>26. \A j \in 1..11 : j # 7 /\ j # near[7] /\ GB[j].kind = "public" =>
          \/ hi[j] + 4 < lo[7]
          \/ hi[7] + 4 < lo[j]
          \/ GB[j].weekend = "none" /\ GB[7].weekend = "forward" /\ hi[j] <= lo[7]
  BY <1>4, <1>5, <1>17, <1>18, <1>19, <1>20
<1>27. \A j \in 1..11 : j # 8 /\ j # near[8] /\ GB[j].kind = "public" =>
          \/ hi[j] + 4 < lo[8]
          \/ hi[8] + 4 < lo[j]
          \/ GB[j].weekend = "none" /\ GB[8].weekend = "forward" /\ hi[j] <= lo[8]
  BY <1>4, <1>5, <1>17, <1>18, <1>19, <1>20
<1>28. \A i \in 1..11 : GB[i].weekend # "us" BY <1>5, <1>20
<1>29. \A i \in 1..11 : GB[i].weekend # "none" =>
         /\ GB[i].kind = "public"
         /\ GB[i].weekend = "us" => near[i] = 0
         /\ \A j \in 1..11 : j # i /\ j # near[i] /\ GB[j].kind = "public" =>
              \/ hi[j] + 4 < lo[i]
              \/ hi[i] + 4 < lo[j]
              \/ GB[j].weekend = "none" /\ GB[i].weekend = "forward" /\ hi[j] <= lo[i]
  BY <1>4, <1>24, <1>25, <1>26, <1>27, <1>28
<1>30. \A j \in 1..11 :
         /\ lo[j] \in 0..360 /\ hi[j] \in 0..360 /\ near[j] \in 0..11
         /\ Between(GB[j], lo[j], hi[j])
         /\ GB[j].weekend \in {"none", "us", "forward"}
  <2> TAKE j \in 1..11
  <2>1. lo[j] \in 0..360 /\ hi[j] \in 0..360 /\ near[j] \in 0..11 BY <1>21
  <2>2. Between(GB[j], lo[j], hi[j]) BY <1>22
  <2>3. GB[j].weekend \in {"none", "us", "forward"} BY <1>23
  <2> QED BY ZenonT(60), <2>1, <2>2, <2>3
<1>31. 11 \in Nat OBVIOUS
<1>32. RowsSpaced(GB, 11, lo, hi, near)
  BY ZenonT(60), <1>1, <1>29, <1>30, <1>31 DEF RowsSpaced
<1> QED BY <1>32

\* The rows of Canada.
LEMMA CASpaced == \E lo, hi, near : RowsSpaced(CA, 11, lo, hi, near)
<1>1. CA \in Seq({CA[j] : j \in 1..11}) /\ Len(CA) = 11 BY DEF CA
<1>2.
  /\ CA[1].rule = On(1, 1) /\ CA[2].rule = Easter(-2) /\ CA[3].rule = OnOrBefore(5, 24, 1)
  /\ CA[4].rule = On(7, 1) /\ CA[5].rule = Nth(9, 1, 1) /\ CA[6].rule = On(9, 30)
  /\ CA[7].rule = Nth(10, 1, 2) /\ CA[8].rule = On(11, 11) /\ CA[9].rule = On(12, 25)
  /\ CA[10].rule = On(12, 26) /\ CA[11].rule = Nth(5, 7, 2)
  BY DEF CA, NewYear, Christmas, BoxingDay, MothersDayMay, Moved, Public, Observance, Spec0
<1>3.
  /\ CA[5].name = "LabourDay" /\ CA[7].name = "Thanksgiving" /\ CA[11].name = "MothersDay"
  BY DEF CA, NewYear, Christmas, BoxingDay, MothersDayMay, Moved, Public, Observance, Spec0
<1>4.
  /\ CA[1].kind = "public" /\ CA[2].kind = "public" /\ CA[3].kind = "public"
  /\ CA[4].kind = "public" /\ CA[5].kind = "public" /\ CA[6].kind = "public"
  /\ CA[7].kind = "public" /\ CA[8].kind = "public" /\ CA[9].kind = "public"
  /\ CA[10].kind = "public" /\ CA[11].kind = "observance"
  BY DEF CA, NewYear, Christmas, BoxingDay, MothersDayMay, Moved, Public, Observance, Spec0
<1>5.
  /\ CA[1].weekend = "forward" /\ CA[2].weekend = "none" /\ CA[3].weekend = "none"
  /\ CA[4].weekend = "forward" /\ CA[5].weekend = "none" /\ CA[6].weekend = "forward"
  /\ CA[7].weekend = "none" /\ CA[8].weekend = "none" /\ CA[9].weekend = "forward"
  /\ CA[10].weekend = "forward" /\ CA[11].weekend = "none"
  BY DEF CA, NewYear, Christmas, BoxingDay, MothersDayMay, Moved, Public, Observance, Spec0
<1>6. Between(CA[1], 0, 0) BY <1>2, FixedIn, MonthStarts
<1>7. Between(CA[2], 78, 113) BY <1>2, EasterIn
<1>8. Between(CA[3], 137, 144) BY <1>2, BeforeIn, MonthStarts
<1>9. Between(CA[4], 181, 182) BY <1>2, FixedIn, MonthStarts
<1>10. Between(CA[5], 243, 250) BY <1>2, <1>3, NthIn, MonthStarts
<1>11. Between(CA[6], 272, 273) BY <1>2, FixedIn, MonthStarts
<1>12. Between(CA[7], 280, 287) BY <1>2, <1>3, NthIn, MonthStarts
<1>13. Between(CA[8], 314, 315) BY <1>2, FixedIn, MonthStarts
<1>14. Between(CA[9], 358, 359) BY <1>2, FixedIn, MonthStarts
<1>15. Between(CA[10], 359, 360) BY <1>2, FixedIn, MonthStarts
<1>16. Between(CA[11], 127, 134) BY <1>2, <1>3, NthIn, MonthStarts
<1>17. PICK lo : lo = <<0, 78, 137, 181, 243, 272, 280, 314, 358, 359, 127>> OBVIOUS
<1>18. PICK hi : hi = <<0, 113, 144, 182, 250, 273, 287, 315, 359, 360, 134>> OBVIOUS
<1>19. PICK near : near = <<0, 0, 0, 0, 0, 0, 0, 0, 10, 9, 0>> OBVIOUS
<1>20. \A j \in 1..11 :
        \/ j = 1 \/ j = 2 \/ j = 3 \/ j = 4 \/ j = 5 \/ j = 6 \/ j = 7 \/ j = 8 \/ j = 9
        \/ j = 10 \/ j = 11
  OBVIOUS
<1>21. \A j \in 1..11 : lo[j] \in 0..360 /\ hi[j] \in 0..360 /\ near[j] \in 0..11
  BY <1>17, <1>18, <1>19
<1>22. \A j \in 1..11 : Between(CA[j], lo[j], hi[j])
  BY <1>6, <1>7, <1>8, <1>9, <1>10, <1>11, <1>12, <1>13, <1>14, <1>15, <1>16, <1>17, <1>18, <1>20
<1>23. \A j \in 1..11 : CA[j].weekend \in {"none", "us", "forward"} BY <1>5, <1>20
<1>24. \A i \in 1..11 : CA[i].weekend # "none" => i = 1 \/ i = 4 \/ i = 6 \/ i = 9 \/ i = 10
  BY <1>5, <1>20
<1>25. \A j \in 1..11 : j # 1 /\ j # near[1] /\ CA[j].kind = "public" =>
          \/ hi[j] + 4 < lo[1]
          \/ hi[1] + 4 < lo[j]
          \/ CA[j].weekend = "none" /\ CA[1].weekend = "forward" /\ hi[j] <= lo[1]
  BY <1>4, <1>5, <1>17, <1>18, <1>19, <1>20
<1>26. \A j \in 1..11 : j # 4 /\ j # near[4] /\ CA[j].kind = "public" =>
          \/ hi[j] + 4 < lo[4]
          \/ hi[4] + 4 < lo[j]
          \/ CA[j].weekend = "none" /\ CA[4].weekend = "forward" /\ hi[j] <= lo[4]
  BY <1>4, <1>5, <1>17, <1>18, <1>19, <1>20
<1>27. \A j \in 1..11 : j # 6 /\ j # near[6] /\ CA[j].kind = "public" =>
          \/ hi[j] + 4 < lo[6]
          \/ hi[6] + 4 < lo[j]
          \/ CA[j].weekend = "none" /\ CA[6].weekend = "forward" /\ hi[j] <= lo[6]
  BY <1>4, <1>5, <1>17, <1>18, <1>19, <1>20
<1>28. \A j \in 1..11 : j # 9 /\ j # near[9] /\ CA[j].kind = "public" =>
          \/ hi[j] + 4 < lo[9]
          \/ hi[9] + 4 < lo[j]
          \/ CA[j].weekend = "none" /\ CA[9].weekend = "forward" /\ hi[j] <= lo[9]
  BY <1>4, <1>5, <1>17, <1>18, <1>19, <1>20
<1>29. \A j \in 1..11 : j # 10 /\ j # near[10] /\ CA[j].kind = "public" =>
          \/ hi[j] + 4 < lo[10]
          \/ hi[10] + 4 < lo[j]
          \/ CA[j].weekend = "none" /\ CA[10].weekend = "forward" /\ hi[j] <= lo[10]
  BY <1>4, <1>5, <1>17, <1>18, <1>19, <1>20
<1>30. \A i \in 1..11 : CA[i].weekend # "us" BY <1>5, <1>20
<1>31. \A i \in 1..11 : CA[i].weekend # "none" =>
         /\ CA[i].kind = "public"
         /\ CA[i].weekend = "us" => near[i] = 0
         /\ \A j \in 1..11 : j # i /\ j # near[i] /\ CA[j].kind = "public" =>
              \/ hi[j] + 4 < lo[i]
              \/ hi[i] + 4 < lo[j]
              \/ CA[j].weekend = "none" /\ CA[i].weekend = "forward" /\ hi[j] <= lo[i]
  BY <1>4, <1>24, <1>25, <1>26, <1>27, <1>28, <1>29, <1>30
<1>32. \A j \in 1..11 :
         /\ lo[j] \in 0..360 /\ hi[j] \in 0..360 /\ near[j] \in 0..11
         /\ Between(CA[j], lo[j], hi[j])
         /\ CA[j].weekend \in {"none", "us", "forward"}
  <2> TAKE j \in 1..11
  <2>1. lo[j] \in 0..360 /\ hi[j] \in 0..360 /\ near[j] \in 0..11 BY <1>21
  <2>2. Between(CA[j], lo[j], hi[j]) BY <1>22
  <2>3. CA[j].weekend \in {"none", "us", "forward"} BY <1>23
  <2> QED BY ZenonT(60), <2>1, <2>2, <2>3
<1>33. 11 \in Nat OBVIOUS
<1>34. RowsSpaced(CA, 11, lo, hi, near)
  BY ZenonT(60), <1>1, <1>31, <1>32, <1>33 DEF RowsSpaced
<1> QED BY <1>34

\* The rows of Australia.
LEMMA AUSpaced == \E lo, hi, near : RowsSpaced(AU, 10, lo, hi, near)
<1>1. AU \in Seq({AU[j] : j \in 1..10}) /\ Len(AU) = 10 BY DEF AU
<1>2.
  /\ AU[1].rule = On(1, 1) /\ AU[2].rule = On(1, 26) /\ AU[3].rule = Easter(-2)
  /\ AU[4].rule = Easter(-1) /\ AU[5].rule = Easter(1) /\ AU[6].rule = On(4, 25)
  /\ AU[7].rule = Nth(6, 1, 2) /\ AU[8].rule = On(12, 25) /\ AU[9].rule = On(12, 26)
  /\ AU[10].rule = Nth(5, 7, 2)
  BY DEF AU, NewYear, Christmas, BoxingDay, MothersDayMay, Moved, Public, Observance, Spec0
<1>3.
  /\ AU[7].name = "KingsBirthday" /\ AU[10].name = "MothersDay"
  BY DEF AU, NewYear, Christmas, BoxingDay, MothersDayMay, Moved, Public, Observance, Spec0
<1>4.
  /\ AU[1].kind = "public" /\ AU[2].kind = "public" /\ AU[3].kind = "public"
  /\ AU[4].kind = "public" /\ AU[5].kind = "public" /\ AU[6].kind = "public"
  /\ AU[7].kind = "public" /\ AU[8].kind = "public" /\ AU[9].kind = "public"
  /\ AU[10].kind = "observance"
  BY DEF AU, NewYear, Christmas, BoxingDay, MothersDayMay, Moved, Public, Observance, Spec0
<1>5.
  /\ AU[1].weekend = "forward" /\ AU[2].weekend = "forward" /\ AU[3].weekend = "none"
  /\ AU[4].weekend = "none" /\ AU[5].weekend = "none" /\ AU[6].weekend = "none"
  /\ AU[7].weekend = "none" /\ AU[8].weekend = "forward" /\ AU[9].weekend = "forward"
  /\ AU[10].weekend = "none"
  BY DEF AU, NewYear, Christmas, BoxingDay, MothersDayMay, Moved, Public, Observance, Spec0
<1>6. Between(AU[1], 0, 0) BY <1>2, FixedIn, MonthStarts
<1>7. Between(AU[2], 25, 25) BY <1>2, FixedIn, MonthStarts
<1>8. Between(AU[3], 78, 113) BY <1>2, EasterIn
<1>9. Between(AU[4], 79, 114) BY <1>2, EasterIn
<1>10. Between(AU[5], 81, 116) BY <1>2, EasterIn
<1>11. Between(AU[6], 114, 115) BY <1>2, FixedIn, MonthStarts
<1>12. Between(AU[7], 158, 165) BY <1>2, <1>3, NthIn, MonthStarts
<1>13. Between(AU[8], 358, 359) BY <1>2, FixedIn, MonthStarts
<1>14. Between(AU[9], 359, 360) BY <1>2, FixedIn, MonthStarts
<1>15. Between(AU[10], 127, 134) BY <1>2, <1>3, NthIn, MonthStarts
<1>16. PICK lo : lo = <<0, 25, 78, 79, 81, 114, 158, 358, 359, 127>> OBVIOUS
<1>17. PICK hi : hi = <<0, 25, 113, 114, 116, 115, 165, 359, 360, 134>> OBVIOUS
<1>18. PICK near : near = <<0, 0, 0, 0, 0, 0, 0, 9, 8, 0>> OBVIOUS
<1>19. \A j \in 1..10 :
        \/ j = 1 \/ j = 2 \/ j = 3 \/ j = 4 \/ j = 5 \/ j = 6 \/ j = 7 \/ j = 8 \/ j = 9
        \/ j = 10
  OBVIOUS
<1>20. \A j \in 1..10 : lo[j] \in 0..360 /\ hi[j] \in 0..360 /\ near[j] \in 0..10
  BY <1>16, <1>17, <1>18
<1>21. \A j \in 1..10 : Between(AU[j], lo[j], hi[j])
  BY <1>6, <1>7, <1>8, <1>9, <1>10, <1>11, <1>12, <1>13, <1>14, <1>15, <1>16, <1>17, <1>19
<1>22. \A j \in 1..10 : AU[j].weekend \in {"none", "us", "forward"} BY <1>5, <1>19
<1>23. \A i \in 1..10 : AU[i].weekend # "none" => i = 1 \/ i = 2 \/ i = 8 \/ i = 9
  BY <1>5, <1>19
<1>24. \A j \in 1..10 : j # 1 /\ j # near[1] /\ AU[j].kind = "public" =>
          \/ hi[j] + 4 < lo[1]
          \/ hi[1] + 4 < lo[j]
          \/ AU[j].weekend = "none" /\ AU[1].weekend = "forward" /\ hi[j] <= lo[1]
  BY <1>4, <1>5, <1>16, <1>17, <1>18, <1>19
<1>25. \A j \in 1..10 : j # 2 /\ j # near[2] /\ AU[j].kind = "public" =>
          \/ hi[j] + 4 < lo[2]
          \/ hi[2] + 4 < lo[j]
          \/ AU[j].weekend = "none" /\ AU[2].weekend = "forward" /\ hi[j] <= lo[2]
  BY <1>4, <1>5, <1>16, <1>17, <1>18, <1>19
<1>26. \A j \in 1..10 : j # 8 /\ j # near[8] /\ AU[j].kind = "public" =>
          \/ hi[j] + 4 < lo[8]
          \/ hi[8] + 4 < lo[j]
          \/ AU[j].weekend = "none" /\ AU[8].weekend = "forward" /\ hi[j] <= lo[8]
  BY <1>4, <1>5, <1>16, <1>17, <1>18, <1>19
<1>27. \A j \in 1..10 : j # 9 /\ j # near[9] /\ AU[j].kind = "public" =>
          \/ hi[j] + 4 < lo[9]
          \/ hi[9] + 4 < lo[j]
          \/ AU[j].weekend = "none" /\ AU[9].weekend = "forward" /\ hi[j] <= lo[9]
  BY <1>4, <1>5, <1>16, <1>17, <1>18, <1>19
<1>28. \A i \in 1..10 : AU[i].weekend # "us" BY <1>5, <1>19
<1>29. \A i \in 1..10 : AU[i].weekend # "none" =>
         /\ AU[i].kind = "public"
         /\ AU[i].weekend = "us" => near[i] = 0
         /\ \A j \in 1..10 : j # i /\ j # near[i] /\ AU[j].kind = "public" =>
              \/ hi[j] + 4 < lo[i]
              \/ hi[i] + 4 < lo[j]
              \/ AU[j].weekend = "none" /\ AU[i].weekend = "forward" /\ hi[j] <= lo[i]
  BY <1>4, <1>23, <1>24, <1>25, <1>26, <1>27, <1>28
<1>30. \A j \in 1..10 :
         /\ lo[j] \in 0..360 /\ hi[j] \in 0..360 /\ near[j] \in 0..10
         /\ Between(AU[j], lo[j], hi[j])
         /\ AU[j].weekend \in {"none", "us", "forward"}
  <2> TAKE j \in 1..10
  <2>1. lo[j] \in 0..360 /\ hi[j] \in 0..360 /\ near[j] \in 0..10 BY <1>20
  <2>2. Between(AU[j], lo[j], hi[j]) BY <1>21
  <2>3. AU[j].weekend \in {"none", "us", "forward"} BY <1>22
  <2> QED BY ZenonT(60), <2>1, <2>2, <2>3
<1>31. 10 \in Nat OBVIOUS
<1>32. RowsSpaced(AU, 10, lo, hi, near)
  BY ZenonT(60), <1>1, <1>29, <1>30, <1>31 DEF RowsSpaced
<1> QED BY <1>32

\* The rows of Ireland.
LEMMA IESpaced == \E lo, hi, near : RowsSpaced(IE, 11, lo, hi, near)
<1>1. IE \in Seq({IE[j] : j \in 1..11}) /\ Len(IE) = 11 BY DEF IE
<1>2.
  /\ IE[1].rule = On(1, 1) /\ IE[2].rule = Nth(2, 1, 1) /\ IE[3].rule = On(3, 17)
  /\ IE[4].rule = Easter(1) /\ IE[5].rule = Nth(5, 1, 1) /\ IE[6].rule = Nth(6, 1, 1)
  /\ IE[7].rule = Nth(8, 1, 1) /\ IE[8].rule = Nth(10, 1, -1) /\ IE[9].rule = On(12, 25)
  /\ IE[10].rule = On(12, 26) /\ IE[11].rule = Easter(-21)
  BY DEF IE, NewYear, Christmas, BoxingDay, MothersDayMay, Moved, Public, Observance, Spec0
<1>3.
  /\ IE[5].name = "MayBankHoliday" /\ IE[6].name = "JuneBankHoliday"
  /\ IE[7].name = "AugustBankHoliday" /\ IE[8].name = "OctoberBankHoliday"
  BY DEF IE, NewYear, Christmas, BoxingDay, MothersDayMay, Moved, Public, Observance, Spec0
<1>4.
  /\ IE[1].kind = "public" /\ IE[2].kind = "public" /\ IE[3].kind = "public"
  /\ IE[4].kind = "public" /\ IE[5].kind = "public" /\ IE[6].kind = "public"
  /\ IE[7].kind = "public" /\ IE[8].kind = "public" /\ IE[9].kind = "public"
  /\ IE[10].kind = "public" /\ IE[11].kind = "observance"
  BY DEF IE, NewYear, Christmas, BoxingDay, MothersDayMay, Moved, Public, Observance, Spec0
<1>5.
  /\ IE[1].weekend = "forward" /\ IE[2].weekend = "none" /\ IE[3].weekend = "forward"
  /\ IE[4].weekend = "none" /\ IE[5].weekend = "none" /\ IE[6].weekend = "none"
  /\ IE[7].weekend = "none" /\ IE[8].weekend = "none" /\ IE[9].weekend = "forward"
  /\ IE[10].weekend = "forward" /\ IE[11].weekend = "none"
  BY DEF IE, NewYear, Christmas, BoxingDay, MothersDayMay, Moved, Public, Observance, Spec0
<1>6. Between(IE[1], 0, 0) BY <1>2, FixedIn, MonthStarts
<1>7. Between(IE[2], 31, 38) BY <1>2, BrigidIn
<1>8. Between(IE[3], 75, 76) BY <1>2, FixedIn, MonthStarts
<1>9. Between(IE[4], 81, 116) BY <1>2, EasterIn
<1>10. Between(IE[5], 120, 127) BY <1>2, <1>3, NthIn, MonthStarts
<1>11. Between(IE[6], 151, 158) BY <1>2, <1>3, NthIn, MonthStarts
<1>12. Between(IE[7], 212, 219) BY <1>2, <1>3, NthIn, MonthStarts
<1>13. Between(IE[8], 297, 304) BY <1>2, <1>3, LastIn, MonthStarts
<1>14. Between(IE[9], 358, 359) BY <1>2, FixedIn, MonthStarts
<1>15. Between(IE[10], 359, 360) BY <1>2, FixedIn, MonthStarts
<1>16. Between(IE[11], 59, 94) BY <1>2, EasterIn
<1>17. PICK lo : lo = <<0, 31, 75, 81, 120, 151, 212, 297, 358, 359, 59>> OBVIOUS
<1>18. PICK hi : hi = <<0, 38, 76, 116, 127, 158, 219, 304, 359, 360, 94>> OBVIOUS
<1>19. PICK near : near = <<0, 0, 0, 0, 0, 0, 0, 0, 10, 9, 0>> OBVIOUS
<1>20. \A j \in 1..11 :
        \/ j = 1 \/ j = 2 \/ j = 3 \/ j = 4 \/ j = 5 \/ j = 6 \/ j = 7 \/ j = 8 \/ j = 9
        \/ j = 10 \/ j = 11
  OBVIOUS
<1>21. \A j \in 1..11 : lo[j] \in 0..360 /\ hi[j] \in 0..360 /\ near[j] \in 0..11
  BY <1>17, <1>18, <1>19
<1>22. \A j \in 1..11 : Between(IE[j], lo[j], hi[j])
  BY <1>6, <1>7, <1>8, <1>9, <1>10, <1>11, <1>12, <1>13, <1>14, <1>15, <1>16, <1>17, <1>18, <1>20
<1>23. \A j \in 1..11 : IE[j].weekend \in {"none", "us", "forward"} BY <1>5, <1>20
<1>24. \A i \in 1..11 : IE[i].weekend # "none" => i = 1 \/ i = 3 \/ i = 9 \/ i = 10
  BY <1>5, <1>20
<1>25. \A j \in 1..11 : j # 1 /\ j # near[1] /\ IE[j].kind = "public" =>
          \/ hi[j] + 4 < lo[1]
          \/ hi[1] + 4 < lo[j]
          \/ IE[j].weekend = "none" /\ IE[1].weekend = "forward" /\ hi[j] <= lo[1]
  BY <1>4, <1>5, <1>17, <1>18, <1>19, <1>20
<1>26. \A j \in 1..11 : j # 3 /\ j # near[3] /\ IE[j].kind = "public" =>
          \/ hi[j] + 4 < lo[3]
          \/ hi[3] + 4 < lo[j]
          \/ IE[j].weekend = "none" /\ IE[3].weekend = "forward" /\ hi[j] <= lo[3]
  BY <1>4, <1>5, <1>17, <1>18, <1>19, <1>20
<1>27. \A j \in 1..11 : j # 9 /\ j # near[9] /\ IE[j].kind = "public" =>
          \/ hi[j] + 4 < lo[9]
          \/ hi[9] + 4 < lo[j]
          \/ IE[j].weekend = "none" /\ IE[9].weekend = "forward" /\ hi[j] <= lo[9]
  BY <1>4, <1>5, <1>17, <1>18, <1>19, <1>20
<1>28. \A j \in 1..11 : j # 10 /\ j # near[10] /\ IE[j].kind = "public" =>
          \/ hi[j] + 4 < lo[10]
          \/ hi[10] + 4 < lo[j]
          \/ IE[j].weekend = "none" /\ IE[10].weekend = "forward" /\ hi[j] <= lo[10]
  BY <1>4, <1>5, <1>17, <1>18, <1>19, <1>20
<1>29. \A i \in 1..11 : IE[i].weekend # "us" BY <1>5, <1>20
<1>30. \A i \in 1..11 : IE[i].weekend # "none" =>
         /\ IE[i].kind = "public"
         /\ IE[i].weekend = "us" => near[i] = 0
         /\ \A j \in 1..11 : j # i /\ j # near[i] /\ IE[j].kind = "public" =>
              \/ hi[j] + 4 < lo[i]
              \/ hi[i] + 4 < lo[j]
              \/ IE[j].weekend = "none" /\ IE[i].weekend = "forward" /\ hi[j] <= lo[i]
  BY <1>4, <1>24, <1>25, <1>26, <1>27, <1>28, <1>29
<1>31. \A j \in 1..11 :
         /\ lo[j] \in 0..360 /\ hi[j] \in 0..360 /\ near[j] \in 0..11
         /\ Between(IE[j], lo[j], hi[j])
         /\ IE[j].weekend \in {"none", "us", "forward"}
  <2> TAKE j \in 1..11
  <2>1. lo[j] \in 0..360 /\ hi[j] \in 0..360 /\ near[j] \in 0..11 BY <1>21
  <2>2. Between(IE[j], lo[j], hi[j]) BY <1>22
  <2>3. IE[j].weekend \in {"none", "us", "forward"} BY <1>23
  <2> QED BY ZenonT(60), <2>1, <2>2, <2>3
<1>32. 11 \in Nat OBVIOUS
<1>33. RowsSpaced(IE, 11, lo, hi, near)
  BY ZenonT(60), <1>1, <1>30, <1>31, <1>32 DEF RowsSpaced
<1> QED BY <1>33

\* The rows of New Zealand.
LEMMA NZSpaced == \E lo, hi, near : RowsSpaced(NZ, 12, lo, hi, near)
<1>1. NZ \in Seq({NZ[j] : j \in 1..12}) /\ Len(NZ) = 12 BY DEF NZ
<1>2.
  /\ NZ[1].rule = On(1, 1) /\ NZ[2].rule = On(1, 2) /\ NZ[3].rule = On(2, 6)
  /\ NZ[4].rule = Easter(-2) /\ NZ[5].rule = Easter(1) /\ NZ[6].rule = On(4, 25)
  /\ NZ[7].rule = Nth(6, 1, 1) /\ NZ[8].rule = Table(Matariki) /\ NZ[9].rule = Nth(10, 1, 4)
  /\ NZ[10].rule = On(12, 25) /\ NZ[11].rule = On(12, 26) /\ NZ[12].rule = Nth(5, 7, 2)
  BY DEF NZ, NewYear, Christmas, BoxingDay, MothersDayMay, Moved, Public, Observance, Spec0
<1>3.
  /\ NZ[7].name = "KingsBirthday" /\ NZ[9].name = "LabourDay" /\ NZ[12].name = "MothersDay"
  BY DEF NZ, NewYear, Christmas, BoxingDay, MothersDayMay, Moved, Public, Observance, Spec0
<1>4.
  /\ NZ[1].kind = "public" /\ NZ[2].kind = "public" /\ NZ[3].kind = "public"
  /\ NZ[4].kind = "public" /\ NZ[5].kind = "public" /\ NZ[6].kind = "public"
  /\ NZ[7].kind = "public" /\ NZ[8].kind = "public" /\ NZ[9].kind = "public"
  /\ NZ[10].kind = "public" /\ NZ[11].kind = "public" /\ NZ[12].kind = "observance"
  BY DEF NZ, NewYear, Christmas, BoxingDay, MothersDayMay, Moved, Public, Observance, Spec0
<1>5.
  /\ NZ[1].weekend = "forward" /\ NZ[2].weekend = "forward" /\ NZ[3].weekend = "forward"
  /\ NZ[4].weekend = "none" /\ NZ[5].weekend = "none" /\ NZ[6].weekend = "forward"
  /\ NZ[7].weekend = "none" /\ NZ[8].weekend = "none" /\ NZ[9].weekend = "none"
  /\ NZ[10].weekend = "forward" /\ NZ[11].weekend = "forward" /\ NZ[12].weekend = "none"
  BY DEF NZ, NewYear, Christmas, BoxingDay, MothersDayMay, Moved, Public, Observance, Spec0
<1>6. Between(NZ[1], 0, 0) BY <1>2, FixedIn, MonthStarts
<1>7. Between(NZ[2], 1, 1) BY <1>2, FixedIn, MonthStarts
<1>8. Between(NZ[3], 36, 36) BY <1>2, FixedIn, MonthStarts
<1>9. Between(NZ[4], 78, 113) BY <1>2, EasterIn
<1>10. Between(NZ[5], 81, 116) BY <1>2, EasterIn
<1>11. Between(NZ[6], 114, 115) BY <1>2, FixedIn, MonthStarts
<1>12. Between(NZ[7], 151, 158) BY <1>2, <1>3, NthIn, MonthStarts
<1>13. Between(NZ[8], 170, 195) BY <1>2, MatarikiIn
<1>14. Between(NZ[9], 294, 301) BY <1>2, <1>3, NthIn, MonthStarts
<1>15. Between(NZ[10], 358, 359) BY <1>2, FixedIn, MonthStarts
<1>16. Between(NZ[11], 359, 360) BY <1>2, FixedIn, MonthStarts
<1>17. Between(NZ[12], 127, 134) BY <1>2, <1>3, NthIn, MonthStarts
<1>18. PICK lo : lo = <<0, 1, 36, 78, 81, 114, 151, 170, 294, 358, 359, 127>> OBVIOUS
<1>19. PICK hi : hi = <<0, 1, 36, 113, 116, 115, 158, 195, 301, 359, 360, 134>> OBVIOUS
<1>20. PICK near : near = <<2, 1, 0, 0, 0, 5, 0, 0, 0, 11, 10, 0>> OBVIOUS
<1>21. \A j \in 1..12 :
        \/ j = 1 \/ j = 2 \/ j = 3 \/ j = 4 \/ j = 5 \/ j = 6 \/ j = 7 \/ j = 8 \/ j = 9
        \/ j = 10 \/ j = 11 \/ j = 12
  OBVIOUS
<1>22. \A j \in 1..12 : lo[j] \in 0..360 /\ hi[j] \in 0..360 /\ near[j] \in 0..12
  BY <1>18, <1>19, <1>20
<1>23. \A j \in 1..12 : Between(NZ[j], lo[j], hi[j])
  BY <1>6, <1>7, <1>8, <1>9, <1>10, <1>11, <1>12, <1>13, <1>14, <1>15, <1>16, <1>17, <1>18,
     <1>19, <1>21
<1>24. \A j \in 1..12 : NZ[j].weekend \in {"none", "us", "forward"} BY <1>5, <1>21
<1>25. \A i \in 1..12 : NZ[i].weekend # "none" =>
         i = 1 \/ i = 2 \/ i = 3 \/ i = 6 \/ i = 10 \/ i = 11
  BY <1>5, <1>21
<1>26. \A j \in 1..12 : j # 1 /\ j # near[1] /\ NZ[j].kind = "public" =>
          \/ hi[j] + 4 < lo[1]
          \/ hi[1] + 4 < lo[j]
          \/ NZ[j].weekend = "none" /\ NZ[1].weekend = "forward" /\ hi[j] <= lo[1]
  BY <1>4, <1>5, <1>18, <1>19, <1>20, <1>21
<1>27. \A j \in 1..12 : j # 2 /\ j # near[2] /\ NZ[j].kind = "public" =>
          \/ hi[j] + 4 < lo[2]
          \/ hi[2] + 4 < lo[j]
          \/ NZ[j].weekend = "none" /\ NZ[2].weekend = "forward" /\ hi[j] <= lo[2]
  BY <1>4, <1>5, <1>18, <1>19, <1>20, <1>21
<1>28. \A j \in 1..12 : j # 3 /\ j # near[3] /\ NZ[j].kind = "public" =>
          \/ hi[j] + 4 < lo[3]
          \/ hi[3] + 4 < lo[j]
          \/ NZ[j].weekend = "none" /\ NZ[3].weekend = "forward" /\ hi[j] <= lo[3]
  BY <1>4, <1>5, <1>18, <1>19, <1>20, <1>21
<1>29. \A j \in 1..12 : j # 6 /\ j # near[6] /\ NZ[j].kind = "public" =>
          \/ hi[j] + 4 < lo[6]
          \/ hi[6] + 4 < lo[j]
          \/ NZ[j].weekend = "none" /\ NZ[6].weekend = "forward" /\ hi[j] <= lo[6]
  BY <1>4, <1>5, <1>18, <1>19, <1>20, <1>21
<1>30. \A j \in 1..12 : j # 10 /\ j # near[10] /\ NZ[j].kind = "public" =>
          \/ hi[j] + 4 < lo[10]
          \/ hi[10] + 4 < lo[j]
          \/ NZ[j].weekend = "none" /\ NZ[10].weekend = "forward" /\ hi[j] <= lo[10]
  BY <1>4, <1>5, <1>18, <1>19, <1>20, <1>21
<1>31. \A j \in 1..12 : j # 11 /\ j # near[11] /\ NZ[j].kind = "public" =>
          \/ hi[j] + 4 < lo[11]
          \/ hi[11] + 4 < lo[j]
          \/ NZ[j].weekend = "none" /\ NZ[11].weekend = "forward" /\ hi[j] <= lo[11]
  BY <1>4, <1>5, <1>18, <1>19, <1>20, <1>21
<1>32. \A i \in 1..12 : NZ[i].weekend # "us" BY <1>5, <1>21
<1>33. \A i \in 1..12 : NZ[i].weekend # "none" =>
         /\ NZ[i].kind = "public"
         /\ NZ[i].weekend = "us" => near[i] = 0
         /\ \A j \in 1..12 : j # i /\ j # near[i] /\ NZ[j].kind = "public" =>
              \/ hi[j] + 4 < lo[i]
              \/ hi[i] + 4 < lo[j]
              \/ NZ[j].weekend = "none" /\ NZ[i].weekend = "forward" /\ hi[j] <= lo[i]
  BY <1>4, <1>25, <1>26, <1>27, <1>28, <1>29, <1>30, <1>31, <1>32
<1>34. \A j \in 1..12 :
         /\ lo[j] \in 0..360 /\ hi[j] \in 0..360 /\ near[j] \in 0..12
         /\ Between(NZ[j], lo[j], hi[j])
         /\ NZ[j].weekend \in {"none", "us", "forward"}
  <2> TAKE j \in 1..12
  <2>1. lo[j] \in 0..360 /\ hi[j] \in 0..360 /\ near[j] \in 0..12 BY <1>22
  <2>2. Between(NZ[j], lo[j], hi[j]) BY <1>23
  <2>3. NZ[j].weekend \in {"none", "us", "forward"} BY <1>24
  <2> QED BY ZenonT(60), <2>1, <2>2, <2>3
<1>35. 12 \in Nat OBVIOUS
<1>36. RowsSpaced(NZ, 12, lo, hi, near)
  BY ZenonT(60), <1>1, <1>33, <1>34, <1>35 DEF RowsSpaced
<1> QED BY <1>36

-----------------------------------------------------------------------------
(* A year's holidays, one row after another                                *)

\* The least of some of nine days, if there are any.
LEMMA MinIs ==
    ASSUME NEW date \in Int, NEW S \in SUBSET (date + 1..date + 9), S # {}
    PROVE  Min(S) \in S /\ \A d \in S : Min(S) <= d
<1> DEFINE T == {d - date : d \in S}
<1>1. \A d \in S : d \in Int /\ d - date \in Nat OBVIOUS
<1>2. T \in SUBSET Nat /\ T # {} BY <1>1
<1>3. PICK x \in T : \A u \in T : x <= u BY <1>2, LeastNat
<1>4. PICK d \in S : x = d - date BY <1>3
<1>5. \A e \in S : d <= e
  <2> SUFFICES ASSUME NEW e \in S PROVE d <= e OBVIOUS
  <2>1. e - date \in T OBVIOUS
  <2>2. d - date <= e - date BY <1>3, <1>4, <2>1
  <2> QED BY <1>1, <2>2
<1> QED BY <1>5 DEF Min

\* Days a holiday can be on: those that are chosen from no days included.
Days == Int \cup {Min({})}

\* A substitute is one of those.
LEMMA SubstituteIn ==
    ASSUME NEW date \in Int, NEW weekend, NEW taken
    PROVE  Substitute(weekend, date, taken) \in Days
<1>1. PICK S : S = {d \in date + 1..date + 9 : ~IsWeekend(d) /\ d \notin taken} OBVIOUS
<1>2. S \in SUBSET (date + 1..date + 9) BY <1>1
<1>3. S # {} => Min(S) \in S BY <1>2, MinIs
<1>4. \A d \in S : d \in Int BY <1>2
<1>5. Min(S) \in Days BY <1>3, <1>4 DEF Days
<1>6. date - 1 \in Days /\ date + 1 \in Days BY DEF Days
<1> QED BY <1>1, <1>5, <1>6 DEF Substitute

PublicDates(acc) == {e.date : e \in {x \in acc : x.kind = "public"}}

ActualIn(t, k, y) == {Entry(Resolve(t[i], y), t[i], FALSE) : i \in {j \in 1..k : Applies(t[j], y)}}

IsMoved(s, y) == Applies(s, y) /\ s.weekend # "none" /\ IsWeekend(Resolve(s, y))

\* What is kept of a row does not matter here: the entries a year may have.
Entries(t, k) == {Entry(p[1], t[p[2]], p[3]) : p \in Days \X (1..k) \X BOOLEAN}

\* What is such an entry.
LEMMA EntriesAre ==
    ASSUME NEW t, NEW k, NEW d \in Days, NEW i \in 1..k, NEW o \in BOOLEAN
    PROVE  Entry(d, t[i], o) \in Entries(t, k)
<1>1. <<d, i, o>> \in Days \X (1..k) \X BOOLEAN OBVIOUS
<1>2. PICK p \in Days \X (1..k) \X BOOLEAN : p = <<d, i, o>> BY <1>1
<1>3. Entry(p[1], t[p[2]], p[3]) = Entry(d, t[i], o) BY <1>2
<1> QED BY <1>3 DEF Entries

\* What the second pass does with a row.
LEMMA ObserveIs ==
    ASSUME NEW acc, NEW s, NEW y
    PROVE  Observe(acc, s, y) =
             IF IsMoved(s, y)
             THEN acc \cup {Entry(Substitute(s.weekend, Resolve(s, y), PublicDates(acc)), s, TRUE)}
             ELSE acc
BY DEF Observe, IsMoved, PublicDates

\* It leaves entries the year may have.
LEMMA ObserveIn ==
    ASSUME NEW t, NEW k, NEW y, NEW i \in 1..k, NEW acc \in SUBSET Entries(t, k),
           Applies(t[i], y) => Resolve(t[i], y) \in Int
    PROVE  Observe(acc, t[i], y) \in SUBSET Entries(t, k)
<1>1. ASSUME IsMoved(t[i], y)
      PROVE  Entry(Substitute(t[i].weekend, Resolve(t[i], y), PublicDates(acc)), t[i], TRUE)
               \in Entries(t, k)
  <2>1. Resolve(t[i], y) \in Int BY <1>1 DEF IsMoved
  <2>2. PICK d : d = Substitute(t[i].weekend, Resolve(t[i], y), PublicDates(acc)) OBVIOUS
  <2>3. d \in Days BY <2>1, <2>2, SubstituteIn
  <2>4. TRUE \in BOOLEAN OBVIOUS
  <2> QED BY <2>2, <2>3, <2>4, EntriesAre
<1> QED BY <1>1, ObserveIs

\* A table of k rows, and what the second pass makes of it, row by row.
Resolved(t, k, y) ==
    /\ k \in Nat /\ DOMAIN t = 1..k
    /\ \A i \in 1..k : Applies(t[i], y) => Resolve(t[i], y) \in Int

Passed(f, found, t, k, y) ==
    /\ f[0] = ActualIn(t, k, y)
    /\ \A i \in 1..k : f[i] = Observe(f[i - 1], t[i], y)
    /\ found = f[k]

\* The fold over the table goes from row to row.
LEMMA YearSteps ==
    ASSUME NEW region, NEW y, NEW t, t = Tables[region], NEW k, Resolved(t, k, y)
    PROVE  \E f : Passed(f, HolidaysForYear(region, y), t, k, y)
<1>0. /\ k \in Nat /\ DOMAIN t = 1..k
      /\ \A i \in 1..k : Applies(t[i], y) => Resolve(t[i], y) \in Int
  BY DEF Resolved
<1>1. PICK base : base = ActualIn(t, k, y) OBVIOUS
<1>2. base = {Entry(Resolve(s, y), s, FALSE) : s \in {x \in ToSet(t) : Applies(x, y)}}
  BY <1>0, <1>1 DEF ActualIn, ToSet
<1> DEFINE iter == CHOOSE f : f = [s \in SUBSET DOMAIN t |->
                      IF s = {} THEN base ELSE Observe(f[s \ {Max(s)}], t[Max(s)], y)]
<1>3. HolidaysForYear(region, y) = iter[DOMAIN t]
  BY <1>0, <1>2 DEF HolidaysForYear, FoldLeft, MapThenFoldSet
<1>4. PICK A : A = SUBSET Entries(t, k) OBVIOUS
<1>5. PICK g : g = [p \in A \X (1..k) |-> Observe(p[1], t[p[2]], y)] OBVIOUS
<1>6. g \in [A \X (1..k) -> A]
  <2>1. ASSUME NEW p \in A \X (1..k) PROVE Observe(p[1], t[p[2]], y) \in A
    <3>1. p[1] \in SUBSET Entries(t, k) /\ p[2] \in 1..k BY <1>4
    <3>2. Applies(t[p[2]], y) => Resolve(t[p[2]], y) \in Int BY <1>0, <3>1
    <3> QED BY <1>4, <3>1, <3>2, ObserveIn
  <2> QED BY <1>5, <2>1
<1>7. base \in A
  <2>1. ASSUME NEW i \in 1..k, Applies(t[i], y)
        PROVE  Entry(Resolve(t[i], y), t[i], FALSE) \in Entries(t, k)
    <3>1. Resolve(t[i], y) \in Days BY <1>0, <2>1 DEF Days
    <3>2. FALSE \in BOOLEAN OBVIOUS
    <3> QED BY <2>1, <3>1, <3>2, EntriesAre
  <2> QED BY <1>1, <1>4, <2>1 DEF ActualIn
<1>8. PICK h : Folds(h, k, A, base, g) BY <1>0, <1>6, <1>7, FoldExists
<1>9. ASSUME NEW s \in SUBSET (1..k), s # {} PROVE Max(s) \in 1..k /\ s \ {Max(s)} \in SUBSET (1..k)
  BY <1>0, <1>9, MaxIs
<1>10. h = [s \in SUBSET DOMAIN t |->
              IF s = {} THEN base ELSE Observe(h[s \ {Max(s)}], t[Max(s)], y)]
  <2>1. ASSUME NEW s \in SUBSET (1..k)
        PROVE  h[s] = IF s = {} THEN base ELSE Observe(h[s \ {Max(s)}], t[Max(s)], y)
    <3>1. CASE s = {} BY <1>8, <3>1 DEF Folds
    <3>2. CASE s # {}
      <4>1. h[s \ {Max(s)}] \in A /\ Max(s) \in 1..k BY <1>8, <1>9, <3>2 DEF Folds
      <4>2. h[s] = g[<<h[s \ {Max(s)}], Max(s)>>] BY <1>8, <3>2 DEF Folds
      <4> QED BY <1>5, <3>2, <4>1, <4>2
    <3> QED BY <3>1, <3>2
  <2> QED BY <1>0, <1>8, <2>1 DEF Folds
<1>11. iter = [s \in SUBSET DOMAIN t |->
                 IF s = {} THEN base ELSE Observe(iter[s \ {Max(s)}], t[Max(s)], y)]
  BY <1>0, <1>10
<1> HIDE DEF iter
<1>12. \A s \in SUBSET (1..k) :
         iter[s] = IF s = {} THEN base ELSE Observe(iter[s \ {Max(s)}], t[Max(s)], y)
  BY <1>0, <1>11
<1>13. PICK f : f = [i \in 0..k |-> iter[1..i]] OBVIOUS
<1>14. f[0] = base /\ f[k] = iter[1..k]
  <2>1. 1..0 = {} OBVIOUS
  <2>2. iter[{}] = base BY <1>0, <1>12
  <2> QED BY <1>0, <1>13, <2>1, <2>2
<1>15. ASSUME NEW i \in 1..k PROVE f[i] = Observe(f[i - 1], t[i], y)
  <2>1. Max(1..i) = i /\ 1..i \in SUBSET (1..k) /\ 1..i # {} BY <1>0, FirstIs
  <2>2. (1..i) \ {i} = 1..i - 1 OBVIOUS
  <2>3. f[i] = iter[1..i] /\ f[i - 1] = iter[1..i - 1] BY <1>0, <1>13
  <2> QED BY <1>12, <2>1, <2>2, <2>3
<1> QED BY <1>0, <1>1, <1>3, <1>14, <1>15 DEF Passed

\* The weekday after a weekend, which a holiday moved forward is given unless
\* another has it.
Next1(date) == IF Weekday(date) = 6 THEN date + 2 ELSE date + 1

\* What a substitute is: a weekday, clear of what is taken if one of two days is free.
LEMMA SubstituteIs ==
    ASSUME NEW date \in Int, IsWeekend(date), NEW weekend \in {"us", "forward"}, NEW taken
    PROVE  /\ weekend = "us" => /\ Substitute(weekend, date, taken) \in {date - 1, date + 1}
                                /\ ~IsWeekend(Substitute(weekend, date, taken))
           /\ Next1(date) \in Int /\ Next1(date) + 1 \in Int
           /\ date < Next1(date) /\ Next1(date) <= date + 2
           /\ ~IsWeekend(Next1(date)) /\ ~IsWeekend(Next1(date) + 1)
           /\ weekend = "forward" /\ ~({Next1(date), Next1(date) + 1} \subseteq taken) =>
                 /\ Substitute(weekend, date, taken) \in {Next1(date), Next1(date) + 1} \ taken
<1>1. PICK w \in {6, 7} : w = Weekday(date) /\ w = 1 + ((date + 3) % 7)
  BY DEF IsWeekend, Weekday
<1>2. CASE w = 6
  <2>1. Next1(date) = date + 2 BY <1>1, <1>2 DEF Next1
  <2>2. Weekday(date - 1) = 5 /\ Weekday(date + 2) = 1 /\ Weekday(date + 2 + 1) = 2
        /\ Weekday(date + 1) = 7
    BY <1>1, <1>2 DEF Weekday
  <2>3. /\ ~IsWeekend(date - 1) /\ ~IsWeekend(date + 2) /\ ~IsWeekend(date + 2 + 1)
        /\ IsWeekend(date + 1)
    BY <2>2 DEF IsWeekend
  <2>4. weekend = "us" => Substitute(weekend, date, taken) = date - 1
    BY <1>1, <1>2 DEF Substitute
  <2>5. ASSUME weekend = "forward", ~({date + 2, date + 2 + 1} \subseteq taken)
        PROVE  Substitute(weekend, date, taken) \in {date + 2, date + 2 + 1} \ taken
    <3>1. PICK S : S = {d \in date + 1..date + 9 : ~IsWeekend(d) /\ d \notin taken} OBVIOUS
    <3>2. Substitute(weekend, date, taken) = Min(S) BY <2>5, <3>1 DEF Substitute
    <3>3. PICK e \in {date + 2, date + 2 + 1} : e \notin taken BY <2>5
    <3>4. e \in date + 1..date + 9 /\ e <= date + 3 OBVIOUS
    <3>5. e \in S BY <2>3, <3>1, <3>3, <3>4
    <3>6. S \in SUBSET (date + 1..date + 9) BY <3>1
    <3>7. Min(S) \in S /\ Min(S) <= e BY <3>5, <3>6, MinIs
    <3>8. PICK d \in date + 1..date + 9 : d = Min(S) /\ d <= date + 3
      <4>1. Min(S) \in date + 1..date + 9 BY <3>6, <3>7
      <4>2. PICK d \in date + 1..date + 9 : d = Min(S) BY <4>1
      <4> QED BY <3>4, <3>7, <4>2
    <3>9. d \notin taken /\ ~IsWeekend(d) BY <3>1, <3>7, <3>8
    <3>10. d # date + 1 BY <2>3, <3>9
    <3> QED BY <3>2, <3>8, <3>9, <3>10
  <2> QED BY <2>1, <2>3, <2>4, <2>5
<1>3. CASE w = 7
  <2>1. Next1(date) = date + 1 BY <1>1, <1>3 DEF Next1
  <2>2. Weekday(date + 1) = 1 /\ Weekday(date + 1 + 1) = 2
    BY <1>1, <1>3 DEF Weekday
  <2>3. ~IsWeekend(date + 1) /\ ~IsWeekend(date + 1 + 1) BY <2>2 DEF IsWeekend
  <2>4. weekend = "us" => Substitute(weekend, date, taken) = date + 1
    BY <1>1, <1>3 DEF Substitute
  <2>5. ASSUME weekend = "forward", ~({date + 1, date + 1 + 1} \subseteq taken)
        PROVE  Substitute(weekend, date, taken) \in {date + 1, date + 1 + 1} \ taken
    <3>1. PICK S : S = {d \in date + 1..date + 9 : ~IsWeekend(d) /\ d \notin taken} OBVIOUS
    <3>2. Substitute(weekend, date, taken) = Min(S) BY <2>5, <3>1 DEF Substitute
    <3>3. PICK e \in {date + 1, date + 1 + 1} : e \notin taken BY <2>5
    <3>4. e \in date + 1..date + 9 /\ e <= date + 2 OBVIOUS
    <3>5. e \in S BY <2>3, <3>1, <3>3, <3>4
    <3>6. S \in SUBSET (date + 1..date + 9) BY <3>1
    <3>7. Min(S) \in S /\ Min(S) <= e BY <3>5, <3>6, MinIs
    <3>8. PICK d \in date + 1..date + 9 : d = Min(S) /\ d <= date + 2
      <4>1. Min(S) \in date + 1..date + 9 BY <3>6, <3>7
      <4>2. PICK d \in date + 1..date + 9 : d = Min(S) BY <4>1
      <4> QED BY <3>4, <3>7, <4>2
    <3>9. d \notin taken BY <3>1, <3>7, <3>8
    <3> QED BY <3>2, <3>8, <3>9
  <2> QED BY <2>1, <2>3, <2>4, <2>5
<1> QED BY <1>1, <1>2, <1>3

\* A year's holidays: the days themselves, and a substitute for each that is moved.
YearsAre(found, t, k, n, y, sub) ==
    /\ \A h \in found : \E i \in 1..k :
         /\ Applies(t[i], y)
         /\ \/ h = Entry(Resolve(t[i], y), t[i], FALSE)
            \/ i \in 1..n /\ IsMoved(t[i], y) /\ h = Entry(sub[i], t[i], TRUE)
    /\ \A i \in 1..n : IsMoved(t[i], y) =>
         /\ sub[i] \in Int /\ ~IsWeekend(sub[i])
         /\ Resolve(t[i], y) - 1 <= sub[i] /\ sub[i] <= Resolve(t[i], y) + 3
         /\ \A j \in 1..n :
              /\ Applies(t[j], y) /\ t[j].kind = "public" => Resolve(t[j], y) # sub[i]
              /\ IsMoved(t[j], y) /\ j # i => sub[j] # sub[i]

\* A year's holidays are so.
LEMMA YearOfHolidays ==
    ASSUME NEW region, NEW y \in Years, NEW t, t = Tables[region], NEW k, NEW n,
           NEW lo, NEW hi, NEW near, Spaced(t, k, n, lo, hi, near)
    PROVE  \E sub : YearsAre(HolidaysForYear(region, y), t, k, n, y, sub)
<1>1. k \in Nat /\ n \in 0..k /\ DOMAIN t = 1..k BY DEF Spaced
<1>2. \A i \in 1..k : Applies(t[i], y) => Resolve(t[i], y) \in Int BY DEF Spaced, InYear
<1>3. PICK f : /\ f[0] = ActualIn(t, k, y)
               /\ \A i \in 1..k : f[i] = Observe(f[i - 1], t[i], y)
               /\ HolidaysForYear(region, y) = f[k]
  <2>1. Resolved(t, k, y) BY <1>1, <1>2 DEF Resolved
  <2>2. PICK f : Passed(f, HolidaysForYear(region, y), t, k, y) BY <2>1, YearSteps
  <2> QED BY <2>2 DEF Passed
<1>4. PICK sub : sub = [i \in 1..k |-> Substitute(t[i].weekend, Resolve(t[i], y), PublicDates(f[i - 1]))]
  OBVIOUS
<1>5. \A i \in 1..n : i \in 1..k BY <1>1
<1>6. \A i \in 1..k : IsMoved(t[i], y) => i \in 1..n
  BY <1>1 DEF IsMoved, Spaced
<1>7. \A i \in 1..k : f[i] = IF IsMoved(t[i], y) THEN f[i - 1] \cup {Entry(sub[i], t[i], TRUE)}
                                                ELSE f[i - 1]
  <2> SUFFICES ASSUME NEW i \in 1..k
               PROVE  f[i] = IF IsMoved(t[i], y) THEN f[i - 1] \cup {Entry(sub[i], t[i], TRUE)}
                                                 ELSE f[i - 1]
    OBVIOUS
  <2>1. sub[i] = Substitute(t[i].weekend, Resolve(t[i], y), PublicDates(f[i - 1])) BY <1>4
  <2>2. f[i] = Observe(f[i - 1], t[i], y) BY <1>3
  <2> QED BY <2>1, <2>2, ObserveIs
<1> DEFINE Moves(m) == {Entry(sub[i], t[i], TRUE) : i \in {j \in 1..k : j <= m /\ IsMoved(t[j], y)}}
\* What there is after m rows.
<1>8. \A m \in 0..k : f[m] = ActualIn(t, k, y) \cup Moves(m)
  <2> DEFINE Bad == {m \in 0..k : f[m] # ActualIn(t, k, y) \cup Moves(m)}
  <2> SUFFICES ASSUME Bad # {} PROVE FALSE OBVIOUS
  <2>0. Moves(0) = {}
    <3>1. \A j \in 1..k : ~(j <= 0) OBVIOUS
    <3> QED BY <3>1
  <2> HIDE DEF Moves
  <2>1. PICK m \in Bad : \A l \in Bad : m <= l
    <3>1. Bad \in SUBSET Nat BY <1>1
    <3> QED BY <3>1, LeastNat
  <2>2. m # 0
    <3>1. Moves(0) = {} BY <2>0
    <3> QED BY <1>3, <2>1, <3>1
  <2>3. m \in 1..k /\ m - 1 \in 0..k /\ m - 1 \notin Bad BY <1>1, <2>1, <2>2
  <2>4. f[m - 1] = ActualIn(t, k, y) \cup Moves(m - 1) BY <2>3
  <2>5. Moves(m) = IF IsMoved(t[m], y) THEN Moves(m - 1) \cup {Entry(sub[m], t[m], TRUE)}
                                       ELSE Moves(m - 1)
    <3>1. PICK J, H : /\ J = {j \in 1..k : j <= m /\ IsMoved(t[j], y)}
                      /\ H = {j \in 1..k : j <= m - 1 /\ IsMoved(t[j], y)}
      OBVIOUS
    <3>2. \A j \in 1..k : j <= m <=> j <= m - 1 \/ j = m BY <2>3
    <3>3. J = IF IsMoved(t[m], y) THEN H \cup {m} ELSE H BY <2>3, <3>1, <3>2
    <3>4. Moves(m) = {Entry(sub[i], t[i], TRUE) : i \in J}
          /\ Moves(m - 1) = {Entry(sub[i], t[i], TRUE) : i \in H}
      BY <3>1 DEF Moves
    <3> QED BY ZenonT(60), <3>3, <3>4
  <2>6. f[m] = ActualIn(t, k, y) \cup Moves(m)
    <3> QED BY <1>7, <2>3, <2>4, <2>5
  <2> QED BY <2>1, <2>6
\* The public days there are when row i is taken.
<1>10. ASSUME NEW i \in 1..n, NEW d \in PublicDates(f[i - 1])
       PROVE  \/ \E j \in 1..n : Applies(t[j], y) /\ t[j].kind = "public" /\ d = Resolve(t[j], y)
              \/ \E j \in 1..n : j < i /\ IsMoved(t[j], y) /\ d = sub[j]
  <2>1. PICK h \in f[i - 1] : h.kind = "public" /\ h.date = d BY <1>10 DEF PublicDates
  <2>2. i - 1 \in 0..k BY <1>1
  <2>3. h \in ActualIn(t, k, y) \/ h \in Moves(i - 1)
    <3> HIDE DEF Moves
    <3> QED BY <1>8, <2>1, <2>2
  <2>4. CASE h \in ActualIn(t, k, y)
    <3>1. PICK j \in 1..k : Applies(t[j], y) /\ h = Entry(Resolve(t[j], y), t[j], FALSE)
      BY <2>4 DEF ActualIn
    <3>2. t[j].kind = "public" /\ d = Resolve(t[j], y) BY <2>1, <3>1 DEF Entry
    <3>3. j \in 1..n BY <1>1, <3>2 DEF Spaced
    <3> QED BY <3>1, <3>2, <3>3
  <2>5. CASE h \in Moves(i - 1)
    <3>1. PICK j \in 1..k : j <= i - 1 /\ IsMoved(t[j], y) /\ h = Entry(sub[j], t[j], TRUE)
      BY <2>5
    <3>2. d = sub[j] BY <2>1, <3>1 DEF Entry
    <3>3. j \in 1..n /\ j < i BY <1>1, <1>6, <3>1
    <3> QED BY <3>1, <3>2, <3>3
  <2> QED BY <2>3, <2>4, <2>5
<1>11. ASSUME NEW i \in 1..n
       PROVE  /\ \A j \in 1..n : Applies(t[j], y) /\ t[j].kind = "public" =>
                   Resolve(t[j], y) \in PublicDates(f[i - 1])
              /\ \A j \in 1..n : j < i /\ IsMoved(t[j], y) => sub[j] \in PublicDates(f[i - 1])
  <2>1. i - 1 \in 0..k BY <1>1
  <2>2. f[i - 1] = ActualIn(t, k, y) \cup Moves(i - 1)
    <3> HIDE DEF Moves
    <3> QED BY <1>8, <2>1
  <2>3. ASSUME NEW j \in 1..n, Applies(t[j], y), t[j].kind = "public"
        PROVE  Resolve(t[j], y) \in PublicDates(f[i - 1])
    <3>1. j \in 1..k BY <1>5
    <3>2. PICK h : h = Entry(Resolve(t[j], y), t[j], FALSE) OBVIOUS
    <3>3. h \in f[i - 1] BY <2>2, <2>3, <3>1, <3>2 DEF ActualIn
    <3>4. h.date = Resolve(t[j], y) /\ h.kind = "public" BY <2>3, <3>2 DEF Entry
    <3> QED BY <3>3, <3>4 DEF PublicDates
  <2>4. ASSUME NEW j \in 1..n, j < i, IsMoved(t[j], y)
        PROVE  sub[j] \in PublicDates(f[i - 1])
    <3>1. j \in 1..k /\ j <= i - 1 BY <1>1, <1>5, <2>4
    <3>2. PICK h : h = Entry(sub[j], t[j], TRUE) OBVIOUS
    <3>3. h \in f[i - 1] BY <2>2, <2>4, <3>1, <3>2
    <3>4. t[j].kind = "public" BY <2>4 DEF Spaced, IsMoved
    <3>5. h.date = sub[j] /\ h.kind = "public" BY <3>2, <3>4 DEF Entry
    <3> QED BY <3>3, <3>5 DEF PublicDates
  <2> QED BY <2>3, <2>4
<1> DEFINE Good(i) == /\ sub[i] \in Int /\ ~IsWeekend(sub[i])
                      /\ Resolve(t[i], y) - 1 <= sub[i] /\ sub[i] <= Resolve(t[i], y) + 3
                      /\ sub[i] \notin PublicDates(f[i - 1])
\* One that all before it are right for.
<1>12. ASSUME NEW i \in 1..n, IsMoved(t[i], y), \A j \in 1..n : j < i /\ IsMoved(t[j], y) => Good(j)
       PROVE  Good(i)
  <2>1. PICK date \in Int : date = Resolve(t[i], y) /\ IsWeekend(date)
    BY <1>2, <1>5, <1>12 DEF IsMoved
  <2>2. PICK weekend \in {"us", "forward"} : weekend = t[i].weekend
    BY <1>12 DEF Spaced, IsMoved
  <2>3. PICK taken : taken = PublicDates(f[i - 1]) OBVIOUS
  <2>4. sub[i] = Substitute(weekend, date, taken) BY <1>4, <1>5, <2>1, <2>2, <2>3
  <2>5. PICK a \in Int : a = YearFirst(y)
    <3>1. y \in Int BY DEF Years
    <3> QED BY <3>1, YearLasts
  <2>6. \A j \in 1..n : lo[j] \in Int /\ hi[j] \in Int
    <3> SUFFICES ASSUME NEW j \in 1..n PROVE lo[j] \in Int /\ hi[j] \in Int OBVIOUS
    <3>1. lo[j] \in 0..360 /\ hi[j] \in 0..360 BY DEF Spaced
    <3>2. \A x \in 0..360 : x \in Int OBVIOUS
    <3> QED BY <3>1, <3>2
  <2>7. \A j \in 1..n : Applies(t[j], y) /\ t[j].kind = "public" =>
          /\ Resolve(t[j], y) \in Int
          /\ a + lo[j] <= Resolve(t[j], y) /\ Resolve(t[j], y) <= a + hi[j]
    BY <2>5 DEF Spaced, Between
  <2>8. t[i].kind = "public" /\ Applies(t[i], y) BY <1>12 DEF Spaced, IsMoved
  <2>9. a + lo[i] <= date /\ date <= a + hi[i] BY <2>1, <2>7, <2>8
  \* What a row other than its neighbour has is out of reach.
  <2>10. ASSUME NEW j \in 1..n, j # i, j # near[i], Applies(t[j], y), t[j].kind = "public"
         PROVE  /\ \/ Resolve(t[j], y) < date - 1 \/ Resolve(t[j], y) > date + 3
                   \/ weekend = "forward" /\ Resolve(t[j], y) <= date
                /\ IsMoved(t[j], y) /\ j < i =>
                     \/ sub[j] < date - 1 \/ sub[j] > date + 3
                     \/ weekend = "forward" /\ sub[j] <= date
    <3>1. PICK d \in Int : d = Resolve(t[j], y) /\ a + lo[j] <= d /\ d <= a + hi[j]
      BY <2>7, <2>10
    <3>2. \/ hi[j] + 4 < lo[i]
          \/ hi[i] + 4 < lo[j]
          \/ t[j].weekend = "none" /\ t[i].weekend = "forward" /\ hi[j] <= lo[i]
      BY <1>12, <2>10 DEF Spaced, IsMoved
    <3>3. IsMoved(t[j], y) /\ j < i => sub[j] \in Int /\ d - 1 <= sub[j] /\ sub[j] <= d + 3
      BY <1>12, <3>1
    <3>4. CASE hi[j] + 4 < lo[i]
      <4>1. d < date - 4 BY <2>6, <2>9, <3>1, <3>4
      <4> HIDE DEF Good
      <4> QED BY <3>1, <3>3, <4>1
    <3>5. CASE hi[i] + 4 < lo[j]
      <4>1. d > date + 4 BY <2>6, <2>9, <3>1, <3>5
      <4> HIDE DEF Good
      <4> QED BY <3>1, <3>3, <4>1
    <3>6. CASE t[j].weekend = "none" /\ t[i].weekend = "forward" /\ hi[j] <= lo[i]
      <4>1. d <= date BY <2>6, <2>9, <3>1, <3>6
      <4>2. ~IsMoved(t[j], y) BY <3>6 DEF IsMoved
      <4> QED BY <2>2, <3>1, <3>6, <4>1, <4>2
    <3> QED BY <3>2, <3>4, <3>5, <3>6
  <2>11. CASE weekend = "us"
    <3>1. near[i] = 0 BY <1>12, <2>2, <2>11 DEF Spaced, IsMoved
    <3>2. PICK s \in {date - 1, date + 1} : s = sub[i] /\ ~IsWeekend(s)
      BY <2>1, <2>4, <2>11, SubstituteIs
    <3>3. ASSUME s \in taken PROVE FALSE
      <4>1. CASE \E j \in 1..n : Applies(t[j], y) /\ t[j].kind = "public" /\ s = Resolve(t[j], y)
        <5>1. PICK j \in 1..n : Applies(t[j], y) /\ t[j].kind = "public" /\ s = Resolve(t[j], y)
          BY <4>1
        <5>2. j # i BY <2>1, <5>1
        <5>3. j # near[i] BY <3>1
        <5> QED BY <2>10, <2>11, <5>1, <5>2, <5>3
      <4>2. CASE \E j \in 1..n : j < i /\ IsMoved(t[j], y) /\ s = sub[j]
        <5>1. PICK j \in 1..n : j < i /\ IsMoved(t[j], y) /\ s = sub[j] BY <4>2
        <5>2. t[j].kind = "public" /\ Applies(t[j], y) BY <5>1 DEF Spaced, IsMoved
        <5>3. j # near[i] /\ j # i BY <3>1, <5>1
        <5> QED BY <2>10, <2>11, <5>1, <5>2, <5>3
      <4> QED BY <1>10, <2>3, <3>3, <4>1, <4>2
    <3>4. date - 1 <= s /\ s <= date + 3 /\ s \in Int OBVIOUS
    <3> QED BY <2>1, <2>3, <3>2, <3>3, <3>4
  <2>12. CASE weekend = "forward"
    <3>1. PICK one \in Int : /\ one = Next1(date) /\ date < one /\ one <= date + 2
                             /\ ~IsWeekend(one) /\ ~IsWeekend(one + 1)
                             /\ ~({one, one + 1} \subseteq taken) => sub[i] \in {one, one + 1} \ taken
      BY <2>1, <2>4, <2>12, SubstituteIs
    \* What takes one of the two days is the neighbour's.
    <3>2. ASSUME NEW d \in {one, one + 1}, d \in taken
          PROVE  /\ near[i] \in 1..n
                 /\ d = IF IsMoved(t[near[i]], y) THEN sub[near[i]] ELSE Resolve(t[near[i]], y)
      <4>1. d \in Int /\ date < d /\ d <= date + 3 /\ ~IsWeekend(d) BY <3>1
      <4>2. CASE \E j \in 1..n : Applies(t[j], y) /\ t[j].kind = "public" /\ d = Resolve(t[j], y)
        <5>1. PICK j \in 1..n : Applies(t[j], y) /\ t[j].kind = "public" /\ d = Resolve(t[j], y)
          BY <4>2
        <5>2. j # i BY <2>1, <4>1, <5>1
        <5>3. j = near[i]
          <6> SUFFICES ASSUME j # near[i] PROVE FALSE OBVIOUS
          <6>1. \/ d < date - 1 \/ d > date + 3 \/ d <= date BY <2>10, <5>1, <5>2
          <6> QED BY <4>1, <6>1
        <5>4. ~IsMoved(t[j], y) BY <4>1, <5>1 DEF IsMoved
        <5> QED BY <5>1, <5>3, <5>4
      <4>3. CASE \E j \in 1..n : j < i /\ IsMoved(t[j], y) /\ d = sub[j]
        <5>1. PICK j \in 1..n : j < i /\ IsMoved(t[j], y) /\ d = sub[j] BY <4>3
        <5>2. t[j].kind = "public" /\ Applies(t[j], y) BY <5>1 DEF Spaced, IsMoved
        <5>3. j # i BY <5>1
        <5>4. j = near[i]
          <6> SUFFICES ASSUME j # near[i] PROVE FALSE OBVIOUS
          <6>1. \/ d < date - 1 \/ d > date + 3 \/ d <= date BY <2>10, <5>1, <5>2, <5>3
          <6> QED BY <4>1, <6>1
        <5> QED BY <5>1, <5>4
      <4> QED BY <1>10, <2>3, <3>2, <4>2, <4>3
    <3>3. ~({one, one + 1} \subseteq taken)
      <4> SUFFICES ASSUME one \in taken, one + 1 \in taken PROVE FALSE OBVIOUS
      <4>1. PICK both : both = IF IsMoved(t[near[i]], y) THEN sub[near[i]] ELSE Resolve(t[near[i]], y)
        OBVIOUS
      <4>2. one = both /\ one + 1 = both BY <3>2, <4>1
      <4> QED BY <4>2
    <3>4. PICK s \in {one, one + 1} : s = sub[i] /\ s \notin taken BY <3>1, <3>3
    <3>5. s \in Int /\ date - 1 <= s /\ s <= date + 3 /\ ~IsWeekend(s) BY <3>1
    <3> QED BY <2>1, <2>3, <3>4, <3>5
  <2> QED BY <2>11, <2>12
<1>13. \A i \in 1..n : IsMoved(t[i], y) => Good(i)
  <2> DEFINE Bad == {i \in 1..n : IsMoved(t[i], y) /\ ~Good(i)}
  <2> SUFFICES ASSUME Bad # {} PROVE FALSE BY DEF Bad
  <2> HIDE DEF Good
  <2>1. PICK i \in Bad : \A j \in Bad : i <= j
    <3>1. Bad \in SUBSET Nat OBVIOUS
    <3> QED BY <3>1, LeastNat
  <2>2. i \in 1..n /\ IsMoved(t[i], y) /\ ~Good(i) BY <2>1
  <2>3. \A j \in 1..n : j < i /\ IsMoved(t[j], y) => Good(j) BY <2>1
  <2> QED BY <1>12, <2>2, <2>3
<1>14. ASSUME NEW i \in 1..n, IsMoved(t[i], y), NEW j \in 1..n
       PROVE  /\ Applies(t[j], y) /\ t[j].kind = "public" => Resolve(t[j], y) # sub[i]
              /\ IsMoved(t[j], y) /\ j # i => sub[j] # sub[i]
  <2>1. Applies(t[j], y) /\ t[j].kind = "public" => Resolve(t[j], y) # sub[i]
    BY <1>11, <1>13, <1>14
  <2>2. IsMoved(t[j], y) /\ j < i => sub[j] # sub[i] BY <1>11, <1>13, <1>14
  <2>3. IsMoved(t[j], y) /\ i < j => sub[j] # sub[i] BY <1>11, <1>13, <1>14
  <2> HIDE DEF Good
  <2> QED BY <2>1, <2>2, <2>3
<1>15. ASSUME NEW h \in f[k]
       PROVE  \E i \in 1..k :
                /\ Applies(t[i], y)
                /\ \/ h = Entry(Resolve(t[i], y), t[i], FALSE)
                   \/ i \in 1..n /\ IsMoved(t[i], y) /\ h = Entry(sub[i], t[i], TRUE)
  <2>1. h \in ActualIn(t, k, y) \/ h \in Moves(k)
    <3>1. k \in 0..k BY <1>1
    <3> HIDE DEF Moves
    <3> QED BY <1>8, <1>15, <3>1
  <2>2. CASE h \in ActualIn(t, k, y) BY <2>2 DEF ActualIn
  <2>3. CASE h \in Moves(k)
    <3>1. PICK i \in 1..k : IsMoved(t[i], y) /\ h = Entry(sub[i], t[i], TRUE) BY <2>3
    <3>2. Applies(t[i], y) /\ i \in 1..n BY <1>6, <3>1 DEF IsMoved
    <3> QED BY <3>1, <3>2
  <2> QED BY <2>1, <2>2, <2>3
<1>16. YearsAre(f[k], t, k, n, y, sub)
  <2> HIDE DEF Moves
  <2> QED BY <1>13, <1>14, <1>15 DEF YearsAre
<1> QED BY <1>3, <1>16

\* Every region's table is spaced out.
LEMMA AllSpaced ==
    ASSUME NEW region \in HolidayRegions
    PROVE  \E k, n, lo, hi, near : Spaced(Tables[region], k, n, lo, hi, near)
<1>1. /\ Tables["US"] = US \o CommonObservances /\ Tables["GB"] = GB \o CommonObservances
      /\ Tables["CA"] = CA \o CommonObservances /\ Tables["AU"] = AU \o CommonObservances
      /\ Tables["IE"] = IE \o CommonObservances /\ Tables["NZ"] = NZ \o CommonObservances
  BY DEF Tables
<1>2. ASSUME NEW t, NEW n, \E lo, hi, near : RowsSpaced(t, n, lo, hi, near)
      PROVE  \E k, m, lo, hi, near : Spaced(t \o CommonObservances, k, m, lo, hi, near)
  <2>1. PICK lo, hi, near : RowsSpaced(t, n, lo, hi, near) BY <1>2
  <2>2. Spaced(t \o CommonObservances, n + 6, n, lo, hi, near) BY <2>1, SpacedOut
  <2> QED BY <2>2
<1>3. region = "US" => \E k, m, lo, hi, near : Spaced(Tables[region], k, m, lo, hi, near)
  BY <1>1, <1>2, USSpaced
<1>4. region = "GB" => \E k, m, lo, hi, near : Spaced(Tables[region], k, m, lo, hi, near)
  BY <1>1, <1>2, GBSpaced
<1>5. region = "CA" => \E k, m, lo, hi, near : Spaced(Tables[region], k, m, lo, hi, near)
  BY <1>1, <1>2, CASpaced
<1>6. region = "AU" => \E k, m, lo, hi, near : Spaced(Tables[region], k, m, lo, hi, near)
  BY <1>1, <1>2, AUSpaced
<1>7. region = "IE" => \E k, m, lo, hi, near : Spaced(Tables[region], k, m, lo, hi, near)
  BY <1>1, <1>2, IESpaced
<1>8. region = "NZ" => \E k, m, lo, hi, near : Spaced(Tables[region], k, m, lo, hi, near)
  BY <1>1, <1>2, NZSpaced
<1>9. region = "US" \/ region = "GB" \/ region = "CA" \/ region = "AU" \/ region = "IE" \/ region = "NZ"
  BY DEF HolidayRegions
<1> QED BY <1>3, <1>4, <1>5, <1>6, <1>7, <1>8, <1>9

\* A year's holidays keep within it, but for a substitute on the day before it; public
\* ones end two days before the next.
Keeps(found, y) ==
    /\ \A h \in found :
         /\ h.date \in Int /\ YearFirst(y) - 1 <= h.date /\ h.date < YearFirst(y + 1)
         /\ h.kind = "public" => h.date + 1 < YearFirst(y + 1)
         /\ h.observed => h.kind = "public" /\ ~IsWeekend(h.date)
    /\ \A h, other \in found :
         h.observed /\ other.kind = "public" /\ other.date = h.date => other = h

\* They do, in every region.
LEMMA YearKeeps ==
    ASSUME NEW region \in HolidayRegions, NEW y \in Years
    PROVE  Keeps(HolidaysForYear(region, y), y)
<1>1. PICK t : t = Tables[region] OBVIOUS
<1>2. PICK k, n, lo, hi, near : Spaced(t, k, n, lo, hi, near) BY <1>1, AllSpaced
<1>3. PICK found : found = HolidaysForYear(region, y) OBVIOUS
<1>4. PICK sub : YearsAre(found, t, k, n, y, sub) BY <1>1, <1>2, <1>3, YearOfHolidays
<1>5. PICK a \in Int, b \in Int : a = YearFirst(y) /\ b = YearFirst(y + 1) /\ b >= a + 365
  <2>1. y \in Int BY DEF Years
  <2>2. /\ YearFirst(y) \in Int
        /\ YearFirst(y + 1) = YearFirst(y) + (IF IsLeap(y) THEN 366 ELSE 365)
    BY <2>1, YearLasts
  <2> QED BY <2>2
<1>6. n \in Nat /\ k \in Nat /\ \A i \in 1..n : i \in 1..k
  <2>1. k \in Nat /\ n \in 0..k BY <1>2 DEF Spaced
  <2> QED BY <2>1
<1>7. ASSUME NEW i \in 1..k, Applies(t[i], y)
      PROVE  /\ Resolve(t[i], y) \in Int /\ a <= Resolve(t[i], y) /\ Resolve(t[i], y) < b
             /\ t[i].kind = "public" => i \in 1..n /\ Resolve(t[i], y) <= a + 360
  <2>1. /\ Resolve(t[i], y) \in Int /\ a <= Resolve(t[i], y) /\ Resolve(t[i], y) < b
    BY <1>2, <1>5, <1>7 DEF Spaced, InYear
  <2>2. ASSUME t[i].kind = "public" PROVE i \in 1..n /\ Resolve(t[i], y) <= a + 360
    <3>1. i \in 1..n BY <1>2, <1>6, <2>2 DEF Spaced
    <3>2. Between(t[i], lo[i], hi[i]) /\ hi[i] \in 0..360 BY <1>2, <2>2, <3>1 DEF Spaced
    <3>3. Resolve(t[i], y) <= a + hi[i] BY <1>5, <1>7, <3>2 DEF Between
    <3> QED BY <2>1, <3>1, <3>2, <3>3
  <2> QED BY <2>1, <2>2
<1>8. ASSUME NEW i \in 1..n, IsMoved(t[i], y)
      PROVE  /\ t[i].kind = "public" /\ i \in 1..k
             /\ sub[i] \in Int /\ ~IsWeekend(sub[i]) /\ a - 1 <= sub[i] /\ sub[i] <= a + 363
  <2>1. t[i].kind = "public" BY <1>2, <1>8 DEF Spaced, IsMoved
  <2>2. Applies(t[i], y) BY <1>8 DEF IsMoved
  <2>3. PICK d \in Int : d = Resolve(t[i], y) /\ a <= d /\ d <= a + 360 BY <1>6, <1>7, <2>1, <2>2
  <2>4. sub[i] \in Int /\ ~IsWeekend(sub[i]) /\ d - 1 <= sub[i] /\ sub[i] <= d + 3
    BY <1>4, <1>8, <2>3 DEF YearsAre
  <2> QED BY <1>6, <2>1, <2>3, <2>4
<1>9. ASSUME NEW h \in found
      PROVE  /\ h.date \in Int /\ a - 1 <= h.date /\ h.date < b
             /\ h.kind = "public" => h.date + 1 < b
             /\ h.observed => h.kind = "public" /\ ~IsWeekend(h.date)
  <2>1. PICK i \in 1..k :
          /\ Applies(t[i], y)
          /\ \/ h = Entry(Resolve(t[i], y), t[i], FALSE)
             \/ i \in 1..n /\ IsMoved(t[i], y) /\ h = Entry(sub[i], t[i], TRUE)
    BY <1>4 DEF YearsAre
  <2>2. CASE h = Entry(Resolve(t[i], y), t[i], FALSE)
    <3>1. h.date = Resolve(t[i], y) /\ h.kind = t[i].kind /\ h.observed = FALSE
      BY <2>2 DEF Entry
    <3>2. PICK d \in Int : d = h.date /\ a <= d /\ d < b /\ (h.kind = "public" => d <= a + 360)
      BY <1>7, <2>1, <3>1
    <3> QED BY <1>5, <3>1, <3>2
  <2>3. CASE i \in 1..n /\ IsMoved(t[i], y) /\ h = Entry(sub[i], t[i], TRUE)
    <3>1. h.date = sub[i] /\ h.kind = t[i].kind BY <2>3 DEF Entry
    <3>2. PICK d \in Int : /\ d = h.date /\ ~IsWeekend(d) /\ h.kind = "public"
                           /\ a - 1 <= d /\ d <= a + 363
      BY <1>8, <2>3, <3>1
    <3> QED BY <1>5, <3>2
  <2> QED BY <2>1, <2>2, <2>3
<1>10. ASSUME NEW h \in found, NEW other \in found,
              h.observed, other.kind = "public", other.date = h.date
       PROVE  other = h
  <2>1. PICK i \in 1..n : IsMoved(t[i], y) /\ h = Entry(sub[i], t[i], TRUE)
    <3>1. PICK i \in 1..k :
            \/ h = Entry(Resolve(t[i], y), t[i], FALSE)
            \/ i \in 1..n /\ IsMoved(t[i], y) /\ h = Entry(sub[i], t[i], TRUE)
      BY <1>4 DEF YearsAre
    <3>2. h # Entry(Resolve(t[i], y), t[i], FALSE) BY <1>10 DEF Entry
    <3> QED BY <3>1, <3>2
  <2>2. h.date = sub[i] BY <2>1 DEF Entry
  <2>3. PICK j \in 1..k :
          /\ Applies(t[j], y)
          /\ \/ other = Entry(Resolve(t[j], y), t[j], FALSE)
             \/ j \in 1..n /\ IsMoved(t[j], y) /\ other = Entry(sub[j], t[j], TRUE)
    BY <1>4 DEF YearsAre
  <2>4. other # Entry(Resolve(t[j], y), t[j], FALSE)
    <3> SUFFICES ASSUME other = Entry(Resolve(t[j], y), t[j], FALSE) PROVE FALSE OBVIOUS
    <3>1. other.date = Resolve(t[j], y) /\ t[j].kind = "public" BY <1>10 DEF Entry
    <3>2. j \in 1..n BY <1>7, <2>3, <3>1
    <3>3. Resolve(t[j], y) # sub[i] BY <1>4, <2>1, <2>3, <3>1, <3>2 DEF YearsAre
    <3> QED BY <1>10, <2>2, <3>1, <3>3
  <2>5. j \in 1..n /\ IsMoved(t[j], y) /\ other = Entry(sub[j], t[j], TRUE) BY <2>3, <2>4
  <2>6. other.date = sub[j] BY <2>5 DEF Entry
  <2>7. j = i
    <3> SUFFICES ASSUME j # i PROVE FALSE OBVIOUS
    <3>1. sub[j] # sub[i] BY <1>4, <2>1, <2>5 DEF YearsAre
    <3> QED BY <1>10, <2>2, <2>6, <3>1
  <2> QED BY <2>1, <2>5, <2>7
<1>11. Keeps(found, y) BY <1>5, <1>9, <1>10 DEF Keeps
<1> QED BY <1>3, <1>11

-----------------------------------------------------------------------------
(* Holidays around a date                                                  *)

\* A later date is in no earlier year.
LEMMA YearsGrow ==
    ASSUME NEW c \in Int, NEW d \in Int, c <= d
    PROVE  YearOf(c) <= YearOf(d)
<1>1. PICK y \in Int : y = YearOf(c) /\ YearFirst(y) <= c BY YearIs
<1>2. PICK z \in Int : z = YearOf(d) /\ d < YearFirst(z + 1) BY YearIs
<1>3. YearFirst(y) \in Int /\ YearFirst(z + 1) \in Int
  <2>1. z + 1 \in Int OBVIOUS
  <2> QED BY <2>1, YearLasts
<1>4. ~(z < y)
  <2> SUFFICES ASSUME z < y PROVE FALSE OBVIOUS
  <2>1. YearFirst(z + 1) <= YearFirst(y) BY YearsFollow
  <2> QED BY <1>1, <1>2, <1>3, <2>1
<1> QED BY <1>1, <1>2, <1>4

\* Sixty days either way reach into the next year at most.
LEMMA YearsNear ==
    ASSUME NEW date \in Nat
    PROVE  /\ YearOf(date) \in Int /\ YearOf(date) >= 1970
           /\ YearOf(date - 60) \in Int /\ YearOf(date - 60) >= YearOf(date) - 1
           /\ YearOf(date + 60) \in Int /\ YearOf(date + 60) <= YearOf(date) + 1
<1>1. PICK y \in Int : y = YearOf(date) /\ YearFirst(y) <= date /\ date < YearFirst(y + 1)
  BY YearIs
<1>2. date - 60 \in Int /\ date + 60 \in Int /\ date \in Int /\ 0 \in Int OBVIOUS
<1>3. YearOf(date - 60) \in Int /\ YearOf(date + 60) \in Int BY <1>2, YearIs
<1>4. PICK p \in Int, a \in Int, b \in Int, c \in Int :
        /\ p = YearFirst(y - 1) /\ a = YearFirst(y) /\ b = YearFirst(y + 1) /\ c = YearFirst(y + 2)
        /\ a >= p + 365 /\ b >= a + 365 /\ c >= b + 365
  <2>1. \A x \in Int : YearFirst(x) \in Int /\ YearFirst(x + 1) >= YearFirst(x) + 365
    <3> SUFFICES ASSUME NEW x \in Int
                 PROVE  YearFirst(x) \in Int /\ YearFirst(x + 1) >= YearFirst(x) + 365
      OBVIOUS
    <3> QED BY YearLasts
  <2>2. y - 1 \in Int /\ y + 1 \in Int /\ y + 2 \in Int /\ y - 1 + 1 = y /\ y + 1 + 1 = y + 2
    OBVIOUS
  <2>3. YearFirst(y - 1) \in Int /\ YearFirst(y) >= YearFirst(y - 1) + 365 BY <2>1, <2>2
  <2>4. YearFirst(y) \in Int /\ YearFirst(y + 1) >= YearFirst(y) + 365 BY <2>1
  <2>5. YearFirst(y + 1) \in Int /\ YearFirst(y + 2) >= YearFirst(y + 1) + 365 BY <2>1, <2>2
  <2>6. YearFirst(y + 2) \in Int BY <2>1, <2>2
  <2> QED BY <2>3, <2>4, <2>5, <2>6
<1>5. YearOf(date - 60) >= y - 1
  <2>1. PICK z \in Int : z = YearOf(date - 60) /\ date - 60 < YearFirst(z + 1) BY <1>2, YearIs
  <2>2. ~(z < y - 1)
    <3> SUFFICES ASSUME z < y - 1 PROVE FALSE OBVIOUS
    <3>1. y - 1 \in Int /\ z + 1 \in Int OBVIOUS
    <3>2. YearFirst(z + 1) <= p BY <1>4, <3>1, YearsFollow
    <3>3. YearFirst(z + 1) \in Int BY <3>1, YearLasts
    <3> QED BY <1>1, <1>4, <2>1, <3>2, <3>3
  <2> QED BY <2>1, <2>2
<1>6. YearOf(date + 60) <= y + 1
  <2>1. PICK z \in Int : z = YearOf(date + 60) /\ YearFirst(z) <= date + 60 BY <1>2, YearIs
  <2>2. ~(y + 1 < z)
    <3> SUFFICES ASSUME y + 1 < z PROVE FALSE OBVIOUS
    <3>1. y + 1 \in Int /\ y + 1 + 1 = y + 2 OBVIOUS
    <3>2. c <= YearFirst(z) BY <1>4, <3>1, YearsFollow
    <3>3. YearFirst(z) \in Int BY YearLasts
    <3> QED BY <1>1, <1>4, <2>1, <3>2, <3>3
  <2> QED BY <2>1, <2>2
<1>7. y >= 1970
  <2>1. YearFirst(1970) = 0
    <3>1. PICK l \in Int : l = LeapsBefore(1970) BY DEF LeapsBefore
    <3> QED BY <3>1 DEF YearFirst
  <2>2. ~(y < 1970)
    <3> SUFFICES ASSUME y < 1970 PROVE FALSE OBVIOUS
    <3>1. 1970 \in Int OBVIOUS
    <3>2. YearFirst(y + 1) <= YearFirst(1970) BY <3>1, YearsFollow
    <3> QED BY <1>1, <1>4, <2>1, <3>2
  <2> QED BY <2>2
<1> QED BY <1>1, <1>3, <1>5, <1>6, <1>7

\* A holiday is of the year it falls in, or of the next one.
LEMMA YearsOfDay ==
    ASSUME NEW region \in HolidayRegions, NEW y \in Years, NEW h \in HolidaysForYear(region, y)
    PROVE  /\ h.date \in Int
           /\ y = YearOf(h.date) \/ y = YearOf(h.date) + 1
<1>1. h.date \in Int /\ YearFirst(y) - 1 <= h.date /\ h.date < YearFirst(y + 1)
  BY YearKeeps DEF Keeps
<1>2. PICK d \in Int : d = h.date BY <1>1
<1>3. PICK z \in Int : z = YearOf(d) /\ YearFirst(z) <= d /\ d < YearFirst(z + 1) BY YearIs
<1>4. y \in Int BY DEF Years
<1>5. /\ YearFirst(y) \in Int /\ YearFirst(y + 1) \in Int /\ YearFirst(z) \in Int
      /\ YearFirst(z + 1) \in Int
  <2>1. y + 1 \in Int /\ z + 1 \in Int BY <1>4
  <2> QED BY <1>4, <2>1, YearLasts
<1>6. ~(y < z)
  <2> SUFFICES ASSUME y < z PROVE FALSE OBVIOUS
  <2>1. YearFirst(y + 1) <= YearFirst(z) BY <1>4, YearsFollow
  <2> QED BY <1>1, <1>2, <1>3, <1>5, <2>1
<1>7. ~(z + 1 < y)
  <2> SUFFICES ASSUME z + 1 < y PROVE FALSE OBVIOUS
  <2>1. z + 1 \in Int OBVIOUS
  <2>2. YearFirst(z + 1 + 1) <= YearFirst(y) BY <1>4, <2>1, YearsFollow
  <2>3. YearFirst(z + 1 + 1) \in Int /\ YearFirst(z + 1 + 1) >= YearFirst(z + 1) + 365
    <3>1. z + 1 + 1 \in Int OBVIOUS
    <3>2. YearFirst(z + 1 + 1) = YearFirst(z + 1) + (IF IsLeap(z + 1) THEN 366 ELSE 365)
      BY <2>1, YearLasts
    <3>3. YearFirst(z + 1 + 1) \in Int BY <3>1, YearLasts
    <3> QED BY <1>5, <3>2, <3>3
  <2> QED BY <1>1, <1>2, <1>3, <1>5, <2>2, <2>3
<1> QED BY <1>1, <1>2, <1>3, <1>4, <1>6, <1>7

\* Of a region's holidays, whatever years they are of, none is on a substitute's day.
LEMMA SubstitutesKeep ==
    ASSUME NEW region \in HolidayRegions, NEW y \in Years, NEW z \in Years,
           NEW h \in HolidaysForYear(region, y), NEW other \in HolidaysForYear(region, z),
           h.observed
    PROVE  /\ ~IsWeekend(h.date)
           /\ other # h /\ other.kind = "public" => other.date # h.date
<1>1. /\ h.date \in Int /\ YearFirst(y) - 1 <= h.date /\ h.date + 1 < YearFirst(y + 1)
      /\ ~IsWeekend(h.date)
  BY YearKeeps DEF Keeps
<1>2. y \in Int /\ z \in Int BY DEF Years
<1>3. /\ YearFirst(y) \in Int /\ YearFirst(y + 1) \in Int /\ YearFirst(z) \in Int
      /\ YearFirst(z + 1) \in Int
  <2>1. y + 1 \in Int /\ z + 1 \in Int BY <1>2
  <2> QED BY <1>2, <2>1, YearLasts
<1>4. ASSUME other # h, other.kind = "public", other.date = h.date PROVE FALSE
  <2>1. YearFirst(z) - 1 <= other.date /\ other.date + 1 < YearFirst(z + 1)
    BY <1>4, YearKeeps DEF Keeps
  <2>2. CASE y = z
    <3>1. Keeps(HolidaysForYear(region, y), y) BY YearKeeps
    <3>2. other \in HolidaysForYear(region, y) BY <2>2
    <3> QED BY <1>4, <3>1, <3>2 DEF Keeps
  <2>3. CASE y < z
    <3>1. YearFirst(y + 1) <= YearFirst(z) BY <1>2, <2>3, YearsFollow
    <3> QED BY <1>1, <1>3, <1>4, <2>1, <3>1
  <2>4. CASE z < y
    <3>1. YearFirst(z + 1) <= YearFirst(y) BY <1>2, <2>4, YearsFollow
    <3> QED BY <1>1, <1>3, <1>4, <2>1, <3>1
  <2> QED BY <1>2, <2>2, <2>3, <2>4
<1> QED BY <1>1, <1>4

\* A page's days are from five weeks before its date to six after.
LEMMA DrawnNear ==
    ASSUME NEW date \in Int, NEW start \in 0..6, NEW view \in Views,
           NEW day \in Fetched(view, date, start)
    PROVE  day \in Int /\ date - 36 <= day /\ day <= date + 41
<1>1. ASSUME NEW d \in Int PROVE WeekFirst(d, start) \in Int /\ d - 6 <= WeekFirst(d, start)
                                 /\ WeekFirst(d, start) <= d
  <2>1. PICK u \in 1..7 : u = Weekday(d) BY DEF Weekday
  <2>2. PICK v \in 0..6 : v = (u - start) % 7 OBVIOUS
  <2>3. WeekFirst(d, start) = d - v BY <2>1, <2>2 DEF WeekFirst
  <2> QED BY <2>3
<1>2. CASE view = "day"
  <2>1. day = date BY <1>2 DEF Fetched
  <2> QED BY <2>1
<1>3. CASE view = "month"
  <2>1. PICK first \in Int : first = MonthFirst(date) /\ date - 30 <= first /\ first <= date
    <3>1. MonthFirst(date) \in date - 30..date BY MonthBegins
    <3> QED BY <3>1
  <2>2. PICK w \in Int : w = WeekFirst(first, start) /\ first - 6 <= w /\ w <= first BY <1>1
  <2>3. day \in w..w + 41 BY <1>3, <2>1, <2>2 DEF Fetched, MonthCells
  <2> QED BY <2>1, <2>2, <2>3
<1>4. CASE view # "day" /\ view # "month"
  <2>1. PICK w \in Int : w = WeekFirst(date, start) /\ date - 6 <= w /\ w <= date BY <1>1
  <2>2. day \in w..w + 6 BY <1>4, <2>1 DEF Fetched, WeekOf
  <2> QED BY <2>1, <2>2
<1> QED BY <1>2, <1>3, <1>4

-----------------------------------------------------------------------------
(* The holidays of a page                                                  *)

\* A page is the one that the settings give for its date.
HolidaysInv ==
    /\ surface = "holidays" =>
         /\ preference \in Preferences /\ timezone \in Zones /\ weekStart \in WeekStarts
         /\ page.anchor \in Anchors /\ page = Rendered(preference, timezone, page.anchor)
    /\ surface # "holidays" => page = [anchor |-> 0, region |-> "none", found |-> {}]

\* A setting gives a region or none.
LEMMA RegionIs ==
    ASSUME NEW chosen \in Preferences, NEW zone
    PROVE  ResolveHolidayRegion(chosen, zone) \in HolidayRegions \cup {"none"}
<1>1. RegionFromTimezone(zone) \in HolidayRegions \cup {"none"}
  BY DEF RegionFromTimezone, HolidayRegions
<1> QED BY <1>1 DEF ResolveHolidayRegion, Preferences

\* What a page for some settings carries.
LEMMA RenderedIs ==
    ASSUME NEW chosen, NEW zone, NEW anchor
    PROVE  LET p == Rendered(chosen, zone, anchor) IN
           /\ p.anchor = anchor /\ p.region = ResolveHolidayRegion(chosen, zone)
           /\ p.found = IF p.region = "none" THEN {}
                        ELSE HolidaysInRange(p.region, anchor - 60, anchor + 60)
BY DEF Rendered, ResolveHolidays, WindowDays

\* What a page has found, and for which dates.
LEMMA PageIs ==
    ASSUME HolidaysInv, page.region # "none"
    PROVE  /\ page.region \in HolidayRegions /\ page.anchor \in Anchors /\ page.anchor \in Nat
           /\ weekStart \in 0..6
           /\ page.found = HolidaysInRange(page.region, page.anchor - 60, page.anchor + 60)
<1>1. surface = "holidays" BY DEF HolidaysInv
<1>2. preference \in Preferences /\ weekStart \in WeekStarts /\ page.anchor \in Anchors
      /\ page = Rendered(preference, timezone, page.anchor)
  BY <1>1 DEF HolidaysInv
<1>3. /\ page.region = ResolveHolidayRegion(preference, timezone)
      /\ page.found = IF page.region = "none" THEN {}
                      ELSE HolidaysInRange(page.region, page.anchor - 60, page.anchor + 60)
  BY <1>2, RenderedIs
<1>4. page.region \in HolidayRegions \cup {"none"} BY <1>2, <1>3, RegionIs
<1> QED BY <1>2, <1>3, <1>4, HolidaysAssumption

\* The holidays found are those of the years around the date, in the window.
LEMMA FoundAre ==
    ASSUME NEW region \in HolidayRegions, NEW date \in Nat, NEW h
    PROVE  /\ h \in HolidaysInRange(region, date - 60, date + 60) =>
                /\ date - 60 <= h.date /\ h.date < date + 60 /\ h.date \in Int
                /\ \E y \in Years : h \in HolidaysForYear(region, y)
           /\ \A y \in Years : h \in HolidaysForYear(region, y) =>
                /\ h.date \in Int
                /\ (date - 60 <= h.date /\ h.date < date + 60) =>
                     /\ h \in HolidaysInRange(region, date - 60, date + 60)
                     /\ y \in {YearOf(date) + n : n \in -2..2}
<1>1. PICK u \in Int, v \in Int, w \in Int :
        /\ u = YearOf(date - 60) /\ v = YearOf(date) /\ w = YearOf(date + 60)
        /\ v >= 1970 /\ u >= v - 1 /\ w <= v + 1
  <2>1. /\ YearOf(date) \in Int /\ YearOf(date) >= 1970
        /\ YearOf(date - 60) \in Int /\ YearOf(date - 60) >= YearOf(date) - 1
        /\ YearOf(date + 60) \in Int /\ YearOf(date + 60) <= YearOf(date) + 1
    BY YearsNear
  <2> QED BY <2>1
<1>2. ASSUME NEW y \in u - 1..w + 1 PROVE y \in Years
  BY <1>1 DEF Years
<1>3. HolidaysInRange(region, date - 60, date + 60) =
        {x \in UNION {HolidaysForYear(region, y) : y \in u - 1..w + 1} :
            date - 60 <= x.date /\ x.date < date + 60}
  BY <1>1 DEF HolidaysInRange
<1>4. ASSUME h \in HolidaysInRange(region, date - 60, date + 60)
      PROVE  /\ date - 60 <= h.date /\ h.date < date + 60 /\ h.date \in Int
             /\ \E y \in Years : h \in HolidaysForYear(region, y)
  <2>1. PICK y \in u - 1..w + 1 : h \in HolidaysForYear(region, y) BY <1>3, <1>4
  <2>2. y \in Years BY <1>2
  <2>3. h.date \in Int BY <2>1, <2>2, YearsOfDay
  <2> QED BY <1>3, <1>4, <2>1, <2>2, <2>3
<1>5. ASSUME NEW y \in Years, h \in HolidaysForYear(region, y)
      PROVE  /\ h.date \in Int
             /\ (date - 60 <= h.date /\ h.date < date + 60) =>
                  /\ h \in HolidaysInRange(region, date - 60, date + 60)
                  /\ y \in {YearOf(date) + n : n \in -2..2}
  <2>1. PICK d \in Int : d = h.date /\ (y = YearOf(d) \/ y = YearOf(d) + 1)
    BY <1>5, YearsOfDay
  <2>2. ASSUME date - 60 <= d, d < date + 60
        PROVE  /\ y \in u - 1..w + 1
               /\ y \in {YearOf(date) + n : n \in -2..2}
    <3>1. PICK z \in Int : z = YearOf(d) BY YearIs
    <3>2. u <= z
      <4>1. date - 60 \in Int OBVIOUS
      <4> QED BY <1>1, <2>2, <3>1, <4>1, YearsGrow
    <3>3. z <= w
      <4>1. date + 60 \in Int /\ d <= date + 60 BY <2>2
      <4> QED BY <1>1, <3>1, <4>1, YearsGrow
    <3>4. y = z \/ y = z + 1 BY <2>1, <3>1
    <3>5. y \in u - 1..w + 1 BY <1>1, <3>2, <3>3, <3>4
    <3>6. y - v \in -2..2 /\ y = v + (y - v) BY <1>1, <3>2, <3>3, <3>4
    <3> QED BY <1>1, <3>5, <3>6
  <2>3. ASSUME date - 60 <= d, d < date + 60
        PROVE  h \in HolidaysInRange(region, date - 60, date + 60)
    <3>1. y \in u - 1..w + 1 BY <2>2, <2>3
    <3> QED BY <1>3, <1>5, <2>1, <2>3, <3>1
  <2> QED BY <2>1, <2>2, <2>3
<1> QED BY <1>4, <1>5

\* The window reaches every day that is drawn.
LEMMA CellsKnow == HolidaysInv => CellsKnowTheirHolidays
<1> SUFFICES ASSUME HolidaysInv, page.region # "none", NEW day \in DaysDrawn
             PROVE  {h \in page.found : h.date = day} = {h \in Calendar[page.region] : h.date = day}
  BY DEF CellsKnowTheirHolidays
<1>1. PICK region \in HolidayRegions, date \in Nat :
        /\ region = page.region /\ date = page.anchor /\ date \in Anchors /\ weekStart \in 0..6
        /\ page.found = HolidaysInRange(region, date - 60, date + 60)
  BY PageIs
<1>2. day \in Int /\ date - 36 <= day /\ day <= date + 41
  <2>1. PICK view \in Views : day \in Fetched(view, date, weekStart) BY <1>1 DEF DaysDrawn
  <2> QED BY <1>1, <2>1, DrawnNear
<1>3. Calendar[region] =
        UNION {HolidaysForYear(region, y) : y \in {YearOf(a) + n : a \in Anchors, n \in -2..2}}
  BY DEF Calendar
<1>4. ASSUME NEW h \in page.found, h.date = day PROVE h \in Calendar[region]
  <2>1. date - 60 <= h.date /\ h.date < date + 60 BY <1>2, <1>4
  <2>2. PICK y \in Years : h \in HolidaysForYear(region, y)
    <3>1. h \in HolidaysInRange(region, date - 60, date + 60) BY <1>1, <1>4
    <3>2. \E y \in Years : h \in HolidaysForYear(region, y) BY <3>1, FoundAre
    <3> QED BY <3>2
  <2>3. y \in {YearOf(date) + n : n \in -2..2} BY <2>1, <2>2, FoundAre
  <2>4. y \in {YearOf(a) + n : a \in Anchors, n \in -2..2} BY <1>1, <2>3
  <2> QED BY <1>3, <2>2, <2>4
<1>5. ASSUME NEW h \in Calendar[region], h.date = day PROVE h \in page.found
  <2>1. PICK a \in Anchors, n \in -2..2 : h \in HolidaysForYear(region, YearOf(a) + n)
    BY <1>3, <1>5
  <2>2. YearOf(a) + n \in Years
    <3>1. a \in Nat BY HolidaysAssumption
    <3>2. YearOf(a) \in Int /\ YearOf(a) >= 1970 BY <3>1, YearsNear
    <3> QED BY <3>2 DEF Years
  <2>3. date - 60 <= h.date /\ h.date < date + 60 BY <1>2, <1>5
  <2> QED BY <1>1, <2>1, <2>2, <2>3, FoundAre
<1> QED BY <1>1, <1>4, <1>5

\* So what is found has the substitutes apart.
LEMMA SubstitutesAreOff == HolidaysInv => SubstitutesAreDaysOff
<1> SUFFICES ASSUME HolidaysInv, NEW h \in page.found, h.observed
             PROVE  /\ ~IsWeekend(h.date)
                    /\ \A other \in page.found :
                         (other # h /\ other.kind = "public") => other.date # h.date
  BY DEF SubstitutesAreDaysOff
<1>1. page.region # "none"
  <2>1. surface = "holidays" BY DEF HolidaysInv
  <2> QED BY <2>1, RenderedIs DEF HolidaysInv
<1>2. PICK region \in HolidayRegions, date \in Nat :
        page.found = HolidaysInRange(region, date - 60, date + 60)
  BY <1>1, PageIs
<1>3. PICK y \in Years : h \in HolidaysForYear(region, y) BY <1>2, FoundAre
<1>4. ~IsWeekend(h.date) BY <1>3, SubstitutesKeep
<1>5. ASSUME NEW other \in page.found, other # h, other.kind = "public"
      PROVE  other.date # h.date
  <2>1. PICK z \in Years : other \in HolidaysForYear(region, z) BY <1>2, FoundAre
  <2> QED BY <1>3, <1>5, <2>1, SubstitutesKeep
<1> QED BY <1>4, <1>5

\* Easter is as it should be in any year.
LEMMA MoonFollowed == HolidaysInv => EasterFollowsTheMoon
<1> SUFFICES ASSUME HolidaysInv PROVE EasterFollowsTheMoon OBVIOUS
<1>1. page.anchor \in Int
  <2>1. surface = "holidays" => page.anchor \in Nat BY HolidaysAssumption DEF HolidaysInv
  <2>2. surface # "holidays" => page.anchor = 0 BY DEF HolidaysInv
  <2> QED BY <2>1, <2>2
<1>2. YearOf(page.anchor) \in Int BY <1>1, YearIs
<1> QED BY <1>2, EasterIs DEF EasterFollowsTheMoon

\* The invariant is enough.
LEMMA HolidaysInvHolds == HolidaysInv => HolidaysHold
BY CellsKnow, SubstitutesAreOff, MoonFollowed DEF HolidaysHold

\* The first page is rendered for the settings,
LEMMA HolidaysBegin == Init => HolidaysInv
<1> SUFFICES ASSUME Init PROVE HolidaysInv OBVIOUS
<1>1. CASE surface = "holidays"
  <2>1. HolidaysInit BY <1>1 DEF Init
  <2>2. PICK a \in Anchors : page = Rendered(preference, timezone, a) BY <2>1 DEF HolidaysInit
  <2>3. page.anchor = a BY <2>2, RenderedIs
  <2>4. preference \in Preferences BY <2>1 DEF HolidaysInit, Preferences
  <2>5. timezone \in Zones /\ weekStart \in WeekStarts BY <2>1 DEF HolidaysInit
  <2> QED BY <1>1, <2>2, <2>3, <2>4, <2>5 DEF HolidaysInv
<1>2. CASE surface # "holidays"
  <2>1. HolidaysAway BY <1>2 DEF Init
  <2> QED BY <1>2, <2>1 DEF HolidaysAway, HolidaysInv
<1> QED BY <1>1, <1>2

\* and so is every later one.
LEMMA HolidaysStep == HolidaysInv /\ [Next]_allVars => HolidaysInv'
<1> SUFFICES ASSUME HolidaysInv, [Next]_allVars PROVE HolidaysInv' OBVIOUS
<1>1. CASE UNCHANGED <<holidayVars, surface>>
  BY <1>1 DEF HolidaysInv, holidayVars
<1>2. CASE surface = "holidays" /\ UNCHANGED surface /\ HolidaysNext
  <2>1. preference \in Preferences /\ timezone \in Zones /\ weekStart \in WeekStarts
        /\ page.anchor \in Anchors
    BY <1>2 DEF HolidaysInv
  \* Every action renders a page for the settings as they are after it.
  <2>2. /\ preference' \in Preferences /\ timezone' \in Zones /\ weekStart' \in WeekStarts
        /\ \E a \in Anchors : page' = Rendered(preference', timezone', a)
    <3>1. CASE OpenDays BY <2>1, <3>1 DEF OpenDays
    <3>2. CASE ToggleLayer
      <4>1. preference' \in Preferences BY <3>2 DEF ToggleLayer, Preferences
      <4>2. page' = Rendered(preference', timezone', page.anchor) BY <3>2 DEF ToggleLayer
      <4> QED BY <2>1, <3>2, <4>1, <4>2 DEF ToggleLayer
    <3>3. ASSUME NEW choice \in Preferences, ChooseRegion(choice) PROVE <2>2!:
      BY <2>1, <3>3 DEF ChooseRegion
    <3>4. ASSUME NEW zone \in Zones, MoveTo(zone) PROVE <2>2!:
      BY <2>1, <3>4 DEF MoveTo
    <3> QED BY <1>2, <3>1, <3>2, <3>3, <3>4 DEF HolidaysNext
  <2>3. PICK a \in Anchors : page' = Rendered(preference', timezone', a) BY <2>2
  <2>4. page'.anchor = a BY <2>3, RenderedIs
  <2> QED BY <1>2, <2>2, <2>3, <2>4 DEF HolidaysInv
<1>3. UNCHANGED <<holidayVars, surface>> \/ (surface = "holidays" /\ UNCHANGED surface /\ HolidaysNext)
  BY DEF Next, OnHolidays, allVars
<1> QED BY <1>1, <1>2, <1>3

\* The holidays on a page are those of the calendar, whatever dates it draws and however the
\* settings were changed; a holiday that is moved off a weekend is on a weekday that no other
\* holiday has, in every region and year; and Easter is the Sunday after the Paschal full moon.
THEOREM HolidaysAlwaysHold == Spec => []HolidaysHold
<1>1. Init => HolidaysInv BY HolidaysBegin
<1>2. HolidaysInv /\ [Next]_allVars => HolidaysInv' BY HolidaysStep
<1>3. HolidaysInv => HolidaysHold BY HolidaysInvHolds
<1> QED BY <1>1, <1>2, <1>3, PTL DEF Spec

=============================================================================
