------------------------------ MODULE RuleForms ------------------------------
(***************************************************************************)
(* Who sees what, as it is set: the sheet of an event, the controls of the *)
(* privacy page, and the file of a person with the groups they are in.     *)
(* One person and one group; a page is drawn at once and may be old.       *)
(*                                                                         *)
(* Names are sealed and left out: a rename is the upsert it sends.         *)
(***************************************************************************)
EXTENDS Calls

CONSTANTS
    Person, Team, Event, Everywhere,
    RuleFields,  \* the fields of a rule, each with a switch
    Title,       \* the one the preset 'limited' shows
    Levels       \* bound: presets that are tried

ASSUME RuleFormsAssumption ==
    /\ Title \in RuleFields /\ IsFiniteSet(RuleFields)
    /\ \A fields \in SUBSET RuleFields : fields # Nothing
    /\ Levels \subseteq {"full", "limited", "busy", "hidden"}

Engine == INSTANCE Policy WITH
    Contacts <- {Person}, Groups <- {Team}, Events <- {Event}, Everywhere <- Everywhere,
    Fields <- RuleFields, RefOrder <- [g \in {Team} |-> 1], None <- Nothing

VARIABLES
    people,   \* [person, team, member]: the rows of contacts, groups, members
    rules,    \* the rows of visibility_rules
    issued,   \* ids given to rules
    drawn,    \* tab -> [people, rules]: its page
    wish,     \* history: key -> the fields the owner last wanted seen
    doubt,    \* history: keys chosen on an old page, twice at once or unheard
    tacit     \* history: key -> fields that a switch of another one took along

ruleVars == <<callVars, people, rules, issued, drawn, wish, doubt, tacit>>

Scopes == {Event, Everywhere}
Audiences == {"individual", "group"}
Keys == Scopes \X Audiences

\* A call that is about no rule.
ASSUME NothingAssumption == Nothing \notin Keys

RefOf(who) == IF who = "group" THEN Team ELSE Person
KeyOf(r) == <<r.event, r.audience>>

PageNow == [people |-> people, rules |-> rules]

RulesOK ==
    /\ CallsOK
    /\ \A r \in rules : Engine!WellFormed(r)
    /\ \A r, s \in rules : KeyOf(r) = KeyOf(s) => r = s
    /\ doubt \subseteq Keys /\ tacit \in [Keys -> SUBSET RuleFields]

RulesInit ==
    /\ CallsInit
    /\ people = [person |-> TRUE, team |-> TRUE, member |-> TRUE]
    /\ rules = {}
    /\ issued = 0
    /\ drawn = [t \in Tabs |-> PageNow]
    /\ wish = [k \in Keys |-> Nothing]
    /\ doubt = {}
    /\ tacit = [k \in Keys |-> {}]

-----------------------------------------------------------------------------
(* What a page says                                                        *)

\* Mutant: the rule of the workspace is taken for one of the event.
AnyScope(rs, key) == {r \in rs : r.audience = key[2]}

\* overrideFor, rule: the row's own rule, of none or one.
Own(rs, key) == {r \in rs : KeyOf(r) = key}

\* A group is previewed as a person who is in that group and no other.
ViewerFor(t, who) ==
    [kind |-> "individual",
     contact |-> IF who = "group" THEN Nothing ELSE Person,
     groups |-> IF who = "group" \/ drawn[t].people.member THEN {Team} ELSE {}]

\* The sheet weighs all the rules, a control those of the workspace.
DecisionFor(t, key) ==
    Engine!Evaluate({r \in drawn[t].rules : key[1] = Event \/ r.event = Everywhere},
                    ViewerFor(t, key[2]))

\* The switches of a row, as they are drawn: all off where the time is not told.
OnScreen(t, key) == {f \in RuleFields : f \in DecisionFor(t, key).fields}

\* The decision on screen is that of the row's own rule.
OwnDecides(t, key) ==
    \E r \in Own(drawn[t].rules, key) :
      DecisionFor(t, key) = Engine!Materialise(r.time, r.fields)

Listed(t, who) == IF who = "group" THEN drawn[t].people.team ELSE drawn[t].people.person

\* The sheet has one busy flag, each control of the page its own.
ControlOf(key) == IF key[1] = Event THEN <<"sheet">> ELSE <<"control", key[2]>>

PresetTime == [full |-> "exact", limited |-> "exact", busy |-> "busy", hidden |-> "hidden"]

PresetFields == [full |-> RuleFields, limited |-> {Title}, busy |-> {}, hidden |-> {}]

-----------------------------------------------------------------------------
(* What the owner asks for                                                 *)

\* Fields that one set has and the other has not.
Unlike(a, b) == (a \ b) \cup (b \ a)

Fresh(t, key) == Own(drawn[t].rules, key) = Own(rules, key)

\* Mutant: a switch starts from the preset 'limited', not from the row's rule.
AsLimited(rs) == {Title}

\* The fields a switch starts from.
ShownFields(rs) == IF rs = {} THEN {Title} ELSE (CHOOSE r \in rs : TRUE).fields

Flip(fields, f, on) == IF on THEN fields \cup {f} ELSE fields \ {f}

Ask(t, key, request) ==
    /\ Listed(t, key[2])
    /\ ~Busy(t, ControlOf(key))
    /\ Send(t, ControlOf(key), key, request)
    /\ UNCHANGED <<refreshing, people, rules, issued, drawn>>

\* What is wanted seen from now on, and what goes along unasked.
Wishing(key, fields, along) ==
    /\ wish' = [wish EXCEPT ![key] = fields]
    /\ tacit' = [tacit EXCEPT ![key] = along]

\* Only a call that is alone, from a page with the rule in force, is sure to land.
DoubtOver(key, sure) ==
    doubt' = IF Pending(key) \/ ~sure THEN doubt \cup {key} ELSE doubt \ {key}

\* A preset is the whole rule.  A control passes over the one in force.
SetPreset(t, key, level) ==
    /\ key[1] = Everywhere => Engine!Level(DecisionFor(t, key)) # level
    /\ Ask(t, key, [op |-> "set",
                    time |-> PresetTime[level], fields |-> PresetFields[level]])
    /\ Wishing(key, PresetFields[level], {})
    /\ DoubtOver(key, TRUE)

\* A switch is the row's own rule with one field changed; a row with none
\* starts from the preset 'limited'.  The owner wants what is on screen with
\* that one field changed, or what the switches before it were to make of it;
\* where another rule than the row's own is on screen, or none, the two start
\* from different fields, and those between them go along.
SetCustomField(t, key, f) ==
    LET on == f \notin OnScreen(t, key)
        start == ShownFields(Own(drawn[t].rules, key))
        anew == wish[key] = Nothing \/ key \in doubt
        wanted == IF anew THEN OnScreen(t, key) ELSE wish[key]
        along == IF ~anew THEN tacit[key]
                 ELSE IF OwnDecides(t, key) THEN {} ELSE Unlike(start, OnScreen(t, key))
    IN  /\ Ask(t, key, [op |-> "set", time |-> "exact", fields |-> Flip(start, f, on)])
        /\ Wishing(key, Flip(wanted, f, on), along \ {f})
        /\ DoubtOver(key, Fresh(t, key))

\* useDefault, reset: by the id of the rule on the page.
UseDefault(t, key) ==
    \E r \in Own(drawn[t].rules, key) :
      /\ Ask(t, key, [op |-> "delete", id |-> r.id])
      /\ Wishing(key, Nothing, {})
      /\ DoubtOver(key, Fresh(t, key))

\* The file of a person and the list of groups.
AskPeople(t, request) ==
    /\ ~Busy(t, <<"file">>)
    /\ Send(t, <<"file">>, Nothing, request)
    /\ UNCHANGED <<refreshing, people, rules, issued, drawn, wish, doubt, tacit>>

ToggleMember(t) ==
    /\ Listed(t, "individual") /\ Listed(t, "group")
    /\ AskPeople(t, [op |-> "member", add |-> ~drawn[t].people.member])

RenamePerson(t) ==
    Listed(t, "individual") /\ AskPeople(t, [op |-> "upsert"])

RemovePerson(t) ==
    Listed(t, "individual")
      /\ AskPeople(t, [op |-> "remove", who |-> "individual"])

RemoveTeam(t) ==
    Listed(t, "group") /\ AskPeople(t, [op |-> "remove", who |-> "group"])

-----------------------------------------------------------------------------
(* What the server does                                                    *)

\* set_visibility_rule: one row for a key, written over in place.
SetRule(c) ==
    LET q == c.request
        old == Own(rules, c.about)
        who == c.about[2]
        id == IF old = {} THEN issued + 1 ELSE (CHOOSE r \in old : TRUE).id
    IN  /\ q.op = "set"
        /\ IF who = "group" /\ ~people.team
           THEN Served(c, "refused") /\ UNCHANGED <<rules, issued>> /\ doubt' = doubt \cup {c.about}
           ELSE /\ Served(c, "done")
                /\ rules' = (rules \ old) \cup
                     {[id |-> id, event |-> c.about[1], audience |-> who, ref |-> RefOf(who),
                       priority |-> IF who = "group" THEN 0 ELSE Nothing,
                       time |-> q.time, fields |-> q.fields]}
                /\ issued' = IF old = {} THEN issued + 1 ELSE issued
                /\ UNCHANGED doubt
        /\ UNCHANGED <<people, drawn, wish, tacit>>

DeleteRule(c) ==
    LET found == {r \in rules : c.request.op = "delete" /\ r.id = c.request.id}
    IN  /\ c.request.op = "delete"
        /\ Served(c, IF found = {} THEN "refused" ELSE "done")
        /\ rules' = rules \ found
        /\ UNCHANGED <<people, issued, drawn, wish, doubt, tacit>>

\* add_group_member, remove_group_member.
SetMember(c) ==
    /\ c.request.op = "member"
    /\ IF ~people.team \/ (c.request.add /\ ~people.person)
       THEN Served(c, "refused") /\ UNCHANGED people
       ELSE Served(c, "done") /\ people' = [people EXCEPT !.member = c.request.add]
    /\ UNCHANGED <<rules, issued, drawn, wish, doubt, tacit>>

\* upsert_contact: the row is made where there is none any more.
UpsertPerson(c) ==
    /\ c.request.op = "upsert"
    /\ Served(c, "done")
    /\ people' = [people EXCEPT !.person = TRUE]
    /\ UNCHANGED <<rules, issued, drawn, wish, doubt, tacit>>

\* delete_contact, delete_contact_group: with their rules and memberships.
RemoveRow(c) ==
    LET who == c.request.who
        gone == {<<s, who>> : s \in Scopes}
    IN  /\ c.request.op = "remove"
        /\ IF IF who = "group" THEN people.team ELSE people.person
           THEN /\ Served(c, "done")
                /\ people' = IF who = "group"
                             THEN [people EXCEPT !.team = FALSE, !.member = FALSE]
                             ELSE [people EXCEPT !.person = FALSE, !.member = FALSE]
                /\ rules' = {r \in rules : r.audience # who}
                /\ wish' = [k \in Keys |-> IF k \in gone THEN Nothing ELSE wish[k]]
                /\ tacit' = [k \in Keys |-> IF k \in gone THEN {} ELSE tacit[k]]
                /\ doubt' = (doubt \ gone) \cup {k \in gone : Pending(k)}
           ELSE Served(c, "refused") /\ UNCHANGED <<people, rules, wish, doubt, tacit>>
        /\ UNCHANGED <<issued, drawn>>

RuleAnswered(c) == Answered(c) /\ UNCHANGED <<people, rules, issued, drawn, wish, doubt, tacit>>

RuleUnheard(c) ==
    /\ Refused(c) \/ Broken(c) \/ Vanished(c)
    /\ doubt' = IF c.about = Nothing THEN doubt ELSE doubt \cup {c.about}
    /\ UNCHANGED <<people, rules, issued, drawn, wish, tacit>>

PageDrawn(t) ==
    /\ t \in refreshing
    /\ refreshing' = refreshing \ {t}
    /\ drawn' = [drawn EXCEPT ![t] = PageNow]
    /\ UNCHANGED <<calls, made, people, rules, issued, wish, doubt, tacit>>

RulesNext ==
    \/ \E t \in Tabs :
         \/ \E key \in Keys :
              \/ \E level \in Levels : SetPreset(t, key, level)
              \/ \E f \in RuleFields : SetCustomField(t, key, f)
              \/ UseDefault(t, key)
         \/ ToggleMember(t) \/ RenamePerson(t) \/ RemovePerson(t) \/ RemoveTeam(t)
         \/ PageDrawn(t)
    \/ \E c \in calls :
         \/ SetRule(c) \/ DeleteRule(c) \/ SetMember(c) \/ UpsertPerson(c) \/ RemoveRow(c)
         \/ RuleAnswered(c) \/ RuleUnheard(c)

-----------------------------------------------------------------------------
(* Properties.                                                             *)

\* Switches land, one after the other: the rule of a person or a group shows
\* the fields the owner last wanted seen, which are those on screen with each
\* switch counted in - unless a switch was thrown on a page that was not yet
\* drawn anew, two were under way at once, or one was refused or had no answer.
\* Each moves the one field it is of, save where the row's own rule was not what
\* the screen showed when the first was thrown; there the `tacit` ones go along.
SwitchesLand ==
    \A key \in Keys \ doubt : ~Pending(key) =>
      LET own == Own(rules, key)
      IN  IF own = {} THEN wish[key] = Nothing
          ELSE /\ wish[key] # Nothing
               /\ \A r \in own : Unlike(r.fields, wish[key]) \subseteq tacit[key]

=============================================================================
