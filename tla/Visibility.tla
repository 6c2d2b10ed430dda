----------------------------- MODULE Visibility -----------------------------
(***************************************************************************)
(* People, groups and visibility rules, and the screens that set them.     *)
(* Any tab may add, rename and remove people and groups, from a page that  *)
(* may be old.  A tab's visibility control reads the setting it changes    *)
(* from its page, and set_visibility_rule reads the priority of the group  *)
(* before it writes the rule, so a save has a beginning and an end.        *)
(*                                                                         *)
(* A page is several queries with no transaction around them: the people   *)
(* and the rules on it may be of different age.  The three queries for     *)
(* people are taken as one.  The sealed name of a person or a group is     *)
(* written and erased in the transaction of its row and is left out.       *)
(***************************************************************************)
EXTENDS Policy

CONSTANTS
    Tabs,
    Title,         \* the field the preset 'limited' shows
    Customizable,  \* the fields that have a switch of their own
    Offered,       \* bound: the presets that are tried
    Priorities,    \* what upsert_contact_group may be given
    MaxSaves,      \* bound: calls of set_visibility_rule
    MaxChanges     \* bound: what is removed or given a priority

ASSUME VisibilityAssumption ==
    /\ Title \in Fields
    /\ Customizable \subseteq Fields
    /\ Offered \subseteq {"full", "limited", "busy", "hidden"}
    /\ Priorities \subseteq Nat
    /\ MaxSaves \in Nat
    /\ MaxChanges \in Nat

VARIABLES
    contacts,  \* the rows of contacts
    priority,  \* the rows of contact_groups
    members,   \* the rows of contact_group_members
    rules,     \* the rows of visibility_rules
    events,    \* the events that are not purged
    known,     \* every id a contact or group was ever made with
    page,      \* what each tab has loaded
    save,      \* the set_visibility_rule each tab is waiting for
    late,      \* history: whom the save names was removed, or given another
               \* priority, since the call began
    saves,
    changes

people == <<contacts, priority, members, known>>
bounds == <<saves, changes>>
vars == <<people, rules, events, page, save, late, bounds>>

Page == [contacts : SUBSET Contacts,
         groups : SUBSET Groups,
         members : SUBSET (Groups \X Contacts),
         rules : SUBSET Rule]

NoSave == [id |-> 0]

TypeOK ==
    /\ contacts \subseteq Contacts
    /\ priority \in [Groups -> Nat \cup {None}]
    /\ members \subseteq Groups \X Contacts
    /\ \A r \in rules : WellFormed(r)
    /\ events \subseteq Events
    /\ known \subseteq Contacts \cup Groups
    /\ page \in [Tabs -> Page]
    /\ save \in [Tabs -> Rule \cup {NoSave}]
    /\ \A t \in Tabs : save[t] = NoSave \/ WellFormed(save[t])
    /\ late \in [Tabs -> BOOLEAN]
    /\ saves \in 0..MaxSaves
    /\ changes \in 0..MaxChanges

groups == {g \in Groups : priority[g] # None}

Key(r) == <<r.event, r.audience, r.ref>>

RulesFor(rs, e) == {r \in rs : r.event \in {e, Everywhere}}

-----------------------------------------------------------------------------
(* What the screens make of a page                                         *)

Individual(c) == [audience |-> "individual", ref |-> c]
Group(g) == [audience |-> "group", ref |-> g]
Public == [audience |-> "public", ref |-> None]

Options(p) == {Individual(c) : c \in p.contacts} \cup {Group(g) : g \in p.groups} \cup {Public}

\* A group is looked at as a member of it and of nothing else.
ViewerOf(p, o) ==
    [kind |-> IF o.audience = "public" THEN "public" ELSE "individual",
     contact |-> IF o.audience = "individual" THEN o.ref ELSE None,
     groups |-> IF o.audience = "individual" THEN {g \in Groups : <<g, o.ref>> \in p.members}
                ELSE IF o.audience = "group" THEN {o.ref} ELSE {}]

Sees(p, o, e) == Evaluate(RulesFor(p.rules, e), ViewerOf(p, o))

\* The audiences the owner's chip asks about: those that have a rule.
RuleViewers(p, e) ==
    {[audience |-> r.audience, ref |-> r.ref] : r \in RulesFor(p.rules, e)} \cup {Public}

Widest(levels) == CHOOSE l \in levels : \A k \in levels : Openness[l] <= Openness[k]

\* privacyLevel of an event; for Everywhere, the baselineLevel of the page.
Chip(p, e) == Widest({"hidden"} \cup {Level(Sees(p, o, e)) : o \in RuleViewers(p, e)})

\* The rule the control shows as this audience's own.
OwnRule(p, o, e) == {r \in p.rules : Key(r) = <<e, o.audience, o.ref>>}

-----------------------------------------------------------------------------
(* People and groups                                                       *)

Change == changes < MaxChanges /\ changes' = changes + 1

AddContact(c) ==
    /\ c \notin known
    /\ contacts' = contacts \cup {c}
    /\ known' = known \cup {c}
    /\ UNCHANGED <<priority, members, rules, events, page, save, late, bounds>>

\* upsert_contact inserts a row that is no longer there.
RenameContact(t, c) ==
    /\ save[t] = NoSave
    /\ c \in page[t].contacts
    /\ contacts' = contacts \cup {c}
    /\ UNCHANGED <<priority, members, known, rules, events, page, save, late, bounds>>

\* The saves that are now late: those under way that name whom a call changes.
Overtaken(audience, ref) ==
    [t \in Tabs |-> late[t] \/ /\ save[t] # NoSave
                               /\ save[t].audience = audience
                               /\ save[t].ref = ref]

RulesWithout(audience, ref) ==
    {r \in rules : ~(r.audience = audience /\ r.ref = ref)}

DeleteContact(c) ==
    /\ c \in contacts
    /\ rules' = RulesWithout("individual", c)
    /\ members' = {m \in members : m[2] # c}
    /\ contacts' = contacts \ {c}
    /\ late' = Overtaken("individual", c)
    /\ UNCHANGED <<priority, known, events, page, save, saves>>
    /\ Change

\* Mutant: the copies of the priority are not brought up to date.
NotSynced(g, p) == rules

Synced(g, p) ==
    {IF r.audience = "group" /\ r.ref = g /\ p # None THEN [r EXCEPT !.priority = p] ELSE r :
        r \in rules}

\* No screen passes a priority; the function takes one.
UpsertGroup(g, p) ==
    /\ g \in groups \/ g \notin known
    /\ priority' = [priority EXCEPT ![g] =
                       IF p # None THEN p ELSE IF g \in groups THEN priority[g] ELSE 100]
    /\ rules' = Synced(g, p)
    /\ known' = known \cup {g}
    /\ late' = IF p \in {None, priority[g]} THEN late ELSE Overtaken("group", g)
    /\ UNCHANGED <<contacts, members, events, page, save, saves>>
    /\ IF g \in groups THEN Change ELSE UNCHANGED changes

DeleteGroup(g) ==
    /\ g \in groups
    /\ rules' = RulesWithout("group", g)
    /\ members' = {m \in members : m[1] # g}
    /\ priority' = [priority EXCEPT ![g] = None]
    /\ late' = Overtaken("group", g)
    /\ UNCHANGED <<contacts, known, events, page, save, saves>>
    /\ Change

AddMember(g, c) ==
    /\ g \in groups
    /\ c \in contacts
    /\ members' = members \cup {<<g, c>>}
    /\ UNCHANGED <<contacts, priority, known, rules, events, page, save, late, bounds>>

RemoveMember(g, c) ==
    /\ g \in groups
    /\ members' = members \ {<<g, c>>}
    /\ UNCHANGED <<contacts, priority, known, rules, events, page, save, late, saves>>
    /\ Change

\* purge_cloaked_event: the event's rules go with it.
PurgeEvent(e) ==
    /\ e \in events
    /\ events' = events \ {e}
    /\ rules' = {r \in rules : r.event # e}
    /\ UNCHANGED <<people, page, save, late, saves>>
    /\ Change

-----------------------------------------------------------------------------
(* Setting what an audience sees                                           *)

\* Settings and the contact file set the workspace's answer, the sheet of an
\* event the event's; the sheet does not offer the public.
Offers(t, o, e) ==
    /\ save[t] = NoSave
    /\ o \in Options(page[t])
    /\ o = Public => e = Everywhere

\* Mutant: the default in the place of the group's own.
DefaultPriority(o) == IF o.audience = "group" THEN 100 ELSE None

PriorityFor(o) == IF o.audience = "group" THEN priority[o.ref] ELSE None

\* set_visibility_rule up to the read of the group's priority.  Nothing asks
\* whether the contact is still there: one removed since the page was loaded
\* makes the save late from its start.
Set(t, o, e, time, fields) ==
    /\ saves < MaxSaves
    /\ o.audience = "group" => o.ref \in groups
    /\ saves' = saves + 1
    /\ save' = [save EXCEPT ![t] =
                  [id |-> saves + 1, event |-> e, audience |-> o.audience, ref |-> o.ref,
                   priority |-> PriorityFor(o),
                   time |-> time, fields |-> fields]]
    /\ late' = [late EXCEPT ![t] = o.audience = "individual" /\ o.ref \notin contacts]
    /\ UNCHANGED <<people, rules, events, page, changes>>

Presets == [full |-> [time |-> "exact", fields |-> Fields],
            limited |-> [time |-> "exact", fields |-> {Title}],
            busy |-> [time |-> "busy", fields |-> {}],
            hidden |-> [time |-> "hidden", fields |-> {}]]

\* Settings does nothing for the level that is shown.
SetPreset(t, o, e, preset) ==
    /\ Offers(t, o, e)
    /\ e = Everywhere => Level(Sees(page[t], o, e)) # preset
    /\ Set(t, o, e, Presets[preset].time, Presets[preset].fields)

\* The switch starts from the audience's own rule, or else from 'limited'.
SetCustomField(t, o, e, f) ==
    /\ Offers(t, o, e)
    /\ LET start == IF OwnRule(page[t], o, e) = {} THEN {Title}
                    ELSE (CHOOSE r \in OwnRule(page[t], o, e) : TRUE).fields
       IN Set(t, o, e, "exact",
              IF f \in Sees(page[t], o, e).fields THEN start \ {f} ELSE start \cup {f})

\* One row for each audience and scope: what is there keeps its id.
Upserted(r) ==
    LET same == {s \in rules : Key(s) = Key(r)} IN
    IF same = {} THEN rules \cup {r}
    ELSE (rules \ same) \cup {[r EXCEPT !.id = s.id] : s \in same}

Save(t) ==
    /\ save[t] # NoSave
    /\ save[t].event \in events \cup {Everywhere}
    /\ rules' = Upserted(save[t])
    /\ save' = [save EXCEPT ![t] = NoSave]
    /\ late' = [late EXCEPT ![t] = FALSE]
    /\ UNCHANGED <<people, events, page, bounds>>

\* The foreign key refuses a rule of an event that is purged.
Refused(t) ==
    /\ save[t] # NoSave
    /\ save[t].event \notin events \cup {Everywhere}
    /\ save' = [save EXCEPT ![t] = NoSave]
    /\ late' = [late EXCEPT ![t] = FALSE]
    /\ UNCHANGED <<people, rules, events, page, bounds>>

\* delete_visibility_rule, by the id the page has.
Reset(t, o, e) ==
    /\ Offers(t, o, e)
    /\ \E r \in OwnRule(page[t], o, e) :
         /\ \E s \in rules : s.id = r.id
         /\ rules' = {s \in rules : s.id # r.id}
    /\ UNCHANGED <<people, events, page, save, late, bounds>>

-----------------------------------------------------------------------------
(* Loading a page                                                          *)

Load(t) ==
    /\ \/ page' = [page EXCEPT ![t].contacts = contacts, ![t].groups = groups,
                               ![t].members = members]
       \/ page' = [page EXCEPT ![t].rules = rules]
    /\ UNCHANGED <<people, rules, events, save, late, bounds>>

Init ==
    /\ contacts = {}
    /\ priority = [g \in Groups |-> None]
    /\ members = {}
    /\ rules = {}
    /\ events = Events
    /\ known = {}
    /\ page = [t \in Tabs |-> [contacts |-> {}, groups |-> {}, members |-> {}, rules |-> {}]]
    /\ save = [t \in Tabs |-> NoSave]
    /\ late = [t \in Tabs |-> FALSE]
    /\ saves = 0
    /\ changes = 0

Next ==
    \/ \E c \in Contacts : AddContact(c) \/ DeleteContact(c)
    \/ \E g \in Groups : DeleteGroup(g) \/ \E p \in Priorities \cup {None} : UpsertGroup(g, p)
    \/ \E g \in Groups, c \in Contacts : AddMember(g, c) \/ RemoveMember(g, c)
    \/ \E e \in Events : PurgeEvent(e)
    \/ \E t \in Tabs :
         \/ \E c \in Contacts : RenameContact(t, c)
         \/ \E o \in Options(page[t]), e \in Events \cup {Everywhere} :
              \/ \E preset \in Offered : SetPreset(t, o, e, preset)
              \/ \E f \in Customizable : SetCustomField(t, o, e, f)
              \/ Reset(t, o, e)
         \/ Save(t)
         \/ Refused(t)
         \/ Load(t)

Spec == Init /\ [][Next]_vars

-----------------------------------------------------------------------------
(* What must hold                                                          *)

\* A redacted event holds no more than a level says.
Within(held, level) ==
    /\ level = "hidden" => ~held.event
    /\ level = "busy" => ~held.calendar /\ held.fields = {}
    /\ level = "limited" => held.fields # Fields

\* The owner's chip speaks for everybody: a page of any contact, group or the
\* public holds no more of an event than the chip on it says, although only the
\* audiences that have a rule are asked, one group at a time, and a contact may
\* be in several.  The page may be put together from queries of different age
\* (audience.ts: privacyLevel, baselineLevel).
ChipCovers ==
    \A t \in Tabs, e \in Events \cup {Everywhere} :
        LET chip == Chip(page[t], e) IN
        \A o \in Options(page[t]) : Within(Redact(Sees(page[t], o, e)), chip)

Own(rs, c, e) == {r \in RulesFor(rs, e) : r.audience = "individual" /\ r.ref = c}

Database == [contacts |-> contacts, groups |-> groups, members |-> members, rules |-> rules]

\* What a contact with a rule of their own sees is what that rule says, the
\* event's before the workspace's: whatever groups they are in, and whatever is
\* set for those, their priorities, or the public (evaluate.ts: an individual
\* rule comes before every group rule, and the event's breaks the tie).
OwnRuleDecides ==
    \A c \in Contacts, e \in Events \cup {Everywhere} : \A r \in Own(rules, c, e) :
        (r.event = e \/ \A s \in Own(rules, c, e) : s.event # e)
        => Sees(Database, Individual(c), e) = Materialise(r.time, r.fields)

\* Everybody sees what the owner was told they see: by the chip of the page, or
\* by the rule that names them.
SeenAsSaid == ChipCovers /\ OwnRuleDecides

\* A rule that names nobody, or whose copy of the group's priority is not the
\* group's.
Stray(r) ==
    \/ r.audience = "individual" /\ r.ref \notin contacts
    \/ r.audience = "group" /\ r.priority # priority[r.ref]

\* Removing people and groups and changing a priority bring every rule along,
\* and a save writes the priority the group has: a rule that was not stray
\* becomes so only as a late save lands, one whose contact or group was removed
\* or given another priority after its call had begun, or whose contact was
\* removed while the page it was begun on still showed them (0017 and 0020:
\* set_visibility_rule, delete_contact, delete_contact_group,
\* upsert_contact_group).
OnlyLateSavesStray ==
    [][\A r \in rules' : Stray(r)' =>
          \/ r \in rules /\ Stray(r)
          \/ \E t \in Tabs : /\ save[t] # NoSave
                            /\ save'[t] = NoSave
                            /\ Key(save[t]) = Key(r)
                            /\ late[t]]_vars

-----------------------------------------------------------------------------

\* For a run: some order of the groups.
SomeOrder ==
    CHOOSE order \in [Groups -> 1..Cardinality(Groups)] :
        \A g, h \in Groups : order[g] = order[h] => g = h

=============================================================================
