-------------------------- MODULE VisibilityProofs --------------------------
(***************************************************************************)
(* For any number of people, groups, events and tabs: the engine's order   *)
(* of rules has one winner, a rule about a contact decides what they see,  *)
(* the owner's chip covers everybody, and only late saves leave strays.    *)
(***************************************************************************)
EXTENDS Visibility, FiniteSetTheorems, WellFoundedInduction, TLAPS

USE PolicyAssumption, VisibilityAssumption

-----------------------------------------------------------------------------
(* Least elements                                                          *)

Smaller == {ss \in Nat \X Nat : ss[1] < ss[2]}

LEMMA SmallerIsWellFounded == IsWellFoundedOn(Smaller, Nat)
  BY NatLessThanWellFounded, Zenon DEF OpToRel, Smaller

LEMMA NotSmaller ==
  ASSUME NEW m \in Nat, NEW n \in Nat, <<n, m>> \notin Smaller
  PROVE  m <= n
  <1>1. CASE n < m
    <2>1. <<n, m>> \in Nat \X Nat /\ <<n, m>>[1] < <<n, m>>[2]
      BY <1>1
    <2>2. <<n, m>> \in Smaller
      BY <2>1, Zenon DEF Smaller
    <2> QED
      BY <2>2
  <1>2. CASE ~(n < m)
    BY <1>2
  <1> QED
    BY <1>1, <1>2

LEMMA LeastNatural ==
  ASSUME NEW T \in SUBSET Nat, T # {}
  PROVE  \E m \in T : \A n \in T : m <= n
  <1>1. PICK m \in T : \A n \in T : ~(<<n, m>> \in Smaller)
    BY SmallerIsWellFounded, WFMin, Zenon
  <1>2. \A n \in T : m <= n
    BY <1>1, NotSmaller
  <1> QED
    BY <1>2

\* Those of S with the least value of f.
Least(S, f) == {x \in S : \A y \in S : f[x] <= f[y]}

LEMMA LeastBy ==
  ASSUME NEW D, NEW S \in SUBSET D, S # {}, NEW f \in [D -> Nat]
  PROVE  Least(S, f) \in SUBSET D /\ Least(S, f) # {}
  <1> DEFINE T == {f[x] : x \in S}
  <1>1. T \in SUBSET Nat /\ T # {}
    OBVIOUS
  <1>2. PICK m \in T : \A n \in T : m <= n
    BY <1>1, LeastNatural, Zenon
  <1>3. PICK x \in S : m = f[x]
    OBVIOUS
  <1>4. \A y \in S : f[x] <= f[y]
    BY <1>2, <1>3
  <1> QED
    BY <1>4 DEF Least

-----------------------------------------------------------------------------
(* The order of rules                                                      *)

Cap == 2000 + Cardinality(Fields)

LEMMA RestrictivenessType ==
  ASSUME NEW r, WellFormed(r)
  PROVE  Restrictiveness(r) \in Nat /\ Cap - Restrictiveness(r) \in Nat
  <1>1. IsFiniteSet(Fields \ r.fields) /\ Cardinality(Fields \ r.fields) <= Cardinality(Fields)
    BY FS_Subset
  <1>2. Cardinality(Fields \ r.fields) \in Nat /\ Cardinality(Fields) \in Nat
    BY <1>1, FS_CardinalityType
  <1>3. TimeRestriction[r.time] \in 0..2
    BY DEF WellFormed, Rule, TimeRestriction, TimeVisibility
  <1> HIDE DEF TimeRestriction
  <1> DEFINE h == Cardinality(Fields \ r.fields)
             n == Cardinality(Fields)
             k == TimeRestriction[r.time]
  <1>4. h \in Nat /\ n \in Nat /\ h <= n /\ k \in 0..2
    BY <1>1, <1>2, <1>3
  <1>5. Restrictiveness(r) = k * 1000 + h /\ Cap = 2000 + n
    BY DEF Restrictiveness, Cap
  <1> HIDE DEF h, n, k
  <1> QED
    BY <1>4, <1>5

RefRank(r) == IF r.audience = "group" THEN RefOrder[r.ref] ELSE 0
PriorityRank(r) == IF r.audience = "group" THEN r.priority ELSE 0
SlackRank(r) == IF r.audience = "group" THEN Cap - Restrictiveness(r) ELSE 0

LEMMA RankTypes ==
  ASSUME NEW r, WellFormed(r)
  PROVE  /\ AudienceRank[r.audience] \in Nat
         /\ PriorityRank(r) \in Nat
         /\ SlackRank(r) \in Nat
         /\ RefRank(r) \in Nat
         /\ ScopeRank(r) \in Nat
  <1>1. AudienceRank[r.audience] \in Nat
    BY DEF WellFormed, Rule, AudienceRank
  <1>2. SlackRank(r) \in Nat
    BY RestrictivenessType DEF SlackRank
  <1> QED
    BY <1>1, <1>2 DEF WellFormed, PriorityRank, RefRank, ScopeRank

\* Beats compares five numbers one after the other.
LEMMA BeatsByRank ==
  ASSUME NEW a, NEW b, WellFormed(a), WellFormed(b)
  PROVE  Beats(a, b) <=>
           \/ AudienceRank[a.audience] < AudienceRank[b.audience]
           \/ /\ AudienceRank[a.audience] = AudienceRank[b.audience]
              /\ \/ PriorityRank(a) < PriorityRank(b)
                 \/ /\ PriorityRank(a) = PriorityRank(b)
                    /\ \/ SlackRank(a) < SlackRank(b)
                       \/ /\ SlackRank(a) = SlackRank(b)
                          /\ \/ RefRank(a) < RefRank(b)
                             \/ /\ RefRank(a) = RefRank(b)
                                /\ ScopeRank(a) < ScopeRank(b)
  <1>1. AudienceRank[a.audience] = AudienceRank[b.audience] <=> a.audience = b.audience
    BY DEF WellFormed, Rule, AudienceRank
  <1>2. CASE a.audience = "group" /\ b.audience = "group"
    <2>1. /\ PriorityRank(a) = a.priority /\ PriorityRank(b) = b.priority
          /\ RefRank(a) = RefOrder[a.ref] /\ RefRank(b) = RefOrder[b.ref]
          /\ SlackRank(a) = Cap - Restrictiveness(a)
          /\ SlackRank(b) = Cap - Restrictiveness(b)
      BY <1>2 DEF PriorityRank, RefRank, SlackRank
    <2>2. Cap \in Int /\ Restrictiveness(a) \in Nat /\ Restrictiveness(b) \in Nat
      BY RestrictivenessType, FS_CardinalityType DEF Cap
    <2>3. ~(AudienceRank[a.audience] < AudienceRank[b.audience])
      BY <1>2, <1>1, RankTypes
    <2> HIDE DEF Cap
    <2> QED
      BY <1>1, <1>2, <2>1, <2>2, <2>3, RankTypes DEF Beats, GroupBeats, GroupTies
  <1>3. CASE ~(a.audience = "group" /\ b.audience = "group")
    <2>1. a.audience = b.audience =>
            /\ PriorityRank(a) = 0 /\ PriorityRank(b) = 0
            /\ SlackRank(a) = 0 /\ SlackRank(b) = 0
            /\ RefRank(a) = 0 /\ RefRank(b) = 0
      BY <1>3 DEF PriorityRank, RefRank, SlackRank
    <2>2. Beats(a, b) <=>
            \/ AudienceRank[a.audience] < AudienceRank[b.audience]
            \/ a.audience = b.audience /\ ScopeRank(a) < ScopeRank(b)
      BY <1>3 DEF Beats
    <2> QED
      BY <1>1, <2>1, <2>2
  <1> QED
    BY <1>2, <1>3

LEMMA BeatsOneWay ==
  ASSUME NEW a, NEW b, WellFormed(a), WellFormed(b), Beats(a, b)
  PROVE  ~Beats(b, a)
  BY BeatsByRank, RankTypes

\* No audience has two rules for one scope.
OneEach(rs) == \A r, s \in rs : Key(r) = Key(s) => r = s

Orderly(rs) == OneEach(rs) /\ \A r \in rs : WellFormed(r)

\* The rules a viewer's view of an event is decided from.
Contest(rs, v, e) == {r \in RulesFor(rs, e) : Applies(r, v)}

LEMMA RanksTell ==
  ASSUME NEW rs, Orderly(rs), NEW v, NEW e \in Events \cup {Everywhere},
         NEW a \in Contest(rs, v, e), NEW b \in Contest(rs, v, e),
         AudienceRank[a.audience] = AudienceRank[b.audience],
         RefRank(a) = RefRank(b), ScopeRank(a) = ScopeRank(b)
  PROVE  a = b
  <1>1. /\ WellFormed(a) /\ WellFormed(b) /\ a \in rs /\ b \in rs
        /\ Applies(a, v) /\ Applies(b, v)
        /\ a.event \in {e, Everywhere} /\ b.event \in {e, Everywhere}
    BY DEF Contest, Orderly, RulesFor
  <1>2. a.audience = b.audience
    BY <1>1 DEF WellFormed, Rule, AudienceRank
  <1>3. a.event = b.event
    BY <1>1 DEF ScopeRank
  <1>4. a.ref = b.ref
    <2>1. CASE a.audience = "individual"
      BY <1>1, <1>2, <2>1 DEF Applies
    <2>2. CASE a.audience = "group"
      BY <1>1, <1>2, <2>2 DEF WellFormed, RefRank
    <2>3. CASE a.audience = "public"
      BY <1>1, <1>2, <2>3 DEF WellFormed
    <2> QED
      BY <1>1, <2>1, <2>2, <2>3 DEF WellFormed, Rule
  <1> QED
    BY <1>1, <1>2, <1>3, <1>4 DEF Orderly, OneEach, Key

\* Of the rules that apply to a viewer, one beats all the others.
LEMMA HasWinner ==
  ASSUME NEW rs, Orderly(rs), NEW v, NEW e \in Events \cup {Everywhere},
         Contest(rs, v, e) # {}
  PROVE  \E w \in Contest(rs, v, e) : \A s \in Contest(rs, v, e) \ {w} : Beats(w, s)
  <1> DEFINE D == Contest(rs, v, e)
             f1 == [r \in D |-> AudienceRank[r.audience]]
             f2 == [r \in D |-> PriorityRank(r)]
             f3 == [r \in D |-> SlackRank(r)]
             f4 == [r \in D |-> RefRank(r)]
             f5 == [r \in D |-> ScopeRank(r)]
             S1 == Least(D, f1)
             S2 == Least(S1, f2)
             S3 == Least(S2, f3)
             S4 == Least(S3, f4)
             S5 == Least(S4, f5)
  <1>1. \A r \in D : WellFormed(r)
    BY DEF Contest, Orderly, RulesFor
  <1>2. /\ f1 \in [D -> Nat] /\ f2 \in [D -> Nat] /\ f3 \in [D -> Nat]
        /\ f4 \in [D -> Nat] /\ f5 \in [D -> Nat]
    BY <1>1, RankTypes
  <1> HIDE DEF D, f1, f2, f3, f4, f5
  <1>3. S1 \in SUBSET D /\ S1 # {}
    <2>1. D \in SUBSET D /\ D # {}
      BY DEF D
    <2> QED
      BY <2>1, <1>2, LeastBy
  <1> HIDE DEF S1
  <1>4. S2 \in SUBSET D /\ S2 # {}
    BY <1>2, <1>3, LeastBy
  <1> HIDE DEF S2
  <1>5. S3 \in SUBSET D /\ S3 # {}
    BY <1>2, <1>4, LeastBy
  <1> HIDE DEF S3
  <1>6. S4 \in SUBSET D /\ S4 # {}
    BY <1>2, <1>5, LeastBy
  <1> HIDE DEF S4
  <1>7. S5 \in SUBSET D /\ S5 # {}
    BY <1>2, <1>6, LeastBy
  <1>8. PICK w : w \in S5
    BY <1>7
  <1>9. w \in S4 /\ w \in S3 /\ w \in S2 /\ w \in S1 /\ w \in D
    BY <1>8 DEF Least, S4, S3, S2, S1
  <1>10. ASSUME NEW s \in D, s # w
         PROVE  Beats(w, s)
    <2>1. s \in D => f1[w] < f1[s] \/ (f1[w] = f1[s] /\ s \in S1)
      BY <1>2, <1>9 DEF Least, S1
    <2>2. s \in S1 => f2[w] < f2[s] \/ (f2[w] = f2[s] /\ s \in S2)
      BY <1>2, <1>3, <1>9 DEF Least, S2
    <2>3. s \in S2 => f3[w] < f3[s] \/ (f3[w] = f3[s] /\ s \in S3)
      BY <1>2, <1>4, <1>9 DEF Least, S3
    <2>4. s \in S3 => f4[w] < f4[s] \/ (f4[w] = f4[s] /\ s \in S4)
      BY <1>2, <1>5, <1>9 DEF Least, S4
    <2>5. s \in S4 => f5[w] <= f5[s]
      BY <1>8 DEF Least
    <2>6. \A r \in D : /\ f1[r] = AudienceRank[r.audience] /\ f2[r] = PriorityRank(r)
                       /\ f3[r] = SlackRank(r) /\ f4[r] = RefRank(r) /\ f5[r] = ScopeRank(r)
      BY DEF f1, f2, f3, f4, f5
    <2>7. ~(/\ f1[w] = f1[s] /\ f4[w] = f4[s] /\ f5[w] = f5[s])
      BY <1>9, <1>10, <2>6, RanksTell DEF D
    <2>8. f5[w] \in Nat /\ f5[s] \in Nat
      BY <1>2, <1>9, <1>10
    <2> QED
      BY <1>1, <1>9, <1>10, <2>1, <2>2, <2>3, <2>4, <2>5, <2>6, <2>7, <2>8, BeatsByRank
  <1> QED
    BY <1>9, <1>10 DEF D

\* Winner finds the rule that beats the others.
LEMMA WinnerIs ==
  ASSUME NEW S, \A r \in S : WellFormed(r),
         NEW w \in S, \A s \in S \ {w} : Beats(w, s)
  PROVE  Winner(S) = w
  <1>1. \A x \in S : (\A s \in S \ {x} : Beats(x, s)) => x = w
    BY BeatsOneWay
  <1> QED
    BY <1>1 DEF Winner

LEMMA WinnerWins ==
  ASSUME NEW rs, Orderly(rs), NEW v, NEW e \in Events \cup {Everywhere},
         Contest(rs, v, e) # {}
  PROVE  LET S == Contest(rs, v, e) IN
         Winner(S) \in S /\ \A s \in S \ {Winner(S)} : Beats(Winner(S), s)
  BY HasWinner DEF Winner

\* Fewer rules, the same winner, if it is still there.
LEMMA SubsetWinner ==
  ASSUME NEW rs, Orderly(rs), NEW v, NEW e \in Events \cup {Everywhere},
         NEW B \in SUBSET Contest(rs, v, e), Winner(Contest(rs, v, e)) \in B
  PROVE  Winner(B) = Winner(Contest(rs, v, e))
  <1> DEFINE S == Contest(rs, v, e)
             w == Winner(S)
  <1>1. \A s \in S \ {w} : Beats(w, s)
    BY WinnerWins
  <1>2. \A r \in B : WellFormed(r)
    BY DEF Contest, Orderly, RulesFor
  <1>3. w \in B /\ \A s \in B \ {w} : Beats(w, s)
    BY <1>1
  <1> HIDE DEF w
  <1>4. Winner(B) = w
    BY <1>2, <1>3, WinnerIs
  <1> QED
    BY <1>4 DEF w

-----------------------------------------------------------------------------
(* What one page shows                                                     *)

LEMMA CandidatesOf ==
  ASSUME NEW p, NEW o, NEW e
  PROVE  {r \in RulesFor(p.rules, e) : Applies(r, ViewerOf(p, o))}
           = Contest(p.rules, ViewerOf(p, o), e)
  BY DEF Contest

LEMMA SeesWinner ==
  ASSUME NEW p, NEW o, NEW e, Contest(p.rules, ViewerOf(p, o), e) # {}
  PROVE  Sees(p, o, e) = LET w == Winner(Contest(p.rules, ViewerOf(p, o), e)) IN
                         Materialise(w.time, w.fields)
  <1>1. ViewerOf(p, o).kind # "owner"
    BY DEF ViewerOf
  <1> QED
    BY <1>1, CandidatesOf DEF Sees, Evaluate

LEMMA SeesNothing ==
  ASSUME NEW p, NEW o, NEW e, Contest(p.rules, ViewerOf(p, o), e) = {}
  PROVE  Level(Sees(p, o, e)) = "hidden"
  <1>1. ViewerOf(p, o).kind # "owner"
    BY DEF ViewerOf
  <1> QED
    BY <1>1, CandidatesOf DEF Sees, Evaluate, Materialise, DefaultTime, Level

\* The audience a winning rule is about, which the chip asks, sees by that rule.
LEMMA AskedSeesSame ==
  ASSUME NEW p, Orderly(p.rules), NEW e \in Events \cup {Everywhere}, NEW o \in Options(p),
         Contest(p.rules, ViewerOf(p, o), e) # {}
  PROVE  LET w == Winner(Contest(p.rules, ViewerOf(p, o), e)) IN
         Sees(p, [audience |-> w.audience, ref |-> w.ref], e) = Sees(p, o, e)
  <1> DEFINE v == ViewerOf(p, o)
             S == Contest(p.rules, v, e)
             w == Winner(S)
             q == [audience |-> w.audience, ref |-> w.ref]
             B == Contest(p.rules, ViewerOf(p, q), e)
  <1>1. w \in S
    BY WinnerWins
  <1>2. /\ w \in RulesFor(p.rules, e) /\ WellFormed(w) /\ Applies(w, v)
        /\ \A r \in RulesFor(p.rules, e) : WellFormed(r)
    BY <1>1 DEF Contest, Orderly, RulesFor
  <1> HIDE DEF w
  <1>3. CASE w.audience = "individual"
    <2>1. v.kind = "individual" /\ w.ref = v.contact /\ w.ref \in Contacts
      BY <1>2, <1>3 DEF Applies, WellFormed
    <2>2. o.audience = "individual" /\ o.ref = w.ref
      BY <2>1 DEF ViewerOf
    <2>3. o = q
      BY <1>3, <2>2 DEF Options, Individual, Group, Public
    <2> QED
      BY <2>3 DEF w
  <1>4. CASE w.audience # "individual"
    <2>1. /\ w.audience = "group" => w.ref \in v.groups
          /\ w.audience \in {"group", "public"}
          /\ w.audience = "public" => w.ref = None
      BY <1>2, <1>4 DEF Applies, WellFormed, Rule
    <2>2. /\ ViewerOf(p, q).contact = None
          /\ ViewerOf(p, q).groups \subseteq v.groups
          /\ w.audience = "group" => ViewerOf(p, q).groups = {w.ref}
      BY <1>4, <2>1 DEF ViewerOf
    <2>3. \A r \in RulesFor(p.rules, e) : Applies(r, ViewerOf(p, q)) => Applies(r, v)
      BY <1>2, <2>2 DEF Applies, WellFormed
    <2>4. Applies(w, ViewerOf(p, q))
      BY <2>1, <2>2 DEF Applies
    <2>5. B \in SUBSET S /\ w \in B
      BY <1>2, <2>3, <2>4 DEF Contest
    <2>6. Winner(B) = w
      BY <2>5, SubsetWinner DEF w
    <2> QED
      BY <2>5, <2>6, <1>1, SeesWinner DEF w
  <1> QED
    BY <1>3, <1>4 DEF w

LEMMA LevelFits ==
  ASSUME NEW d \in Decision
  PROVE  Level(d) \in {"full", "limited", "busy", "hidden"} /\ Within(Redact(d), Level(d))
  BY DEF Decision, TimeVisibility, Level, Within, Redact

LEMMA WiderHolds ==
  ASSUME NEW d \in Decision, NEW l \in {"full", "limited", "busy", "hidden"},
         Openness[l] <= Openness[Level(d)]
  PROVE  Within(Redact(d), l)
  <1>1. /\ l = "hidden" => Level(d) = "hidden"
        /\ l = "busy" => Level(d) \in {"busy", "hidden"}
        /\ l = "limited" => Level(d) # "full"
    BY LevelFits DEF Openness
  <1>2. Fields # {} /\ d.time \in {"exact", "busy", "hidden"}
    BY DEF Decision, TimeVisibility
  <1> QED
    BY <1>1, <1>2 DEF Level, Within, Redact

LEMMA WidestIsWidest ==
  ASSUME NEW L \in SUBSET {"full", "limited", "busy", "hidden"}, L # {}
  PROVE  Widest(L) \in L /\ \A k \in L : Openness[Widest(L)] <= Openness[k]
  <1> DEFINE D == {"full", "limited", "busy", "hidden"}
             f == [l \in D |-> Openness[l]]
  <1>1. f \in [D -> Nat] /\ L \in SUBSET D /\ L # {}
    BY DEF Openness
  <1> HIDE PolicyAssumption, VisibilityAssumption DEF D, f
  <1>2. Least(L, f) \in SUBSET D /\ Least(L, f) # {}
    BY <1>1, LeastBy
  <1>3. \E l \in L : \A k \in L : Openness[l] <= Openness[k]
    BY <1>2 DEF Least, f, D
  <1> QED
    BY <1>3 DEF Widest

LEMMA SeesDecision ==
  ASSUME NEW p, Orderly(p.rules), NEW o, NEW e \in Events \cup {Everywhere}
  PROVE  Sees(p, o, e) \in Decision
  <1>1. CASE Contest(p.rules, ViewerOf(p, o), e) = {}
    <2>1. ViewerOf(p, o).kind # "owner"
      BY DEF ViewerOf
    <2> QED
      BY <1>1, <2>1, CandidatesOf
      DEF Sees, Evaluate, Materialise, DefaultTime, Decision, TimeVisibility
  <1>2. CASE Contest(p.rules, ViewerOf(p, o), e) # {}
    <2> DEFINE w == Winner(Contest(p.rules, ViewerOf(p, o), e))
    <2>1. w \in Contest(p.rules, ViewerOf(p, o), e)
      BY <1>2, WinnerWins
    <2>2. w \in Rule
      BY <2>1 DEF Contest, Orderly, RulesFor, WellFormed
    <2> HIDE DEF w
    <2>3. Materialise(w.time, w.fields) \in Decision
      BY <2>2 DEF Rule, Materialise, Decision
    <2> QED
      BY <1>2, <2>3, SeesWinner DEF w
  <1> QED
    BY <1>1, <1>2

LEMMA PageCovered ==
  ASSUME NEW p, Orderly(p.rules), NEW e \in Events \cup {Everywhere}, NEW o \in Options(p)
  PROVE  Within(Redact(Sees(p, o, e)), Chip(p, e))
  <1> DEFINE L == {"hidden"} \cup {Level(Sees(p, a, e)) : a \in RuleViewers(p, e)}
             d == Sees(p, o, e)
  <1>1. L \in SUBSET {"full", "limited", "busy", "hidden"}
    BY SeesDecision, LevelFits
  <1>2. d \in Decision
    BY SeesDecision
  <1>3. Level(d) \in L
    <2>1. CASE Contest(p.rules, ViewerOf(p, o), e) = {}
      BY <2>1, SeesNothing
    <2>2. CASE Contest(p.rules, ViewerOf(p, o), e) # {}
      <3> DEFINE w == Winner(Contest(p.rules, ViewerOf(p, o), e))
                 q == [audience |-> w.audience, ref |-> w.ref]
      <3>1. Sees(p, q, e) = d
        BY <2>2, AskedSeesSame
      <3>2. w \in RulesFor(p.rules, e)
        BY <2>2, WinnerWins DEF Contest
      <3> HIDE DEF w
      <3>3. q \in RuleViewers(p, e)
        BY <3>2 DEF RuleViewers
      <3>4. Level(Sees(p, q, e)) \in L
        BY <3>3
      <3> QED
        BY <3>1, <3>4
    <2> QED
      BY <2>1, <2>2
  <1>4. Widest(L) \in L /\ Openness[Widest(L)] <= Openness[Level(d)]
    BY <1>1, <1>3, WidestIsWidest
  <1>5. Chip(p, e) = Widest(L)
    BY DEF Chip
  <1> HIDE DEF L, d
  <1>6. Within(Redact(d), Widest(L))
    BY <1>1, <1>2, <1>4, WiderHolds
  <1> QED
    BY <1>5, <1>6 DEF d

-----------------------------------------------------------------------------
(* The inductive invariant                                                 *)

\* A save that is not late writes a rule that is not stray.
OnTime == \A t \in Tabs : save[t] # NoSave /\ ~late[t] => ~Stray(save[t])

\* The table and every page of it hold well-formed rules, one for each audience
\* and scope, and only late saves bring stray ones.
Inv ==
    /\ TypeOK
    /\ OneEach(rules)
    /\ \A t \in Tabs : Orderly(page[t].rules)
    /\ OnTime

LEMMA InitInv == Init => Inv
  <1> SUFFICES ASSUME Init PROVE Inv
    OBVIOUS
  <1>1. \A t \in Tabs : page[t] = [contacts |-> {}, groups |-> {}, members |-> {}, rules |-> {}]
    BY DEF Init
  <1>2. TypeOK
    BY <1>1 DEF Init, TypeOK, Page, NoSave
  <1>4. OnTime
    BY DEF Init, OnTime
  <1>3. OneEach({}) /\ \A r \in {} : WellFormed(r)
    BY DEF OneEach
  <1> QED
    BY <1>1, <1>2, <1>3, <1>4 DEF Init, Inv, Orderly

\* A call that makes late the saves that name whom it changes: the others name
\* somebody whose row and priority are what they were.
LEMMA OvertakenOnTime ==
  ASSUME Inv, NEW audience, NEW ref, save' = save, late' = Overtaken(audience, ref),
         \A x : x \in contacts /\ ~(audience = "individual" /\ x = ref) => x \in contacts',
         \A x \in Groups : ~(audience = "group" /\ x = ref) => priority'[x] = priority[x]
  PROVE  late' \in [Tabs -> BOOLEAN] /\ OnTime'
  <1>1. late' \in [Tabs -> BOOLEAN]
    BY DEF Overtaken, Inv, TypeOK
  <1>2. ASSUME NEW t \in Tabs, save[t] # NoSave, ~late'[t] PROVE ~Stray(save[t])'
    <2>1. WellFormed(save[t]) /\ ~late[t] /\ ~(save[t].audience = audience /\ save[t].ref = ref)
      BY <1>2 DEF Overtaken, Inv, TypeOK
    <2>2. ~Stray(save[t])
      BY <1>2, <2>1 DEF Inv, OnTime
    <2> QED
      BY <2>1, <2>2 DEF Stray, WellFormed
  <1> QED
    BY <1>1, <1>2 DEF OnTime

\* A call that makes no save late: nobody is removed, no priority changes.
LEMMA UnmovedOnTime ==
  ASSUME Inv, UNCHANGED <<save, late>>, contacts \subseteq contacts',
         \A x \in Groups : (\E t \in Tabs : /\ save[t] # NoSave
                                         /\ save[t].audience = "group"
                                         /\ save[t].ref = x
                                         /\ ~late[t])
                           => priority'[x] = priority[x]
  PROVE  late' \in [Tabs -> BOOLEAN] /\ OnTime'
  <1>1. ASSUME NEW t \in Tabs, save[t] # NoSave, ~late[t] PROVE ~Stray(save[t])'
    <2>1. WellFormed(save[t]) /\ ~Stray(save[t])
      BY <1>1 DEF Inv, TypeOK, OnTime
    <2>2. save[t].audience = "group" => priority'[save[t].ref] = priority[save[t].ref]
      BY <1>1, <2>1 DEF WellFormed
    <2> QED
      BY <2>1, <2>2 DEF Stray, WellFormed
  <1> QED
    BY <1>1 DEF OnTime, Inv, TypeOK

\* Steps that leave the rules, the pages and the saves alone or take rules away.
LEMMA FewerKeepInv ==
  ASSUME Inv, UNCHANGED <<page, save, saves>>, rules' \subseteq rules,
         contacts' \subseteq Contacts, priority' \in [Groups -> Nat \cup {None}],
         members' \subseteq Groups \X Contacts, events' \subseteq Events,
         known' \subseteq Contacts \cup Groups, changes' \in 0..MaxChanges,
         late' \in [Tabs -> BOOLEAN], OnTime'
  PROVE  Inv'
  <1>1. TypeOK'
    BY DEF Inv, TypeOK
  <1>2. OneEach(rules')
    BY DEF Inv, OneEach
  <1> QED
    BY <1>1, <1>2 DEF Inv, OneEach, Orderly

LEMMA UpsertGroupInv ==
  ASSUME Inv, NEW g \in Groups, NEW p \in Priorities \cup {None}, UpsertGroup(g, p)
  PROVE  Inv'
  <1>1. \A r \in rules : LET q == IF r.audience = "group" /\ r.ref = g /\ p # None
                                   THEN [r EXCEPT !.priority = p] ELSE r
                         IN  WellFormed(q) /\ Key(q) = Key(r)
    <2> SUFFICES ASSUME NEW r \in rules, r.audience = "group", r.ref = g, p # None
                 PROVE  LET q == [r EXCEPT !.priority = p] IN WellFormed(q) /\ Key(q) = Key(r)
      BY DEF Inv, TypeOK
    <2>1. r \in Rule /\ p \in Nat /\ WellFormed(r)
      BY DEF Inv, TypeOK, WellFormed
    <2> QED
      BY <2>1 DEF WellFormed, Rule, Key
  <1>2. \A r \in rules' : \E s \in rules :
          /\ r = IF s.audience = "group" /\ s.ref = g /\ p # None
                 THEN [s EXCEPT !.priority = p] ELSE s
          /\ Key(r) = Key(s) /\ WellFormed(r)
    <2>1. rules' = {IF s.audience = "group" /\ s.ref = g /\ p # None
                   THEN [s EXCEPT !.priority = p] ELSE s : s \in rules}
      BY Zenon DEF UpsertGroup, Synced
    <2> SUFFICES ASSUME NEW r \in rules'
                 PROVE  \E s \in rules :
                          /\ r = IF s.audience = "group" /\ s.ref = g /\ p # None
                                 THEN [s EXCEPT !.priority = p] ELSE s
                          /\ Key(r) = Key(s) /\ WellFormed(r)
      OBVIOUS
    <2>2. PICK s \in rules : r = IF s.audience = "group" /\ s.ref = g /\ p # None
                                 THEN [s EXCEPT !.priority = p] ELSE s
      BY <2>1, Zenon
    <2>3. Key(r) = Key(s) /\ WellFormed(r)
      BY <1>1, <2>2
    <2> QED
      BY <2>2, <2>3, Zenon
  <1>3. OneEach(rules')
    BY <1>2 DEF OneEach, Inv
  <1>4. priority' \in [Groups -> Nat \cup {None}]
    BY DEF UpsertGroup, Inv, TypeOK
  <1>5. changes' \in 0..MaxChanges
    BY DEF UpsertGroup, Change, Inv, TypeOK
  <1>6. late' \in [Tabs -> BOOLEAN] /\ OnTime'
    <2>1. CASE p \in {None, priority[g]}
      <3>1. late' = late /\ contacts' = contacts /\ save' = save
        BY <2>1 DEF UpsertGroup
      <3>2. \A x \in Groups : (\E t \in Tabs : /\ save[t] # NoSave
                                             /\ save[t].audience = "group"
                                             /\ save[t].ref = x
                                             /\ ~late[t])
                               => priority'[x] = priority[x]
        <4> SUFFICES ASSUME NEW x \in Groups, NEW t \in Tabs, save[t] # NoSave,
                            save[t].audience = "group", save[t].ref = x, ~late[t]
                     PROVE  priority'[x] = priority[x]
          OBVIOUS
        <4>1. WellFormed(save[t]) /\ ~Stray(save[t])
          BY DEF Inv, TypeOK, OnTime
        <4>2. priority[x] # None
          BY <4>1 DEF Stray, WellFormed
        <4> QED
          BY <2>1, <4>2 DEF UpsertGroup, groups, Inv, TypeOK
      <3> QED
        BY <3>1, <3>2, UnmovedOnTime
    <2>2. CASE p \notin {None, priority[g]}
      <3>1. late' = Overtaken("group", g) /\ contacts' = contacts /\ save' = save
        BY <2>2 DEF UpsertGroup
      <3>2. \A x \in Groups : x # g => priority'[x] = priority[x]
        BY DEF UpsertGroup, Inv, TypeOK
      <3> QED
        BY <3>1, <3>2, OvertakenOnTime
    <2> QED
      BY <2>1, <2>2
  <1>7. TypeOK'
    BY <1>2, <1>4, <1>5, <1>6 DEF UpsertGroup, Inv, TypeOK
  <1> QED
    BY <1>3, <1>6, <1>7 DEF UpsertGroup, Inv, OneEach, Orderly

LEMMA SetInv ==
  ASSUME Inv, NEW t \in Tabs, NEW o \in Options(page[t]), NEW e \in Events \cup {Everywhere},
         NEW time \in TimeVisibility, NEW fields \in SUBSET Fields, Set(t, o, e, time, fields)
  PROVE  Inv'
  <1> DEFINE r == [id |-> saves + 1, event |-> e, audience |-> o.audience, ref |-> o.ref,
                   priority |-> PriorityFor(o), time |-> time, fields |-> fields]
  <1>1. /\ saves \in Nat /\ saves' = saves + 1 /\ saves' \in 0..MaxSaves
        /\ save' = [save EXCEPT ![t] = r]
    BY DEF Set, Inv, TypeOK
  <1>2. \/ o.audience = "individual" /\ o.ref \in Contacts
        \/ o.audience = "group" /\ o.ref \in Groups
        \/ o.audience = "public" /\ o.ref = None
    BY DEF Options, Individual, Group, Public, Inv, TypeOK, Page
  <1>3. o.audience = "group" => PriorityFor(o) \in Nat
    BY <1>2 DEF Set, PriorityFor, groups, Inv, TypeOK
  <1>4. o.audience # "group" => PriorityFor(o) = None
    BY DEF PriorityFor
  <1>5. WellFormed(r)
    BY <1>1, <1>2, <1>3, <1>4 DEF WellFormed, Rule
  <1>6. r \in Rule
    BY <1>5 DEF WellFormed
  <1>7. r.audience = o.audience /\ r.ref = o.ref /\ r.priority = PriorityFor(o)
    OBVIOUS
  <1> HIDE DEF r
  <1>8. TypeOK'
    BY <1>1, <1>5, <1>6 DEF Set, Inv, TypeOK, people
  <1>9. UNCHANGED people /\ late' = [late EXCEPT ![t] = o.audience = "individual"
                                                      /\ o.ref \notin contacts]
    BY DEF Set
  <1>10. ASSUME NEW u \in Tabs, save'[u] # NoSave, ~late'[u] PROVE ~Stray(save[u])'
    <2>1. CASE u # t
      <3>1. save'[u] = save[u] /\ late'[u] = late[u]
        BY <1>1, <1>9, <2>1 DEF Inv, TypeOK
      <3>2. ~Stray(save[u])
        BY <1>10, <3>1 DEF Inv, OnTime
      <3> QED
        BY <1>9, <3>1, <3>2 DEF Stray, people
    <2>2. CASE u = t
      <3>1. save'[u] = r /\ ~(o.audience = "individual" /\ o.ref \notin contacts)
        BY <1>1, <1>9, <1>10, <2>2 DEF Inv, TypeOK
      <3> QED
        BY <1>7, <1>9, <3>1 DEF Stray, people, PriorityFor
    <2> QED
      BY <2>1, <2>2
  <1> QED
    BY <1>8, <1>10 DEF Set, Inv, OneEach, Orderly, OnTime

LEMMA SetPresetInv ==
  ASSUME Inv, NEW t \in Tabs, NEW o \in Options(page[t]), NEW e \in Events \cup {Everywhere},
         NEW preset \in Offered, SetPreset(t, o, e, preset)
  PROVE  Inv'
  <1>1. Presets[preset].time \in TimeVisibility /\ Presets[preset].fields \in SUBSET Fields
    <2>1. preset \in {"full", "limited", "busy", "hidden"}
      OBVIOUS
    <2>2. /\ Presets["full"] = [time |-> "exact", fields |-> Fields]
          /\ Presets["limited"] = [time |-> "exact", fields |-> {Title}]
          /\ Presets["busy"] = [time |-> "busy", fields |-> {}]
          /\ Presets["hidden"] = [time |-> "hidden", fields |-> {}]
      BY DEF Presets
    <2> QED
      BY <2>1, <2>2 DEF TimeVisibility
  <1> HIDE DEF Presets
  <1>2. Set(t, o, e, Presets[preset].time, Presets[preset].fields)
    BY DEF SetPreset
  <1> QED
    BY <1>1, <1>2, SetInv

LEMMA SetCustomFieldInv ==
  ASSUME Inv, NEW t \in Tabs, NEW o \in Options(page[t]), NEW e \in Events \cup {Everywhere},
         NEW f \in Customizable, SetCustomField(t, o, e, f)
  PROVE  Inv'
  <1> DEFINE start == IF OwnRule(page[t], o, e) = {} THEN {Title}
                      ELSE (CHOOSE r \in OwnRule(page[t], o, e) : TRUE).fields
             chosen == IF f \in Sees(page[t], o, e).fields THEN start \ {f} ELSE start \cup {f}
  <1>1. \A r \in OwnRule(page[t], o, e) : r.fields \in SUBSET Fields
    BY DEF OwnRule, Inv, Orderly, WellFormed, Rule
  <1>2. start \in SUBSET Fields
    BY <1>1
  <1>3. chosen \in SUBSET Fields
    BY <1>2
  <1>4. Set(t, o, e, "exact", chosen)
    BY DEF SetCustomField
  <1> HIDE DEF chosen
  <1>5. "exact" \in TimeVisibility
    BY DEF TimeVisibility
  <1> QED
    BY <1>3, <1>4, <1>5, SetInv

LEMMA EndOnTime ==
  ASSUME Inv, NEW t \in Tabs, UNCHANGED people, save' = [save EXCEPT ![t] = NoSave],
         late' = [late EXCEPT ![t] = FALSE]
  PROVE  OnTime'
  <1>1. \A u \in Tabs : save'[u] # NoSave => save'[u] = save[u] /\ late'[u] = late[u]
    BY DEF Inv, TypeOK
  <1>2. ASSUME NEW u \in Tabs, save'[u] # NoSave, ~late'[u] PROVE ~Stray(save[u])'
    <2>1. save[u] # NoSave /\ save'[u] = save[u] /\ ~late[u]
      BY <1>1, <1>2
    <2>2. ~Stray(save[u])
      BY <2>1 DEF Inv, OnTime
    <2> QED
      BY <2>1, <2>2 DEF Stray, people
  <1> QED
    BY <1>2 DEF OnTime

LEMMA SaveInv ==
  ASSUME Inv, NEW t \in Tabs, Save(t)
  PROVE  Inv'
  <1> DEFINE r == save[t]
             same == {s \in rules : Key(s) = Key(r)}
  <1>1. WellFormed(r) /\ r \in Rule
    BY DEF Save, Inv, TypeOK, WellFormed
  <1>2. \A s \in same : /\ WellFormed([r EXCEPT !.id = s.id])
                       /\ Key([r EXCEPT !.id = s.id]) = Key(r)
    <2>1. \A s \in same : s.id \in Nat
      BY DEF Inv, TypeOK, WellFormed, Rule
    <2> HIDE DEF same, r
    <2> QED
      BY <1>1, <2>1 DEF WellFormed, Rule, Key
  <1>3. \A q \in rules' : WellFormed(q) /\ (q \in rules \/ Key(q) = Key(r))
    BY <1>1, <1>2 DEF Save, Upserted, Inv, TypeOK
  <1>4. \A q, s \in same : q = s
    BY DEF Inv, OneEach
  <1>5. OneEach(rules')
    <2>1. CASE same = {}
      <3>1. rules' = rules \cup {r}
        BY <2>1 DEF Save, Upserted
      <3> QED
        BY <2>1, <3>1 DEF Inv, OneEach
    <2>2. CASE same # {}
      <3>1. PICK s \in same : same = {s}
        BY <2>2, <1>4
      <3>2. rules' = (rules \ same) \cup {[r EXCEPT !.id = s.id]}
        BY <2>2, <3>1 DEF Save, Upserted
      <3>3. Key([r EXCEPT !.id = s.id]) = Key(r)
        BY <1>2
      <3> QED
        BY <3>2, <3>3 DEF Inv, OneEach
    <2> QED
      BY <2>1, <2>2
  <1>6. save' \in [Tabs -> Rule \cup {NoSave}] /\ \A u \in Tabs : save'[u] = NoSave \/ WellFormed(save'[u])
    BY DEF Save, Inv, TypeOK
  <1>7. TypeOK'
    BY <1>3, <1>6 DEF Save, Inv, TypeOK, people, bounds
  <1>8. OnTime'
    BY EndOnTime DEF Save
  <1> QED
    BY <1>5, <1>7, <1>8 DEF Save, Inv, OneEach, Orderly

LEMMA RefusedInv ==
  ASSUME Inv, NEW t \in Tabs, Refused(t)
  PROVE  Inv'
  <1>1. TypeOK'
    BY DEF Refused, Inv, TypeOK, people, bounds
  <1>2. OnTime'
    BY EndOnTime DEF Refused
  <1> QED
    BY <1>1, <1>2 DEF Refused, Inv, OneEach, Orderly

LEMMA LoadInv ==
  ASSUME Inv, NEW t \in Tabs, Load(t)
  PROVE  Inv'
  <1>1. rules \subseteq Rule /\ Orderly(rules) /\ groups \subseteq Groups
    BY DEF Inv, TypeOK, WellFormed, Orderly, groups
  <1>2. page' \in [Tabs -> Page] /\ \A u \in Tabs : Orderly(page'[u].rules)
    <2>1. CASE page' = [page EXCEPT ![t].rules = rules]
      BY <1>1, <2>1 DEF Inv, TypeOK, Page
    <2>2. CASE page' = [page EXCEPT ![t].contacts = contacts, ![t].groups = groups,
                                    ![t].members = members]
      <3>1. page' \in [Tabs -> Page]
        <4>1. /\ page \in [Tabs -> Page] /\ contacts \in SUBSET Contacts
              /\ groups \in SUBSET Groups /\ members \in SUBSET (Groups \X Contacts)
          BY <1>1 DEF Inv, TypeOK
        <4>2. [page[t] EXCEPT !.contacts = contacts, !.groups = groups, !.members = members]
                \in Page
          <5>1. page[t] \in Page
            BY <4>1
          <5> QED
            BY <4>1, <5>1 DEF Page
        <4>3. page' = [page EXCEPT ![t] = [page[t] EXCEPT !.contacts = contacts,
                                             !.groups = groups, !.members = members]]
          BY <2>2, <4>1 DEF Page
        <4> HIDE DEF Page
        <4> QED
          BY <4>1, <4>2, <4>3
      <3>2. \A u \in Tabs : page'[u].rules = page[u].rules
        BY <2>2 DEF Inv, TypeOK, Page
      <3> QED
        BY <3>1, <3>2 DEF Inv
    <2> QED
      BY <2>1, <2>2 DEF Load
  <1>3. TypeOK'
    BY <1>2 DEF Load, Inv, TypeOK, people, bounds
  <1>4. OnTime'
    BY DEF Load, Inv, OnTime, Stray, people
  <1> QED
    BY <1>2, <1>3, <1>4 DEF Load, Inv, OneEach, Orderly

LEMMA NextInv == Inv /\ [Next]_vars => Inv'
  <1> SUFFICES ASSUME Inv, [Next]_vars PROVE Inv'
    OBVIOUS
  <1>1. CASE UNCHANGED vars
    <2>1. rules' \subseteq rules /\ OnTime'
      BY <1>1 DEF vars, people, Inv, OnTime, Stray
    <2> QED
      BY <1>1, <2>1, FewerKeepInv DEF vars, people, bounds, Inv, TypeOK
  <1>2. ASSUME NEW c \in Contacts, AddContact(c) PROVE Inv'
    <2>1. late' \in [Tabs -> BOOLEAN] /\ OnTime'
      BY <1>2, UnmovedOnTime DEF AddContact
    <2> QED
      BY <1>2, <2>1, FewerKeepInv DEF AddContact, bounds, Inv, TypeOK
  <1>3. ASSUME NEW c \in Contacts, DeleteContact(c) PROVE Inv'
    <2>1. late' \in [Tabs -> BOOLEAN] /\ OnTime'
      BY <1>3, OvertakenOnTime DEF DeleteContact
    <2> QED
      BY <1>3, <2>1, FewerKeepInv DEF DeleteContact, RulesWithout, Change, Inv, TypeOK
  <1>4. ASSUME NEW g \in Groups, DeleteGroup(g) PROVE Inv'
    <2>1. \A x \in Groups : x # g => priority'[x] = priority[x]
      BY <1>4 DEF DeleteGroup, Inv, TypeOK
    <2>2. late' \in [Tabs -> BOOLEAN] /\ OnTime'
      BY <1>4, <2>1, OvertakenOnTime DEF DeleteGroup
    <2> QED
      BY <1>4, <2>2, FewerKeepInv DEF DeleteGroup, RulesWithout, Change, Inv, TypeOK
  <1>5. ASSUME NEW g \in Groups, NEW c \in Contacts, AddMember(g, c) PROVE Inv'
    <2>1. late' \in [Tabs -> BOOLEAN] /\ OnTime'
      BY <1>5, UnmovedOnTime DEF AddMember
    <2> QED
      BY <1>5, <2>1, FewerKeepInv DEF AddMember, bounds, Inv, TypeOK
  <1>6. ASSUME NEW g \in Groups, NEW c \in Contacts, RemoveMember(g, c) PROVE Inv'
    <2>1. late' \in [Tabs -> BOOLEAN] /\ OnTime'
      BY <1>6, UnmovedOnTime DEF RemoveMember
    <2> QED
      BY <1>6, <2>1, FewerKeepInv DEF RemoveMember, Change, Inv, TypeOK
  <1>7. ASSUME NEW e \in Events, PurgeEvent(e) PROVE Inv'
    <2>1. late' \in [Tabs -> BOOLEAN] /\ OnTime'
      BY <1>7, UnmovedOnTime DEF PurgeEvent, people
    <2> QED
      BY <1>7, <2>1, FewerKeepInv DEF PurgeEvent, Change, people, Inv, TypeOK
  <1>8. ASSUME NEW t \in Tabs, NEW c \in Contacts, RenameContact(t, c) PROVE Inv'
    <2>1. late' \in [Tabs -> BOOLEAN] /\ OnTime'
      BY <1>8, UnmovedOnTime DEF RenameContact
    <2> QED
      BY <1>8, <2>1, FewerKeepInv DEF RenameContact, bounds, Inv, TypeOK
  <1>9. ASSUME NEW t \in Tabs, NEW o \in Options(page[t]), NEW e \in Events \cup {Everywhere},
               Reset(t, o, e)
        PROVE  Inv'
    <2>1. late' \in [Tabs -> BOOLEAN] /\ OnTime'
      BY <1>9, UnmovedOnTime DEF Reset, people
    <2> QED
      BY <1>9, <2>1, FewerKeepInv DEF Reset, people, bounds, Inv, TypeOK
  <1> QED
    BY <1>1, <1>2, <1>3, <1>4, <1>5, <1>6, <1>7, <1>8, <1>9, UpsertGroupInv, SetPresetInv,
       SetCustomFieldInv, SaveInv, RefusedInv, LoadInv
    DEF Next

-----------------------------------------------------------------------------
(* The theorems                                                            *)

\* The rows of every table, the page of every tab and the save on its way have
\* the shape the screens and the functions of 0017 and 0020 give them.
THEOREM TypeCorrect == Spec => []TypeOK
  <1>1. Inv => TypeOK
    BY DEF Inv
  <1> QED
    BY InitInv, NextInv, <1>1, PTL DEF Spec

\* Whatever rules there are and however old the parts of a page, no page of a
\* contact, a group or the public holds more of an event than the owner's chip
\* on it tells (audience.ts: privacyLevel, baselineLevel).
THEOREM ChipTells == Spec => []ChipCovers
  <1>1. Inv => ChipCovers
    BY PageCovered DEF Inv, ChipCovers
  <1> QED
    BY InitInv, NextInv, <1>1, PTL DEF Spec

LEMMA OwnRuleWins ==
  ASSUME Inv, NEW c \in Contacts, NEW e \in Events \cup {Everywhere}, NEW r \in Own(rules, c, e),
         r.event = e \/ \A s \in Own(rules, c, e) : s.event # e
  PROVE  Sees(Database, Individual(c), e) = Materialise(r.time, r.fields)
  <1> DEFINE v == ViewerOf(Database, Individual(c))
             S == Contest(rules, v, e)
  <1>1. v.kind = "individual" /\ v.contact = c
    BY DEF ViewerOf, Individual
  <1> HIDE DEF v
  <1>2. Orderly(rules)
    BY DEF Inv, TypeOK, Orderly
  <1>3. r \in S /\ r.audience = "individual" /\ r.ref = c /\ r \in rules
    BY <1>1 DEF Own, Contest, Applies, RulesFor
  <1>4. \A s \in S : WellFormed(s) /\ s \in rules /\ s.event \in {e, Everywhere} /\ Applies(s, v)
    BY <1>2 DEF Orderly, Contest, RulesFor
  <1>5. ASSUME NEW s \in S \ {r} PROVE Beats(r, s)
    <2>1. CASE s.audience = "individual"
      <3>1. s \in Own(rules, c, e)
        BY <1>1, <1>4, <2>1 DEF Applies, Own, Contest
      <3>2. s.event # r.event
        BY <1>2, <1>3, <1>4, <1>5, <3>1 DEF Orderly, OneEach, Key, Own
      <3>3. r.event = e /\ s.event = Everywhere /\ e # Everywhere
        BY <1>3, <1>4, <3>1, <3>2 DEF Own, RulesFor
      <3> QED
        BY <1>3, <2>1, <3>3 DEF Beats, ScopeRank
    <2>2. CASE s.audience # "individual"
      <3>1. s.audience \in {"group", "public"}
        BY <1>4, <2>2 DEF WellFormed, Rule
      <3> QED
        BY <1>3, <3>1 DEF Beats, AudienceRank
    <2> QED
      BY <2>1, <2>2
  <1>6. Winner(S) = r
    BY <1>3, <1>4, <1>5, WinnerIs
  <1>7. Database.rules = rules
    BY DEF Database
  <1> QED
    BY <1>3, <1>6, <1>7, SeesWinner DEF v

\* A contact who has a rule sees what it says, the event's rule before the
\* workspace's, whatever their groups and the public are given (evaluate.ts).
THEOREM OwnRuleFinal == Spec => []OwnRuleDecides
  <1>1. Inv => OwnRuleDecides
    BY OwnRuleWins DEF OwnRuleDecides
  <1> QED
    BY InitInv, NextInv, <1>1, PTL DEF Spec

\* Both of these at once.
THEOREM SeenIsSaid == Spec => []SeenAsSaid
BY ChipTells, OwnRuleFinal, PTL DEF SeenAsSaid

LandsLate(r) ==
    \E t \in Tabs : /\ save[t] # NoSave
                   /\ save'[t] = NoSave
                   /\ Key(save[t]) = Key(r)
                   /\ late[t]

Late(r) == (r \in rules /\ Stray(r)) \/ LandsLate(r)

LEMMA DeleteGroupStrays ==
  ASSUME Inv, NEW g \in Groups, DeleteGroup(g), NEW r \in rules', Stray(r)'
  PROVE  Late(r)
  <1>1. r \in rules /\ ~(r.audience = "group" /\ r.ref = g) /\ WellFormed(r)
    BY DEF DeleteGroup, RulesWithout, Inv, TypeOK
  <1>2. r.audience = "group" => priority'[r.ref] = priority[r.ref]
    BY <1>1 DEF DeleteGroup, Inv, TypeOK, WellFormed
  <1>3. Stray(r)
    BY <1>2 DEF Stray, DeleteGroup
  <1> QED
    BY <1>1, <1>3 DEF Late

LEMMA UpsertGroupStrays ==
  ASSUME Inv, NEW g \in Groups, NEW p \in Priorities \cup {None}, UpsertGroup(g, p),
         NEW r \in rules', Stray(r)'
  PROVE  Late(r)
  <1>1. rules' = {IF s.audience = "group" /\ s.ref = g /\ p # None
                 THEN [s EXCEPT !.priority = p] ELSE s : s \in rules}
    BY Zenon DEF UpsertGroup, Synced
  <1>2. PICK s \in rules : r = IF s.audience = "group" /\ s.ref = g /\ p # None
                              THEN [s EXCEPT !.priority = p] ELSE s
    BY <1>1
  <1>3. WellFormed(s) /\ s \in Rule
    BY DEF Inv, TypeOK, WellFormed
  <1>4. priority \in [Groups -> Nat \cup {None}]
    BY DEF Inv, TypeOK
  <1>5. CASE s.audience = "group" /\ s.ref = g /\ p # None
    <2>1. r.priority = p /\ r.audience = "group" /\ r.ref = g
      BY <1>2, <1>3, <1>5 DEF Rule
    <2>2. priority'[g] = p
      BY <1>4, <1>5 DEF UpsertGroup
    <2> QED
      BY <2>1, <2>2 DEF Stray
  <1>6. CASE ~(s.audience = "group" /\ s.ref = g /\ p # None)
    <2>1. r = s /\ contacts' = contacts
      BY <1>2, <1>6 DEF UpsertGroup
    <2>2. CASE s.audience = "group" /\ s.ref = g
      <3>1. p = None
        BY <1>6, <2>2
      <3>2. \/ priority'[g] = priority[g]
            \/ priority[g] = None
        BY <1>4, <3>1 DEF UpsertGroup, groups
      <3>3. Stray(s)
        BY <1>3, <2>1, <2>2, <3>2 DEF Stray, WellFormed
      <3> QED
        BY <2>1, <3>3 DEF Late
    <2>3. CASE ~(s.audience = "group" /\ s.ref = g)
      <3>1. s.audience = "group" => priority'[s.ref] = priority[s.ref]
        BY <1>3, <1>4, <2>3 DEF UpsertGroup, WellFormed
      <3>2. Stray(s)
        BY <2>1, <3>1 DEF Stray
      <3> QED
        BY <2>1, <3>2 DEF Late
    <2> QED
      BY <2>2, <2>3
  <1> QED
    BY <1>5, <1>6

LEMMA SaveStrays ==
  ASSUME Inv, NEW t \in Tabs, Save(t), NEW r \in rules', Stray(r)'
  PROVE  Late(r)
  <1> DEFINE q == save[t]
             same == {s \in rules : Key(s) = Key(q)}
  <1>1. save[t] # NoSave /\ save'[t] = NoSave
    BY DEF Save, Inv, TypeOK
  <1>2. CASE r \in rules
    BY <1>2 DEF Stray, Save, people, Late
  <1>3. CASE r \notin rules
    <2>1. r = q \/ \E s \in same : r = [q EXCEPT !.id = s.id]
      BY <1>3 DEF Save, Upserted
    <2>2. q \in Rule
      BY <1>1 DEF Inv, TypeOK, WellFormed
    <2>3. /\ Key(r) = Key(q)
          /\ r.audience = q.audience /\ r.ref = q.ref /\ r.priority = q.priority
      BY <2>1, <2>2 DEF Key, Rule
    <2>4. Stray(q)
      BY <2>3 DEF Stray, Save, people
    <2>5. late[t]
      BY <1>1, <2>4 DEF Inv, OnTime
    <2> QED
      BY <1>1, <2>3, <2>5 DEF Late, LandsLate
  <1> QED
    BY <1>2, <1>3

\* Removing a person or a group and changing a priority leave no rule behind
\* them, and a save that is on time writes the group's priority: a rule becomes
\* stray only as a save lands that was late when it did (0017 and 0020).
THEOREM StraysOnlyLate == Spec => OnlyLateSavesStray
  <1>1. ASSUME Inv, [Next]_vars, NEW r \in rules', Stray(r)'
        PROVE  Late(r)
    <2>1. CASE UNCHANGED vars
      BY <1>1, <2>1 DEF vars, people, Stray, Late
    <2>2. ASSUME NEW c \in Contacts, AddContact(c) PROVE Late(r)
      BY <1>1, <2>2 DEF AddContact, Stray, Late
    <2>3. ASSUME NEW c \in Contacts, DeleteContact(c) PROVE Late(r)
      BY <1>1, <2>3 DEF DeleteContact, RulesWithout, Stray, Late
    <2>4. ASSUME NEW g \in Groups, NEW c \in Contacts, AddMember(g, c) \/ RemoveMember(g, c)
          PROVE  Late(r)
      BY <1>1, <2>4 DEF AddMember, RemoveMember, Stray, Late
    <2>5. ASSUME NEW e \in Events, PurgeEvent(e) PROVE Late(r)
      BY <1>1, <2>5 DEF PurgeEvent, people, Stray, Late
    <2>6. ASSUME NEW t \in Tabs, NEW c \in Contacts, RenameContact(t, c) PROVE Late(r)
      BY <1>1, <2>6 DEF RenameContact, Stray, Late
    <2>7. ASSUME NEW t \in Tabs, NEW o \in Options(page[t]), NEW e \in Events \cup {Everywhere},
                 \/ \E preset \in Offered : SetPreset(t, o, e, preset)
                 \/ \E f \in Customizable : SetCustomField(t, o, e, f)
                 \/ Reset(t, o, e)
          PROVE  Late(r)
      <3>1. UNCHANGED people /\ rules' \subseteq rules
        BY <2>7 DEF SetPreset, SetCustomField, Set, Reset
      <3> QED
        BY <1>1, <3>1 DEF people, Stray, Late
    <2>8. ASSUME NEW t \in Tabs, Refused(t) \/ Load(t) PROVE Late(r)
      BY <1>1, <2>8 DEF Refused, Load, people, Stray, Late
    <2> QED
      BY <1>1, <2>1, <2>2, <2>3, <2>4, <2>5, <2>6, <2>7, <2>8, DeleteGroupStrays,
         UpsertGroupStrays, SaveStrays
      DEF Next
  <1>2. Inv /\ [Next]_vars =>
          [\A r \in rules' : Stray(r)' =>
             \/ r \in rules /\ Stray(r)
             \/ \E t \in Tabs : /\ save[t] # NoSave
                               /\ save'[t] = NoSave
                               /\ Key(save[t]) = Key(r)
                               /\ late[t]]_vars
    BY <1>1 DEF Late, LandsLate
  <1> QED
    BY InitInv, NextInv, <1>2, PTL DEF Spec, OnlyLateSavesStray
=============================================================================
