----------------------------- MODULE EditProofs -----------------------------
(***************************************************************************)
(* Proofs about editing.  Of EditSheet: for any number of tabs, fields and *)
(* contents, whatever each tab can or cannot decrypt.  Of the series those *)
(* sheets edit: for any zone with one clock change, any rule and any       *)
(* length of the calendar, what planning a split promises (Recurrence),    *)
(* what the rows show however they are split and detached (SeriesPages),   *)
(* what the exported file says of them (CalendarExport), and what callers  *)
(* of the transaction hold while others commit (SeriesTransaction).        *)
(***************************************************************************)
EXTENDS EditSheet, SeriesTransaction, CalendarExport, FiniteSetTheorems,
        WellFoundedInduction, TLAPS


-----------------------------------------------------------------------------
(* Types *)

LEMMA RecordsTyped ==
    /\ Empty \in Values
    /\ NotLoading \in Load /\ Requested \in Load
    /\ NoPage \in Page /\ Closed \in Sheet
BY SheetAssumption DEF Empty, Values, NotLoading, Requested, NoPage, Closed, Load, Page, Sheet

LEMMA SeedTyped ==
    ASSUME TypeOK, NEW t \in Tabs
    PROVE  Seed(t) \in Values
<1>1. page[t].shown \in Values BY DEF TypeOK, Page
<1> QED BY <1>1 DEF Seed, Values

LEMMA AppliedTyped ==
    ASSUME TypeOK, NEW t \in Tabs
    PROVE  Applied(t) \in Values
<1>1. sheet[t].values \in Values BY DEF TypeOK, Sheet
<1> QED BY <1>1 DEF Applied, Values, TypeOK

LEMMA AnsweredTyped ==
    ASSUME TypeOK, NEW t \in Tabs, Answered(t)
    PROVE  load' \in [Tabs -> Load] /\ sheet' \in [Tabs -> Sheet]
BY RecordsTyped DEF Answered, TypeOK

LEMMA LoadTyped ==
    ASSUME TypeOK, NEW t \in Tabs, LoadStep(t)
    PROVE  TypeOK'
<1> load[t] \in Load /\ page[t] \in Page BY DEF TypeOK
<1>1. CASE Navigate(t) BY <1>1, RecordsTyped DEF Navigate, TypeOK
<1>2. CASE ReadVersion(t)
  <2>0. version \in 0..MaxVersion BY SheetAssumption DEF TypeOK
  <2>1. [load[t] EXCEPT !.read = "version", !.version = version] \in Load
    BY <2>0 DEF Load
  <2>2. load' = [load EXCEPT ![t] = [load[t] EXCEPT !.read = "version", !.version = version]]
    BY <1>2 DEF ReadVersion, TypeOK
  <2> QED BY <1>2, <2>1, <2>2 DEF ReadVersion, TypeOK
<1>3. CASE ReadFields(t)
  <2>1. [load[t] EXCEPT !.read = "fields", !.shown = stored] \in Load
    BY DEF Load, TypeOK
  <2>2. load' = [load EXCEPT ![t] = [load[t] EXCEPT !.read = "fields", !.shown = stored]]
    BY <1>3 DEF ReadFields, TypeOK
  <2> QED BY <1>3, <2>1, <2>2 DEF ReadFields, TypeOK
<1>4. CASE Arrive(t)
  <2> DEFINE arrived ==
        [store   |-> IF page[t].store = "none" THEN "none" ELSE "locked",
         first   |-> load[t].read,
         version |-> IF load[t].read = "version" THEN load[t].version ELSE version,
         shown   |-> IF load[t].read = "fields" THEN load[t].shown ELSE stored]
  <2>1. arrived \in Page BY <1>4, SheetAssumption DEF Arrive, Load, Page, TypeOK
  <2>2. page' = [page EXCEPT ![t] = arrived] BY <1>4 DEF Arrive
  <2> HIDE DEF arrived
  <2> QED BY <1>4, <2>1, <2>2, RecordsTyped DEF Arrive, TypeOK
<1>5. CASE Rebuilt(t)
  <2>1. [page[t] EXCEPT !.store = "unlocked"] \in Page BY DEF Page
  <2>2. page' = [page EXCEPT ![t] = [page[t] EXCEPT !.store = "unlocked"]]
    BY <1>5 DEF Rebuilt, TypeOK
  <2> QED BY <1>5, <2>1, <2>2 DEF Rebuilt, TypeOK
<1> QED BY <1>1, <1>2, <1>3, <1>4, <1>5 DEF LoadStep

LEMMA FormTyped ==
    ASSUME TypeOK, NEW t \in Tabs, FormStep(t)
    PROVE  TypeOK'
<1> sheet[t] \in Sheet BY DEF TypeOK
<1>1. CASE Open(t)
  <2>1. [Closed EXCEPT !.open = TRUE, !.values = Seed(t)] \in Sheet
    BY RecordsTyped, SeedTyped DEF Sheet
  <2> QED BY <1>1, <2>1 DEF Open, TypeOK
<1>2. ASSUME NEW f \in Fields, NEW c \in Contents \cup {None}, Type(t, f, c)
      PROVE  TypeOK'
  <2> DEFINE typed == [sheet[t] EXCEPT !.values = [@ EXCEPT ![f] = c], !.touched = @ \cup {f}]
  <2>1. sheet[t].values \in Values /\ sheet[t].touched \subseteq Fields BY DEF Sheet
  <2>2. [sheet[t].values EXCEPT ![f] = c] \in Values BY <2>1 DEF Values
  <2>3. typed \in Sheet BY <2>1, <2>2 DEF Sheet
  <2>4. sheet' = [sheet EXCEPT ![t] = typed] BY <1>2 DEF Type, TypeOK
  <2> HIDE DEF typed
  <2> QED BY <1>2, <2>3, <2>4 DEF Type, TypeOK
<1>3. CASE Cancel(t) BY <1>3, RecordsTyped DEF Cancel, TypeOK
<1> QED BY <1>1, <1>2, <1>3 DEF FormStep

LEMMA StepTyped == TypeOK /\ [Next]_vars => TypeOK'
<1> SUFFICES ASSUME TypeOK, [Next]_vars PROVE TypeOK'
  OBVIOUS
<1>1. ASSUME NEW t \in Tabs, Save(t) PROVE TypeOK'
  <2>1. version' \in 1..MaxVersion
    BY <1>1, SheetAssumption DEF Save, Current, NextVersion, TypeOK
  <2> QED BY <1>1, <2>1, AppliedTyped, AnsweredTyped DEF Save, TypeOK
<1>2. ASSUME NEW t \in Tabs, SaveSplit(t) PROVE TypeOK'
  <2>1. version' \in 1..MaxVersion
    BY <1>2, SheetAssumption DEF SaveSplit, Current, NextVersion, TypeOK
  <2> QED BY <1>2, <2>1, AnsweredTyped DEF SaveSplit, TypeOK
<1>3. ASSUME NEW t \in Tabs, Conflict(t) PROVE TypeOK'
  BY <1>3, RecordsTyped DEF Conflict, TypeOK
<1>4. CASE UNCHANGED vars BY <1>4 DEF vars, TypeOK
<1> QED BY <1>1, <1>2, <1>3, <1>4, LoadTyped, FormTyped DEF Next

LEMMA InitTyped == Init => TypeOK
BY RecordsTyped, SheetAssumption DEF Init, TypeOK

\* Every reachable state is well typed: in particular a form only ever holds
\* contents its tab could have typed or read.
THEOREM TypeCorrect == Spec => []TypeOK
<1> QED BY InitTyped, StepTyped, PTL DEF Spec

-----------------------------------------------------------------------------
(* Versions.  What a tab read first is never from the future, so a version *)
(* that is still current when the fields have been read covers them.       *)

LoadsFromPast == \A t \in Tabs : load[t].read = "version" => load[t].version <= version

PagesFromPast ==
    \A t \in Tabs :
        page[t].first = "version" =>
            /\ page[t].version <= version
            /\ page[t].version = version => page[t].shown = stored

VersionInv == LoadsFromPast /\ PagesFromPast

LEMMA BumpKeepsVersions ==
    ASSUME TypeOK, VersionInv, NEW t \in Tabs, version' = NextVersion, Answered(t),
           page' = page
    PROVE  VersionInv'
<1>1. \A u \in Tabs : load'[u] = load[u] \/ load'[u] = Requested
  BY DEF Answered, TypeOK
<1>2. Requested.read = "nothing" BY DEF Requested, NotLoading
<1>3. version \in Nat /\ version' = version + 1 BY SheetAssumption DEF NextVersion, TypeOK
<1>4. \A u \in Tabs : load[u].version \in Nat /\ page[u].version \in Nat
  <2> SUFFICES ASSUME NEW u \in Tabs PROVE load[u].version \in Nat /\ page[u].version \in Nat
    OBVIOUS
  <2>1. load[u] \in Load /\ page[u] \in Page BY DEF TypeOK
  <2> QED BY <2>1, SheetAssumption DEF Load, Page
<1>5. LoadsFromPast' BY <1>1, <1>2, <1>3, <1>4 DEF VersionInv, LoadsFromPast
<1>6. PagesFromPast' BY <1>3, <1>4 DEF VersionInv, PagesFromPast
<1> QED BY <1>5, <1>6 DEF VersionInv

LEMMA LoadKeepsVersions ==
    ASSUME TypeOK, VersionInv, NEW t \in Tabs, LoadStep(t)
    PROVE  VersionInv'
<1> load[t] \in Load /\ page[t] \in Page BY DEF TypeOK
<1> version' = version /\ stored' = stored
  BY DEF LoadStep, Navigate, ReadVersion, ReadFields, Arrive, Rebuilt
<1> version \in Nat BY SheetAssumption DEF TypeOK
<1>0. Requested.read = "nothing" /\ NotLoading.read = "idle" /\ NoPage.first = None
  BY DEF Requested, NotLoading, NoPage
<1>1. CASE Navigate(t)
  <2>1. NoPage.version = 0 BY DEF NoPage
  <2>2. PagesFromPast'
    BY <1>0, <1>1, <2>1 DEF Navigate, VersionInv, PagesFromPast, NoPage, TypeOK
  <2>3. LoadsFromPast' BY <1>0, <1>1 DEF Navigate, VersionInv, LoadsFromPast, TypeOK
  <2> QED BY <2>2, <2>3 DEF VersionInv
<1>2. CASE ReadVersion(t)
  <2>1. load'[t].version = version BY <1>2 DEF ReadVersion, TypeOK, Load
  <2>2. \A u \in Tabs : u # t => load'[u] = load[u] BY <1>2 DEF ReadVersion, TypeOK
  <2>3. LoadsFromPast' BY <2>1, <2>2 DEF VersionInv, LoadsFromPast
  <2>4. PagesFromPast' BY <1>2 DEF ReadVersion, VersionInv, PagesFromPast
  <2> QED BY <2>3, <2>4 DEF VersionInv
<1>3. CASE ReadFields(t)
  <2>1. load'[t].read = "fields" BY <1>3 DEF ReadFields, TypeOK, Load
  <2>2. \A u \in Tabs : u # t => load'[u] = load[u] BY <1>3 DEF ReadFields, TypeOK
  <2>3. LoadsFromPast' BY <2>1, <2>2 DEF VersionInv, LoadsFromPast
  <2>4. PagesFromPast' BY <1>3 DEF ReadFields, VersionInv, PagesFromPast
  <2> QED BY <2>3, <2>4 DEF VersionInv
<1>4. CASE Arrive(t)
  <2>1. /\ page'[t].first = load[t].read
        /\ load[t].read = "version" => page'[t].version = load[t].version
                                       /\ page'[t].shown = stored
    BY <1>4 DEF Arrive, TypeOK
  <2>2. \A u \in Tabs : u # t => page'[u] = page[u] /\ load'[u] = load[u]
    BY <1>4 DEF Arrive, TypeOK
  <2>3. load'[t] = NotLoading BY <1>4 DEF Arrive, TypeOK
  <2>4. PagesFromPast' BY <2>1, <2>2 DEF VersionInv, PagesFromPast, LoadsFromPast
  <2>5. LoadsFromPast' BY <1>0, <2>2, <2>3 DEF VersionInv, LoadsFromPast
  <2> QED BY <2>4, <2>5 DEF VersionInv
<1>5. CASE Rebuilt(t)
  <2>1. /\ page'[t].first = page[t].first
        /\ page'[t].version = page[t].version
        /\ page'[t].shown = page[t].shown
    BY <1>5 DEF Rebuilt, TypeOK, Page
  <2>2. \A u \in Tabs : u # t => page'[u] = page[u] BY <1>5 DEF Rebuilt, TypeOK
  <2>3. PagesFromPast' BY <2>1, <2>2 DEF VersionInv, PagesFromPast
  <2>4. LoadsFromPast' BY <1>5 DEF Rebuilt, VersionInv, LoadsFromPast
  <2> QED BY <2>3, <2>4 DEF VersionInv
<1> QED BY <1>1, <1>2, <1>3, <1>4, <1>5 DEF LoadStep

LEMMA StepKeepsVersions == TypeOK /\ VersionInv /\ [Next]_vars => VersionInv'
<1> SUFFICES ASSUME TypeOK, VersionInv, [Next]_vars PROVE VersionInv'
  OBVIOUS
<1>1. ASSUME NEW t \in Tabs, Save(t) PROVE VersionInv'
  BY <1>1, BumpKeepsVersions DEF Save
<1>2. ASSUME NEW t \in Tabs, SaveSplit(t) PROVE VersionInv'
  BY <1>2, BumpKeepsVersions DEF SaveSplit
<1>3. ASSUME NEW t \in Tabs, Conflict(t) PROVE VersionInv'
  <2>1. Requested.read = "nothing" BY DEF Requested, NotLoading
  <2>2. LoadsFromPast' BY <1>3, <2>1 DEF Conflict, VersionInv, LoadsFromPast, TypeOK
  <2> QED BY <1>3, <2>2 DEF Conflict, VersionInv, PagesFromPast
<1>4. ASSUME NEW t \in Tabs, FormStep(t) PROVE VersionInv'
  BY <1>4 DEF FormStep, Open, Type, Cancel, VersionInv, LoadsFromPast, PagesFromPast
<1>5. CASE UNCHANGED vars BY <1>5 DEF vars, VersionInv, LoadsFromPast, PagesFromPast
<1> QED BY <1>1, <1>2, <1>3, <1>4, <1>5, LoadKeepsVersions DEF Next

LEMMA InitVersions == Init => VersionInv
BY SheetAssumption DEF Init, VersionInv, LoadsFromPast, PagesFromPast, NotLoading, NoPage

\* To a tab that read the version first, a current version names the stored
\* fields, through any number of saves, conflicts and refreshes by any tabs.
THEOREM VersionNames == Spec => []VersionNamesContent
<1>1. TypeOK /\ VersionInv => VersionNamesContent
  BY DEF VersionInv, PagesFromPast, VersionNamesContent
<1> QED BY <1>1, InitTyped, InitVersions, StepTyped, StepKeepsVersions, PTL DEF Spec

-----------------------------------------------------------------------------
(* What a save writes over. *)

LEMMA SaveSeesStored ==
    ASSUME TypeOK, VersionInv, NEW t \in Tabs, Current(t), page[t].first = "version"
    PROVE  page[t].shown = stored
BY DEF Current, VersionInv, PagesFromPast

\* Two tabs never overwrite each other unseen: what a save replaces or removes
\* is what its page was showing.
THEOREM OverwritesSeen == Spec => OverwritesOnlyWhatItShowed
<1>1. TypeOK /\ VersionInv /\ [Next]_vars
        => [\A t \in Tabs :
              Save(t) /\ page[t].first = "version"
                => \A f \in Fields : stored'[f] # stored[f]
                                       => page[t].shown[f] = stored[f]]_vars
  <2> SUFFICES ASSUME TypeOK, VersionInv, NEW t \in Tabs, Save(t), page[t].first = "version"
               PROVE  page[t].shown = stored
    OBVIOUS
  <2> QED BY SaveSeesStored DEF Save
<1> QED BY <1>1, InitTyped, InitVersions, StepTyped, StepKeepsVersions, PTL
       DEF Spec, OverwritesOnlyWhatItShowed

\* Content a device cannot decrypt survives every save made on it by somebody
\* who did not type in that field, however the form was seeded and refreshed.
THEOREM UnreadableSurvives == Spec => UnreadableKept
<1>1. TypeOK /\ VersionInv /\ [Next]_vars
        => [\A t \in Tabs :
              Save(t) /\ page[t].first = "version"
                => \A f \in Fields :
                      <<t, stored[f]>> \in Opaque /\ stored'[f] # stored[f]
                        => f \in sheet[t].touched]_vars
  <2> SUFFICES ASSUME TypeOK, VersionInv, NEW t \in Tabs, Save(t),
                      page[t].first = "version", NEW f \in Fields,
                      <<t, stored[f]>> \in Opaque, f \notin sheet[t].touched
               PROVE  stored'[f] = stored[f]
    OBVIOUS
  <2>1. page[t].shown = stored BY SaveSeesStored DEF Save
  <2>2. stored[f] # None BY SheetAssumption
  <2>3. f \in Skipped(t) BY <2>1, <2>2 DEF Skipped, Unreadable
  <2>4. f \notin Sealed(t) /\ f \notin Cleared(t) BY <2>3 DEF Sealed, Cleared
  <2> QED BY <2>4 DEF Save, Applied
<1> QED BY <1>1, InitTyped, InitVersions, StepTyped, StepKeepsVersions, PTL
       DEF Spec, UnreadableKept

\* A split carries to its new row every field as it is stored, where the form
\* agrees with its page: nothing is lost because it could not be read.
THEOREM SplitLosesNothing == Spec => SplitKeepsContent
<1>1. TypeOK /\ VersionInv /\ [Next]_vars
        => [\A t \in Tabs :
              SaveSplit(t) /\ page[t].first = "version"
                => \A f \in Fields \ sheet[t].touched :
                      Carried(t)[f] = Seed(t)[f] => Carried(t)[f] = stored[f]]_vars
  <2> SUFFICES ASSUME TypeOK, VersionInv, NEW t \in Tabs, SaveSplit(t),
                      page[t].first = "version", NEW f \in Fields \ sheet[t].touched,
                      Carried(t)[f] = Seed(t)[f]
               PROVE  Seed(t)[f] = stored[f]
    OBVIOUS
  <2>1. page[t].shown = stored BY SaveSeesStored DEF SaveSplit
  <2>2. f \notin Skipped(t) BY DEF SaveSplit, MaySplit
  <2>3. page[t].store = "unlocked" BY DEF SaveSplit, Submits
  <2>4. ~Unreadable(t, f) BY <2>2 DEF Skipped
  <2> QED BY <2>1, <2>3, <2>4 DEF Seed, Readable, Unreadable
<1> QED BY <1>1, InitTyped, InitVersions, StepTyped, StepKeepsVersions, PTL
       DEF Spec, SplitKeepsContent

-----------------------------------------------------------------------------
(* Clocks                                                                  *)

LEMMA OfTwo ==
    ASSUME NEW a \in Int, NEW b \in Int
    PROVE  /\ Min({a, b}) = IF a <= b THEN a ELSE b
           /\ Max({a, b}) = IF a <= b THEN b ELSE a
<1>1. \E x \in {a, b} : \A y \in {a, b} : x <= y OBVIOUS
<1>2. \E x \in {a, b} : \A y \in {a, b} : x >= y OBVIOUS
<1>3. Min({a, b}) \in {a, b} /\ \A y \in {a, b} : Min({a, b}) <= y BY <1>1 DEF Min
<1>4. Max({a, b}) \in {a, b} /\ \A y \in {a, b} : Max({a, b}) >= y BY <1>2 DEF Max
<1> HIDE DEF Min, Max
<1> QED BY <1>3, <1>4

\* Of a reading's two candidates, the one under the offset before the change if
\* it is before it, else the one after if it is after it; in a gap neither is.
LEMMA InstantIs ==
    ASSUME NEW zone \in Zones, NEW r \in Int
    PROVE  LET a == r - zone.before
               b == r - zone.after IN
           /\ OccurrenceInstant(zone, r) =
                IF a < zone.at THEN a ELSE IF b >= zone.at THEN b ELSE a
           /\ ResolveLocal(zone, r).dst = "nonexistent-shifted" <=> a >= zone.at /\ b < zone.at
<1> DEFINE a == r - zone.before
           b == r - zone.after
           real == {i \in {a, b} : WallAt(zone, i) = r}
<1>0. a \in Int /\ b \in Int /\ zone.before \in Int /\ zone.after \in Int /\ zone.at \in Int
      /\ r = a + zone.before /\ r = b + zone.after
  BY DEF Zones
<1>1. Candidates(zone, r) = IF real = {} THEN {a, b} ELSE real BY DEF Candidates
<1>2. WallAt(zone, a) = r <=> a < zone.at \/ a = b BY <1>0 DEF WallAt, Offset
<1>3. WallAt(zone, b) = r <=> b >= zone.at \/ a = b BY <1>0 DEF WallAt, Offset
<1> HIDE DEF a, b
<1>4. CASE a = b
  <2>1. Candidates(zone, r) = {a, a} BY <1>1, <1>2, <1>3, <1>4
  <2>2. Earlier(zone, r) = a /\ Later(zone, r) = a BY <2>1, <1>0, OfTwo DEF Earlier, Later
  <2> QED BY <2>2, <1>4, <1>0 DEF ResolveLocal, OccurrenceInstant, a, b
<1>5. CASE a # b /\ a < zone.at /\ b >= zone.at
  <2>1. Candidates(zone, r) = {a, b} BY <1>1, <1>2, <1>3, <1>5
  <2>2. a <= b /\ a \in Int /\ b \in Int BY <1>0, <1>5
  <2>3. Earlier(zone, r) = a /\ Later(zone, r) = b BY <2>1, <2>2, OfTwo DEF Earlier, Later
  <2> QED BY <2>3, <1>2, <1>5, <1>0 DEF ResolveLocal, OccurrenceInstant, a, b
<1>6. CASE a # b /\ a < zone.at /\ b < zone.at
  <2>1. Candidates(zone, r) = {a, a} BY <1>0, <1>1, <1>2, <1>3, <1>6
  <2>2. Earlier(zone, r) = a /\ Later(zone, r) = a BY <2>1, <1>0, OfTwo DEF Earlier, Later
  <2> QED BY <2>2, <1>6, <1>0 DEF ResolveLocal, OccurrenceInstant, a, b
<1>7. CASE a # b /\ a >= zone.at /\ b >= zone.at
  <2>1. Candidates(zone, r) = {b, b} BY <1>0, <1>1, <1>2, <1>3, <1>7
  <2>2. Earlier(zone, r) = b /\ Later(zone, r) = b BY <2>1, <1>0, OfTwo DEF Earlier, Later
  <2> QED BY <2>2, <1>7, <1>0 DEF ResolveLocal, OccurrenceInstant, a, b
<1>8. CASE a # b /\ a >= zone.at /\ b < zone.at
  <2>1. Candidates(zone, r) = {a, b} BY <1>0, <1>1, <1>2, <1>3, <1>8
  <2>2. Earlier(zone, r) = b /\ Later(zone, r) = a BY <2>1, <1>0, <1>8, OfTwo DEF Earlier, Later
  <2> QED BY <2>2, <1>3, <1>8, <1>0 DEF ResolveLocal, OccurrenceInstant, a, b
<1> QED BY <1>0, <1>4, <1>5, <1>6, <1>7, <1>8

\* The instant of a reading, read off the clock again, is that instant.
LEMMA StoredInstantReturns ==
    ASSUME NEW zone \in Zones, NEW r \in Int
    PROVE  /\ OccurrenceInstant(zone, r) \in Int
           /\ WallAt(zone, OccurrenceInstant(zone, r)) \in Int
           /\ OccurrenceInstant(zone, WallAt(zone, OccurrenceInstant(zone, r)))
                = OccurrenceInstant(zone, r)
<1> DEFINE i == OccurrenceInstant(zone, r)
           w == WallAt(zone, i)
<1>1. zone.before \in Int /\ zone.after \in Int /\ zone.at \in Int BY DEF Zones
<1>2. i = IF r - zone.before < zone.at THEN r - zone.before
          ELSE IF r - zone.after >= zone.at THEN r - zone.after ELSE r - zone.before
  BY InstantIs
<1>3. i \in Int BY <1>1, <1>2
<1> HIDE DEF i
<1>4. w = IF i < zone.at THEN i + zone.before ELSE i + zone.after BY DEF WallAt, Offset
<1>5. w \in Int BY <1>1, <1>3, <1>4
<1> HIDE DEF w
<1>6. OccurrenceInstant(zone, w) =
        IF w - zone.before < zone.at THEN w - zone.before
        ELSE IF w - zone.after >= zone.at THEN w - zone.after ELSE w - zone.before
  BY <1>5, InstantIs
<1>7. OccurrenceInstant(zone, w) = i BY <1>1, <1>2, <1>3, <1>4, <1>6
<1> QED BY <1>3, <1>5, <1>7 DEF i, w

Divergent(zone, r) == ResolveLocal(zone, r).dst = "nonexistent-shifted"

\* Readings that exist keep their order when they become instants, and are shown
\* again by the clock at those instants.
LEMMA OrderKept ==
    ASSUME NEW zone \in Zones, NEW r \in Int, NEW s \in Int,
           ~Divergent(zone, r), ~Divergent(zone, s)
    PROVE  /\ OccurrenceInstant(zone, r) \in Int
           /\ OccurrenceInstant(zone, r) <= OccurrenceInstant(zone, s) <=> r <= s
           /\ WallAt(zone, OccurrenceInstant(zone, r)) = r
<1>1. zone.before \in Int /\ zone.after \in Int /\ zone.at \in Int BY DEF Zones
<1>2. OccurrenceInstant(zone, r) =
        (IF r - zone.before < zone.at THEN r - zone.before
         ELSE IF r - zone.after >= zone.at THEN r - zone.after ELSE r - zone.before)
      /\ ~(r - zone.before >= zone.at /\ r - zone.after < zone.at)
  BY InstantIs DEF Divergent
<1>3. OccurrenceInstant(zone, s) =
        (IF s - zone.before < zone.at THEN s - zone.before
         ELSE IF s - zone.after >= zone.at THEN s - zone.after ELSE s - zone.before)
      /\ ~(s - zone.before >= zone.at /\ s - zone.after < zone.at)
  BY InstantIs DEF Divergent
<1> QED BY <1>1, <1>2, <1>3 DEF WallAt, Offset

-----------------------------------------------------------------------------
(* Rules                                                                   *)

LEMMA ReadingParts ==
    ASSUME NEW d \in Int, NEW r \in Int
    PROVE  /\ DayOf(r) \in Int /\ HourOf(r) \in Int
           /\ r = Midnight(DayOf(r)) + HourOf(r)
           /\ DayOf(Midnight(d) + HourOf(r)) = d
           /\ HourOf(Midnight(d) + HourOf(r)) = HourOf(r)
           /\ Midnight(d) + HourOf(r) \in Int
BY DEF DayOf, HourOf, Midnight, Hours

\* What two numbers leave by a divisor both leave zero of.
LEMMA Multiples ==
    ASSUME NEW n \in Nat \ {0}, NEW a \in Int, NEW b \in Int, NEW c \in Int, (b - a) % n = 0
    PROVE  (c - a) % n = 0 <=> (c - b) % n = 0
<1>1. ASSUME NEW x \in Int, x % n = 0
      PROVE  \E q \in Int : x = n * q
  <2>1. x \div n \in Int /\ x = n * (x \div n) BY <1>1
  <2> QED BY <2>1
<1>2. \A q \in Int : (n * q) % n = 0 OBVIOUS
<1>3. PICK q \in Int : b - a = n * q
  <2>1. b - a \in Int OBVIOUS
  <2> QED BY <1>1, <2>1
<1>4. ASSUME (c - a) % n = 0 PROVE (c - b) % n = 0
  <2>0. c - a \in Int OBVIOUS
  <2>1. PICK p \in Int : c - a = n * p BY <1>1, <1>4, <2>0
  <2>2. c - b = n * p - n * q BY <1>3, <2>1
  <2>3. c - b = n * (p - q) BY <2>2
  <2> QED BY <2>3, <1>2
<1>5. ASSUME (c - b) % n = 0 PROVE (c - a) % n = 0
  <2>0. c - b \in Int OBVIOUS
  <2>1. PICK p \in Int : c - b = n * p BY <1>1, <1>5, <2>0
  <2>2. c - a = n * p + n * q BY <1>3, <2>1
  <2>3. c - a = n * (p + q) BY <2>2
  <2> QED BY <2>3, <1>2
<1> QED BY <1>4, <1>5

\* The days a rule falls on, the number of them up to a day, and what else keeps
\* a reading: there is COUNT left for its day, and it is not past UNTIL.
RuleDays(rule, dtstart) ==
    {d \in DayOf(dtstart)..LastDay : OnRuleDay(rule, DayOf(dtstart), d)}
Rank(rule, dtstart, d) == Cardinality({c \in RuleDays(rule, dtstart) : c <= d})
Counted(rule, dtstart, d) == rule.count = 0 \/ Rank(rule, dtstart, d) <= rule.count
Bounded(rule, r) == rule.until = Null \/ r <= rule.until

LEMMA ReadingsAre ==
    ASSUME NEW rule, NEW dtstart \in Int, NEW r
    PROVE  r \in Readings(rule, dtstart) <=>
             /\ r \in Int /\ HourOf(r) = HourOf(dtstart)
             /\ DayOf(r) \in RuleDays(rule, dtstart)
             /\ Counted(rule, dtstart, DayOf(r))
             /\ Bounded(rule, r)
<1> DEFINE days == RuleDays(rule, dtstart)
           kept == {d \in days : Counted(rule, dtstart, d)}
           all == {Midnight(d) + HourOf(dtstart) : d \in kept}
<1>1. Readings(rule, dtstart) = {x \in all : Bounded(rule, x)}
  BY RecurrenceAssumption DEF Readings, RuleDays, Counted, Rank, Bounded
<1>2. \A d \in days : d \in Int BY RecurrenceAssumption, ReadingParts DEF RuleDays
<1>3. r \in all <=> r \in Int /\ HourOf(r) = HourOf(dtstart) /\ DayOf(r) \in kept
  <2> HIDE DEF kept
  <2>1. \A d \in kept : d \in Int BY <1>2 DEF kept
  <2>2. ASSUME NEW d \in kept, r = Midnight(d) + HourOf(dtstart)
        PROVE  r \in Int /\ HourOf(r) = HourOf(dtstart) /\ DayOf(r) \in kept
    BY <2>1, <2>2, ReadingParts
  <2>3. ASSUME r \in Int, HourOf(r) = HourOf(dtstart), DayOf(r) \in kept PROVE r \in all
    BY <2>3, ReadingParts
  <2> QED BY <2>2, <2>3
<1> QED BY <1>1, <1>3

LEMMA DaysFinite ==
    ASSUME NEW rule, NEW dtstart \in Int
    PROVE  /\ IsFiniteSet(RuleDays(rule, dtstart))
           /\ \A d \in RuleDays(rule, dtstart) : d \in Int /\ d >= DayOf(dtstart)
<1>1. DayOf(dtstart) \in Int /\ LastDay \in Int BY ReadingParts, RecurrenceAssumption
<1>2. IsFiniteSet(DayOf(dtstart)..LastDay) BY <1>1, FS_Interval
<1>3. RuleDays(rule, dtstart) \in SUBSET (DayOf(dtstart)..LastDay) BY DEF RuleDays
<1> QED BY <1>1, <1>2, <1>3, FS_Subset

LEMMA PartsFinite ==
    ASSUME NEW S, IsFiniteSet(S), NEW T \in SUBSET S
    PROVE  IsFiniteSet(T) /\ Cardinality(T) \in Nat /\ Cardinality(T) <= Cardinality(S)
BY FS_Subset, FS_CardinalityType

\* The days up to one are those before another and those from it on.
LEMMA RankSplits ==
    ASSUME NEW rule, NEW dtstart \in Int, NEW k \in Int, NEW d \in Int, k <= d
    PROVE  LET days == RuleDays(rule, dtstart) IN
           /\ Cardinality({c \in days : c < k}) \in Nat
           /\ Cardinality({c \in days : k <= c /\ c <= d}) \in Nat
           /\ Rank(rule, dtstart, d) =
                Cardinality({c \in days : c < k}) + Cardinality({c \in days : k <= c /\ c <= d})
<1> DEFINE days == RuleDays(rule, dtstart)
           A == {c \in days : c < k}
           B == {c \in days : k <= c /\ c <= d}
<1>1. IsFiniteSet(days) /\ \A c \in days : c \in Int BY DaysFinite
<1>2. A \in SUBSET days /\ B \in SUBSET days OBVIOUS
<1>3. {c \in days : c <= d} = A \cup B BY <1>1
<1>4. A \cap B = {} BY <1>1
<1> HIDE DEF A, B, days
<1>5. IsFiniteSet(A) /\ IsFiniteSet(B) /\ Cardinality(A) \in Nat /\ Cardinality(B) \in Nat
  BY <1>1, <1>2, PartsFinite
<1>6. Cardinality(A \cup B) = Cardinality(A) + Cardinality(B)
  <2>1. Cardinality(A \cup B) = Cardinality(A) + Cardinality(B) - Cardinality(A \cap B)
    BY <1>5, FS_Union
  <2>2. Cardinality(A \cap B) = 0 BY <1>4, FS_EmptySet
  <2> QED BY <2>1, <2>2, <1>5
<1> QED BY <1>3, <1>5, <1>6 DEF Rank, A, B, days

LEMMA RankRises ==
    ASSUME NEW rule, NEW dtstart \in Int, NEW d \in Int, NEW e \in Int, d <= e
    PROVE  /\ Rank(rule, dtstart, d) \in Nat /\ Rank(rule, dtstart, e) \in Nat
           /\ Rank(rule, dtstart, d) <= Rank(rule, dtstart, e)
<1> DEFINE days == RuleDays(rule, dtstart)
           D == {c \in days : c <= d}
           E == {c \in days : c <= e}
<1>1. IsFiniteSet(days) /\ \A c \in days : c \in Int BY DaysFinite
<1>2. E \in SUBSET days /\ D \in SUBSET E BY <1>1
<1> HIDE DEF D, E, days
<1>3. IsFiniteSet(E) /\ Cardinality(E) \in Nat BY <1>1, <1>2, PartsFinite
<1>4. Cardinality(D) \in Nat /\ Cardinality(D) <= Cardinality(E) BY <1>2, <1>3, PartsFinite
<1> QED BY <1>3, <1>4 DEF Rank, D, E, days

-----------------------------------------------------------------------------
(* Splitting a rule                                                        *)

LEMMA CalendarInts ==
    ASSUME NEW d \in Int
    PROVE  WeekOf(d) \in Int /\ MonthOf(d) \in Int
BY RecurrenceAssumption DEF WeekOf, MonthOf, InShort

\* A rule followed from one of its own days falls on the same days from there on.
LEMMA SameDaysFromThere ==
    ASSUME NEW rule \in Rule, NEW first \in Int, NEW k \in Int, NEW d \in Int,
           OnRuleDay(rule, first, k)
    PROVE  OnRuleDay(rule, first, d) <=> OnRuleDay(rule, k, d)
<1>0. rule.interval \in Nat \ {0} BY DEF Rule
<1>1. CASE rule.freq = "DAILY"
  <2>1. (k - first) % rule.interval = 0 BY <1>1 DEF OnRuleDay
  <2>2. (d - first) % rule.interval = 0 <=> (d - k) % rule.interval = 0 BY <1>0, <2>1, Multiples
  <2> QED BY <1>1, <2>2 DEF OnRuleDay
<1>2. CASE rule.freq = "WEEKLY"
  <2>1. /\ (WeekOf(k) - WeekOf(first)) % rule.interval = 0
        /\ WeekdayOf(k) \in (IF rule.byday = {} THEN {WeekdayOf(first)} ELSE rule.byday)
    BY <1>2 DEF OnRuleDay
  <2>2. WeekOf(first) \in Int /\ WeekOf(k) \in Int /\ WeekOf(d) \in Int BY CalendarInts
  <2>3. PICK x \in Int, y \in Int, z \in Int :
            x = WeekOf(first) /\ y = WeekOf(k) /\ z = WeekOf(d)
    BY <2>2
  <2>5. (y - x) % rule.interval = 0 BY <2>1, <2>3
  <2>4. (z - x) % rule.interval = 0 <=> (z - y) % rule.interval = 0
    BY ONLY <1>0, <2>5, x \in Int, y \in Int, z \in Int, Multiples
  <2> QED BY <1>2, <2>1, <2>3, <2>4 DEF OnRuleDay
<1>3. CASE rule.freq = "MONTHLY"
  <2>1. (MonthOf(k) - MonthOf(first)) % rule.interval = 0 /\ MonthDay(k) = MonthDay(first)
    BY <1>3 DEF OnRuleDay
  <2>2. MonthOf(first) \in Int /\ MonthOf(k) \in Int /\ MonthOf(d) \in Int BY CalendarInts
  <2>3. PICK x \in Int, y \in Int, z \in Int :
            x = MonthOf(first) /\ y = MonthOf(k) /\ z = MonthOf(d)
    BY <2>2
  <2>5. (y - x) % rule.interval = 0 BY <2>1, <2>3
  <2>4. (z - x) % rule.interval = 0 <=> (z - y) % rule.interval = 0
    BY ONLY <1>0, <2>5, x \in Int, y \in Int, z \in Int, Multiples
  <2> QED BY <1>3, <2>1, <2>3, <2>4 DEF OnRuleDay
<1> QED BY <1>1, <1>2, <1>3 DEF Rule

LEMMA TruncatedIsRule ==
    ASSUME NEW rule \in Rule, NEW until \in Int
    PROVE  TruncateRrule(rule, until) \in Rule
BY DEF TruncateRrule, Rule

\* UNTIL just before a reading, of a rule that COUNT and UNTIL do not end before.
LEMMA CutIsPast ==
    ASSUME NEW rule \in Rule, NEW dtstart \in Int, NEW k \in Int, Bounded(rule, k),
           \A r \in Int : /\ HourOf(r) = HourOf(dtstart) /\ DayOf(r) \in RuleDays(rule, dtstart)
                          /\ r < k
                          => Counted(rule, dtstart, DayOf(r))
    PROVE  Readings(TruncateRrule(rule, JustBefore(k)), dtstart)
             = {r \in Readings(rule, dtstart) : r < k}
<1> DEFINE cut == TruncateRrule(rule, JustBefore(k))
<1>1. /\ cut.freq = rule.freq /\ cut.interval = rule.interval /\ cut.byday = rule.byday
      /\ cut.count = 0 /\ cut.until = k - 1
  BY DEF TruncateRrule, JustBefore, Rule
<1>2. cut.until # Null BY <1>1, NullAssumption
<1> HIDE DEF cut
<1>3. RuleDays(cut, dtstart) = RuleDays(rule, dtstart) BY <1>1 DEF RuleDays, OnRuleDay
<1>4. \A r \in Int : r < k => Bounded(rule, r)
  <2>1. rule.until \in Int \cup {Null} BY DEF Rule
  <2> QED BY <2>1 DEF Bounded
<1>5. ASSUME NEW r
      PROVE  r \in Readings(cut, dtstart) <=> r \in Readings(rule, dtstart) /\ r < k
  <2>1. r \in Readings(cut, dtstart) <=>
          /\ r \in Int /\ HourOf(r) = HourOf(dtstart)
          /\ DayOf(r) \in RuleDays(rule, dtstart)
          /\ r <= k - 1
    BY <1>1, <1>2, <1>3, ReadingsAre DEF Counted, Bounded
  <2>2. r \in Readings(rule, dtstart) <=>
          /\ r \in Int /\ HourOf(r) = HourOf(dtstart)
          /\ DayOf(r) \in RuleDays(rule, dtstart)
          /\ Counted(rule, dtstart, DayOf(r))
          /\ Bounded(rule, r)
    BY ReadingsAre
  <2> QED BY <1>4, <2>1, <2>2
<1> QED BY <1>5 DEF cut

\* UNTIL just before an occurrence keeps the occurrences before it, whatever
\* COUNT and UNTIL the rule had.
LEMMA TruncatedIsPast ==
    ASSUME NEW rule \in Rule, NEW dtstart \in Int, NEW k \in Readings(rule, dtstart)
    PROVE  Readings(TruncateRrule(rule, JustBefore(k)), dtstart)
             = {r \in Readings(rule, dtstart) : r < k}
<1>1. /\ k \in Int /\ DayOf(k) \in RuleDays(rule, dtstart)
      /\ Counted(rule, dtstart, DayOf(k)) /\ Bounded(rule, k)
  BY ReadingsAre
<1>2. ASSUME NEW r \in Int, DayOf(r) \in RuleDays(rule, dtstart), r < k
      PROVE  Counted(rule, dtstart, DayOf(r))
  <2>1. DayOf(r) \in Int /\ DayOf(k) \in Int /\ DayOf(r) <= DayOf(k)
    BY <1>1, <1>2 DEF DayOf, Hours
  <2>2. /\ Rank(rule, dtstart, DayOf(r)) <= Rank(rule, dtstart, DayOf(k))
        /\ Rank(rule, dtstart, DayOf(r)) \in Nat /\ Rank(rule, dtstart, DayOf(k)) \in Nat
    BY <2>1, RankRises
  <2>3. rule.count \in Nat BY DEF Rule
  <2> QED BY <1>1, <2>2, <2>3 DEF Counted
<1> QED BY <1>1, <1>2, CutIsPast

\* Readings at one hour of the day are counted by their days.
LEMMA CountedByDay ==
    ASSUME NEW days, IsFiniteSet(days), \A d \in days : d \in Int, NEW h \in Int
    PROVE  /\ IsFiniteSet({Midnight(d) + HourOf(h) : d \in days})
           /\ Cardinality({Midnight(d) + HourOf(h) : d \in days}) = Cardinality(days)
<1> DEFINE T == {Midnight(d) + HourOf(h) : d \in days}
           f == [d \in days |-> Midnight(d) + HourOf(h)]
<1>1. \A d, e \in days : Midnight(d) + HourOf(h) = Midnight(e) + HourOf(h) => d = e
  BY ReadingParts
<1>2. f \in Bijection(days, T)
  <2>1. f \in [days -> T] OBVIOUS
  <2>2. \A d, e \in days : f[d] = f[e] => d = e BY <1>1
  <2>3. \A t \in T : \E d \in days : f[d] = t OBVIOUS
  <2> HIDE DEF f, T
  <2> QED BY <2>1, <2>2, <2>3 DEF Bijection, Injection, Surjection, IsInjective
<1>3. ExistsBijection(days, T) BY <1>2 DEF ExistsBijection
<1> HIDE DEF T, f
<1> QED BY <1>3, FS_Bijection DEF T

\* The occurrences before one of them, counted by their days.
LEMMA ConsumedIs ==
    ASSUME NEW series, series.rule \in Rule, series.dtstart \in Int,
           NEW k \in Readings(series.rule, series.dtstart)
    PROVE  CountOccurrencesBefore(series, k) =
             Cardinality({c \in RuleDays(series.rule, series.dtstart) : c < DayOf(k)})
<1> DEFINE days == RuleDays(series.rule, series.dtstart)
           before == {c \in days : c < DayOf(k)}
<1>0. PICK rule, dtstart : rule = series.rule /\ dtstart = series.dtstart OBVIOUS
<1>1. /\ k \in Int /\ HourOf(k) = HourOf(dtstart) /\ DayOf(k) \in days
      /\ Counted(rule, dtstart, DayOf(k)) /\ Bounded(rule, k) /\ dtstart \in Int
  BY <1>0, ReadingsAre
<1>2. IsFiniteSet(days) /\ \A d \in days : d \in Int /\ d >= DayOf(dtstart)
  BY <1>0, DaysFinite
<1>3. series.rule # Null BY NullAssumption
<1>4. CASE k <= dtstart
  <2>1. \A c \in days : ~(c < DayOf(k))
    BY <1>1, <1>2, <1>4 DEF DayOf, Hours
  <2>2. before = {} BY <2>1
  <2>3. Cardinality(before) = 0 BY <2>2, FS_EmptySet
  <2> QED BY <1>0, <1>4, <2>3 DEF CountOccurrencesBefore
<1>5. CASE k > dtstart
  <2> DEFINE T == {Midnight(d) + HourOf(dtstart) : d \in before}
             S == {r \in LocalCandidates(series, dtstart, k) : r < k}
  <2>1. S = {r \in Readings(rule, dtstart) : dtstart <= r /\ r <= k /\ r < k}
    BY <1>0, <1>3 DEF LocalCandidates, SeriesReadings
  <2>2. ASSUME NEW r
        PROVE  r \in T <=> r \in S
    <3>1. r \in Readings(rule, dtstart) <=>
            /\ r \in Int /\ HourOf(r) = HourOf(dtstart) /\ DayOf(r) \in days
            /\ Counted(rule, dtstart, DayOf(r)) /\ Bounded(rule, r)
      BY <1>0, <1>1, ReadingsAre
    <3>2. r \in T <=> r \in Int /\ HourOf(r) = HourOf(dtstart) /\ DayOf(r) \in before
      <4>1. \A d \in before : d \in Int BY <1>2
      <4>2. ASSUME NEW d \in before, r = Midnight(d) + HourOf(dtstart)
            PROVE  r \in Int /\ HourOf(r) = HourOf(dtstart) /\ DayOf(r) \in before
        BY <1>1, <4>1, <4>2, ReadingParts
      <4>3. ASSUME r \in Int, HourOf(r) = HourOf(dtstart), DayOf(r) \in before PROVE r \in T
        BY <4>3, ReadingParts
      <4> QED BY <4>2, <4>3
    <3>3. ASSUME r \in Int, HourOf(r) = HourOf(dtstart)
          PROVE  /\ r < k <=> DayOf(r) < DayOf(k)
                 /\ DayOf(r) >= DayOf(dtstart) => dtstart <= r
      BY <3>3, <1>1 DEF HourOf, DayOf, Hours
    <3>4. ASSUME r \in Int, DayOf(r) < DayOf(k), DayOf(r) \in days, r < k
          PROVE  Counted(rule, dtstart, DayOf(r)) /\ Bounded(rule, r)
      <4>1. DayOf(r) \in Int /\ DayOf(k) \in Int BY <1>1, <3>4, ReadingParts
      <4>2. /\ Rank(rule, dtstart, DayOf(r)) <= Rank(rule, dtstart, DayOf(k))
            /\ Rank(rule, dtstart, DayOf(r)) \in Nat /\ Rank(rule, dtstart, DayOf(k)) \in Nat
        BY <1>1, <3>4, <4>1, RankRises
      <4>3. rule.count \in Nat /\ rule.until \in Int \cup {Null} BY <1>0 DEF Rule
      <4> QED BY <1>1, <3>4, <4>2, <4>3 DEF Counted, Bounded
    <3> HIDE DEF T, S
    <3>5. r \in S <=> r \in Readings(rule, dtstart) /\ dtstart <= r /\ r <= k /\ r < k
      BY <2>1
    <3>6. \A d \in days : d >= DayOf(dtstart) BY <1>2
    <3> QED BY <1>1, <3>1, <3>2, <3>3, <3>4, <3>5, <3>6
  <2> HIDE DEF T, S, before
  <2>3. S = T BY <2>2
  <2>4. IsFiniteSet(before) /\ \A d \in before : d \in Int BY <1>2, FS_Subset DEF before
  <2>5. Cardinality(T) = Cardinality(before) BY <1>1, <2>4, CountedByDay DEF T
  <2>6. CountOccurrencesBefore(series, k) = Cardinality(S)
    BY <1>0, <1>1, <1>3, <1>5 DEF CountOccurrencesBefore, S
  <2> QED BY <2>3, <2>5, <2>6 DEF before
<1> QED BY <1>0, <1>1, <1>4, <1>5

\* The successor keeps the occurrences from the split on: it falls on the same
\* days and has what is left of COUNT.
LEMMA SuccessorIsFuture ==
    ASSUME NEW series, series.rule \in Rule, series.dtstart \in Int,
           NEW k \in Readings(series.rule, series.dtstart)
    PROVE  LET rest == RewriteSuccessorCount(series.rule, CountOccurrencesBefore(series, k)) IN
           /\ rest.ok
           /\ rest.rule \in Rule
           /\ Readings(rest.rule, k) = {r \in Readings(series.rule, series.dtstart) : r >= k}
<1>0. PICK rule \in Rule, dtstart \in Int : rule = series.rule /\ dtstart = series.dtstart
  OBVIOUS
<1> DEFINE days == RuleDays(rule, dtstart)
           consumed == CountOccurrencesBefore(series, k)
           rest == RewriteSuccessorCount(rule, consumed).rule
<1>1. /\ k \in Int /\ HourOf(k) = HourOf(dtstart) /\ DayOf(k) \in days
      /\ Counted(rule, dtstart, DayOf(k)) /\ Bounded(rule, k)
      /\ DayOf(k) \in Int /\ DayOf(dtstart) \in Int
  BY <1>0, ReadingsAre, ReadingParts
<1>2. rule.count \in Nat /\ rule.until \in Int \cup {Null} BY DEF Rule
<1>3. consumed = Cardinality({c \in days : c < DayOf(k)}) /\ consumed \in Nat
  <2>1. consumed = Cardinality({c \in days : c < DayOf(k)}) BY <1>0, ConsumedIs
  <2>2. IsFiniteSet(days) BY DaysFinite
  <2>3. Cardinality({c \in days : c < DayOf(k)}) \in Nat BY <2>2, PartsFinite
  <2> QED BY <2>1, <2>3
\* The days of the successor.
<1>4. \A d \in Int : OnRuleDay(rest, DayOf(k), d) <=> OnRuleDay(rule, DayOf(k), d)
  BY DEF OnRuleDay, RewriteSuccessorCount, Rule
<1>5. RuleDays(rest, k) = {d \in days : d >= DayOf(k)}
  <2>1. OnRuleDay(rule, DayOf(dtstart), DayOf(k)) /\ DayOf(k) >= DayOf(dtstart)
    BY <1>1, RecurrenceAssumption DEF RuleDays
  <2>2. \A d \in Int : OnRuleDay(rule, DayOf(dtstart), d) <=> OnRuleDay(rule, DayOf(k), d)
    BY <1>1, <2>1, SameDaysFromThere
  <2> HIDE DEF rest
  <2>3. ASSUME NEW d
        PROVE  d \in RuleDays(rest, k) <=> d \in days /\ d >= DayOf(k)
    BY <1>1, <1>4, <2>1, <2>2, RecurrenceAssumption DEF RuleDays
  <2> QED BY <2>3
<1>6. \A d \in days : d >= DayOf(k) =>
        /\ Rank(rest, k, d) \in Nat
        /\ Rank(rule, dtstart, d) = consumed + Rank(rest, k, d)
  <2> TAKE d \in days
  <2> HAVE d >= DayOf(k)
  <2>1. d \in Int BY DaysFinite
  <2> HIDE DEF rest, consumed
  <2>2. {c \in RuleDays(rest, k) : c <= d} = {c \in days : DayOf(k) <= c /\ c <= d}
    BY <1>1, <1>5, <2>1, DaysFinite
  <2> QED BY <1>1, <1>3, <2>1, <2>2, RankSplits DEF Rank
\* What is left of COUNT is not nothing.
<1>7. rule.count # 0 => rule.count - consumed >= 1
  <2>1. ASSUME rule.count # 0 PROVE rule.count - consumed >= 1
    <3>1. Rank(rule, dtstart, DayOf(k)) <= rule.count BY <1>1, <2>1 DEF Counted
    <3>2. Rank(rule, dtstart, DayOf(k)) = consumed + Rank(rest, k, DayOf(k))
          /\ Rank(rest, k, DayOf(k)) \in Nat
      BY <1>1, <1>6
    <3>3. Rank(rest, k, DayOf(k)) # 0
      <4>1. DayOf(k) \in {c \in RuleDays(rest, k) : c <= DayOf(k)} BY <1>1, <1>5
      <4>2. IsFiniteSet({c \in RuleDays(rest, k) : c <= DayOf(k)})
        BY <1>1, DaysFinite, FS_Subset
      <4> QED BY <4>1, <4>2, FS_EmptySet DEF Rank
    <3> HIDE DEF rest, consumed
    <3> QED BY <1>2, <1>3, <3>1, <3>2, <3>3
  <2> QED BY <2>1
<1>8. /\ rest \in Rule
      /\ rest.until = rule.until
      /\ rest.count = IF rule.count = 0 THEN 0 ELSE rule.count - consumed
      /\ RewriteSuccessorCount(rule, consumed).ok
  <2> HIDE DEF consumed
  <2>0. (IF rule.count = 0 THEN 0 ELSE rule.count - consumed) \in Nat
    <3>1. CASE rule.count = 0 BY <3>1
    <3>2. CASE rule.count # 0 BY <1>2, <1>3, <1>7, <3>2
    <3> QED BY <3>1, <3>2
  <2>1. PICK left \in Nat : left = IF rule.count = 0 THEN 0 ELSE rule.count - consumed
    BY <2>0
  <2>2. rest = [rule EXCEPT !.count = left] BY <2>1 DEF RewriteSuccessorCount
  <2>3. RewriteSuccessorCount(rule, consumed).ok BY <1>2, <1>3, <1>7 DEF RewriteSuccessorCount
  <2> HIDE DEF rest
  <2> QED BY <2>1, <2>2, <2>3 DEF Rule
<1>9. ASSUME NEW r
      PROVE  r \in Readings(rest, k) <=> r \in Readings(rule, dtstart) /\ r >= k
  <2> HIDE DEF rest, consumed
  <2>1. r \in Readings(rest, k) <=>
          /\ r \in Int /\ HourOf(r) = HourOf(k)
          /\ DayOf(r) \in RuleDays(rest, k)
          /\ Counted(rest, k, DayOf(r))
          /\ Bounded(rest, r)
    BY <1>1, ReadingsAre
  <2>2. r \in Readings(rule, dtstart) <=>
          /\ r \in Int /\ HourOf(r) = HourOf(dtstart)
          /\ DayOf(r) \in days
          /\ Counted(rule, dtstart, DayOf(r))
          /\ Bounded(rule, r)
    BY ReadingsAre
  <2>3. ASSUME r \in Int, HourOf(r) = HourOf(k) PROVE DayOf(r) >= DayOf(k) <=> r >= k
    BY <1>1, <2>3 DEF DayOf, HourOf, Hours
  <2>4. ASSUME DayOf(r) \in days, DayOf(r) >= DayOf(k)
        PROVE  Counted(rest, k, DayOf(r)) <=> Counted(rule, dtstart, DayOf(r))
    BY <1>2, <1>3, <1>6, <1>7, <1>8, <2>4 DEF Counted
  <2>5. Bounded(rest, r) <=> Bounded(rule, r) BY <1>8 DEF Bounded
  <2> QED BY <1>1, <1>5, <2>1, <2>2, <2>3, <2>4, <2>5
<1> HIDE DEF rest, consumed
<1>10. Readings(rest, k) = {r \in Readings(rule, dtstart) : r >= k} BY <1>9
<1> QED BY <1>0, <1>8, <1>10 DEF rest, consumed

-----------------------------------------------------------------------------
(* Series and what a range of them holds                                   *)

LEMMA SeriesParts ==
    ASSUME NEW series \in Series
    PROVE  /\ series.dtstart \in Int /\ series.zone \in Zones
           /\ series.rule \in Rule \cup {Null}
           /\ series.rule # Null => series.rule \in Rule
           /\ \A r \in SeriesReadings(series) : r \in Int
<1>1. /\ series.dtstart \in Int /\ series.zone \in Zones
      /\ series.rule \in Rule \cup {Null}
      /\ series.rule # Null => series.rule \in Rule
  BY DEF Series
<1>2. \A r \in SeriesReadings(series) : r \in Int
  BY <1>1, ReadingsAre DEF SeriesReadings
<1> QED BY <1>1, <1>2

InRange(zone, range, r) ==
    /\ WallAt(zone, range.from) - Padding <= r /\ r <= WallAt(zone, range.to) + Padding
    /\ range.from <= OccurrenceInstant(zone, r) /\ OccurrenceInstant(zone, r) < range.to

LEMMA KeysAre ==
    ASSUME NEW series, NEW range
    PROVE  Keys(ExpandSeries(series, range, {}))
             = {r \in SeriesReadings(series) : InRange(series.zone, range, r)}
<1> DEFINE candidates == LocalCandidates(series, WallAt(series.zone, range.from) - Padding,
                                         WallAt(series.zone, range.to) + Padding)
           occurrence(r) == [key |-> r, start |-> ResolveLocal(series.zone, r).instant,
                             dst |-> ResolveLocal(series.zone, r).dst]
           found == {o \in {occurrence(r) : r \in candidates \ {}} :
                       range.from <= o.start /\ o.start < range.to}
<1>1. ExpandSeries(series, range, {}) = found BY DEF ExpandSeries
<1>2. ASSUME NEW r
      PROVE  r \in {o.key : o \in found} <=>
               r \in SeriesReadings(series) /\ InRange(series.zone, range, r)
  <2>1. r \in candidates /\ range.from <= OccurrenceInstant(series.zone, r)
          /\ OccurrenceInstant(series.zone, r) < range.to
        <=> r \in SeriesReadings(series) /\ InRange(series.zone, range, r)
    BY DEF LocalCandidates, InRange
  <2>2. occurrence(r).key = r /\ occurrence(r).start = OccurrenceInstant(series.zone, r)
    BY DEF OccurrenceInstant
  <2> HIDE DEF candidates
  <2>3. ASSUME NEW o \in found, o.key = r
        PROVE  r \in candidates /\ o = occurrence(r) /\ range.from <= o.start /\ o.start < range.to
    BY <2>3
  <2>4. r \in candidates /\ range.from <= occurrence(r).start /\ occurrence(r).start < range.to
          => occurrence(r) \in found
    OBVIOUS
  <2> HIDE DEF found, occurrence
  <2> QED BY <2>1, <2>2, <2>3, <2>4
<1> QED BY <1>1, <1>2 DEF Keys

\* A split at an occurrence of the series passes the gate, over any range.
LEMMA GatePasses ==
    ASSUME NEW call, call.current \in Series, call.current.rule \in Rule,
           call.occurrence \in SeriesReadings(call.current),
           NEW past \in Series, NEW future \in Series,
           past = LoadSeriesSpec(call.own[call.series]),
           future = LoadSeriesSpec(call.own[call.newId]),
           past = [call.current EXCEPT !.rule =
                     TruncateRrule(call.current.rule, JustBefore(call.occurrence))],
           future = [call.current EXCEPT
                       !.dtstart = call.occurrence,
                       !.rule = RewriteSuccessorCount(call.current.rule,
                                  CountOccurrencesBefore(call.current, call.occurrence)).rule]
    PROVE  StoredSplitReproduces(call) /\ HalvesAreWhole(call)
<1>0. PICK current, rule, k, range :
        /\ current = call.current /\ rule = current.rule
        /\ k = call.occurrence /\ range = call.range
        /\ current \in Series /\ rule \in Rule
  OBVIOUS
<1>1. /\ rule # Null /\ current.dtstart \in Int
      /\ k \in Readings(rule, current.dtstart) /\ k \in Int
      /\ SeriesReadings(current) = Readings(rule, current.dtstart)
      /\ \A r \in SeriesReadings(current) : r \in Int
  BY <1>0, NullAssumption, SeriesParts DEF SeriesReadings
<1>2. /\ past.zone = current.zone /\ past.dtstart = current.dtstart
      /\ past.rule = TruncateRrule(rule, JustBefore(k))
      /\ future.zone = current.zone /\ future.dtstart = k
      /\ future.rule = RewriteSuccessorCount(rule, CountOccurrencesBefore(current, k)).rule
  BY <1>0 DEF Series
<1>3. past.rule # Null
  <2>1. k - 1 \in Int BY <1>1
  <2>2. past.rule \in Rule BY <1>0, <1>2, <2>1, TruncatedIsRule DEF JustBefore
  <2> QED BY <2>2, NullAssumption
<1>4. SeriesReadings(past) = {r \in SeriesReadings(current) : r < k}
  BY <1>0, <1>1, <1>2, <1>3, TruncatedIsPast DEF SeriesReadings
<1>5. SeriesReadings(future) = {r \in SeriesReadings(current) : r >= k}
  <2>1. /\ future.rule # Null
        /\ Readings(future.rule, k) = {r \in Readings(rule, current.dtstart) : r >= k}
    BY <1>0, <1>1, <1>2, SuccessorIsFuture, NullAssumption
  <2> QED BY <1>1, <1>2, <2>1 DEF SeriesReadings
<1>6. /\ Keys(ExpandSeries(past, range, {}))
           = {r \in SeriesReadings(current) : r < k /\ InRange(current.zone, range, r)}
      /\ Keys(ExpandSeries(future, range, {}))
           = {r \in SeriesReadings(current) : r >= k /\ InRange(current.zone, range, r)}
      /\ Keys(ExpandSeries(current, range, {}))
           = {r \in SeriesReadings(current) : InRange(current.zone, range, r)}
  <2>1. \A series : Keys(ExpandSeries(series, range, {}))
             = {r \in SeriesReadings(series) : InRange(series.zone, range, r)}
    BY KeysAre
  <2> QED BY <1>2, <1>4, <1>5, <2>1
<1>7. SeriesReadings(past) \cup SeriesReadings(future) = SeriesReadings(current)
  BY <1>1, <1>4, <1>5
<1>8. HalvesAreWhole(call) BY <1>0, <1>7 DEF HalvesAreWhole
<1>9. StoredSplitReproduces(call) BY <1>0, <1>1, <1>6 DEF StoredSplitReproduces
<1> QED BY <1>8, <1>9

-----------------------------------------------------------------------------
(* Pages: what the rows and their exceptions keep                          *)

\* Exceptions are of series that repeat, one for a reading.
SkipsOK ==
    /\ skipped \subseteq Ids \X Int \X {"cancelled", "moved"}
    /\ \A x \in skipped : rows[x[1]] # Null /\ rows[x[1]].rule # Null
    /\ \A x, y \in skipped : x[1] = y[1] /\ x[2] = y[2] => x[3] = y[3]

RowsInv ==
    /\ rows \in [Ids -> Series \cup {Null}]
    /\ SkipsOK
    /\ ~retimed => SplitsLoseNothing

LEMMA ClickedIs ==
    ASSUME RowsInv, NEW e \in Rows, NEW k \in Clickable(e)
    PROVE  /\ e \in Ids /\ rows[e] \in Series
           /\ k \in Int /\ k \in SeriesReadings(rows[e]) /\ k \notin SkippedOf(e)
           /\ rows[e].rule # Null =>
                rows[e].rule \in Rule /\ k \in Readings(rows[e].rule, rows[e].dtstart)
<1>1. e \in Ids /\ rows[e] \in Series BY DEF RowsInv, Rows
<1>2. k \in SeriesReadings(rows[e]) /\ k \notin SkippedOf(e) BY DEF Clickable, Shown
<1> QED BY <1>1, <1>2, SeriesParts DEF SeriesReadings

LEMMA ComposeKeepsRows ==
    ASSUME RowsInv, NEW e \in Ids, NEW template \in Templates, Compose(e, template)
    PROVE  RowsInv'
<1>0. template \in Series /\ template # Null BY PagesAssumption
<1>1. rows' = [rows EXCEPT ![e] = template] /\ UNCHANGED <<skipped, retimed>>
      /\ due' = SeriesReadings(template)
  BY DEF Compose
<1>2. Rows = {} /\ \A f \in Ids : rows[f] = Null BY DEF Compose, Rows
<1>3. skipped = {} BY <1>2 DEF RowsInv, SkipsOK
<1>4. rows' \in [Ids -> Series \cup {Null}] BY <1>0, <1>1 DEF RowsInv
<1>5. rows'[e] = template /\ Rows' = {e}
  BY <1>0, <1>1, <1>2 DEF RowsInv, Rows
<1>6. Shown(e)' = SeriesReadings(template) BY <1>1, <1>3, <1>5 DEF Shown, SkippedOf
<1>7. SplitsLoseNothing' BY <1>1, <1>5, <1>6 DEF SplitsLoseNothing
<1>8. SkipsOK' BY <1>1, <1>3 DEF SkipsOK
<1> QED BY <1>4, <1>7, <1>8 DEF RowsInv

LEMMA CancelKeepsRows ==
    ASSUME RowsInv, NEW e \in Rows, NEW k \in Clickable(e), CancelShown(e, k)
    PROVE  RowsInv'
<1>0. /\ e \in Ids /\ rows[e] \in Series /\ rows[e].rule # Null
      /\ k \in Int /\ k \in SeriesReadings(rows[e]) /\ k \notin SkippedOf(e)
  BY ClickedIs DEF CancelShown
<1>1. /\ skipped' = skipped \cup {<<e, k, "cancelled">>}
      /\ due' = due \ {k} /\ UNCHANGED <<rows, retimed>>
  BY DEF CancelShown
<1>2. \A x \in skipped : x[1] = e => x[2] # k
  BY <1>0 DEF SkippedOf
<1>3. SkipsOK'
  <2>1. skipped' \subseteq Ids \X Int \X {"cancelled", "moved"} BY <1>0, <1>1 DEF RowsInv, SkipsOK
  <2>2. \A x \in skipped' : rows'[x[1]] # Null /\ rows'[x[1]].rule # Null
    BY <1>0, <1>1 DEF RowsInv, SkipsOK, Rows
  <2>3. \A x, y \in skipped' : x[1] = y[1] /\ x[2] = y[2] => x[3] = y[3]
    BY <1>1, <1>2 DEF RowsInv, SkipsOK
  <2> QED BY <2>1, <2>2, <2>3 DEF SkipsOK
<1>4. ASSUME ~retimed' PROVE SplitsLoseNothing'
  <2>1. SplitsLoseNothing BY <1>1, <1>4 DEF RowsInv
  <2>2. SkippedOf(e)' = SkippedOf(e) \cup {k} /\ \A f \in Ids \ {e} : SkippedOf(f)' = SkippedOf(f)
    <3>1. \A f : SkippedOf(f)' = SkippedOf(f)
                    \cup {x[2] : x \in {y \in {<<e, k, "cancelled">>} : y[1] = f}}
      BY <1>1 DEF SkippedOf
    <3>2. <<e, k, "cancelled">>[1] = e /\ <<e, k, "cancelled">>[2] = k OBVIOUS
    <3>3. {y \in {<<e, k, "cancelled">>} : y[1] = e} = {<<e, k, "cancelled">>} OBVIOUS
    <3>4. \A f \in Ids \ {e} : {y \in {<<e, k, "cancelled">>} : y[1] = f} = {} OBVIOUS
    <3> QED BY <3>1, <3>2, <3>3, <3>4
  <2>3. Shown(e)' = Shown(e) \ {k} /\ \A f \in Ids \ {e} : Shown(f)' = Shown(f)
    BY <1>1, <2>2 DEF Shown
  <2>4. Rows' = Rows /\ Rows \subseteq Ids BY <1>1 DEF Rows
  <2>5. k \in Shown(e) BY <1>0 DEF Shown
  <2> HIDE DEF Shown
  <2>6. \A f \in Rows \ {e} : k \notin Shown(f) BY <1>1, <1>4, <2>1, <2>5 DEF SplitsLoseNothing
  <2>7. UNION {Shown(f)' : f \in Rows'} = due'
    <3>1. UNION {Shown(f) : f \in Rows} = due BY <2>1 DEF SplitsLoseNothing
    <3> QED BY <1>1, <2>3, <2>4, <2>6, <3>1
  <2>8. \A f, g \in Rows : f # g => Shown(f) \cap Shown(g) = {}
    BY <1>1, <1>4, <2>1 DEF SplitsLoseNothing
  <2>9. \A f \in Rows : Shown(f)' \subseteq Shown(f) BY <2>3, <2>4
  <2> QED BY <2>4, <2>7, <2>8, <2>9 DEF SplitsLoseNothing
<1> QED BY <1>1, <1>3, <1>4 DEF RowsInv

LEMMA NewRowHasNoSkips ==
    ASSUME RowsInv, NEW n \in Ids \ Rows
    PROVE  rows[n] = Null /\ \A x \in skipped : x[1] # n
BY DEF RowsInv, SkipsOK, Rows

LEMMA DetachKeepsRows ==
    ASSUME RowsInv, NEW e \in Rows, NEW k \in Clickable(e), NEW n \in Ids \ Rows, Detach(e, k, n)
    PROVE  RowsInv'
<1>0. /\ e \in Ids /\ rows[e] \in Series /\ rows[e].rule # Null
      /\ k \in Int /\ k \in SeriesReadings(rows[e]) /\ k \notin SkippedOf(e)
  BY ClickedIs DEF Detach
<1> DEFINE single == [rows[e] EXCEPT !.dtstart = k, !.rule = Null]
<1>1. /\ rows' = [rows EXCEPT ![n] = single]
      /\ skipped' = skipped \cup {<<e, k, "moved">>}
      /\ UNCHANGED <<due, retimed>>
  BY DEF Detach
<1>2. single \in Series /\ single # Null /\ single.dtstart = k /\ single.rule = Null
  BY <1>0, PagesAssumption DEF Series
<1> HIDE DEF single
<1>3. rows[n] = Null /\ n # e /\ \A x \in skipped : x[1] # n
  BY NewRowHasNoSkips DEF Rows
<1>4. /\ rows' \in [Ids -> Series \cup {Null}]
      /\ rows'[n] = single /\ \A f \in Ids \ {n} : rows'[f] = rows[f]
  BY <1>1, <1>2 DEF RowsInv
<1>5. \A x \in skipped : x[1] = e => x[2] # k
  BY <1>0 DEF SkippedOf
<1>6. SkipsOK'
  <2>1. skipped' \subseteq Ids \X Int \X {"cancelled", "moved"} BY <1>0, <1>1 DEF RowsInv, SkipsOK
  <2>2. \A x \in skipped' : x[1] \in Ids \ {n} /\ rows[x[1]] # Null /\ rows[x[1]].rule # Null
    BY <1>0, <1>1, <1>3 DEF RowsInv, SkipsOK, Rows
  <2>3. \A x, y \in skipped' : x[1] = y[1] /\ x[2] = y[2] => x[3] = y[3]
    BY <1>1, <1>5 DEF RowsInv, SkipsOK
  <2> QED BY <1>4, <2>1, <2>2, <2>3 DEF SkipsOK
<1>7. ASSUME ~retimed' PROVE SplitsLoseNothing'
  <2>1. SplitsLoseNothing BY <1>1, <1>7 DEF RowsInv
  <2>2. SkippedOf(e)' = SkippedOf(e) \cup {k} /\ \A f \in Ids \ {e} : SkippedOf(f)' = SkippedOf(f)
    <3>1. \A f : SkippedOf(f)' = SkippedOf(f)
                    \cup {x[2] : x \in {y \in {<<e, k, "moved">>} : y[1] = f}}
      BY <1>1 DEF SkippedOf
    <3>2. <<e, k, "moved">>[1] = e /\ <<e, k, "moved">>[2] = k OBVIOUS
    <3>3. {y \in {<<e, k, "moved">>} : y[1] = e} = {<<e, k, "moved">>} OBVIOUS
    <3>4. \A f \in Ids \ {e} : {y \in {<<e, k, "moved">>} : y[1] = f} = {} OBVIOUS
    <3> QED BY <3>1, <3>2, <3>3, <3>4
  <2>3. SkippedOf(n) = {} BY <1>3 DEF SkippedOf
  <2>4. /\ Shown(e)' = Shown(e) \ {k}
        /\ \A f \in Ids \ {e, n} : Shown(f)' = Shown(f)
    BY <1>0, <1>3, <1>4, <2>2 DEF Shown
  <2>5. Shown(n)' = {k} BY <1>2, <1>3, <1>4, <2>2, <2>3 DEF Shown, SeriesReadings
  <2>6. Rows' = Rows \cup {n} /\ Rows \subseteq Ids BY <1>2, <1>4 DEF Rows
  <2>7. k \in Shown(e) BY <1>0 DEF Shown
  <2> HIDE DEF Shown
  <2>8. \A f, g \in Rows : f # g => Shown(f) \cap Shown(g) = {}
    BY <1>1, <1>7, <2>1 DEF SplitsLoseNothing
  <2>9. UNION {Shown(f)' : f \in Rows'} = due'
    <3>1. UNION {Shown(f) : f \in Rows} = due BY <2>1 DEF SplitsLoseNothing
    <3>2. ASSUME NEW r
          PROVE  (\E f \in Rows' : r \in Shown(f)') <=> (\E f \in Rows : r \in Shown(f))
      BY <1>3, <2>4, <2>5, <2>6, <2>7
    <3> QED BY <1>1, <3>1, <3>2
  <2>10. \A f \in Rows : Shown(f)' \subseteq Shown(f) /\ k \notin Shown(f)'
    <3>1. \A f \in Rows \ {e} : k \notin Shown(f) BY <2>7, <2>8
    <3> QED BY <1>3, <2>4, <2>6, <3>1
  <2>11. \A f, g \in Rows' : f # g => Shown(f)' \cap Shown(g)' = {}
    BY <2>5, <2>6, <2>8, <2>10
  <2> QED BY <2>9, <2>11 DEF SplitsLoseNothing
<1> QED BY <1>1, <1>4, <1>6, <1>7 DEF RowsInv

LEMMA SplitKeepsRows ==
    ASSUME RowsInv, NEW e \in Rows, NEW k \in Clickable(e), NEW n \in Ids \ Rows,
           NEW at \in Int, Split(e, k, n, at)
    PROVE  /\ RowsInv'
           /\ rows'[e].rule # Null /\ rows'[n].rule # Null
           /\ \A f \in Ids \ {e, n} : rows'[f] = rows[f]
           /\ \A x \in skipped : \E y \in skipped' : y[2] = x[2] /\ y[3] = x[3]
<1>0. /\ e \in Ids /\ rows[e] \in Series /\ rows[e].rule # Null
      /\ k \in Int /\ k \in SeriesReadings(rows[e]) /\ k \notin SkippedOf(e)
      /\ rows[e].rule \in Rule /\ k \in Readings(rows[e].rule, rows[e].dtstart)
      /\ rows[e].dtstart \in Int
  BY ClickedIs, SeriesParts DEF Split
<1> DEFINE series == [rows[e] EXCEPT !.zone = display]
           rest == RewriteSuccessorCount(series.rule, CountOccurrencesBefore(series, k)).rule
           past == [rows[e] EXCEPT !.rule = TruncateRrule(rows[e].rule, JustBefore(k))]
           future == [rows[e] EXCEPT !.dtstart = at, !.rule = rest]
           carried == {x \in skipped : x[1] = e /\ x[2] >= k}
<1>1. series.rule = rows[e].rule /\ series.dtstart = rows[e].dtstart
  BY <1>0 DEF Series
<1>2. /\ Plan(e, k, "this-and-future", at).truncated = TruncateRrule(rows[e].rule, JustBefore(k))
      /\ Plan(e, k, "this-and-future", at).newRule = rest
  BY <1>1 DEF Plan, PlanSplit, PlanSeriesEdit
<1>3. rest \in Rule /\ Readings(rest, k) = {r \in SeriesReadings(rows[e]) : r >= k}
  <2>1. PICK asked : asked = series OBVIOUS
  <2>2. asked.rule \in Rule /\ asked.dtstart \in Int /\ k \in Readings(asked.rule, asked.dtstart)
    BY <1>0, <1>1, <2>1
  <2>3. LET left == RewriteSuccessorCount(asked.rule, CountOccurrencesBefore(asked, k)) IN
        /\ left.rule \in Rule
        /\ Readings(left.rule, k) = {r \in Readings(asked.rule, asked.dtstart) : r >= k}
    BY ONLY <2>2, SuccessorIsFuture
  <2>4. SeriesReadings(rows[e]) = Readings(rows[e].rule, rows[e].dtstart)
    BY <1>0 DEF SeriesReadings
  <2> HIDE DEF series
  <2> QED BY <1>1, <2>1, <2>3, <2>4
<1>4. /\ past \in Series /\ past # Null /\ past.rule # Null
      /\ SeriesReadings(past) = {r \in SeriesReadings(rows[e]) : r < k}
  <2>1. PICK cut \in Rule : cut = TruncateRrule(rows[e].rule, JustBefore(k))
    BY <1>0, TruncatedIsRule DEF JustBefore
  <2>2. Readings(cut, rows[e].dtstart) = {r \in SeriesReadings(rows[e]) : r < k}
    BY <1>0, <2>1, TruncatedIsPast DEF SeriesReadings
  <2>3. past \in Series /\ past.rule = cut /\ past.dtstart = rows[e].dtstart
    BY <1>0, <2>1 DEF Series
  <2> QED BY <2>2, <2>3, NullAssumption, PagesAssumption DEF SeriesReadings
<1>5. /\ future \in Series /\ future # Null /\ future.rule # Null
      /\ at = k => SeriesReadings(future) = {r \in SeriesReadings(rows[e]) : r >= k}
  <2> HIDE DEF rest
  <2>1. future \in Series /\ future.rule = rest /\ future.dtstart = at
    BY <1>0, <1>3 DEF Series
  <2> QED BY <1>3, <2>1, NullAssumption, PagesAssumption DEF SeriesReadings
<1>6. rows[n] = Null /\ n # e /\ \A x \in skipped : x[1] # n
  BY NewRowHasNoSkips DEF Rows
<1>7. /\ rows' \in [Ids -> Series \cup {Null}]
      /\ rows'[e] = past /\ rows'[n] = future
      /\ \A f \in Ids \ {e, n} : rows'[f] = rows[f]
  <2>1. rows' = [rows EXCEPT ![e].rule = TruncateRrule(rows[e].rule, JustBefore(k)),
                             ![n] = future]
    BY <1>2 DEF Split
  <2>2. rows' = [rows EXCEPT ![e] = past, ![n] = future] BY <2>1
  <2> HIDE DEF past, future
  <2> QED BY <1>0, <1>4, <1>5, <1>6, <2>2 DEF RowsInv
<1>8. /\ skipped' = (skipped \ carried) \cup {<<n, x[2], x[3]>> : x \in carried}
      /\ retimed' = (retimed \/ at # k)
      /\ at = k => due' = due
  BY DEF Split
<1> HIDE DEF series, rest, past, future
\* An exception is of a row that is left, or carried over to the successor.
<1>9. ASSUME NEW x \in skipped'
      PROVE  \/ x \in skipped /\ x[1] # n /\ ~(x[1] = e /\ x[2] >= k)
             \/ x[1] = n /\ \E y \in skipped : y[1] = e /\ y[2] >= k /\ x[2] = y[2] /\ x[3] = y[3]
  BY <1>6, <1>8
<1>10. SkipsOK'
  <2>0. /\ skipped \subseteq Ids \X Int \X {"cancelled", "moved"}
        /\ \A x \in skipped : rows[x[1]] # Null /\ rows[x[1]].rule # Null /\ x[1] \in Ids
        /\ \A x, y \in skipped : x[1] = y[1] /\ x[2] = y[2] => x[3] = y[3]
    BY DEF RowsInv, SkipsOK
  <2>1. skipped' \subseteq Ids \X Int \X {"cancelled", "moved"} BY <1>8, <2>0
  <2>2. \A x \in skipped' : rows'[x[1]] # Null /\ rows'[x[1]].rule # Null
    BY <1>4, <1>5, <1>7, <1>9, <2>0
  <2>3. \A x, y \in skipped' : x[1] = y[1] /\ x[2] = y[2] => x[3] = y[3]
    BY <1>6, <1>9, <2>0
  <2> QED BY <2>1, <2>2, <2>3 DEF SkipsOK
<1>11. ASSUME ~retimed' PROVE SplitsLoseNothing'
  <2>1. SplitsLoseNothing /\ at = k /\ ~retimed /\ due' = due BY <1>8, <1>11 DEF RowsInv
  <2>2. /\ SkippedOf(e)' = {r \in SkippedOf(e) : ~(r >= k)}
        /\ SkippedOf(n)' = {r \in SkippedOf(e) : r >= k}
        /\ \A f \in Ids \ {e, n} : SkippedOf(f)' = SkippedOf(f)
    <3>1. ASSUME NEW f, NEW r
          PROVE  r \in SkippedOf(f)' <=> \E x \in skipped' : x[1] = f /\ x[2] = r
      BY DEF SkippedOf
    <3>2. ASSUME NEW f, NEW r
          PROVE  r \in SkippedOf(f) <=> \E x \in skipped : x[1] = f /\ x[2] = r
      BY DEF SkippedOf
    <3>3. \A x \in skipped : ~(x[1] = e /\ x[2] >= k) => x \in skipped' BY <1>8
    <3>4. ASSUME NEW x \in skipped, x[1] = e, x[2] >= k
          PROVE  \E y \in skipped' : y[1] = n /\ y[2] = x[2]
      <4>1. <<n, x[2], x[3]>> \in skipped' BY <1>8, <3>4
      <4> QED BY <4>1
    <3>5. ASSUME NEW r PROVE r \in SkippedOf(e)' <=> r \in SkippedOf(e) /\ ~(r >= k)
      BY <1>6, <1>9, <3>1, <3>2, <3>3
    <3>6. ASSUME NEW r PROVE r \in SkippedOf(n)' <=> r \in SkippedOf(e) /\ r >= k
      BY <1>6, <1>9, <3>1, <3>2, <3>4
    <3>7. ASSUME NEW f \in Ids \ {e, n}, NEW r PROVE r \in SkippedOf(f)' <=> r \in SkippedOf(f)
      BY <1>6, <1>9, <3>1, <3>2, <3>3
    <3> QED BY <3>5, <3>6, <3>7
  <2>3. \A r \in SeriesReadings(rows[e]) : r \in Int BY <1>0, SeriesParts
  <2>4. /\ Shown(e)' = {r \in Shown(e) : r < k}
        /\ Shown(n)' = {r \in Shown(e) : r >= k}
        /\ \A f \in Ids \ {e, n} : Shown(f)' = Shown(f)
    <3>1. SeriesReadings(rows'[e]) = {r \in SeriesReadings(rows[e]) : r < k}
      BY <1>4, <1>7
    <3>2. SeriesReadings(rows'[n]) = {r \in SeriesReadings(rows[e]) : r >= k}
      BY <1>5, <1>7, <2>1
    <3>3. Shown(e)' = SeriesReadings(rows'[e]) \ SkippedOf(e)' BY DEF Shown
    <3>4. Shown(n)' = SeriesReadings(rows'[n]) \ SkippedOf(n)' BY DEF Shown
    <3>5. ASSUME NEW f \in Ids \ {e, n} PROVE Shown(f)' = Shown(f)
      BY <1>7, <2>2 DEF Shown
    <3>6. Shown(e) = SeriesReadings(rows[e]) \ SkippedOf(e) BY DEF Shown
    <3>7. Shown(e)' = {r \in Shown(e) : r < k}
      <4>1. \A r \in SeriesReadings(rows[e]) : r < k <=> ~(r >= k) BY <1>0, <2>3
      <4>2. ASSUME NEW r PROVE r \in Shown(e)' <=> r \in Shown(e) /\ r < k
        BY <2>2, <3>1, <3>3, <3>6, <4>1
      <4> QED BY <4>2
    <3>8. Shown(n)' = {r \in Shown(e) : r >= k}
      BY <1>0, <2>2, <2>3, <3>2, <3>4, <3>6
    <3> QED BY <3>5, <3>7, <3>8
  <2>5. \A r \in Shown(e) : r \in Int BY <2>3 DEF Shown
  <2>6. Rows' = Rows \cup {n} /\ Rows \subseteq Ids BY <1>0, <1>4, <1>5, <1>7 DEF Rows
  <2> HIDE DEF Shown
  <2>7. \A f, g \in Rows : f # g => Shown(f) \cap Shown(g) = {}
    BY <2>1 DEF SplitsLoseNothing
  <2>8. UNION {Shown(f)' : f \in Rows'} = due'
    <3>1. UNION {Shown(f) : f \in Rows} = due BY <2>1 DEF SplitsLoseNothing
    <3>2. ASSUME NEW r
          PROVE  (\E f \in Rows' : r \in Shown(f)') <=> (\E f \in Rows : r \in Shown(f))
      <4>1. r \in Shown(e) => r < k \/ r >= k BY <1>0, <2>5
      <4> QED BY <1>6, <2>4, <2>6, <4>1
    <3> QED BY <2>1, <3>1, <3>2
  <2>9. \A f \in Rows : Shown(f)' \subseteq Shown(f) BY <1>6, <2>4, <2>6
  <2>10. Shown(n)' \subseteq Shown(e) /\ Shown(n)' \cap Shown(e)' = {} BY <1>0, <2>4, <2>5
  <2>11. \A f, g \in Rows' : f # g => Shown(f)' \cap Shown(g)' = {}
    BY <2>6, <2>7, <2>9, <2>10
  <2> QED BY <2>8, <2>11 DEF SplitsLoseNothing
<1>12. ASSUME NEW x \in skipped
       PROVE  \E y \in skipped' : y[2] = x[2] /\ y[3] = x[3]
  <2>1. CASE x \notin carried BY <1>8, <2>1
  <2>2. CASE x \in carried
    <3>1. <<n, x[2], x[3]>> \in skipped' BY <1>8, <2>2
    <3> QED BY <3>1
  <2> QED BY <2>1, <2>2
<1> QED BY <1>4, <1>5, <1>7, <1>8, <1>10, <1>11, <1>12 DEF RowsInv

\* Where a split can put the successor.
LEMMA SplitTimes ==
    ASSUME RowsInv, NEW e \in Rows, NEW k \in Clickable(e), NEW at,
           at = k \/ \E hour \in Retimes : at = Midnight(DayOf(k)) + hour
    PROVE  at \in Int
<1>1. k \in Int /\ \A hour \in Retimes : hour \in Int BY ClickedIs, PagesAssumption
<1>2. \A hour \in Retimes : Midnight(DayOf(k)) + hour \in Int
  BY <1>1 DEF Midnight, DayOf, Hours
<1> QED BY <1>1, <1>2

LEMMA PagesStepKeepsRows ==
    ASSUME RowsInv, PagesNext
    PROVE  RowsInv'
<1>1. ASSUME NEW e \in Ids, NEW template \in Templates, Compose(e, template) PROVE RowsInv'
  BY <1>1, ComposeKeepsRows
<1>2. ASSUME NEW e \in Rows, NEW k \in Clickable(e), CancelShown(e, k) PROVE RowsInv'
  BY <1>2, CancelKeepsRows
<1>3. ASSUME NEW e \in Rows, NEW k \in Clickable(e), NEW n \in Ids \ Rows, Detach(e, k, n)
      PROVE  RowsInv'
  BY <1>3, DetachKeepsRows
<1>4. ASSUME NEW e \in Rows, NEW k \in Clickable(e), NEW n \in Ids \ Rows, NEW at,
             at = k \/ \E hour \in Retimes : at = Midnight(DayOf(k)) + hour,
             Split(e, k, n, at)
      PROVE  RowsInv'
  <2>1. at \in Int BY <1>4, SplitTimes
  <2> QED BY <1>4, <2>1, SplitKeepsRows
<1> QED BY <1>1, <1>2, <1>3, <1>4 DEF PagesNext

LEMMA RowsStart ==
    ASSUME PagesInit
    PROVE  RowsInv
<1>1. rows = [e \in Ids |-> Null] /\ skipped = {} /\ due = {} BY DEF PagesInit
<1>2. Rows = {} BY <1>1 DEF Rows
<1>3. SplitsLoseNothing BY <1>1, <1>2 DEF SplitsLoseNothing
<1> QED BY <1>1, <1>3 DEF RowsInv, SkipsOK

LEMMA RowsUnchanged ==
    ASSUME RowsInv, UNCHANGED pageVars
    PROVE  RowsInv'
<1>1. UNCHANGED <<rows, skipped, due, retimed>> BY DEF pageVars
<1>2. Rows' = Rows /\ \A e : Shown(e)' = Shown(e) BY <1>1 DEF Rows, Shown, SkippedOf
<1>3. SplitsLoseNothing => SplitsLoseNothing' BY <1>1, <1>2 DEF SplitsLoseNothing
<1> QED BY <1>1, <1>3 DEF RowsInv, SkipsOK

\* The rows are series, exceptions are of series that repeat, and the pieces of a
\* series show what the series showed.
LEMMA RowsAlways == SeriesSpec => []RowsInv
<1>1. SeriesInit => RowsInv BY RowsStart DEF SeriesInit
<1>2. RowsInv /\ [SeriesNext]_seriesVars => RowsInv'
  <2> SUFFICES ASSUME RowsInv, [SeriesNext]_seriesVars PROVE RowsInv'
    OBVIOUS
  <2>1. CASE PagesNext BY <2>1, PagesStepKeepsRows
  <2>2. CASE UNCHANGED pageVars BY <2>2, RowsUnchanged
  <2> QED BY <2>1, <2>2 DEF SeriesNext, seriesVars
<1> QED BY <1>1, <1>2, PTL DEF SeriesSpec

\* Whatever is cut, detached or cancelled on the pages, of whatever rule and in
\* whatever zone: until a split moves occurrences to another hour, the rows show
\* what ought to be there and no two of them the same.  A plan of edit-event.tsx
\* is right beyond the window verifySplit looks at.
THEOREM OccurrencesNeverLost == SeriesSpec => [](~retimed => SplitsLoseNothing)
<1>1. RowsInv => (~retimed => SplitsLoseNothing) BY DEF RowsInv
<1> QED BY <1>1, RowsAlways, PTL

-----------------------------------------------------------------------------
(* Pages                                                                   *)

\* A reading the clock skips is stored as the instant before the gap that the
\* sheet resolves it to; any other, as the instant it occurs at.
LEMMA EarlierIs ==
    ASSUME NEW zone \in Zones, NEW r \in Int
    PROVE  LET a == r - zone.before
               b == r - zone.after IN
           Earlier(zone, r) =
             IF a >= zone.at /\ b < zone.at THEN b ELSE OccurrenceInstant(zone, r)
<1> DEFINE a == r - zone.before
           b == r - zone.after
<1>0. a \in Int /\ b \in Int /\ zone.before \in Int /\ zone.after \in Int /\ zone.at \in Int
      /\ r = a + zone.before /\ r = b + zone.after
  BY DEF Zones
<1>1. CASE ~(a >= zone.at /\ b < zone.at)
  <2>1. ResolveLocal(zone, r).dst # "nonexistent-shifted" BY <1>1, InstantIs
  <2> QED BY <1>1, <2>1 DEF ResolveLocal, OccurrenceInstant
<1>2. CASE a >= zone.at /\ b < zone.at
  <2>1. WallAt(zone, a) # r /\ WallAt(zone, b) # r BY <1>0, <1>2 DEF WallAt, Offset
  <2>2. Candidates(zone, r) = {a, b} BY <2>1 DEF Candidates
  <2> HIDE DEF a, b
  <2>3. Earlier(zone, r) = b BY <1>0, <1>2, <2>2, OfTwo DEF Earlier
  <2> QED BY <1>2, <2>3 DEF a, b
<1> QED BY <1>1, <1>2

\* A clock that a page may be drawn in.
Plain(zone) ==
    /\ zone \in Zones
    /\ zone.after - zone.before \in -1..1
    /\ zone.before < zone.after => HourOf(zone.at + zone.before) # 0

\* The start of a day is where the clock shows its midnight, and it separates the
\* instants of the days before from those of the days after.
LEMMA MidnightsCut ==
    ASSUME NEW zone, Plain(zone), NEW day \in Int
    PROVE  /\ StartOfDay(zone, day) \in Int
           /\ WallAt(zone, StartOfDay(zone, day)) = Midnight(day)
           /\ \A i \in Int : StartOfDay(zone, day) <= i <=> day <= DayOf(WallAt(zone, i))
<1> DEFINE r == 24 * day
           a == r - zone.before
           b == r - zone.after
<1>0. zone.before \in Int /\ zone.after \in Int /\ zone.at \in Int BY DEF Plain, Zones
<1>1. Midnight(day) = r /\ r \in Int BY DEF Midnight, Hours
<1>2. StartOfDay(zone, day) = IF a < zone.at THEN a ELSE IF b >= zone.at THEN b ELSE a
  BY <1>1, InstantIs DEF StartOfDay, Plain
<1>3. zone.after - zone.before \in {-1, 0, 1} BY <1>0 DEF Plain
<1>4. zone.before < zone.after => (zone.at + zone.before) % 24 # 0 BY DEF Plain, HourOf, Hours
<1>5. ~(a >= zone.at /\ b < zone.at)
  <2> SUFFICES ASSUME a >= zone.at, b < zone.at PROVE FALSE OBVIOUS
  <2>1. zone.after = zone.before + 1 /\ zone.at + zone.before = 24 * day BY <1>0, <1>3
  <2> QED BY <1>0, <1>4, <2>1
<1>6. WallAt(zone, StartOfDay(zone, day)) = r BY <1>0, <1>2, <1>3, <1>5 DEF WallAt, Offset
<1>7. ASSUME NEW i \in Int
      PROVE  StartOfDay(zone, day) <= i <=> day <= DayOf(WallAt(zone, i))
  <2>1. WallAt(zone, i) \in Int BY <1>0 DEF WallAt, Offset
  <2>2. day <= DayOf(WallAt(zone, i)) <=> r <= WallAt(zone, i)
    BY <2>1 DEF DayOf, Hours
  <2>3. StartOfDay(zone, day) <= i <=> r <= WallAt(zone, i)
    BY <1>0, <1>2, <1>3, <1>5 DEF WallAt, Offset
  <2> QED BY <2>2, <2>3
<1> QED BY <1>0, <1>1, <1>2, <1>6, <1>7

\* Every range runs from the midnight of its first day to that of the day after its
\* last.
LEMMA RangesAre ==
    ASSUME Plain(display), weekStart \in Int, NEW view \in Views, NEW day \in Int
    PROVE  \E lo, hi \in Int :
             /\ PageRange(view, day) = [from |-> StartOfDay(display, lo),
                                        to |-> StartOfDay(display, hi + 1)]
             /\ DaysOf(view, day) = lo..hi
             /\ hi = lo + (IF view = "day" THEN 0 ELSE IF view = "week" THEN 6 ELSE 41)
<1> DEFINE back == (WeekdayOf(day) - weekStart) % 7
<1>0. back \in Int /\ day - back \in Int BY DEF WeekdayOf
<1> HIDE DEF back
<1>1. \A d, n \in Int : PlusDays(display, StartOfDay(display, d), n) = StartOfDay(display, d + n)
  <2> SUFFICES ASSUME NEW d \in Int, NEW n \in Int
               PROVE  PlusDays(display, StartOfDay(display, d), n) = StartOfDay(display, d + n)
    OBVIOUS
  <2>1. WallAt(display, StartOfDay(display, d)) = Midnight(d) BY MidnightsCut
  <2>2. Midnight(d) + n * Hours = Midnight(d + n) BY DEF Midnight, Hours
  <2> QED BY <2>1, <2>2 DEF PlusDays, StartOfDay
<1>2. CASE view = "day"
  <2>1. PageRange(view, day) = [from |-> StartOfDay(display, day),
                                to |-> StartOfDay(display, day + 1)]
    BY <1>1, <1>2 DEF PageRange, DayRange
  <2>2. DaysOf(view, day) = day..day BY <1>2 DEF DaysOf
  <2>3. day \in Int /\ day = day + 0 OBVIOUS
  <2>4. \E hi \in Int :
          /\ PageRange(view, day) = [from |-> StartOfDay(display, day),
                                     to |-> StartOfDay(display, hi + 1)]
          /\ DaysOf(view, day) = day..hi
          /\ hi = day + 0
    BY <2>1, <2>2, <2>3
  <2> QED BY <1>2, <2>3, <2>4
<1>3. CASE view = "week"
  <2>1. PlusDays(display, StartOfDay(display, day), -back) = StartOfDay(display, day - back)
    <3>1. -back \in Int /\ day + (-back) = day - back BY <1>0
    <3> QED BY <1>1, <3>1
  <2>2. PlusDays(display, StartOfDay(display, day - back), 7)
          = StartOfDay(display, (day - back + 6) + 1)
    <3>1. (day - back + 6) + 1 = (day - back) + 7 BY <1>0
    <3> QED BY <1>0, <1>1, <3>1
  <2>3. PageRange(view, day) = [from |-> StartOfDay(display, day - back),
                                to |-> StartOfDay(display, (day - back + 6) + 1)]
    BY <1>3, <2>1, <2>2 DEF PageRange, WeekRange, back
  <2>4. DaysOf(view, day) = (day - back)..(day - back + 6) BY <1>3 DEF DaysOf, back
  <2>5. day - back + 6 \in Int BY <1>0
  <2> QED BY <1>0, <1>3, <2>3, <2>4, <2>5
<1>4. CASE view = "month"
  <2>2. PlusDays(display, StartOfDay(display, day - back), 42)
          = StartOfDay(display, (day - back + 41) + 1)
    <3>1. (day - back + 41) + 1 = (day - back) + 42 BY <1>0
    <3> QED BY <1>0, <1>1, <3>1
  <2>3. PageRange(view, day) = [from |-> StartOfDay(display, day - back),
                                to |-> StartOfDay(display, (day - back + 41) + 1)]
    BY <1>4, <2>2 DEF PageRange, MonthGridRange, back
  <2>4. DaysOf(view, day) = (day - back)..(day - back + 41) BY <1>4 DEF DaysOf, back
  <2>5. day - back + 41 \in Int BY <1>0
  <2> QED BY <1>0, <1>4, <2>3, <2>4, <2>5
<1> QED BY <1>2, <1>3, <1>4 DEF Views

\* Cutting a series changes neither its zone nor its duration.
FromTemplates ==
    \A e \in Rows : \E t \in Templates :
        rows[e].zone = t.zone /\ rows[e].duration = t.duration

\* The instant a single event is asked for by is the one its reading has on its
\* own clock, or, once it was detached, on that of the page.
StoredWell(e) ==
    rows[e].rule = Null =>
        \/ starts[e] = Earlier(rows[e].zone, rows[e].dtstart)
        \/ /\ starts[e] = OccurrenceInstant(display, rows[e].dtstart)
           /\ \E x \in skipped : x[2] = rows[e].dtstart /\ x[3] = "moved"

SinglesStored ==
    /\ starts = [e \in Ids |-> starts[e]]
    /\ \A e \in Rows : StoredWell(e)

PagesInv ==
    /\ RowsInv
    /\ FromTemplates
    /\ SinglesStored
    /\ display \in Displays /\ weekStart \in Int

LEMMA PagesStart ==
    ASSUME PagesInit
    PROVE  PagesInv
<1>1. RowsInv BY RowsStart
<1>2. Rows = {} BY DEF PagesInit, Rows
<1>3. SinglesStored BY <1>2 DEF PagesInit, SinglesStored
<1> QED BY <1>1, <1>2, <1>3 DEF PagesInv, FromTemplates, PagesInit

\* A single event that is left alone, and of which no exception is forgotten.
LEMMA StaysStored ==
    ASSUME NEW e \in Rows, StoredWell(e), rows'[e] = rows[e], starts'[e] = starts[e],
           display' = display,
           \A x \in skipped : \E y \in skipped' : y[2] = x[2] /\ y[3] = x[3]
    PROVE  StoredWell(e)'
BY DEF StoredWell

LEMMA StaysSinglesStored ==
    ASSUME PagesInv, PagesNext, display' = display
    PROVE  SinglesStored'
<1>0. /\ RowsInv /\ rows = [f \in Ids |-> rows[f]]
      /\ starts = [f \in Ids |-> starts[f]] /\ \A f \in Rows : StoredWell(f)
      /\ Rows \subseteq Ids
  BY DEF PagesInv, RowsInv, SinglesStored, Rows
<1>1. ASSUME NEW e \in Ids, NEW t \in Templates, Compose(e, t)
      PROVE  SinglesStored'
  <2>1. /\ rows' = [rows EXCEPT ![e] = t] /\ Rows = {}
        /\ starts' = [starts EXCEPT ![e] = Earlier(t.zone, t.dtstart)]
    BY <1>1 DEF Compose
  <2>2. Rows' \subseteq {e} BY <2>1 DEF Rows
  <2>3. rows'[e] = t /\ starts'[e] = Earlier(t.zone, t.dtstart) BY <1>0, <2>1
  <2>4. starts' = [f \in Ids |-> starts'[f]] BY <1>0, <2>1
  <2>5. StoredWell(e)' BY <2>3 DEF StoredWell
  <2> QED BY <2>2, <2>4, <2>5 DEF SinglesStored
<1>2. ASSUME NEW e \in Rows, NEW k \in Clickable(e), CancelShown(e, k)
      PROVE  SinglesStored'
  <2>1. UNCHANGED <<rows, starts>> /\ skipped \subseteq skipped' BY <1>2 DEF CancelShown
  <2>2. Rows' = Rows BY <2>1 DEF Rows
  <2>3. \A f \in Rows : StoredWell(f)' BY <1>0, <2>1, StaysStored
  <2> QED BY <1>0, <2>1, <2>2, <2>3 DEF SinglesStored
<1>3. ASSUME NEW e \in Rows, NEW k \in Clickable(e), NEW n \in Ids \ Rows, Detach(e, k, n)
      PROVE  SinglesStored'
  <2>1. /\ rows' = [rows EXCEPT ![n] = [rows[e] EXCEPT !.dtstart = k, !.rule = Null]]
        /\ starts' = [starts EXCEPT ![n] = OccurrenceInstant(display, k)]
        /\ skipped' = skipped \cup {<<e, k, "moved">>}
    BY <1>3 DEF Detach, NewStart
  <2>2. e \in Ids /\ n \in Ids /\ rows[e] \in Series BY <1>0 DEF RowsInv, Rows
  <2>3. /\ rows'[n].dtstart = k /\ starts'[n] = OccurrenceInstant(display, k)
        /\ \A f \in Ids \ {n} : rows'[f] = rows[f] /\ starts'[f] = starts[f]
    BY <1>0, <2>1, <2>2 DEF Series
  <2>4. StoredWell(n)'
    <3>1. <<e, k, "moved">> \in skipped' BY <2>1
    <3>2. \E x \in skipped' : x[2] = k /\ x[3] = "moved" BY <3>1
    <3> QED BY <2>3, <3>2 DEF StoredWell
  <2>5. skipped \subseteq skipped' BY <2>1
  <2>6. \A f \in Rows \ {n} : StoredWell(f)' BY <1>0, <2>3, <2>5, StaysStored
  <2>7. Rows' \subseteq Rows \cup {n} BY <2>3 DEF Rows
  <2>8. starts' = [f \in Ids |-> starts'[f]] BY <1>0, <2>1
  <2> QED BY <2>4, <2>6, <2>7, <2>8 DEF SinglesStored
<1>4. ASSUME NEW e \in Rows, NEW k \in Clickable(e), NEW n \in Ids \ Rows, NEW at,
             at = k \/ \E hour \in Retimes : at = Midnight(DayOf(k)) + hour,
             Split(e, k, n, at)
      PROVE  SinglesStored'
  <2>1. at \in Int BY <1>0, <1>4, SplitTimes
  <2>2. /\ rows'[e].rule # Null /\ rows'[n].rule # Null
        /\ \A f \in Ids \ {e, n} : rows'[f] = rows[f]
        /\ \A x \in skipped : \E y \in skipped' : y[2] = x[2] /\ y[3] = x[3]
    BY <1>0, <1>4, <2>1, SplitKeepsRows
  <2>3. starts' = [starts EXCEPT ![n] = NewStart(k, at)] BY <1>4 DEF Split
  <2>4. \A f \in Ids \ {n} : starts'[f] = starts[f] BY <1>0, <2>3
  <2>5. StoredWell(e)' /\ StoredWell(n)' BY <2>2 DEF StoredWell
  <2>6. \A f \in Rows \ {e, n} : StoredWell(f)' BY <1>0, <2>2, <2>4, StaysStored
  <2>7. Rows' \subseteq Rows \cup {e, n} BY <2>2 DEF Rows
  <2>8. starts' = [f \in Ids |-> starts'[f]] BY <1>0, <2>3
  <2> QED BY <2>5, <2>6, <2>7, <2>8 DEF SinglesStored
<1> QED BY <1>1, <1>2, <1>3, <1>4 DEF PagesNext

LEMMA PagesStep ==
    ASSUME PagesInv, PagesNext
    PROVE  PagesInv'
<1>0. RowsInv /\ RowsInv' BY PagesStepKeepsRows DEF PagesInv
<1>1. UNCHANGED <<display, weekStart>>
  <2>1. \A e, t : Compose(e, t) => UNCHANGED <<display, weekStart>> BY DEF Compose
  <2>2. \A e, k : CancelShown(e, k) => UNCHANGED <<display, weekStart>> BY DEF CancelShown
  <2>3. \A e, k, n : Detach(e, k, n) => UNCHANGED <<display, weekStart>>
    BY DEF Detach
  <2>4. \A e, k, n, at : Split(e, k, n, at) => UNCHANGED <<display, weekStart>>
    BY DEF Split
  <2> QED BY <2>1, <2>2, <2>3, <2>4 DEF PagesNext
<1>2. ASSUME NEW e \in Ids, NEW t \in Templates, Compose(e, t)
      PROVE  FromTemplates'
  <2>1. rows' = [rows EXCEPT ![e] = t] /\ Rows = {} BY <1>2 DEF Compose
  <2>2. Rows' \subseteq {e} BY <2>1 DEF Rows
  <2>3. rows'[e] = t BY <1>0, <2>1 DEF RowsInv
  <2> QED BY <2>2, <2>3 DEF FromTemplates
<1>3. ASSUME NEW e \in Rows, NEW k \in Clickable(e), CancelShown(e, k)
      PROVE  FromTemplates'
  BY <1>3 DEF CancelShown, PagesInv, FromTemplates, Rows
<1>4. ASSUME NEW e \in Rows, NEW n \in Ids \ Rows,
             \A f \in Rows \ {e} : rows'[f] = rows[f],
             Rows' \subseteq Rows \cup {n},
             rows'[e].zone = rows[e].zone, rows'[e].duration = rows[e].duration,
             rows'[n].zone = rows[e].zone, rows'[n].duration = rows[e].duration
      PROVE  FromTemplates'
  BY <1>4 DEF PagesInv, FromTemplates
<1>5. ASSUME NEW e \in Rows, NEW k \in Clickable(e), NEW n \in Ids \ Rows, Detach(e, k, n)
      PROVE  FromTemplates'
  <2>1. rows' = [rows EXCEPT ![n] = [rows[e] EXCEPT !.dtstart = k, !.rule = Null]]
    BY <1>5 DEF Detach
  <2>2. e \in Ids /\ n \in Ids /\ e # n /\ rows[e] \in Series BY <1>0 DEF RowsInv, Rows
  <2>3. rows'[n] = [rows[e] EXCEPT !.dtstart = k, !.rule = Null]
        /\ \A f \in Ids \ {n} : rows'[f] = rows[f]
    BY <1>0, <2>1, <2>2 DEF RowsInv
  <2>4. rows'[n].zone = rows[e].zone /\ rows'[n].duration = rows[e].duration
    BY <2>2, <2>3 DEF Series
  <2>5. Rows' \subseteq Rows \cup {n} /\ Rows \subseteq Ids BY <2>3 DEF Rows
  <2> QED BY <1>4, <2>2, <2>3, <2>4, <2>5
<1>6. ASSUME NEW e \in Rows, NEW k \in Clickable(e), NEW n \in Ids \ Rows, NEW at,
             Split(e, k, n, at)
      PROVE  FromTemplates'
  <2>1. PICK truncated, rule :
          rows' = [rows EXCEPT ![e].rule = truncated,
                               ![n] = [rows[e] EXCEPT !.dtstart = at, !.rule = rule]]
    BY <1>6 DEF Split
  <2>2. e \in Ids /\ n \in Ids /\ e # n /\ rows[e] \in Series BY <1>0 DEF RowsInv, Rows
  <2>3. /\ rows'[n] = [rows[e] EXCEPT !.dtstart = at, !.rule = rule]
        /\ rows'[e] = [rows[e] EXCEPT !.rule = truncated]
        /\ \A f \in Ids \ {e, n} : rows'[f] = rows[f]
    BY <1>0, <2>1, <2>2 DEF RowsInv
  <2>4. rows'[n].zone = rows[e].zone /\ rows'[n].duration = rows[e].duration
        /\ rows'[e].zone = rows[e].zone /\ rows'[e].duration = rows[e].duration
    BY <2>2, <2>3 DEF Series
  <2>5. Rows' \subseteq Rows \cup {n} /\ Rows \subseteq Ids BY <2>2, <2>3 DEF Rows
  <2>6. n \notin Rows OBVIOUS
  <2> QED BY <1>4, <2>2, <2>3, <2>4, <2>5, <2>6
<1>7. FromTemplates' BY <1>2, <1>3, <1>5, <1>6 DEF PagesNext
<1>8. SinglesStored' BY <1>1, StaysSinglesStored
<1> QED BY <1>0, <1>1, <1>7, <1>8 DEF PagesInv

\* The padding reaches every reading that becomes an instant of the range.
LEMMA WindowReaches ==
    ASSUME NEW zone \in Zones, zone.after - zone.before \in -Padding..Padding,
           NEW from \in Int, NEW to \in Int, NEW r \in Int,
           from <= OccurrenceInstant(zone, r), OccurrenceInstant(zone, r) < to
    PROVE  /\ WallAt(zone, from) - Padding <= r
           /\ r <= WallAt(zone, to) + Padding
<1>1. zone.before \in Int /\ zone.after \in Int /\ zone.at \in Int BY DEF Zones
<1>2. zone.after - zone.before <= 48 /\ zone.before - zone.after <= 48
  BY <1>1 DEF Padding, Hours
<1>3. OccurrenceInstant(zone, r) \in {r - zone.before, r - zone.after} BY InstantIs
<1>4. Padding = 48 BY DEF Padding, Hours
<1> QED BY <1>1, <1>2, <1>3, <1>4 DEF WallAt, Offset

\* An event that does not repeat is asked for by a range its occurrence starts in.
LEMMA SingleLoads ==
    ASSUME NEW e \in Rows, rows[e] \in Series, rows[e].rule = Null,
           rows[e].zone.after - rows[e].zone.before <= rows[e].duration,
           \/ starts[e] = Earlier(rows[e].zone, rows[e].dtstart)
           \/ starts[e] = OccurrenceInstant(rows[e].zone, rows[e].dtstart),
           NEW range, range.from \in Int, range.to \in Int,
           range.from <= OccurrenceInstant(rows[e].zone, rows[e].dtstart),
           OccurrenceInstant(rows[e].zone, rows[e].dtstart) < range.to
    PROVE  Loads(e, range)
<1> DEFINE row == rows[e]
           zone == row.zone
           a == row.dtstart - zone.before
           b == row.dtstart - zone.after
<1>0. /\ row.dtstart \in Int /\ row.duration \in Nat /\ zone \in Zones
      /\ zone.before \in Int /\ zone.after \in Int /\ zone.at \in Int
  BY DEF Series, Zones
<1>1. Earlier(zone, row.dtstart) = IF a >= zone.at /\ b < zone.at THEN b
                                   ELSE OccurrenceInstant(zone, row.dtstart)
  BY <1>0, EarlierIs
<1>2. OccurrenceInstant(zone, row.dtstart)
        = IF a < zone.at THEN a ELSE IF b >= zone.at THEN b ELSE a
  BY <1>0, InstantIs
<1>3. starts[e] < range.to /\ starts[e] + row.duration >= range.from
  BY <1>0, <1>1, <1>2
<1> QED BY <1>3 DEF Loads

\* What a page shows of a row it loads.
LEMMA PageIs ==
    ASSUME NEW e \in Rows, NEW range
    PROVE  CalendarPage(e, range) =
             {o \in Occurrences(e) :
                /\ Loads(e, range)
                /\ range.from <= o.start /\ o.start < range.to
                /\ WallAt(rows[e].zone, range.from) - Padding <= o.key
                /\ o.key <= WallAt(rows[e].zone, range.to) + Padding}
<1> DEFINE start(r) == OccurrenceInstant(rows[e].zone, r)
           entry(r) == [key |-> r, start |-> start(r), wall |-> WallAt(rows[e].zone, start(r))]
           found(r) == [key |-> r, start |-> start(r),
                        dst |-> ResolveLocal(rows[e].zone, r).dst]
           local == {r \in SeriesReadings(rows[e]) :
                       WallAt(rows[e].zone, range.from) - Padding <= r
                       /\ r <= WallAt(rows[e].zone, range.to) + Padding}
           inside == {r \in local \ SkippedOf(e) : range.from <= start(r) /\ start(r) < range.to}
<1>1. ExpandSeries(rows[e], range, SkippedOf(e)) = {found(r) : r \in inside}
  <2>1. ExpandSeries(rows[e], range, SkippedOf(e))
          = {o \in {found(r) : r \in local \ SkippedOf(e)} :
               range.from <= o.start /\ o.start < range.to}
    BY DEF ExpandSeries, LocalCandidates, OccurrenceInstant
  <2> HIDE DEF local
  <2>2. \A r : found(r).start = start(r) OBVIOUS
  <2> HIDE DEF found
  <2> QED BY <2>1, <2>2
<1>2. Loads(e, range) => CalendarPage(e, range) = {entry(r) : r \in inside}
  <2> HIDE DEF inside
  <2>1. \A r : found(r).key = r /\ found(r).start = start(r) OBVIOUS
  <2>2. Loads(e, range) =>
          CalendarPage(e, range)
            = {[key |-> o.key, start |-> o.start, wall |-> WallAt(rows[e].zone, o.start)]
                 : o \in {found(r) : r \in inside}}
    BY <1>1 DEF CalendarPage
  <2> DEFINE seen(o) == [key |-> o.key, start |-> o.start,
                         wall |-> WallAt(rows[e].zone, o.start)]
  <2>3. \A r : seen(found(r)) = entry(r) BY <2>1
  <2>4. Loads(e, range) =>
          CalendarPage(e, range) = {seen(o) : o \in {found(r) : r \in inside}}
    BY <2>2
  <2> HIDE DEF seen, found, entry
  <2> QED BY <2>3, <2>4
<1>3. ~Loads(e, range) => CalendarPage(e, range) = {} BY DEF CalendarPage
<1>4. Occurrences(e) = {entry(r) : r \in SeriesReadings(rows[e]) \ SkippedOf(e)}
  BY DEF Occurrences, Shown
<1>5. \A r : entry(r).key = r /\ entry(r).start = start(r) OBVIOUS
<1> HIDE DEF entry, start
<1> QED BY <1>2, <1>3, <1>4, <1>5

LEMMA RowsAreSeries ==
    ASSUME PagesInv, OrdinaryClocks, NEW e \in Rows
    PROVE  /\ rows[e] \in Series /\ rows[e].zone \in Zones
           /\ rows[e].zone.after - rows[e].zone.before \in -Padding..Padding
           /\ rows[e].zone.after - rows[e].zone.before <= rows[e].duration
           /\ \A r \in Shown(e) : r \in Int
           /\ rows[e].rule = Null => \A r \in Shown(e) : r = rows[e].dtstart
<1>1. rows[e] \in Series BY DEF PagesInv, RowsInv, Rows
<1>2. rows[e].zone \in Zones /\ rows[e].dtstart \in Int BY <1>1 DEF Series
<1>3. PICK t \in Templates : rows[e].zone = t.zone /\ rows[e].duration = t.duration
  BY DEF PagesInv, FromTemplates
<1>4. /\ rows[e].zone.after - rows[e].zone.before \in -Padding..Padding
      /\ rows[e].zone.after - rows[e].zone.before <= rows[e].duration
  BY <1>3 DEF OrdinaryClocks
<1>5. \A r \in Shown(e) : r \in Int
  BY <1>2, ReadingsAre DEF Shown, SeriesReadings
<1>6. rows[e].rule = Null => \A r \in Shown(e) : r = rows[e].dtstart
  BY DEF Shown, SeriesReadings
<1> QED BY <1>1, <1>2, <1>4, <1>5, <1>6

LEMMA DisplayIsPlain ==
    ASSUME PagesInv, OrdinaryClocks
    PROVE  Plain(display) /\ weekStart \in Int
BY DEF PagesInv, OrdinaryClocks, Plain

\* A page misses no occurrence of its range but what was detached abroad.
LEMMA PagesAreComplete ==
    ASSUME PagesInv, OrdinaryClocks
    PROVE  PageComplete
<1> SUFFICES ASSUME NEW e \in Rows, NEW view \in Views, NEW day \in FirstDay..FinalDay
             PROVE  LET range == PageRange(view, day)
                        inside == {o \in Occurrences(e) :
                                     range.from <= o.start /\ o.start < range.to} IN
                    /\ CalendarPage(e, range) \subseteq inside
                    /\ ~DetachedAbroad(e) => CalendarPage(e, range) = inside
  BY DEF PageComplete
<1> DEFINE range == PageRange(view, day)
<1>1. day \in Int BY PagesAssumption
<1>2. range.from \in Int /\ range.to \in Int
  <2>1. PICK lo, hi \in Int : range = [from |-> StartOfDay(display, lo),
                                       to |-> StartOfDay(display, hi + 1)]
    BY <1>1, DisplayIsPlain, RangesAre
  <2>2. hi + 1 \in Int OBVIOUS
  <2> QED BY <2>1, <2>2, DisplayIsPlain, MidnightsCut
<1> HIDE DEF range
<1>3. ASSUME NEW o \in Occurrences(e), range.from <= o.start, o.start < range.to,
             ~DetachedAbroad(e)
      PROVE  /\ Loads(e, range)
             /\ WallAt(rows[e].zone, range.from) - Padding <= o.key
             /\ o.key <= WallAt(rows[e].zone, range.to) + Padding
  <2>1. PICK r \in Shown(e) : o.key = r /\ o.start = OccurrenceInstant(rows[e].zone, r)
    BY DEF Occurrences
  <2>2. r \in Int BY RowsAreSeries
  <2>3. Loads(e, range)
    <3>1. CASE rows[e].rule # Null BY <3>1 DEF Loads
    <3>2. CASE rows[e].rule = Null
      <4>1. r = rows[e].dtstart BY <3>2, RowsAreSeries
      <4>2. \/ starts[e] = Earlier(rows[e].zone, rows[e].dtstart)
            \/ starts[e] = OccurrenceInstant(rows[e].zone, rows[e].dtstart)
        BY <1>3, <3>2 DEF PagesInv, SinglesStored, StoredWell, DetachedAbroad
      <4> QED BY <1>2, <1>3, <2>1, <3>2, <4>1, <4>2, RowsAreSeries, SingleLoads
    <3> QED BY <3>1, <3>2
  <2> QED BY <1>2, <1>3, <2>1, <2>2, <2>3, RowsAreSeries, WindowReaches
<1>4. CalendarPage(e, range) \subseteq {o \in Occurrences(e) : range.from <= o.start
                                                            /\ o.start < range.to}
  BY PageIs
<1>5. ~DetachedAbroad(e) =>
        CalendarPage(e, range) = {o \in Occurrences(e) : range.from <= o.start
                                                       /\ o.start < range.to}
  BY <1>3, PageIs
<1> QED BY <1>4, <1>5 DEF range

LEMMA RangesCut ==
    ASSUME PagesInv, OrdinaryClocks
    PROVE  RangesCutAtMidnight
<1> SUFFICES ASSUME NEW e \in Rows, NEW view \in Views, NEW day \in FirstDay..FinalDay,
                    NEW o \in Occurrences(e)
             PROVE  (PageRange(view, day).from <= o.start /\ o.start < PageRange(view, day).to)
                      <=> DayOf(WallAt(display, o.start)) \in DaysOf(view, day)
  BY DEF RangesCutAtMidnight
<1>1. day \in Int BY PagesAssumption
<1>2. PICK lo, hi \in Int :
        /\ PageRange(view, day) = [from |-> StartOfDay(display, lo),
                                   to |-> StartOfDay(display, hi + 1)]
        /\ DaysOf(view, day) = lo..hi
  BY <1>1, DisplayIsPlain, RangesAre
<1>3. o.start \in Int
  <2>1. PICK r \in Shown(e) : o.start = OccurrenceInstant(rows[e].zone, r) BY DEF Occurrences
  <2>2. r \in Int /\ rows[e].zone \in Zones BY RowsAreSeries
  <2>3. o.start \in {r - rows[e].zone.before, r - rows[e].zone.after} BY <2>1, <2>2, InstantIs
  <2> QED BY <2>2, <2>3 DEF Zones
<1>4. hi + 1 \in Int /\ StartOfDay(display, lo) \in Int /\ StartOfDay(display, hi + 1) \in Int
  BY DisplayIsPlain, MidnightsCut
<1>5. StartOfDay(display, lo) <= o.start <=> lo <= DayOf(WallAt(display, o.start))
  BY <1>3, DisplayIsPlain, MidnightsCut
<1>6. StartOfDay(display, hi + 1) <= o.start <=> hi + 1 <= DayOf(WallAt(display, o.start))
  BY <1>3, <1>4, DisplayIsPlain, MidnightsCut
<1>7. DayOf(WallAt(display, o.start)) \in Int
  <2>1. display.before \in Int /\ display.after \in Int BY DisplayIsPlain DEF Plain, Zones
  <2>2. WallAt(display, o.start) \in Int BY <1>3, <2>1 DEF WallAt, Offset
  <2> QED BY <2>2, ReadingParts
<1> QED BY <1>2, <1>3, <1>4, <1>5, <1>6, <1>7

LEMMA DayIs ==
    ASSUME NEW x \in Int, NEW d \in Int
    PROVE  DayOf(x) = d <=> 24 * d <= x /\ x < 24 * d + 24
BY DEF DayOf, Hours

\* Where the clock does not fall back, the instants 24 hours apart that head the
\* columns are in days that follow one another.
LEMMA ColumnsAre ==
    ASSUME Plain(display), NEW lo \in Int, NEW count \in Nat,
           NEW range, range = [from |-> StartOfDay(display, lo),
                               to |-> StartOfDay(display, lo + count)],
           ~FallsBackIn(range), NEW i \in 1..count
    PROVE  Columns(range, count)[i] = lo + i - 1
<1> DEFINE from == StartOfDay(display, lo)
           to == StartOfDay(display, lo + count)
           head == from + (i - 1) * 24
<1>0. display.before \in Int /\ display.after \in Int /\ display.at \in Int
  BY DEF Plain, Zones
<1>1. /\ from \in Int /\ to \in Int /\ head \in Int
      /\ WallAt(display, from) = 24 * lo /\ WallAt(display, to) = 24 * (lo + count)
  <2>1. lo + count \in Int OBVIOUS
  <2> QED BY <2>1, MidnightsCut DEF Midnight, Hours
<1>2. display.after - display.before \in {-1, 0, 1} BY <1>0 DEF Plain
<1>3. ~(display.after < display.before /\ from < display.at /\ display.at < to)
  BY DEF FallsBackIn
<1>4. i \in Int /\ count \in Int /\ 1 <= i /\ i <= count OBVIOUS
<1>5. Columns(range, count)[i] = DayOf(WallAt(display, head))
  BY DEF Columns, Hours
<1> HIDE DEF from, to
<1>6. /\ 24 * (lo + i - 1) <= WallAt(display, head)
      /\ WallAt(display, head) < 24 * (lo + i - 1) + 24
  <2>1. CASE display.after >= display.before
    BY <1>0, <1>1, <1>2, <1>4, <2>1 DEF WallAt, Offset
  <2>2. CASE display.at <= from
    BY <1>0, <1>1, <1>2, <1>4, <2>2 DEF WallAt, Offset
  <2>3. CASE display.at >= to /\ display.after < display.before
    BY <1>0, <1>1, <1>2, <1>4, <2>3 DEF WallAt, Offset
  <2> QED BY <1>0, <1>1, <1>3, <2>1, <2>2, <2>3
<1>7. WallAt(display, head) \in Int /\ lo + i - 1 \in Int
  BY <1>0, <1>1, <1>4 DEF WallAt, Offset
<1> QED BY <1>5, <1>6, <1>7, DayIs

LEMMA DrawnOnce ==
    ASSUME PagesInv, OrdinaryClocks
    PROVE  DrawnOnceUnlessTheClockFellBack
<1> SUFFICES ASSUME NEW e \in Rows, rows[e].zone = display,
                    NEW view \in {"day", "week"}, NEW day \in FirstDay..FinalDay,
                    ~FallsBackIn(PageRange(view, day)),
                    NEW o \in CalendarPage(e, PageRange(view, day))
             PROVE  Cardinality(DrawnIn(o, Columns(PageRange(view, day),
                                                   IF view = "day" THEN 1 ELSE 7))) = 1
  BY DEF DrawnOnceUnlessTheClockFellBack
<1> DEFINE range == PageRange(view, day)
           count == IF view = "day" THEN 1 ELSE 7
           columns == Columns(range, count)
           date == DayOf(o.wall)
<1>1. day \in Int /\ view \in Views BY PagesAssumption DEF Views
<1>2. PICK lo, hi \in Int :
        /\ range = [from |-> StartOfDay(display, lo), to |-> StartOfDay(display, hi + 1)]
        /\ DaysOf(view, day) = lo..hi
        /\ hi = lo + (IF view = "day" THEN 0 ELSE IF view = "week" THEN 6 ELSE 41)
  BY <1>1, DisplayIsPlain, RangesAre
<1>3. count \in Nat /\ hi + 1 = lo + count BY <1>2
<1>4. DOMAIN columns = 1..count BY DEF Columns
<1>5. \A i \in 1..count : columns[i] = lo + i - 1
  BY <1>2, <1>3, DisplayIsPlain, ColumnsAre
<1>6. o \in Occurrences(e) /\ range.from <= o.start /\ o.start < range.to
  BY <1>1, PagesAreComplete DEF PageComplete
<1>7. o.wall = WallAt(display, o.start) BY <1>6 DEF Occurrences
<1>8. date \in lo..hi
  <2>1. DayOf(WallAt(display, o.start)) \in DaysOf(view, day)
    BY <1>1, <1>6, RangesCut DEF RangesCutAtMidnight
  <2> QED BY <1>2, <1>7, <2>1
<1> HIDE DEF range, columns, date, count
<1>9. DrawnIn(o, columns) = {date - lo + 1}
  <2>1. \A i \in 1..count : columns[i] = date <=> i = date - lo + 1 BY <1>3, <1>5, <1>8
  <2>2. date - lo + 1 \in 1..count BY <1>3, <1>8
  <2>3. DrawnIn(o, columns) = {i \in 1..count : columns[i] = date}
    BY <1>4 DEF DrawnIn, date
  <2> QED BY <2>1, <2>2, <2>3
<1> QED BY <1>9, FS_Singleton DEF range, columns, count

\* Whichever day a page is opened on, of whatever rows the sheets have made: it
\* has the occurrences of its days and no others, as pageRange of page.tsx cuts
\* the calendar, and the week grid draws each in one column.  Clocks that change
\* at midnight, events shorter than the hour the clock skips, and occurrences
\* detached on a page of another zone than their event's are not covered.
THEOREM PagesAlwaysCut ==
    ASSUME OrdinaryClocks
    PROVE  SeriesSpec => []PagesCutTheCalendar
<1>1. SeriesInit => PagesInv BY PagesStart DEF SeriesInit
<1>2. PagesInv /\ [SeriesNext]_seriesVars => PagesInv'
  <2> SUFFICES ASSUME PagesInv, [SeriesNext]_seriesVars PROVE PagesInv'
    OBVIOUS
  <2>1. CASE PagesNext BY <2>1, PagesStep
  <2>2. CASE UNCHANGED pageVars
    <3>1. RowsInv' BY <2>2, RowsUnchanged DEF PagesInv
    <3>2. UNCHANGED <<rows, display, weekStart>> BY <2>2 DEF pageVars
    <3>3. FromTemplates' BY <3>2 DEF PagesInv, FromTemplates, Rows
    <3>4. SinglesStored'
      BY <2>2 DEF pageVars, PagesInv, SinglesStored, StoredWell, Rows
    <3> QED BY <3>1, <3>2, <3>3, <3>4 DEF PagesInv
  <2> QED BY <2>1, <2>2 DEF SeriesNext, seriesVars
<1>3. PagesInv => PagesCutTheCalendar
  BY PagesAreComplete, RangesCut, DrawnOnce DEF PagesCutTheCalendar
<1> QED BY <1>1, <1>2, <1>3, PTL DEF SeriesSpec

-----------------------------------------------------------------------------
(* The exported file                                                       *)

LEMMA DivergentAre ==
    ASSUME NEW zone, NEW readings
    PROVE  DivergentOccurrences(zone, readings) = {r \in readings : Divergent(zone, r)}
BY DEF DivergentOccurrences, Divergent

\* A rule's UNTIL becomes an instant and is the same reading again when it is
\* read back.
LEMMA UntilReturns ==
    ASSUME NEW series, NEW rule \in Rule, series.rule = rule, series.zone \in Zones,
           rule.until # Null => ~Divergent(series.zone, rule.until)
    PROVE  FromIcalSeries(series, ToIcalSeries(series)) = rule
<1>1. rule # Null BY NullAssumption
<1>2. CASE rule.until = Null BY <1>1, <1>2 DEF FromIcalSeries, ToIcalSeries
<1>3. CASE rule.until # Null
  <2>1. rule.until \in Int BY <1>3 DEF Rule
  <2>2. PICK zone \in Zones, until \in Int : zone = series.zone /\ until = rule.until BY <2>1
  <2>3. PICK instant : instant = OccurrenceInstant(zone, until) OBVIOUS
  <2>4. instant \in Int /\ WallAt(zone, instant) = until BY <1>3, <2>2, <2>3, OrderKept
  <2>5. ToIcalSeries(series) = [rule EXCEPT !.until = instant]
    BY <1>1, <1>3, <2>2, <2>3 DEF ToIcalSeries
  <2>6. PICK sent : sent = [rule EXCEPT !.until = instant] OBVIOUS
  <2>7. sent \in Rule /\ sent.until = instant BY <2>4, <2>6 DEF Rule
  <2>8. sent # Null /\ sent.until # Null BY <2>4, <2>7, NullAssumption
  <2>9. FromIcalSeries(series, sent) = [sent EXCEPT !.until = until]
    BY <2>2, <2>4, <2>7, <2>8 DEF FromIcalSeries
  <2>10. [sent EXCEPT !.until = until] = rule BY <2>2, <2>6 DEF Rule
  <2> QED BY <2>5, <2>6, <2>9, <2>10
<1> QED BY <1>2, <1>3

\* Without its UNTIL a rule has the readings it had and those past UNTIL.
LEMMA UnboundedReadings ==
    ASSUME NEW rule \in Rule, NEW dtstart \in Int
    PROVE  {r \in Readings([rule EXCEPT !.until = Null], dtstart) : Bounded(rule, r)}
             = Readings(rule, dtstart)
<1>1. PICK open : open = [rule EXCEPT !.until = Null] OBVIOUS
<1>2. /\ open.freq = rule.freq /\ open.interval = rule.interval /\ open.byday = rule.byday
      /\ open.count = rule.count /\ open.until = Null
  BY <1>1 DEF Rule
<1>3. RuleDays(open, dtstart) = RuleDays(rule, dtstart) BY <1>2 DEF RuleDays, OnRuleDay
<1>4. \A r : r \in Readings(open, dtstart) <=>
             /\ r \in Int /\ HourOf(r) = HourOf(dtstart)
             /\ DayOf(r) \in RuleDays(open, dtstart)
             /\ Counted(open, dtstart, DayOf(r))
             /\ Bounded(open, r)
  BY ReadingsAre
<1>5. \A r : r \in Readings(rule, dtstart) <=>
             /\ r \in Int /\ HourOf(r) = HourOf(dtstart)
             /\ DayOf(r) \in RuleDays(rule, dtstart)
             /\ Counted(rule, dtstart, DayOf(r))
             /\ Bounded(rule, r)
  BY ReadingsAre
<1>6. \A r : /\ Bounded(open, r)
            /\ Counted(open, dtstart, DayOf(r)) <=> Counted(rule, dtstart, DayOf(r))
  BY <1>2, <1>3 DEF Bounded, Counted, Rank
<1> QED BY <1>1, <1>3, <1>4, <1>5, <1>6

CancelledFrom(e) == {x[2] : x \in {y \in skipped : y[1] = e /\ y[3] = "cancelled"}}

\* Exceptions are detached occurrences, which the file still lists, or cancelled
\* ones, which it excludes.
LEMMA ListedIs ==
    ASSUME SkipsOK, NEW e \in Ids, NEW S
    PROVE  (S \ SkippedOf(e)) \cup (MovedFrom(e) \cap S) = S \ CancelledFrom(e)
<1>1. \A x \in skipped : x[3] \in {"cancelled", "moved"} BY DEF SkipsOK
<1>2. \A r : r \in SkippedOf(e) <=> \E x \in skipped : x[1] = e /\ x[2] = r
  BY DEF SkippedOf
<1>3. \A r : r \in MovedFrom(e) <=> \E x \in skipped : x[1] = e /\ x[3] = "moved" /\ x[2] = r
  BY DEF MovedFrom
<1>4. \A r : r \in CancelledFrom(e) <=>
               \E x \in skipped : x[1] = e /\ x[3] = "cancelled" /\ x[2] = r
  BY DEF CancelledFrom
<1>5. \A r : r \in SkippedOf(e) <=> r \in MovedFrom(e) \/ r \in CancelledFrom(e)
  BY <1>1, <1>2, <1>3, <1>4
<1>6. \A x, y \in skipped : x[1] = y[1] /\ x[2] = y[2] => x[3] = y[3] BY DEF SkipsOK
<1>7. \A r : ~(r \in MovedFrom(e) /\ r \in CancelledFrom(e))
  BY <1>3, <1>4, <1>6
<1> QED BY <1>5, <1>7

\* A reader of the file follows the rule as this application does, but for the
\* readings that do not exist.
LEMMA ReaderFollowsRule ==
    ASSUME NEW vevent, NEW zone \in Zones, NEW rule \in Rule, NEW dtstart \in Int, NEW series,
           series.rule = rule, series.zone = zone,
           rule.until # Null => ~Divergent(zone, rule.until),
           vevent.rule = ToIcalSeries(series), vevent.zone = zone, vevent.dtstart = dtstart
    PROVE  Regenerated(vevent) =
             {r \in Readings(rule, dtstart) : ~Divergent(zone, r)} \ vevent.exdates
<1>1. rule # Null /\ rule.until \in Int \cup {Null} BY NullAssumption DEF Rule
<1>2. PICK sent : sent = ToIcalSeries(series) OBVIOUS
<1> DEFINE open == [rule EXCEPT !.until = Null]
           generated == Readings(open, dtstart)
           bounded == {r \in generated :
                         sent.until # Null => OccurrenceInstant(zone, r) <= sent.until}
<1>3. /\ sent # Null
      /\ [sent EXCEPT !.until = Null] = open
      /\ sent.until = IF rule.until = Null THEN Null ELSE OccurrenceInstant(zone, rule.until)
  <2>1. CASE rule.until = Null BY <1>1, <1>2, <2>1 DEF ToIcalSeries
  <2>2. CASE rule.until # Null
    <3>1. PICK instant \in Int : instant = OccurrenceInstant(zone, rule.until)
      BY <1>1, <2>2, OrderKept
    <3>2. sent = [rule EXCEPT !.until = instant] BY <1>1, <1>2, <2>2, <3>1 DEF ToIcalSeries
    <3>3. sent \in Rule /\ sent.until = instant /\ [sent EXCEPT !.until = Null] = open
      BY <3>2 DEF Rule
    <3> QED BY <2>2, <3>1, <3>3, NullAssumption
  <2> QED BY <2>1, <2>2
<1>4. ASSUME NEW r \in generated, ~Divergent(zone, r)
      PROVE  r \in bounded <=> Bounded(rule, r)
  <2>1. r \in Int BY <1>4, ReadingsAre
  <2>2. CASE rule.until = Null BY <1>3, <1>4, <2>2 DEF Bounded
  <2>3. CASE rule.until # Null
    <3>1. PICK until \in Int : until = rule.until BY <1>1, <2>3
    <3>2. /\ OccurrenceInstant(zone, until) \in Int
          /\ OccurrenceInstant(zone, r) <= OccurrenceInstant(zone, until) <=> r <= until
      BY <1>4, <2>1, <2>3, <3>1, OrderKept
    <3>3. sent.until # Null /\ sent.until = OccurrenceInstant(zone, until)
      BY <1>3, <2>3, <3>1, <3>2, NullAssumption
    <3> HIDE DEF generated
    <3> QED BY <1>4, <2>3, <3>1, <3>2, <3>3 DEF Bounded
  <2> QED BY <2>2, <2>3
<1>5. {r \in generated : Bounded(rule, r)} = Readings(rule, dtstart) BY UnboundedReadings
<1>6. Regenerated(vevent) = (bounded \ DivergentOccurrences(zone, bounded)) \ vevent.exdates
  BY <1>2, <1>3 DEF Regenerated
<1>7. DivergentOccurrences(zone, bounded) = {r \in bounded : Divergent(zone, r)}
  BY DivergentAre
<1>8. \A r \in bounded : r \in generated OBVIOUS
<1> HIDE DEF bounded, generated
<1> QED BY <1>4, <1>5, <1>6, <1>7, <1>8

LEMMA ExportIs ==
    ASSUME RowsInv
    PROVE  ExportShowsTheCalendar
<1> SUFFICES ASSUME NEW vevent \in ToIcs, ~CutInGap(vevent.event)
             PROVE  LET e == vevent.event
                        listed == Shown(e) \cup (MovedFrom(e) \cap SeriesReadings(rows[e])) IN
                    /\ Regenerated(vevent) =
                         listed \ (IF rows[e].rule = Null THEN {}
                                   ELSE DivergentOccurrences(rows[e].zone, listed))
                    /\ SeriesReadings([rows[e] EXCEPT !.rule = FromIcalSeries(vevent, vevent.rule)])
                         = SeriesReadings(rows[e])
  BY DEF ExportShowsTheCalendar
<1>1. PICK e \in Rows :
        vevent = ToVevent([event |-> e, dtstart |-> rows[e].dtstart, zone |-> rows[e].zone,
                           duration |-> rows[e].duration, rule |-> rows[e].rule,
                           exdates |-> CancelledFrom(e)])
  BY DEF ToIcs, ExportBundle, CancelledFrom
<1>2. PICK series :
        series = [event |-> e, dtstart |-> rows[e].dtstart, zone |-> rows[e].zone,
                  duration |-> rows[e].duration, rule |-> rows[e].rule,
                  exdates |-> CancelledFrom(e)]
  OBVIOUS
<1>3. /\ vevent.event = e /\ vevent.dtstart = rows[e].dtstart /\ vevent.zone = rows[e].zone
      /\ vevent.rule = ToIcalSeries(series) /\ vevent.exdates = CancelledFrom(e)
      /\ series.rule = rows[e].rule /\ series.zone = rows[e].zone
  BY <1>1, <1>2 DEF ToVevent
<1>4. /\ e \in Ids /\ rows[e] \in Series /\ SkipsOK
      /\ rows[e].dtstart \in Int /\ rows[e].zone \in Zones
      /\ rows[e].rule # Null => rows[e].rule \in Rule
  BY SeriesParts DEF RowsInv, Rows
<1> DEFINE listed == Shown(e) \cup (MovedFrom(e) \cap SeriesReadings(rows[e]))
<1>5. listed = SeriesReadings(rows[e]) \ CancelledFrom(e)
  BY <1>4, ListedIs DEF Shown
<1>6. [rows[e] EXCEPT !.rule = rows[e].rule] = rows[e] BY <1>4 DEF Series
<1> HIDE DEF listed
<1>7. CASE rows[e].rule = Null
  <2>1. \A x \in skipped : x[1] # e BY <1>4, <1>7 DEF SkipsOK
  <2>2. CancelledFrom(e) = {} BY <2>1 DEF CancelledFrom
  <2>3. vevent.rule = Null BY <1>3, <1>7 DEF ToIcalSeries
  <2>4. Regenerated(vevent) = {rows[e].dtstart} BY <1>3, <2>3 DEF Regenerated
  <2>5. SeriesReadings(rows[e]) = {rows[e].dtstart} BY <1>7 DEF SeriesReadings
  <2>6. FromIcalSeries(vevent, vevent.rule) = rows[e].rule BY <1>7, <2>3 DEF FromIcalSeries
  <2>7. Regenerated(vevent) = listed BY <1>5, <2>2, <2>4, <2>5
  <2> QED BY <1>3, <1>6, <1>7, <2>6, <2>7 DEF listed
<1>8. CASE rows[e].rule # Null
  <2>1. PICK rule \in Rule, zone \in Zones, dtstart \in Int :
          rule = rows[e].rule /\ zone = rows[e].zone /\ dtstart = rows[e].dtstart
    BY <1>4, <1>8
  <2>2. rule.until # Null => ~Divergent(zone, rule.until)
    <3>1. \A r : DivergentOccurrences(zone, {r}) = {} => ~Divergent(zone, r)
      BY DEF DivergentOccurrences, Divergent
    <3>2. ~CutInGap(e) BY <1>3
    <3> QED BY <1>8, <2>1, <3>1, <3>2 DEF CutInGap
  <2>3. Regenerated(vevent) =
          {r \in Readings(rule, dtstart) : ~Divergent(zone, r)} \ CancelledFrom(e)
    BY <1>3, <2>1, <2>2, ReaderFollowsRule
  <2>4. SeriesReadings(rows[e]) = Readings(rule, dtstart) BY <1>8, <2>1 DEF SeriesReadings
  <2>5. Regenerated(vevent) = listed \ DivergentOccurrences(zone, listed)
    <3>1. DivergentOccurrences(zone, listed) = {r \in listed : Divergent(zone, r)}
      BY DivergentAre
    <3> QED BY <1>5, <2>3, <2>4, <3>1
  <2>6. FromIcalSeries(series, ToIcalSeries(series)) = rule BY <1>3, <2>1, <2>2, UntilReturns
  <2>7. FromIcalSeries(vevent, vevent.rule) = rows[e].rule
    BY <1>3, <2>1, <2>6 DEF FromIcalSeries
  <2> QED BY <1>3, <1>6, <1>8, <2>1, <2>5, <2>7 DEF listed
<1> QED BY <1>7, <1>8

\* A strict reader of an exported file shows what the calendar shows: UNTIL goes
\* out as an instant (toIcalSeries), and in no zone does that add or drop an
\* occurrence, but for a series cut inside a gap.
THEOREM ExportAlwaysShows == SeriesSpec => []ExportShowsTheCalendar
BY RowsAlways, ExportIs, PTL

-----------------------------------------------------------------------------
(* Transactions: what a caller holds while others commit                   *)

Exceptions == [series : Ids, at : Int, kind : {"cancelled", "moved"}, by : Ids \cup {Null}]

CallRecords ==
    [step : {"idle", "open", "loaded", "guarded", "written"}, series : Ids \cup {Null},
     occurrence : Int \cup {Null}, scope : {"this", "this-and-future", "entire-series", Null},
     range : Ranges \cup {Null}, newId : Ids \cup {Null}, fields : SUBSET Payloads,
     expected : Nat, current : Series \cup {Null}, own : [Ids -> StoredRows \cup {Null}],
     excepted : SUBSET Exceptions]

\* `promised` is history, and the pages are not touched.
TransactionTypeOK ==
    /\ events \in [Ids -> StoredRows \cup {Null}]
    /\ exceptions \subseteq Exceptions
    /\ calls \in [Callers -> CallRecords]

\* A call knows its row and, but for a whole series, an occurrence and an id
\* that no one else drew and no row has.
KnowsItsRow(call, committed) ==
    call.step # "idle" =>
        /\ call.series \in Ids
        /\ committed[call.series] # Null
        /\ call.expected <= committed[call.series].version
        /\ call.scope # "entire-series" => call.occurrence \in Int /\ call.newId \in Ids

KeepsItsId(call, committed) ==
    call.newId # Null =>
        call.step # "idle" /\ call.newId \in Ids /\ committed[call.newId] = Null

\* What was read is the row as it is while its version has not moved.
ReadsWhatIsThere(call, committed) ==
    call.step \in {"loaded", "guarded", "written"} =>
        /\ call.current \in Series
        /\ committed[call.series].version = call.expected =>
             call.current = LoadSeriesSpec(committed[call.series])
        /\ PlannedScope(call) = "this-and-future" => PlanOf(call).ok

HoldsTheRow(call) == call.step \in {"guarded", "written"}

Past(call) ==
    IF PlannedScope(call) = "this-and-future"
    THEN [call.current EXCEPT !.rule = PlanOf(call).truncated] ELSE call.current

Future(call) ==
    [call.current EXCEPT !.dtstart = call.occurrence, !.rule = PlanOf(call).newRule]

\* What a transaction wrote is one version on, and is the plan it made.
WritesItsPlan(call, committed) ==
    /\ call.step \in {"idle", "open", "loaded"} => call.own = Unwritten
    /\ HoldsTheRow(call) =>
         /\ \A e \in Ids \ {call.series, call.newId} : call.own[e] = Null
         /\ call.own[call.series] # Null
         /\ committed[call.series].version = call.expected
         /\ call.own[call.series].version = call.expected + 1
         /\ LoadSeriesSpec(call.own[call.series]) = Past(call)
    /\ call.step = "written" /\ PlannedScope(call) = "this-and-future" =>
         LoadSeriesSpec(call.own[call.newId]) = Future(call)

CallOK(call, committed) ==
    /\ KnowsItsRow(call, committed) /\ KeepsItsId(call, committed)
    /\ ReadsWhatIsThere(call, committed) /\ WritesItsPlan(call, committed)

\* No two callers drew one id, or hold one row.
CallsApart ==
    \A c, d \in Callers : c # d =>
        /\ calls[c].newId # Null => calls[c].newId # calls[d].newId
        /\ HoldsTheRow(calls[c]) /\ HoldsTheRow(calls[d]) => calls[c].series # calls[d].series

TransactionInv ==
    TransactionTypeOK /\ (\A c \in Callers : CallOK(calls[c], events)) /\ CallsApart

-----------------------------------------------------------------------------
(* Every step of a transaction keeps TransactionInv                        *)

LEMMA LeastNat ==
    ASSUME NEW T \in SUBSET Nat, T # {}
    PROVE  \E x \in T : \A y \in T : x <= y
<1>1. PICK less : less = OpToRel(<, Nat) OBVIOUS
<1>2. IsWellFoundedOn(less, Nat) BY <1>1, NatLessThanWellFounded
<1>3. PICK x \in T : \A y \in T : ~(<<y, x>> \in less) BY <1>2, WFMin
<1>4. \A y, z \in Nat : y < z => <<y, z>> \in less BY <1>1 DEF OpToRel
<1>5. \A y \in T : y \in Nat OBVIOUS
<1>6. \A y \in T : ~(y < x) BY <1>3, <1>4, <1>5
<1>7. \A y, z \in Nat : ~(y < z) => z <= y OBVIOUS
<1> QED BY <1>5, <1>6, <1>7

LEMMA LeastInt ==
    ASSUME NEW S \in SUBSET Int, S # {}, NEW low \in Int, \A i \in S : low <= i
    PROVE  Min(S) \in Int /\ Min(S) \in S
<1> DEFINE T == {i - low : i \in S}
<1>0. \A i \in S : i \in Int OBVIOUS
<1>1. T \in SUBSET Nat /\ T # {}
  <2>1. \A i \in S : i - low \in Nat BY <1>0
  <2>2. \A t \in T : t \in Nat BY <2>1
  <2> QED BY <2>2
<1>2. PICK x \in T : \A y \in T : x <= y BY <1>1, LeastNat
<1>3. PICK i \in S : x = i - low OBVIOUS
<1>4. \A j \in S : i <= j
  <2> TAKE j \in S
  <2>1. j - low \in T OBVIOUS
  <2>2. i - low <= j - low BY <1>2, <1>3, <2>1
  <2> QED BY <1>0, <2>2
<1>5. \E m \in S : \A j \in S : m <= j BY <1>4
<1> QED BY <1>5 DEF Min

\* A row starts at an instant: its readings are not before the day of its anchor.
LEMMA FirstInstant ==
    ASSUME NEW series \in Series, SeriesReadings(series) # {}
    PROVE  Min({OccurrenceInstant(series.zone, r) : r \in SeriesReadings(series)}) \in Int
<1> DEFINE S == {OccurrenceInstant(series.zone, r) : r \in SeriesReadings(series)}
<1>1. PICK zone \in Zones, dtstart \in Int : zone = series.zone /\ dtstart = series.dtstart
  BY SeriesParts
<1>2. zone.before \in Int /\ zone.after \in Int /\ zone.at \in Int BY DEF Zones
<1>3. PICK first \in Int : first = Midnight(DayOf(dtstart)) BY DEF Midnight, DayOf, Hours
<1>4. ASSUME NEW r \in SeriesReadings(series) PROVE r \in Int /\ first <= r
  <2>1. CASE series.rule = Null
    <3>1. r = dtstart BY <1>1, <2>1 DEF SeriesReadings
    <3> QED BY <1>3, <3>1 DEF Midnight, DayOf, Hours
  <2>2. CASE series.rule # Null
    <3>1. r \in Int /\ DayOf(r) \in RuleDays(series.rule, dtstart)
      BY <1>1, <2>2, ReadingsAre DEF SeriesReadings
    <3>2. DayOf(dtstart) <= DayOf(r) BY <3>1, DaysFinite
    <3> QED BY <1>3, <3>1, <3>2 DEF Midnight, DayOf, Hours
  <2> QED BY <2>1, <2>2
<1>5. PICK low \in Int : low <= first - zone.before /\ low <= first - zone.after
  <2>1. CASE zone.before <= zone.after BY <1>2, <1>3, <2>1
  <2>2. CASE zone.after <= zone.before BY <1>2, <1>3, <2>2
  <2> QED BY <1>2, <2>1, <2>2
<1>6. ASSUME NEW r \in SeriesReadings(series)
      PROVE  OccurrenceInstant(zone, r) \in Int /\ low <= OccurrenceInstant(zone, r)
  <2>1. OccurrenceInstant(zone, r) \in {r - zone.before, r - zone.after}
    BY <1>4, InstantIs
  <2> QED BY <1>2, <1>3, <1>4, <1>5, <2>1
<1>7. S \in SUBSET Int /\ S # {} /\ \A i \in S : low <= i BY <1>1, <1>6
<1> HIDE DEF S
<1>8. Min(S) \in Int BY <1>7, LeastInt
<1> QED BY <1>8 DEF S

\* What a COUNT has spent before any reading is a number.
LEMMA ConsumedTyped ==
    ASSUME NEW series \in Series, series.rule # Null, NEW k \in Int
    PROVE  CountOccurrencesBefore(series, k) \in Nat
<1>1. PICK rule \in Rule, dtstart \in Int : rule = series.rule /\ dtstart = series.dtstart
  BY SeriesParts
<1> DEFINE days == RuleDays(rule, dtstart)
           T == {Midnight(d) + HourOf(dtstart) : d \in days}
           S == {r \in LocalCandidates(series, dtstart, k) : r < k}
<1>2. IsFiniteSet(days) /\ \A d \in days : d \in Int BY DaysFinite
<1>3. IsFiniteSet(T) BY <1>2, CountedByDay
<1>4. S \in SUBSET T
  <2>1. ASSUME NEW r \in S PROVE r \in T
    <3>1. r \in Readings(rule, dtstart) BY <1>1 DEF LocalCandidates, SeriesReadings
    <3>2. r \in Int /\ HourOf(r) = HourOf(dtstart) /\ DayOf(r) \in days BY <3>1, ReadingsAre
    <3>3. r = Midnight(DayOf(r)) + HourOf(dtstart) BY <3>2, ReadingParts
    <3> QED BY <3>2, <3>3
  <2> QED BY <2>1
<1> HIDE DEF T, S
<1>5. Cardinality(S) \in Nat BY <1>3, <1>4, PartsFinite
<1> QED BY <1>1, <1>5 DEF CountOccurrencesBefore, S

LEMMA RowsLoad ==
    ASSUME NEW row \in StoredRows
    PROVE  /\ row # Null /\ row.version \in Nat
           /\ LoadSeriesSpec(row) \in Series
           /\ LoadSeriesSpec(row).rule = row.rule
           /\ \A v \in Nat :
                /\ [row EXCEPT !.version = v] \in StoredRows
                /\ [row EXCEPT !.version = v].version = v
                /\ LoadSeriesSpec([row EXCEPT !.version = v]) = LoadSeriesSpec(row)
           /\ \A rule \in Rule \cup {Null} :
                /\ [row EXCEPT !.rule = rule] \in StoredRows
                /\ [row EXCEPT !.rule = rule].version = row.version
                /\ LoadSeriesSpec([row EXCEPT !.rule = rule])
                     = [LoadSeriesSpec(row) EXCEPT !.rule = rule]
<1>0. row # Null BY TransactionAssumption
<1>1. /\ row.start \in Int /\ row.duration \in Nat /\ row.zone \in Zones
      /\ row.dtstart \in Int \cup {Null} /\ row.rule \in Rule \cup {Null} /\ row.version \in Nat
  BY DEF StoredRows
<1>2. WallAt(row.zone, row.start) \in Int
  <2>1. row.zone.before \in Int /\ row.zone.after \in Int BY <1>1 DEF Zones
  <2> QED BY <1>1, <2>1 DEF WallAt, Offset
<1>3. LoadSeriesSpec(row) \in Series /\ LoadSeriesSpec(row).rule = row.rule
  BY <1>1, <1>2 DEF LoadSeriesSpec, Series
<1>4. ASSUME NEW v \in Nat
      PROVE  /\ [row EXCEPT !.version = v] \in StoredRows
             /\ [row EXCEPT !.version = v].version = v
             /\ LoadSeriesSpec([row EXCEPT !.version = v]) = LoadSeriesSpec(row)
  <2>1. PICK next : next = [row EXCEPT !.version = v] OBVIOUS
  <2>2. /\ next \in StoredRows /\ next.version = v /\ next.start = row.start
        /\ next.duration = row.duration /\ next.zone = row.zone /\ next.dtstart = row.dtstart
        /\ next.rule = row.rule
    BY <2>1 DEF StoredRows
  <2> QED BY <2>1, <2>2 DEF LoadSeriesSpec
<1>5. ASSUME NEW rule \in Rule \cup {Null}
      PROVE  /\ [row EXCEPT !.rule = rule] \in StoredRows
             /\ [row EXCEPT !.rule = rule].version = row.version
             /\ LoadSeriesSpec([row EXCEPT !.rule = rule])
                  = [LoadSeriesSpec(row) EXCEPT !.rule = rule]
  <2>1. PICK next : next = [row EXCEPT !.rule = rule] OBVIOUS
  <2>2. /\ next \in StoredRows /\ next.version = row.version /\ next.start = row.start
        /\ next.duration = row.duration /\ next.zone = row.zone /\ next.dtstart = row.dtstart
        /\ next.rule = rule
    BY <2>1 DEF StoredRows
  <2> QED BY <2>1, <2>2 DEF LoadSeriesSpec
<1> QED BY <1>0, <1>1, <1>3, <1>4, <1>5

\* A call stays as it is while rows only gain versions, the row it holds is left
\* alone and its id is not taken.
LEMMA CallOutlives ==
    ASSUME NEW committed \in [Ids -> StoredRows \cup {Null}],
           NEW later \in [Ids -> StoredRows \cup {Null}],
           NEW call \in CallRecords, CallOK(call, committed),
           \A e \in Ids : committed[e] # Null =>
                /\ later[e] # Null
                /\ later[e] = committed[e] \/ later[e].version > committed[e].version,
           HoldsTheRow(call) => later[call.series] = committed[call.series],
           call.newId # Null => later[call.newId] = Null
    PROVE  CallOK(call, later)
<1>1. KnowsItsRow(call, committed) /\ KeepsItsId(call, committed)
      /\ ReadsWhatIsThere(call, committed) /\ WritesItsPlan(call, committed)
  BY DEF CallOK
<1>2. call.expected \in Nat
      /\ call.step \in {"idle", "open", "loaded", "guarded", "written"}
  BY DEF CallRecords
<1>3. \A e \in Ids : /\ committed[e] # Null => committed[e].version \in Nat
                     /\ later[e] # Null => later[e].version \in Nat
  BY RowsLoad
<1>4. KeepsItsId(call, later) BY <1>1 DEF KeepsItsId
<1>5. WritesItsPlan(call, later) BY <1>1 DEF WritesItsPlan
<1>6. CASE call.step = "idle"
  BY <1>4, <1>5, <1>6 DEF CallOK, KnowsItsRow, ReadsWhatIsThere
<1>7. CASE call.step # "idle"
  <2>1. call.series \in Ids /\ committed[call.series] # Null
        /\ call.expected <= committed[call.series].version
        /\ (call.scope # "entire-series" => call.occurrence \in Int /\ call.newId \in Ids)
    BY <1>1, <1>7 DEF KnowsItsRow
  <2>2. later[call.series] # Null /\ later[call.series].version >= committed[call.series].version
    BY <1>3, <2>1
  <2>3. KnowsItsRow(call, later) BY <1>2, <1>3, <2>1, <2>2 DEF KnowsItsRow
  <2>4. later[call.series].version = call.expected => later[call.series] = committed[call.series]
    BY <1>2, <1>3, <2>1, <2>2
  <2>5. ReadsWhatIsThere(call, later) BY <1>1, <2>4 DEF ReadsWhatIsThere
  <2> QED BY <1>4, <1>5, <2>3, <2>5 DEF CallOK
<1> QED BY <1>6, <1>7

LEMMA CallsTyped ==
    ASSUME TransactionInv, NEW c \in Callers
    PROVE  /\ calls[c] \in CallRecords /\ CallOK(calls[c], events)
           /\ calls[c].step \in {"idle", "open", "loaded", "guarded", "written"}
           /\ calls[c].expected \in Nat /\ calls[c].newId \in Ids \cup {Null}
BY DEF TransactionInv, TransactionTypeOK, CallRecords

\* What changes rows and no call.
LEMMA EventsMove ==
    ASSUME TransactionInv, UNCHANGED calls,
           events' \in [Ids -> StoredRows \cup {Null}], exceptions' \subseteq Exceptions,
           \A e \in Ids : events[e] # Null =>
                /\ events'[e] # Null
                /\ events'[e] = events[e] \/ events'[e].version > events[e].version,
           \A c \in Callers :
                /\ HoldsTheRow(calls[c]) => events'[calls[c].series] = events[calls[c].series]
                /\ calls[c].newId # Null => events'[calls[c].newId] = Null
    PROVE  TransactionInv'
<1>1. TransactionTypeOK' BY DEF TransactionInv, TransactionTypeOK
<1>2. ASSUME NEW c \in Callers PROVE CallOK(calls[c], events')
  <2>1. PICK call \in CallRecords : call = calls[c] BY CallsTyped
  <2>2. events \in [Ids -> StoredRows \cup {Null}] BY DEF TransactionInv, TransactionTypeOK
  <2>3. CallOK(call, events) BY <2>1, CallsTyped
  <2>4. /\ HoldsTheRow(call) => events'[call.series] = events[call.series]
        /\ call.newId # Null => events'[call.newId] = Null
    BY <2>1
  <2>5. PICK committed, later : committed = events /\ later = events' OBVIOUS
  <2>6. CallOK(call, later)
    BY <2>2, <2>3, <2>4, <2>5, CallOutlives
  <2> QED BY <2>1, <2>5, <2>6
<1>3. CallsApart' BY DEF TransactionInv, CallsApart
<1> QED BY <1>1, <1>2, <1>3 DEF TransactionInv

\* What changes one call and no row.
LEMMA OneCallMoves ==
    ASSUME TransactionInv, UNCHANGED <<events, exceptions>>,
           NEW c \in Callers, NEW call \in CallRecords, calls' = [calls EXCEPT ![c] = call],
           CallOK(call, events),
           \A d \in Callers \ {c} :
                /\ call.newId # Null => call.newId # calls[d].newId
                /\ HoldsTheRow(call) /\ HoldsTheRow(calls[d]) => call.series # calls[d].series
    PROVE  TransactionInv'
<1>1. /\ TransactionTypeOK'
      /\ calls'[c] = call /\ \A d \in Callers \ {c} : calls'[d] = calls[d]
  BY DEF TransactionInv, TransactionTypeOK
<1>2. \A d \in Callers : CallOK(calls'[d], events')
  BY <1>1, CallsTyped
<1>3. CallsApart'
  <2>1. ASSUME NEW a \in Callers, NEW b \in Callers, a # b
        PROVE  /\ calls'[a].newId # Null => calls'[a].newId # calls'[b].newId
               /\ HoldsTheRow(calls'[a]) /\ HoldsTheRow(calls'[b])
                      => calls'[a].series # calls'[b].series
    <3>1. CASE a = c BY <1>1, <2>1, <3>1
    <3>2. CASE b = c BY <1>1, <2>1, <3>2
    <3>3. CASE a # c /\ b # c BY <1>1, <2>1, <3>3 DEF TransactionInv, CallsApart
    <3> QED BY <3>1, <3>2, <3>3
  <2> QED BY <2>1 DEF CallsApart
<1> QED BY <1>1, <1>2, <1>3 DEF TransactionInv

\* The id a call drew stays its own.
LEMMA OneCallGoesOn ==
    ASSUME TransactionInv, UNCHANGED <<events, exceptions>>,
           NEW c \in Callers, NEW call \in CallRecords, calls' = [calls EXCEPT ![c] = call],
           CallOK(call, events), call.newId = calls[c].newId,
           \A d \in Callers \ {c} :
                HoldsTheRow(call) /\ HoldsTheRow(calls[d]) => call.series # calls[d].series
    PROVE  TransactionInv'
<1>1. \A d \in Callers \ {c} : call.newId # Null => call.newId # calls[d].newId
  BY DEF TransactionInv, CallsApart
<1> QED BY <1>1, OneCallMoves

LEMMA IdleIs ==
    /\ Idle \in CallRecords /\ Idle.newId = Null /\ ~HoldsTheRow(Idle)
    /\ \A committed : CallOK(Idle, committed)
<1>1. Unwritten \in [Ids -> StoredRows \cup {Null}] BY DEF Unwritten
<1>2. Idle.own = Unwritten /\ Idle.step = "idle" /\ Idle.newId = Null BY DEF Idle
<1>3. Idle \in CallRecords BY <1>1 DEF Idle, CallRecords
<1>4. \A committed : CallOK(Idle, committed)
  BY <1>2 DEF CallOK, KnowsItsRow, KeepsItsId, ReadsWhatIsThere, WritesItsPlan, HoldsTheRow
<1> QED BY <1>2, <1>3, <1>4 DEF HoldsTheRow

LEMMA ThrowKeeps ==
    ASSUME TransactionInv, NEW c \in Callers, Throw(c)
    PROVE  TransactionInv'
BY IdleIs, OneCallMoves DEF Throw

-----------------------------------------------------------------------------

LEMMA CreateKeeps ==
    ASSUME TransactionInv, NEW e \in Ids, NEW input \in Inputs, NEW payload \in Payloads,
           CreateEvent(e, input, payload)
    PROVE  TransactionInv'
<1> DEFINE row == [start |-> input.start, duration |-> input.duration, zone |-> input.zone,
                   dtstart |-> input.dtstart, rule |-> input.rule, fields |-> {payload},
                   version |-> 1, lifecycle |-> "active"]
<1>1. /\ \A f \in Ids : events[f] = Null
      /\ events' = [events EXCEPT ![e] = row] /\ UNCHANGED <<exceptions, calls>>
  BY DEF CreateEvent
<1>2. row \in StoredRows BY TransactionAssumption DEF StoredRows
<1> HIDE DEF row
<1>3. events' \in [Ids -> StoredRows \cup {Null}]
  BY <1>1, <1>2 DEF TransactionInv, TransactionTypeOK
<1>4. exceptions' \subseteq Exceptions BY <1>1 DEF TransactionInv, TransactionTypeOK
\* There is no row, so there is no call.
<1>5. ASSUME NEW c \in Callers PROVE ~HoldsTheRow(calls[c]) /\ calls[c].newId = Null
  <2>1. CallOK(calls[c], events) BY CallsTyped
  <2>2. calls[c].step = "idle" BY <1>1, <2>1 DEF CallOK, KnowsItsRow
  <2>3. calls[c].newId = Null BY <2>1, <2>2 DEF CallOK, KeepsItsId
  <2> QED BY <2>2, <2>3 DEF HoldsTheRow
<1> QED BY <1>1, <1>3, <1>4, <1>5, EventsMove

\* A row that only gains a version, and that no one holds.
LEMMA FreeRowMoves ==
    ASSUME TransactionInv, UNCHANGED calls, exceptions' \subseteq Exceptions,
           NEW e \in Ids, ~Locked(e), events[e] # Null,
           NEW row \in StoredRows, row.version = events[e].version + 1,
           events' = [events EXCEPT ![e] = row]
    PROVE  TransactionInv'
<1>1. events \in [Ids -> StoredRows \cup {Null}] BY DEF TransactionInv, TransactionTypeOK
<1>2. /\ events' \in [Ids -> StoredRows \cup {Null}]
      /\ events'[e] = row /\ \A f \in Ids \ {e} : events'[f] = events[f]
  BY <1>1
<1>3. row # Null /\ row.version > events[e].version BY <1>1, RowsLoad
<1>4. ASSUME NEW c \in Callers
      PROVE  /\ HoldsTheRow(calls[c]) => events'[calls[c].series] = events[calls[c].series]
             /\ calls[c].newId # Null => events'[calls[c].newId] = Null
  <2>1. KnowsItsRow(calls[c], events) /\ KeepsItsId(calls[c], events) BY CallsTyped DEF CallOK
  <2>2. HoldsTheRow(calls[c]) => calls[c].series # e /\ calls[c].series \in Ids
    BY <2>1 DEF HoldsTheRow, Locked, KnowsItsRow
  <2>3. calls[c].newId # Null => calls[c].newId # e /\ calls[c].newId \in Ids
                                  /\ events[calls[c].newId] = Null
    BY <2>1 DEF KeepsItsId
  <2> QED BY <1>2, <2>2, <2>3
<1> QED BY <1>2, <1>3, <1>4, EventsMove

LEMMA TrashKeeps ==
    ASSUME TransactionInv, NEW e \in Ids, TrashEvent(e)
    PROVE  TransactionInv'
<1>1. events[e] # Null /\ ~Locked(e) /\ UNCHANGED <<exceptions, calls>>
      /\ events' = [events EXCEPT ![e].lifecycle = "trashed", ![e].version = @ + 1]
  BY DEF TrashEvent, Active
<1>2. events[e] \in StoredRows BY <1>1 DEF TransactionInv, TransactionTypeOK
<1>3. PICK row : row = [events[e] EXCEPT !.lifecycle = "trashed", !.version = @ + 1] OBVIOUS
<1>4. row \in StoredRows /\ row.version = events[e].version + 1
  <2>1. PICK trashed : trashed = [events[e] EXCEPT !.lifecycle = "trashed"] OBVIOUS
  <2>2. trashed \in StoredRows /\ trashed.version = events[e].version
    BY <1>2, <2>1 DEF StoredRows
  <2>3. row = [trashed EXCEPT !.version = trashed.version + 1] BY <1>3, <2>1, <2>2
  <2> QED BY <2>2, <2>3, RowsLoad
<1>5. events' = [events EXCEPT ![e] = row] BY <1>1, <1>3
<1>6. exceptions' \subseteq Exceptions BY <1>1 DEF TransactionInv, TransactionTypeOK
<1> QED BY <1>1, <1>4, <1>5, <1>6, FreeRowMoves

LEMMA CancelKeeps ==
    ASSUME TransactionInv, NEW e \in Ids, NEW k \in ReadingsOf(e), CancelOccurrence(e, k)
    PROVE  TransactionInv'
<1>1. /\ events[e] # Null /\ ~Locked(e) /\ UNCHANGED calls
      /\ events' = [events EXCEPT ![e].version = @ + 1]
      /\ exceptions' = exceptions \cup {[series |-> e, at |-> k, kind |-> "cancelled", by |-> Null]}
  BY DEF CancelOccurrence, Active
<1>2. events[e] \in StoredRows BY <1>1 DEF TransactionInv, TransactionTypeOK
<1>3. PICK row : row = [events[e] EXCEPT !.version = @ + 1] OBVIOUS
<1>4. row \in StoredRows /\ row.version = events[e].version + 1 BY <1>2, <1>3 DEF StoredRows
<1>5. events' = [events EXCEPT ![e] = row] BY <1>1, <1>3
<1>6. k \in Int
  <2>1. LoadSeriesSpec(events[e]) \in Series BY <1>2, RowsLoad
  <2> QED BY <2>1, SeriesParts DEF ReadingsOf
<1>7. exceptions' \subseteq Exceptions
  BY <1>1, <1>6 DEF TransactionInv, TransactionTypeOK, Exceptions
<1> QED BY <1>1, <1>4, <1>5, <1>7, FreeRowMoves

-----------------------------------------------------------------------------

LEMMA CommandKeeps ==
    ASSUME TransactionInv, NEW c \in Callers, NEW e \in Ids, NEW k, NEW scope,
           NEW range \in Ranges \cup {Null}, NEW n, NEW payload \in Payloads,
           Command(c, e, k, scope, range, n, payload),
           \/ scope = "entire-series" /\ k = Null /\ n = Null
           \/ scope \in {"this", "this-and-future"} /\ k \in Int /\ n \in Free
    PROVE  TransactionInv'
<1> DEFINE call == [step |-> "open", series |-> e, occurrence |-> k, scope |-> scope,
                    range |-> range, newId |-> n, fields |-> {payload},
                    expected |-> events[e].version, current |-> Null, own |-> Unwritten,
                    excepted |-> {}]
<1>1. /\ events[e] # Null /\ calls' = [calls EXCEPT ![c] = call]
      /\ UNCHANGED <<events, exceptions>>
  BY DEF Command, Active
<1>2. events[e] \in StoredRows BY <1>1 DEF TransactionInv, TransactionTypeOK
<1>3. PICK seen \in Nat : seen = events[e].version BY <1>2, RowsLoad
<1>4. n \in Free => n \in Ids /\ events[n] = Null /\ \A d \in Callers : calls[d].newId # n
  BY DEF Free
<1>5. Unwritten \in [Ids -> StoredRows \cup {Null}] BY DEF Unwritten
<1>6. call \in CallRecords BY <1>3, <1>4, <1>5 DEF CallRecords
<1>7. /\ call.step = "open" /\ call.series = e /\ call.occurrence = k /\ call.scope = scope
      /\ call.newId = n /\ call.expected = seen /\ call.own = Unwritten
  BY <1>3
<1> HIDE DEF call
<1>8. ~HoldsTheRow(call) BY <1>7 DEF HoldsTheRow
<1>9. CallOK(call, events)
  <2>1. KnowsItsRow(call, events) BY <1>1, <1>3, <1>4, <1>7 DEF KnowsItsRow
  <2>2. KeepsItsId(call, events) BY <1>4, <1>7 DEF KeepsItsId
  <2>3. ReadsWhatIsThere(call, events) BY <1>7 DEF ReadsWhatIsThere
  <2>4. WritesItsPlan(call, events) BY <1>7, <1>8 DEF WritesItsPlan
  <2> QED BY <2>1, <2>2, <2>3, <2>4 DEF CallOK
<1> QED BY <1>1, <1>4, <1>6, <1>7, <1>8, <1>9, OneCallMoves

LEMMA CommandsKeep ==
    ASSUME TransactionInv, NEW c \in Callers, Commands(c)
    PROVE  TransactionInv'
<1>1. PICK e \in Ids, payload \in Payloads :
        /\ Active(e)
        /\ \/ Command(c, e, Null, "entire-series", Null, Null, payload)
           \/ \E n \in Free, k \in Places(e) :
                \/ \E range \in Ranges \cup {Null} :
                     Command(c, e, k, "this-and-future", range, n, payload)
                \/ Command(c, e, k, "this", Null, n, payload)
  BY DEF Commands
<1>2. \A k \in Places(e) : k \in Int
  <2>1. events[e] \in StoredRows BY <1>1 DEF TransactionInv, TransactionTypeOK, Active
  <2>2. LoadSeriesSpec(events[e]).dtstart \in Int BY <2>1, RowsLoad, SeriesParts
  <2> QED BY <2>2, ReadingParts, TransactionAssumption DEF Places
<1>3. CASE Command(c, e, Null, "entire-series", Null, Null, payload)
  BY <1>3, CommandKeeps
<1>4. ASSUME NEW n \in Free, NEW k \in Places(e), NEW range \in Ranges \cup {Null},
             Command(c, e, k, "this-and-future", range, n, payload)
      PROVE  TransactionInv'
  BY <1>2, <1>4, CommandKeeps
<1>5. ASSUME NEW n \in Free, NEW k \in Places(e), Command(c, e, k, "this", Null, n, payload)
      PROVE  TransactionInv'
  BY <1>2, <1>5, CommandKeeps
<1> QED BY <1>1, <1>3, <1>4, <1>5

-----------------------------------------------------------------------------

\* A call that took a step of its transaction.
Wrote(call, step, own, excepted) ==
    [call EXCEPT !.step = step, !.own = own, !.excepted = excepted]

LEMMA CallWrites ==
    ASSUME NEW call \in CallRecords, NEW step \in {"guarded", "written"},
           NEW own \in [Ids -> StoredRows \cup {Null}], NEW excepted \in SUBSET Exceptions
    PROVE  LET next == Wrote(call, step, own, excepted) IN
           /\ next \in CallRecords /\ next.step = step /\ next.own = own
           /\ next.series = call.series /\ next.occurrence = call.occurrence
           /\ next.scope = call.scope /\ next.newId = call.newId
           /\ next.expected = call.expected /\ next.current = call.current
           /\ PlannedScope(next) = PlannedScope(call) /\ PlanOf(next) = PlanOf(call)
           /\ Past(next) = Past(call) /\ Future(next) = Future(call)
<1> DEFINE next == Wrote(call, step, own, excepted)
<1>1. PICK moved : moved = [call EXCEPT !.step = step] OBVIOUS
<1>2. /\ moved \in CallRecords /\ moved.step = step
      /\ moved.series = call.series /\ moved.occurrence = call.occurrence
      /\ moved.scope = call.scope /\ moved.newId = call.newId
      /\ moved.expected = call.expected /\ moved.current = call.current
  BY <1>1 DEF CallRecords
<1>3. next = [moved EXCEPT !.own = own, !.excepted = excepted] BY <1>1 DEF Wrote
<1> HIDE DEF next
<1>4. /\ next \in CallRecords /\ next.step = step /\ next.own = own
      /\ next.series = call.series /\ next.occurrence = call.occurrence
      /\ next.scope = call.scope /\ next.newId = call.newId
      /\ next.expected = call.expected /\ next.current = call.current
  BY <1>2, <1>3 DEF CallRecords
<1>5. PlannedScope(next) = PlannedScope(call) /\ PlanOf(next) = PlanOf(call)
  BY <1>4 DEF PlannedScope, PlanOf
<1>6. Past(next) = Past(call)
  <2>1. CASE PlannedScope(call) = "this-and-future"
    <3>1. Past(next) = [next.current EXCEPT !.rule = PlanOf(next).truncated]
      BY <1>5, <2>1, Zenon DEF Past
    <3>2. Past(call) = [call.current EXCEPT !.rule = PlanOf(call).truncated]
      BY <2>1, Zenon DEF Past
    <3> QED BY <1>4, <1>5, <3>1, <3>2
  <2>2. CASE PlannedScope(call) # "this-and-future" BY <1>4, <1>5, <2>2, Zenon DEF Past
  <2> QED BY <2>1, <2>2
<1>7. Future(next) = Future(call) BY <1>4, <1>5, Zenon DEF Future
<1> QED BY <1>4, <1>5, <1>6, <1>7 DEF next

\* A split is of a series that repeats, at a reading, and its two rules are rules.
LEMMA PlansAreRules ==
    ASSUME NEW call \in CallRecords, call.current \in Series,
           PlannedScope(call) = "this-and-future", PlanOf(call).ok, call.occurrence \in Int
    PROVE  /\ call.scope = "this-and-future" /\ call.current.rule \in Rule
           /\ PlanOf(call).truncated = TruncateRrule(call.current.rule, JustBefore(call.occurrence))
           /\ PlanOf(call).newRule = RewriteSuccessorCount(call.current.rule,
                                       CountOccurrencesBefore(call.current, call.occurrence)).rule
           /\ PlanOf(call).truncated \in Rule /\ PlanOf(call).newRule \in Rule
<1>1. call.scope = "this-and-future" /\ call.current.rule # Null
  BY DEF PlannedScope
<1>2. call.current.rule \in Rule BY <1>1, SeriesParts
<1>3. PICK rule \in Rule, k \in Int, consumed \in Nat :
        rule = call.current.rule /\ k = call.occurrence
        /\ consumed = CountOccurrencesBefore(call.current, call.occurrence)
  BY <1>1, <1>2, ConsumedTyped
<1>4. /\ PlanOf(call).truncated = TruncateRrule(rule, JustBefore(k))
      /\ PlanOf(call).newRule = RewriteSuccessorCount(rule, consumed).rule
      /\ PlanOf(call).ok = RewriteSuccessorCount(rule, consumed).ok
  BY <1>1, <1>3 DEF PlanOf, PlanSeriesEdit
<1>5. TruncateRrule(rule, JustBefore(k)) \in Rule BY TruncatedIsRule DEF JustBefore
<1>6. RewriteSuccessorCount(rule, consumed).rule \in Rule
  <2>1. rule.count = 0 \/ rule.count - consumed >= 1 BY <1>4 DEF RewriteSuccessorCount
  <2>2. rule.count \in Nat BY DEF Rule
  <2>3. PICK left \in Nat : left = IF rule.count = 0 THEN 0 ELSE rule.count - consumed
    BY <2>1, <2>2
  <2>4. RewriteSuccessorCount(rule, consumed).rule = [rule EXCEPT !.count = left]
    BY <2>3 DEF RewriteSuccessorCount
  <2> QED BY <2>4 DEF Rule
<1> QED BY <1>1, <1>2, <1>3, <1>4, <1>5, <1>6

LEMMA LoadKeeps ==
    ASSUME TransactionInv, NEW c \in Callers, LoadSeries(c)
    PROVE  TransactionInv'
<1>1. CASE Throw(c) BY <1>1, ThrowKeeps
<1>2. CASE ~Throw(c)
  <2>1. PICK call \in CallRecords : call = calls[c] BY CallsTyped
  <2>2. PICK loaded : loaded = [call EXCEPT !.step = "loaded",
                                            !.current = LoadSeriesSpec(events[call.series])]
    OBVIOUS
  <2>3. /\ call.step = "open" /\ events[call.series] # Null
        /\ PlannedScope(loaded) = "this-and-future" => PlanOf(loaded).ok
        /\ calls' = [calls EXCEPT ![c] = loaded] /\ UNCHANGED <<events, exceptions>>
    BY <1>2, <2>1, <2>2 DEF LoadSeries
  <2>4. CallOK(call, events) BY <2>1, CallsTyped
  <2>5. KnowsItsRow(call, events) /\ KeepsItsId(call, events) /\ call.own = Unwritten
    BY <2>3, <2>4 DEF CallOK, WritesItsPlan
  <2>6. events[call.series] \in StoredRows
    BY <2>3, <2>5 DEF KnowsItsRow, TransactionInv, TransactionTypeOK
  <2>7. PICK current \in Series : current = LoadSeriesSpec(events[call.series])
    BY <2>6, RowsLoad
  <2>8. /\ loaded \in CallRecords /\ loaded.step = "loaded" /\ loaded.current = current
        /\ loaded.series = call.series /\ loaded.occurrence = call.occurrence
        /\ loaded.scope = call.scope /\ loaded.newId = call.newId
        /\ loaded.expected = call.expected /\ loaded.own = call.own
    <3>1. loaded = [call EXCEPT !.step = "loaded", !.current = current] BY <2>2, <2>7
    <3> QED BY <3>1 DEF CallRecords
  <2>9. ~HoldsTheRow(loaded) BY <2>8 DEF HoldsTheRow
  <2>10. CallOK(loaded, events)
    <3>1. KnowsItsRow(loaded, events) BY <2>3, <2>5, <2>8 DEF KnowsItsRow
    <3>2. KeepsItsId(loaded, events) BY <2>5, <2>8 DEF KeepsItsId
    <3>3. ReadsWhatIsThere(loaded, events) BY <2>3, <2>7, <2>8 DEF ReadsWhatIsThere
    <3>4. WritesItsPlan(loaded, events) BY <2>5, <2>8, <2>9 DEF WritesItsPlan
    <3> QED BY <3>1, <3>2, <3>3, <3>4 DEF CallOK
  <2> QED BY <2>1, <2>3, <2>8, <2>9, <2>10, OneCallGoesOn
<1> QED BY <1>1, <1>2

LEMMA UpdateKeeps ==
    ASSUME TransactionInv, NEW c \in Callers, UpdateSeries(c)
    PROVE  TransactionInv'
<1>1. CASE Throw(c) BY <1>1, ThrowKeeps
<1>2. CASE ~Throw(c)
  <2>1. PICK call \in CallRecords : call = calls[c] BY CallsTyped
  <2> DEFINE bumped == [events[call.series] EXCEPT !.version = @ + 1]
             row == IF PlannedScope(call) = "this-and-future"
                    THEN [bumped EXCEPT !.rule = PlanOf(call).truncated] ELSE bumped
             own == [call.own EXCEPT ![call.series] = row]
             next == Wrote(call, "guarded", own, ExceptionsOf(call.series))
  <2>2. /\ call.step = "loaded" /\ ~Locked(call.series) /\ VersionGuard(call)
        /\ calls' = [calls EXCEPT ![c] = next] /\ UNCHANGED <<events, exceptions>>
    BY <1>2, <2>1 DEF UpdateSeries, Wrote
  <2>3. /\ KnowsItsRow(call, events) /\ KeepsItsId(call, events)
        /\ ReadsWhatIsThere(call, events) /\ call.own = Unwritten
    <3>1. CallOK(call, events) BY <2>1, CallsTyped
    <3> QED BY <2>2, <3>1 DEF CallOK, WritesItsPlan
  <2>4. /\ call.series \in Ids /\ events[call.series] # Null
        /\ events[call.series].version = call.expected /\ call.expected \in Nat
    BY <2>2, <2>3 DEF KnowsItsRow, VersionGuard, CallRecords
  <2>5. /\ call.current \in Series /\ call.current = LoadSeriesSpec(events[call.series])
        /\ PlannedScope(call) = "this-and-future" => PlanOf(call).ok
    BY <2>2, <2>3, <2>4 DEF ReadsWhatIsThere
  <2>6. events[call.series] \in StoredRows BY <2>4 DEF TransactionInv, TransactionTypeOK
  <2>7. /\ bumped \in StoredRows /\ bumped.version = call.expected + 1
        /\ LoadSeriesSpec(bumped) = call.current
    <3>1. bumped = [events[call.series] EXCEPT !.version = call.expected + 1] BY <2>4
    <3>2. call.expected + 1 \in Nat BY <2>4
    <3> HIDE DEF bumped
    <3> QED BY <2>5, <2>6, <3>1, <3>2, RowsLoad
  <2> HIDE DEF bumped
  <2>8. /\ row \in StoredRows /\ row.version = call.expected + 1
        /\ LoadSeriesSpec(row) = Past(call)
    <3>1. CASE PlannedScope(call) = "this-and-future"
      <4>1. call.scope # "entire-series" BY <3>1 DEF PlannedScope
      <4>2. call.occurrence \in Int BY <2>2, <2>3, <4>1 DEF KnowsItsRow
      <4>3. PICK rule \in Rule : rule = PlanOf(call).truncated
        BY <2>5, <3>1, <4>2, PlansAreRules
      <4>4. row = [bumped EXCEPT !.rule = rule] BY <3>1, <4>3
      <4>5. Past(call) = [call.current EXCEPT !.rule = rule] BY <3>1, <4>3 DEF Past
      <4> HIDE DEF row
      <4> QED BY <2>7, <4>4, <4>5, RowsLoad
    <3>2. CASE PlannedScope(call) # "this-and-future"
      BY <2>7, <3>2 DEF Past
    <3> QED BY <3>1, <3>2
  <2> HIDE DEF row
  <2>9. /\ own \in [Ids -> StoredRows \cup {Null}] /\ own[call.series] = row /\ row # Null
        /\ \A e \in Ids \ {call.series} : own[e] = Null
    BY <2>3, <2>4, <2>8, RowsLoad DEF Unwritten
  <2>10. ExceptionsOf(call.series) \in SUBSET Exceptions
    BY DEF ExceptionsOf, TransactionInv, TransactionTypeOK
  <2> HIDE DEF own
  <2>11. /\ next \in CallRecords /\ next.step = "guarded" /\ next.own = own
         /\ next.series = call.series /\ next.occurrence = call.occurrence
         /\ next.scope = call.scope /\ next.newId = call.newId
         /\ next.expected = call.expected /\ next.current = call.current
         /\ PlannedScope(next) = PlannedScope(call) /\ PlanOf(next) = PlanOf(call)
         /\ Past(next) = Past(call)
    BY <2>9, <2>10, CallWrites
  <2> HIDE DEF next
  <2>12. CallOK(next, events)
    <3>1. KnowsItsRow(next, events) BY <2>2, <2>3, <2>11 DEF KnowsItsRow
    <3>2. KeepsItsId(next, events) BY <2>3, <2>11 DEF KeepsItsId
    <3>3. ReadsWhatIsThere(next, events) BY <2>5, <2>11 DEF ReadsWhatIsThere
    <3>4. WritesItsPlan(next, events) BY <2>4, <2>8, <2>9, <2>11 DEF WritesItsPlan
    <3> QED BY <3>1, <3>2, <3>3, <3>4 DEF CallOK
  <2>13. \A d \in Callers : HoldsTheRow(calls[d]) => calls[d].series # call.series
    BY <2>2 DEF Locked, HoldsTheRow
  <2>14. /\ \A d \in Callers \ {c} :
               HoldsTheRow(next) /\ HoldsTheRow(calls[d]) => next.series # calls[d].series
         /\ next \in CallRecords /\ next.newId = calls[c].newId
    BY <2>1, <2>11, <2>13
  <2>15. calls' = [calls EXCEPT ![c] = next] /\ UNCHANGED <<events, exceptions>> BY <2>2
  <2> QED BY <2>12, <2>14, <2>15, OneCallGoesOn
<1> QED BY <1>1, <1>2

\* From one held step to the next: the row stays held and stays as it was planned.
LEMMA HeldGoesOn ==
    ASSUME TransactionInv, UNCHANGED <<events, exceptions>>, NEW c \in Callers,
           NEW call \in CallRecords, call = calls[c], HoldsTheRow(call),
           NEW own \in [Ids -> StoredRows \cup {Null}], NEW excepted \in SUBSET Exceptions,
           calls' = [calls EXCEPT ![c] = Wrote(call, "written", own, excepted)],
           \A e \in Ids \ {call.newId} : own[e] = call.own[e],
           PlannedScope(call) = "this-and-future" => LoadSeriesSpec(own[call.newId]) = Future(call)
    PROVE  TransactionInv'
<1> DEFINE next == Wrote(call, "written", own, excepted)
<1>1. /\ KnowsItsRow(call, events) /\ KeepsItsId(call, events)
      /\ ReadsWhatIsThere(call, events) /\ WritesItsPlan(call, events)
  BY CallsTyped DEF CallOK
<1>2. call.series \in Ids /\ call.series # call.newId
  BY <1>1, PagesAssumption DEF HoldsTheRow, KnowsItsRow, KeepsItsId
<1>3. /\ next \in CallRecords /\ next.step = "written" /\ next.own = own
      /\ next.series = call.series /\ next.occurrence = call.occurrence
      /\ next.scope = call.scope /\ next.newId = call.newId
      /\ next.expected = call.expected /\ next.current = call.current
      /\ PlannedScope(next) = PlannedScope(call) /\ PlanOf(next) = PlanOf(call)
      /\ Past(next) = Past(call) /\ Future(next) = Future(call)
  BY CallWrites
<1>0. calls' = [calls EXCEPT ![c] = next] OBVIOUS
<1> HIDE DEF next
<1>4. KnowsItsRow(next, events) BY <1>1, <1>3 DEF KnowsItsRow, HoldsTheRow
<1>5. KeepsItsId(next, events) BY <1>1, <1>3 DEF KeepsItsId, HoldsTheRow
<1>6. ReadsWhatIsThere(next, events) BY <1>1, <1>3 DEF ReadsWhatIsThere, HoldsTheRow
<1>7. WritesItsPlan(next, events) BY <1>1, <1>2, <1>3 DEF WritesItsPlan, HoldsTheRow
<1>8. CallOK(next, events) BY <1>4, <1>5, <1>6, <1>7 DEF CallOK
<1>9. \A d \in Callers \ {c} : HoldsTheRow(calls[d]) => call.series # calls[d].series
  BY DEF TransactionInv, CallsApart
<1>10. /\ \A d \in Callers \ {c} :
            HoldsTheRow(next) /\ HoldsTheRow(calls[d]) => next.series # calls[d].series
       /\ next.newId = calls[c].newId
  BY <1>3, <1>9
<1> QED BY <1>0, <1>3, <1>8, <1>10, OneCallGoesOn

LEMMA HeldIs ==
    ASSUME TransactionInv, NEW c \in Callers, NEW call \in CallRecords, call = calls[c],
           HoldsTheRow(call)
    PROVE  /\ call.current \in Series /\ call.own \in [Ids -> StoredRows \cup {Null}]
           /\ call.excepted \subseteq Exceptions /\ call.fields \subseteq Payloads
           /\ call.series \in Ids
           /\ call.scope # "entire-series" => call.occurrence \in Int /\ call.newId \in Ids
           /\ PlannedScope(call) = "this-and-future" => PlanOf(call).ok
<1>1. KnowsItsRow(call, events) /\ ReadsWhatIsThere(call, events)
  BY CallsTyped DEF CallOK
<1> QED BY <1>1 DEF HoldsTheRow, KnowsItsRow, ReadsWhatIsThere, CallRecords

\* A row an edit inserts is a row, and is the series it was made from.
LEMMA NewRowIs ==
    ASSUME NEW call \in CallRecords, call.fields \subseteq Payloads, NEW series \in Series,
           SeriesReadings(series) # {}, NEW dtstart \in Int \cup {Null},
           dtstart # Null => dtstart = series.dtstart
    PROVE  /\ NewRow(call, series, dtstart) \in StoredRows
           /\ dtstart # Null => LoadSeriesSpec(NewRow(call, series, dtstart)) = series
<1>1. PICK start \in Int :
        start = Min({OccurrenceInstant(series.zone, r) : r \in SeriesReadings(series)})
  BY FirstInstant
<1>2. NewRow(call, series, dtstart) =
        [start |-> start, duration |-> series.duration, zone |-> series.zone,
         dtstart |-> dtstart, rule |-> series.rule, fields |-> call.fields,
         version |-> 1, lifecycle |-> "active"]
  BY <1>1 DEF NewRow
<1>3. PICK row : row = NewRow(call, series, dtstart) OBVIOUS
<1>4. row \in StoredRows
  <2>1. series.duration \in Nat /\ series.zone \in Zones /\ series.rule \in Rule \cup {Null}
    BY DEF Series
  <2> QED BY <1>2, <1>3, <2>1 DEF StoredRows
<1>5. row.duration = series.duration /\ row.zone = series.zone /\ row.dtstart = dtstart
      /\ row.rule = series.rule
  BY <1>2, <1>3
<1>6. dtstart # Null => LoadSeriesSpec(row) = series
  BY <1>5 DEF LoadSeriesSpec, Series
<1> QED BY <1>3, <1>4, <1>6

\* The row a split inserts is the future it planned.
LEMMA SuccessorIs ==
    ASSUME TransactionInv, NEW c \in Callers, NEW call \in CallRecords, call = calls[c],
           HoldsTheRow(call), PlannedScope(call) = "this-and-future",
           SeriesReadings(Future(call)) # {}
    PROVE  /\ NewRow(call, Future(call), call.occurrence) \in StoredRows
           /\ LoadSeriesSpec(NewRow(call, Future(call), call.occurrence)) = Future(call)
<1>1. /\ call.current \in Series /\ call.fields \subseteq Payloads /\ call.occurrence \in Int
      /\ PlanOf(call).ok
  <2>1. call.scope # "entire-series" BY DEF PlannedScope
  <2> QED BY <2>1, HeldIs
<1>2. PICK rule \in Rule : rule = PlanOf(call).newRule BY <1>1, PlansAreRules
<1>3. Future(call) = [call.current EXCEPT !.dtstart = call.occurrence, !.rule = rule]
  BY <1>2 DEF Future
<1>4. Future(call) \in Series /\ Future(call).dtstart = call.occurrence
  BY <1>1, <1>3 DEF Series
<1>5. call.occurrence # Null BY <1>1, NullAssumption
<1> QED BY <1>1, <1>4, <1>5, NewRowIs

LEMMA SuccessorKeeps ==
    ASSUME TransactionInv, NEW c \in Callers, InsertSuccessor(c)
    PROVE  TransactionInv'
<1>1. CASE Throw(c) BY <1>1, ThrowKeeps
<1>2. CASE ~Throw(c)
  <2>1. PICK call \in CallRecords : call = calls[c] BY CallsTyped
  <2>2. PICK row : row = NewRow(call, Future(call), call.occurrence) OBVIOUS
  <2> DEFINE own == [call.own EXCEPT ![call.newId] = row]
  <2>3. /\ call.step = "guarded" /\ PlannedScope(call) = "this-and-future"
        /\ SeriesReadings(Future(call)) # {}
        /\ calls' = [calls EXCEPT ![c] = Wrote(call, "written", own, MoveExceptions(call))]
        /\ UNCHANGED <<events, exceptions>>
    BY <1>2, <2>1, <2>2 DEF InsertSuccessor, Wrote, Future
  <2>4. HoldsTheRow(call) BY <2>3 DEF HoldsTheRow
  <2>5. /\ call.own \in [Ids -> StoredRows \cup {Null}] /\ call.excepted \subseteq Exceptions
        /\ call.newId \in Ids
    <3>1. call.scope # "entire-series" BY <2>3 DEF PlannedScope
    <3> QED BY <2>1, <2>3, <2>4, <3>1, HeldIs
  <2>6. row \in StoredRows /\ LoadSeriesSpec(row) = Future(call)
    BY <2>1, <2>2, <2>3, <2>4, SuccessorIs
  <2>7. /\ own \in [Ids -> StoredRows \cup {Null}] /\ own[call.newId] = row
        /\ \A e \in Ids \ {call.newId} : own[e] = call.own[e]
    BY <2>5, <2>6
  <2>8. MoveExceptions(call) \in SUBSET Exceptions
    <3>1. ASSUME NEW x \in Exceptions PROVE [x EXCEPT !.series = call.newId] \in Exceptions
      BY <2>5 DEF Exceptions
    <3> QED BY <2>5, <3>1 DEF MoveExceptions
  <2>9. LoadSeriesSpec(own[call.newId]) = Future(call) BY <2>6, <2>7
  <2> HIDE DEF own
  <2>10. PICK excepted \in SUBSET Exceptions : excepted = MoveExceptions(call) BY <2>8
  <2>11. /\ calls' = [calls EXCEPT ![c] = Wrote(call, "written", own, excepted)]
         /\ UNCHANGED <<events, exceptions>>
    BY <2>3, <2>10
  <2> QED BY <2>1, <2>4, <2>7, <2>9, <2>11, HeldGoesOn
<1> QED BY <1>1, <1>2

LEMMA DetachedKeeps ==
    ASSUME TransactionInv, NEW c \in Callers, InsertDetached(c)
    PROVE  TransactionInv'
<1>1. CASE Throw(c) BY <1>1, ThrowKeeps
<1>2. CASE ~Throw(c)
  <2>1. PICK call \in CallRecords : call = calls[c] BY CallsTyped
  <2>2. PICK single :
          single = [call.current EXCEPT !.dtstart = call.occurrence, !.rule = Null]
    OBVIOUS
  <2> DEFINE row == NewRow(call, single, Null)
             own == [call.own EXCEPT ![call.newId] = row]
             moved == [series |-> call.series, at |-> call.occurrence, kind |-> "moved",
                       by |-> call.newId]
             excepted == call.excepted \cup {moved}
  <2>3. /\ call.step = "guarded" /\ PlannedScope(call) = "this"
        /\ calls' = [calls EXCEPT ![c] = Wrote(call, "written", own, excepted)]
        /\ UNCHANGED <<events, exceptions>>
    BY <1>2, <2>1, <2>2 DEF InsertDetached, Wrote
  <2>4. HoldsTheRow(call) BY <2>3 DEF HoldsTheRow
  <2>5. /\ call.current \in Series /\ call.own \in [Ids -> StoredRows \cup {Null}]
        /\ call.excepted \subseteq Exceptions /\ call.fields \subseteq Payloads
        /\ call.occurrence \in Int /\ call.newId \in Ids /\ call.series \in Ids
    <3>1. call.scope # "entire-series" BY <2>3 DEF PlannedScope
    <3> QED BY <2>1, <2>3, <2>4, <3>1, HeldIs
  <2>6. single \in Series /\ single.rule = Null /\ single.dtstart = call.occurrence
    BY <2>2, <2>5 DEF Series
  <2>7. SeriesReadings(single) # {} BY <2>6 DEF SeriesReadings
  <2>8. row \in StoredRows BY <2>5, <2>6, <2>7, NewRowIs
  <2> HIDE DEF row
  <2>9. /\ own \in [Ids -> StoredRows \cup {Null}]
        /\ \A e \in Ids \ {call.newId} : own[e] = call.own[e]
    BY <2>5, <2>8
  <2>10. moved \in Exceptions BY <2>5 DEF Exceptions
  <2> HIDE DEF moved
  <2>11. excepted \in SUBSET Exceptions BY <2>5, <2>10
  <2>12. PlannedScope(call) # "this-and-future" BY <2>3
  <2> HIDE DEF own, excepted
  <2> QED BY <2>1, <2>3, <2>4, <2>9, <2>11, <2>12, HeldGoesOn
<1> QED BY <1>1, <1>2

LEMMA EntireKeeps ==
    ASSUME TransactionInv, NEW c \in Callers, EntireSeries(c)
    PROVE  TransactionInv'
<1>1. PICK call \in CallRecords : call = calls[c] BY CallsTyped
<1>2. call.step = "guarded" /\ PlannedScope(call) = "entire-series"
  BY <1>1 DEF EntireSeries
<1>3. UNCHANGED <<events, exceptions>> BY DEF EntireSeries
<1>4. calls' = [calls EXCEPT ![c] = Wrote(call, "written", call.own, call.excepted)]
  <2>1. calls' = [calls EXCEPT ![c] = [call EXCEPT !.step = "written"]]
    BY <1>1 DEF EntireSeries
  <2>2. PICK moved : moved = [call EXCEPT !.step = "written"] OBVIOUS
  <2>3. moved.own = call.own /\ moved.excepted = call.excepted /\ moved \in CallRecords
    BY <2>2 DEF CallRecords
  <2>4. Wrote(call, "written", call.own, call.excepted)
          = [moved EXCEPT !.own = call.own, !.excepted = call.excepted]
    BY <2>2 DEF Wrote
  <2>5. [moved EXCEPT !.own = call.own, !.excepted = call.excepted] = moved
    BY <2>3 DEF CallRecords
  <2> QED BY <2>1, <2>2, <2>4, <2>5
<1>5. HoldsTheRow(call) BY <1>2 DEF HoldsTheRow
<1>6. call.own \in [Ids -> StoredRows \cup {Null}] /\ call.excepted \in SUBSET Exceptions
  BY <1>1, <1>5, HeldIs
<1> QED BY <1>1, <1>2, <1>3, <1>4, <1>5, <1>6, HeldGoesOn

LEMMA CommitKeeps ==
    ASSUME TransactionInv, NEW c \in Callers, Commit(c)
    PROVE  TransactionInv'
<1>1. CASE Throw(c) BY <1>1, ThrowKeeps
<1>2. CASE ~Throw(c)
  <2>1. PICK call \in CallRecords : call = calls[c] BY CallsTyped
  <2>2. /\ call.step = "written"
        /\ events' = [e \in Ids |-> IF call.own[e] # Null THEN call.own[e] ELSE events[e]]
        /\ exceptions' = (exceptions \ ExceptionsOf(call.series)) \cup call.excepted
        /\ calls' = [calls EXCEPT ![c] = Idle]
    BY <1>2, <2>1 DEF Commit
  <2>3. HoldsTheRow(call) BY <2>2 DEF HoldsTheRow
  <2>4. /\ KnowsItsRow(call, events) /\ KeepsItsId(call, events) /\ WritesItsPlan(call, events)
        /\ call.own \in [Ids -> StoredRows \cup {Null}] /\ call.excepted \subseteq Exceptions
        /\ call.series \in Ids /\ call.expected \in Nat
    <3>1. CallOK(call, events) /\ call.expected \in Nat BY <2>1, CallsTyped
    <3> QED BY <2>1, <2>3, <3>1, HeldIs DEF CallOK
  <2>5. /\ events \in [Ids -> StoredRows \cup {Null}] /\ exceptions \subseteq Exceptions
        /\ calls \in [Callers -> CallRecords]
    BY DEF TransactionInv, TransactionTypeOK
  <2>6. /\ events' \in [Ids -> StoredRows \cup {Null}] /\ exceptions' \subseteq Exceptions
        /\ calls'[c] = Idle /\ \A d \in Callers \ {c} : calls'[d] = calls[d]
        /\ calls' \in [Callers -> CallRecords]
    BY <2>2, <2>4, <2>5, IdleIs DEF ExceptionsOf
  \* It writes its row, one version on, and the id it drew.
  <2>7. /\ events[call.series] # Null /\ events[call.series].version = call.expected
        /\ call.own[call.series] # Null /\ call.own[call.series].version = call.expected + 1
        /\ \A e \in Ids \ {call.series} : call.own[e] # Null => e = call.newId /\ events[e] = Null
    <3>1. ASSUME NEW e \in Ids, e # call.series, call.own[e] # Null
          PROVE  e = call.newId /\ events[e] = Null
      <4>1. e = call.newId BY <2>3, <2>4, <3>1 DEF WritesItsPlan
      <4>2. e # Null BY PagesAssumption
      <4> QED BY <2>4, <4>1, <4>2 DEF KeepsItsId
    <3> QED BY <2>3, <2>4, <3>1 DEF KnowsItsRow, WritesItsPlan, HoldsTheRow
  <2>8. ASSUME NEW e \in Ids, events[e] # Null
        PROVE  /\ events'[e] # Null
               /\ events'[e] = events[e] \/ events'[e].version > events[e].version
    <3>1. CASE e = call.series BY <2>2, <2>4, <2>7, <3>1
    <3>2. CASE e # call.series BY <2>2, <2>7, <2>8, <3>2
    <3> QED BY <3>1, <3>2
  <2>9. ASSUME NEW d \in Callers, d # c PROVE CallOK(calls[d], events')
    <3>1. PICK other \in CallRecords : other = calls[d] BY CallsTyped
    <3>2. CallOK(other, events) BY <3>1, CallsTyped
    <3>3. KnowsItsRow(other, events) /\ KeepsItsId(other, events) BY <3>2 DEF CallOK
    <3>4. HoldsTheRow(other) => events'[other.series] = events[other.series]
      <4>1. ASSUME HoldsTheRow(other) PROVE events'[other.series] = events[other.series]
        <5>1. other.series \in Ids /\ events[other.series] # Null
          BY <3>3, <4>1 DEF KnowsItsRow, HoldsTheRow
        <5>2. other.series # call.series
          BY <2>1, <2>3, <2>9, <3>1, <4>1 DEF TransactionInv, CallsApart
        <5> QED BY <2>2, <2>7, <5>1, <5>2
      <4> QED BY <4>1
    <3>5. other.newId # Null => events'[other.newId] = Null
      <4>1. ASSUME other.newId # Null PROVE events'[other.newId] = Null
        <5>1. other.newId \in Ids /\ events[other.newId] = Null
          BY <3>3, <4>1 DEF KeepsItsId
        <5>2. other.newId # call.newId
          BY <2>1, <2>9, <3>1, <4>1 DEF TransactionInv, CallsApart
        <5> QED BY <2>2, <2>7, <5>1, <5>2
      <4> QED BY <4>1
    <3>6. PICK committed, later : committed = events /\ later = events' OBVIOUS
    <3>7. CallOK(other, later)
      BY <2>5, <2>6, <2>8, <3>2, <3>4, <3>5, <3>6, CallOutlives
    <3> QED BY <3>1, <3>6, <3>7
  <2>10. \A d \in Callers : CallOK(calls'[d], events') BY <2>6, <2>9, IdleIs
  <2>11. CallsApart'
    <3>1. ASSUME NEW a \in Callers, NEW b \in Callers, a # b
          PROVE  /\ calls'[a].newId # Null => calls'[a].newId # calls'[b].newId
                 /\ HoldsTheRow(calls'[a]) /\ HoldsTheRow(calls'[b])
                      => calls'[a].series # calls'[b].series
      <4>1. CASE a = c BY <2>6, <4>1, IdleIs
      <4>2. CASE b = c BY <2>6, <3>1, <4>2, IdleIs
      <4>3. CASE a # c /\ b # c BY <2>6, <3>1, <4>3 DEF TransactionInv, CallsApart
      <4> QED BY <4>1, <4>2, <4>3
    <3> QED BY <3>1 DEF CallsApart
  <2> QED BY <2>6, <2>10, <2>11 DEF TransactionInv, TransactionTypeOK
<1> QED BY <1>1, <1>2

LEMMA TransactionStepKeeps ==
    ASSUME TransactionInv, TransactionNext
    PROVE  TransactionInv'
<1>1. CASE \E e \in Ids, input \in Inputs, payload \in Payloads : CreateEvent(e, input, payload)
  BY <1>1, CreateKeeps
<1>2. CASE \E e \in Ids : TrashEvent(e) BY <1>2, TrashKeeps
<1>3. CASE \E e \in {f \in Ids : Active(f)} :
             \E k \in ReadingsOf(e) \cap Places(e) : CancelOccurrence(e, k)
  BY <1>3, CancelKeeps
<1>4. ASSUME NEW c \in Callers,
             \/ Commands(c) \/ LoadSeries(c) \/ UpdateSeries(c)
             \/ InsertSuccessor(c) \/ InsertDetached(c) \/ EntireSeries(c)
             \/ Commit(c) \/ Interrupted(c)
      PROVE  TransactionInv'
  <2>1. CASE Interrupted(c) BY <2>1, ThrowKeeps DEF Interrupted
  <2> QED BY <1>4, <2>1, CommandsKeep, LoadKeeps, UpdateKeeps, SuccessorKeeps, DetachedKeeps,
          EntireKeeps, CommitKeeps
<1> QED BY <1>1, <1>2, <1>3, <1>4 DEF TransactionNext

LEMMA TransactionStarts ==
    ASSUME TransactionInit
    PROVE  TransactionInv
<1>1. \A c \in Callers : calls[c] = Idle BY DEF TransactionInit
<1>2. TransactionTypeOK BY IdleIs DEF TransactionInit, TransactionTypeOK
<1>3. CallsApart BY <1>1, IdleIs DEF CallsApart
<1> QED BY <1>1, <1>2, <1>3, IdleIs DEF TransactionInv

\* Whatever callers are in the middle of: each knows its row and its id, holds its
\* row alone, and has written the plan of the row it read.
THEOREM TransactionsAlwaysApart == SeriesSpec => []TransactionInv
<1>1. SeriesInit => TransactionInv BY TransactionStarts DEF SeriesInit
<1>2. TransactionInv /\ [SeriesNext]_seriesVars => TransactionInv'
  <2> SUFFICES ASSUME TransactionInv, [SeriesNext]_seriesVars PROVE TransactionInv'
    OBVIOUS
  <2>1. CASE TransactionNext BY <2>1, TransactionStepKeeps
  <2>2. CASE UNCHANGED transactionVars
    BY <2>2 DEF transactionVars, TransactionInv, TransactionTypeOK, CallsApart
  <2> QED BY <2>1, <2>2 DEF SeriesNext, seriesVars
<1> QED BY <1>1, <1>2, PTL DEF SeriesSpec

LEMMA GateIs ==
    ASSUME TransactionInv
    PROVE  GateAcceptsOccurrences
<1> SUFFICES ASSUME NEW c \in Callers, calls[c].step = "written",
                    PlannedScope(calls[c]) = "this-and-future",
                    calls[c].occurrence \in SeriesReadings(calls[c].current)
             PROVE  StoredSplitReproduces(calls[c]) /\ HalvesAreWhole(calls[c])
  BY DEF GateAcceptsOccurrences, Splitting
<1>1. PICK call \in CallRecords : call = calls[c] BY CallsTyped
<1>2. HoldsTheRow(call) BY <1>1 DEF HoldsTheRow
<1>3. WritesItsPlan(call, events) BY <1>1, CallsTyped DEF CallOK
<1>4. call.current \in Series /\ call.occurrence \in Int /\ PlanOf(call).ok
      /\ call.own \in [Ids -> StoredRows \cup {Null}] /\ call.series \in Ids /\ call.newId \in Ids
  <2>1. call.scope # "entire-series" BY <1>1 DEF PlannedScope
  <2> QED BY <1>1, <1>2, <2>1, HeldIs
<1>5. /\ call.current.rule \in Rule
      /\ PlanOf(call).truncated = TruncateRrule(call.current.rule, JustBefore(call.occurrence))
      /\ PlanOf(call).newRule = RewriteSuccessorCount(call.current.rule,
                                  CountOccurrencesBefore(call.current, call.occurrence)).rule
      /\ PlanOf(call).truncated \in Rule /\ PlanOf(call).newRule \in Rule
  BY <1>1, <1>4, PlansAreRules
<1>6. PICK past, future :
        /\ past = LoadSeriesSpec(call.own[call.series])
        /\ future = LoadSeriesSpec(call.own[call.newId])
  OBVIOUS
<1>7. /\ past = [call.current EXCEPT !.rule = PlanOf(call).truncated]
      /\ future = [call.current EXCEPT !.dtstart = call.occurrence, !.rule = PlanOf(call).newRule]
  BY <1>1, <1>2, <1>3, <1>6 DEF WritesItsPlan, Past, Future
<1>8. past \in Series /\ future \in Series
  BY <1>4, <1>5, <1>7 DEF Series
<1> QED BY <1>1, <1>4, <1>5, <1>6, <1>7, <1>8, GatePasses

\* editRepeatingSeries turns no split down that is made at an occurrence: the two
\* rows it has stored by then show what the series showed, over the range it
\* verifies and beyond, whoever else committed while it was at work.
THEOREM GateAlwaysAccepts == SeriesSpec => []GateAcceptsOccurrences
BY TransactionsAlwaysApart, GateIs, PTL

-----------------------------------------------------------------------------
(* Transactions: what the committed rows show                              *)

\* Readings at one hour of the day that fall together are one reading.
LEMMA SameHourApart ==
    ASSUME NEW zone \in Zones, Narrow(zone), NEW r \in Int, NEW s \in Int,
           HourOf(r) = HourOf(s), OccurrenceInstant(zone, r) = OccurrenceInstant(zone, s)
    PROVE  r = s
<1>1. zone.before \in Int /\ zone.after \in Int
      /\ zone.after - zone.before <= 23 /\ zone.before - zone.after <= 23
  BY DEF Zones, Narrow
<1>2. OccurrenceInstant(zone, r) \in {r - zone.before, r - zone.after}
      /\ OccurrenceInstant(zone, s) \in {s - zone.before, s - zone.after}
  BY InstantIs
<1>3. r - s <= 23 /\ s - r <= 23 BY <1>1, <1>2
<1> QED BY <1>3 DEF HourOf, Hours

\* The instants a row shows when the occurrences at `gone` are excepted.
InstantsIn(row, gone) ==
    {OccurrenceInstant(row.zone, r) : r \in SeriesReadings(LoadSeriesSpec(row)) \ gone}

ExceptedIn(table, e) == {x \in table : x.series = e}
Slots(excepted) == {x.at : x \in excepted}

LEMMA InstantsAre ==
    \A e : InstantsOf(e) = InstantsIn(events[e], Slots(ExceptedIn(exceptions, e)))
BY DEF InstantsOf, InstantsIn, ReadingsOf, ExceptionsOf, ExceptedIn, Slots

LEMMA InstantsNext ==
    \A e : InstantsOf(e)' = InstantsIn(events'[e], Slots(ExceptedIn(exceptions', e)))
BY DEF InstantsOf, InstantsIn, ReadingsOf, ExceptionsOf, ExceptedIn, Slots

\* Two readings of one row never fall together.
LEMMA ReadingsApart ==
    ASSUME NEW row \in StoredRows, Narrow(row.zone),
           NEW r \in SeriesReadings(LoadSeriesSpec(row)),
           NEW s \in SeriesReadings(LoadSeriesSpec(row)),
           OccurrenceInstant(row.zone, r) = OccurrenceInstant(row.zone, s)
    PROVE  r = s
<1>1. PICK series \in Series : series = LoadSeriesSpec(row) BY RowsLoad
<1>2. series.dtstart \in Int /\ r \in Int /\ s \in Int BY <1>1, SeriesParts
<1>3. row.zone \in Zones BY DEF StoredRows
<1>4. CASE series.rule = Null BY <1>1, <1>4 DEF SeriesReadings
<1>5. CASE series.rule # Null
  <2>1. r \in Readings(series.rule, series.dtstart) /\ s \in Readings(series.rule, series.dtstart)
    BY <1>1, <1>5 DEF SeriesReadings
  <2>2. HourOf(r) = HourOf(s) BY <1>2, <2>1, ReadingsAre
  <2> QED BY <1>2, <1>3, <2>2, SameHourApart
<1> QED BY <1>4, <1>5

\* So what is taken out of its readings is taken out of its instants, and parts of
\* its readings are parts of its instants.
LEMMA PartsOfRow ==
    ASSUME NEW row \in StoredRows, Narrow(row.zone), NEW gone,
           NEW past, NEW future,
           past \cup future = SeriesReadings(LoadSeriesSpec(row)) \ gone,
           past \cap future = {}
    PROVE  LET instant(S) == {OccurrenceInstant(row.zone, r) : r \in S} IN
           /\ instant(past) \cup instant(future) = InstantsIn(row, gone)
           /\ instant(past) \cap instant(future) = {}
<1>1. \A r \in past, s \in future :
        OccurrenceInstant(row.zone, r) # OccurrenceInstant(row.zone, s)
  <2> SUFFICES ASSUME NEW r \in past, NEW s \in future,
                      OccurrenceInstant(row.zone, r) = OccurrenceInstant(row.zone, s)
               PROVE  FALSE
    OBVIOUS
  <2>1. r \in SeriesReadings(LoadSeriesSpec(row)) /\ s \in SeriesReadings(LoadSeriesSpec(row))
    OBVIOUS
  <2>2. r = s BY <2>1, ReadingsApart
  <2> QED BY <2>2
<1> QED BY <1>1 DEF InstantsIn


\* What a caller stands on: an active row, and for one occurrence the occurrence.
Picked(call, committed) ==
    call.step # "idle" =>
        /\ call.scope \in {"entire-series", "this-and-future", "this"}
        /\ committed[call.series].version = call.expected =>
             /\ committed[call.series].lifecycle = "active"
             /\ call.scope = "this" =>
                  call.occurrence \in SeriesReadings(LoadSeriesSpec(committed[call.series]))

HandedOn(call, excepted) ==
    {IF x.at >= call.occurrence THEN [x EXCEPT !.series = call.newId] ELSE x : x \in excepted}

DetachedRow(call) ==
    LET row == call.own[call.newId] IN
    /\ row # Null /\ row.lifecycle = "active" /\ row.zone = call.current.zone
    /\ InstantsIn(row, {}) = {OccurrenceInstant(call.current.zone, call.occurrence)}

MovedBy(call) ==
    [series |-> call.series, at |-> call.occurrence, kind |-> "moved", by |-> call.newId]

\* The exceptions a transaction wrote are those of its row and what it did to them.
WritesItsExceptions(call, table) ==
    LET excepted == ExceptedIn(table, call.series) IN
    /\ HoldsTheRow(call) => call.own[call.series].lifecycle = "active"
    /\ call.step = "guarded" \/ (call.step = "written" /\ PlannedScope(call) = "entire-series") =>
         /\ call.excepted = excepted
         /\ call.newId # Null => call.own[call.newId] = Null
    /\ call.step = "written" /\ PlannedScope(call) = "this-and-future" =>
         /\ call.own[call.newId] # Null /\ call.own[call.newId].lifecycle = "active"
         /\ call.excepted = HandedOn(call, excepted)
    /\ call.step = "written" /\ PlannedScope(call) = "this" =>
         /\ DetachedRow(call)
         /\ \A x \in excepted : x.at # call.occurrence
         /\ call.excepted = excepted \cup {MovedBy(call)}

StandsOn(call, committed, table) ==
    Picked(call, committed) /\ WritesItsExceptions(call, table)

NarrowRows == \A e \in Ids : events[e] # Null => Narrow(events[e].zone)
ExceptionsHaveRows == \A x \in exceptions : events[x.series] # Null

StandInv ==
    /\ TransactionInv /\ NarrowRows /\ ExceptionsHaveRows
    /\ \A c \in Callers : StandsOn(calls[c], events, exceptions)

LEMMA StandOutlives ==
    ASSUME NEW committed \in [Ids -> StoredRows \cup {Null}],
           NEW later \in [Ids -> StoredRows \cup {Null}], NEW table, NEW laterTable,
           NEW call \in CallRecords, CallOK(call, committed), StandsOn(call, committed, table),
           \A e \in Ids : committed[e] # Null =>
                /\ later[e] # Null
                /\ later[e] = committed[e] \/ later[e].version > committed[e].version,
           HoldsTheRow(call) =>
                ExceptedIn(laterTable, call.series) = ExceptedIn(table, call.series)
    PROVE  StandsOn(call, later, laterTable)
<1>1. call.expected \in Nat BY DEF CallRecords
<1>2. call.step # "idle" => /\ call.series \in Ids /\ committed[call.series] # Null
                            /\ call.expected <= committed[call.series].version
  BY DEF CallOK, KnowsItsRow
<1>3. \A e \in Ids : /\ committed[e] # Null => committed[e].version \in Nat
                     /\ later[e] # Null => later[e].version \in Nat
  BY RowsLoad
<1>4. call.step # "idle" /\ later[call.series].version = call.expected
        => later[call.series] = committed[call.series]
  BY <1>1, <1>2, <1>3
<1>5. Picked(call, later) BY <1>4 DEF StandsOn, Picked
<1>6. WritesItsExceptions(call, laterTable)
  <2>1. CASE HoldsTheRow(call) BY <2>1 DEF StandsOn, WritesItsExceptions
  <2>2. CASE ~HoldsTheRow(call) BY <2>2 DEF WritesItsExceptions, HoldsTheRow
  <2> QED BY <2>1, <2>2
<1> QED BY <1>5, <1>6 DEF StandsOn

LEMMA IdleStands == \A committed, table : StandsOn(Idle, committed, table)
BY DEF StandsOn, Picked, WritesItsExceptions, HoldsTheRow, Idle

\* What changes one call and no row.
LEMMA OneCallStands ==
    ASSUME StandInv, TransactionInv', UNCHANGED <<events, exceptions>>,
           NEW c \in Callers, NEW call, calls' = [calls EXCEPT ![c] = call],
           StandsOn(call, events, exceptions)
    PROVE  StandInv'
<1>1. calls'[c] = call /\ \A d \in Callers \ {c} : calls'[d] = calls[d]
  BY DEF StandInv, TransactionInv, TransactionTypeOK
<1>2. \A d \in Callers : StandsOn(calls'[d], events', exceptions')
  BY <1>1 DEF StandInv
<1>3. NarrowRows' /\ ExceptionsHaveRows' BY DEF StandInv, NarrowRows, ExceptionsHaveRows
<1> QED BY <1>2, <1>3 DEF StandInv

LEMMA ThrowStands ==
    ASSUME StandInv, NEW c \in Callers, Throw(c)
    PROVE  StandInv'
<1>1. TransactionInv' BY ThrowKeeps DEF StandInv
<1> QED BY <1>1, IdleStands, OneCallStands DEF Throw

\* What changes rows, of the calls that go on.
LEMMA OthersStand ==
    ASSUME StandInv, TransactionInv', NEW c \in Callers, calls'[c] = calls[c],
           \A e \in Ids : events[e] # Null =>
                /\ events'[e] # Null
                /\ events'[e] = events[e] \/ events'[e].version > events[e].version,
           HoldsTheRow(calls[c]) =>
                ExceptedIn(exceptions', calls[c].series) = ExceptedIn(exceptions, calls[c].series)
    PROVE  StandsOn(calls'[c], events', exceptions')
<1>1. PICK call \in CallRecords : call = calls[c] BY CallsTyped DEF StandInv
<1>2. CallOK(call, events) /\ StandsOn(call, events, exceptions)
  BY <1>1, CallsTyped DEF StandInv
<1>3. events \in [Ids -> StoredRows \cup {Null}] /\ events' \in [Ids -> StoredRows \cup {Null}]
  BY DEF StandInv, TransactionInv, TransactionTypeOK
<1>4. PICK committed, later : committed = events /\ later = events' OBVIOUS
<1>5. StandsOn(call, later, exceptions') BY <1>1, <1>2, <1>3, <1>4, StandOutlives
<1> QED BY <1>1, <1>4, <1>5


\* A row that only gains a version, and that no one holds.
LEMMA FreeRowStands ==
    ASSUME StandInv, TransactionInv', UNCHANGED calls,
           NEW e \in Ids, ~Locked(e), events[e] # Null,
           NEW row \in StoredRows, row.version = events[e].version + 1,
           row.zone = events[e].zone, events' = [events EXCEPT ![e] = row],
           \A f \in Ids \ {e} : ExceptedIn(exceptions', f) = ExceptedIn(exceptions, f),
           \A x \in exceptions' : x \in exceptions \/ x.series = e
    PROVE  StandInv'
<1>1. events \in [Ids -> StoredRows \cup {Null}] /\ exceptions \subseteq Exceptions
  BY DEF StandInv, TransactionInv, TransactionTypeOK
<1>2. /\ events'[e] = row /\ \A f \in Ids \ {e} : events'[f] = events[f]
      /\ row # Null /\ row.version > events[e].version
  BY <1>1, RowsLoad
<1>3. NarrowRows' BY <1>2 DEF StandInv, NarrowRows
<1>4. ExceptionsHaveRows'
  <2>1. \A x \in exceptions : x.series \in Ids BY <1>1 DEF Exceptions
  <2> QED BY <1>2, <2>1 DEF StandInv, ExceptionsHaveRows
<1>5. ASSUME NEW c \in Callers PROVE StandsOn(calls'[c], events', exceptions')
  <2>1. HoldsTheRow(calls[c]) => calls[c].series \in Ids /\ calls[c].series # e
    BY CallsTyped DEF StandInv, CallOK, KnowsItsRow, HoldsTheRow, Locked
  <2> QED BY <1>2, <2>1, OthersStand
<1> QED BY <1>3, <1>4, <1>5 DEF StandInv

LEMMA CreateStands ==
    ASSUME StandInv, ShortJumps, NEW e \in Ids, NEW input \in Inputs, NEW payload \in Payloads,
           CreateEvent(e, input, payload)
    PROVE  StandInv' /\ EditsKeepTheCalendar'
<1> DEFINE row == [start |-> input.start, duration |-> input.duration, zone |-> input.zone,
                   dtstart |-> input.dtstart, rule |-> input.rule, fields |-> {payload},
                   version |-> 1, lifecycle |-> "active"]
<1>0. TransactionInv' BY CreateKeeps DEF StandInv
<1>1. /\ \A f \in Ids : events[f] = Null
      /\ events' = [events EXCEPT ![e] = row] /\ UNCHANGED <<exceptions, calls>>
      /\ promised' = {OccurrenceInstant(input.zone, r) :
                        r \in SeriesReadings(LoadSeriesSpec(events'[e]))}
  BY DEF CreateEvent
<1>2. row.zone = input.zone /\ row.lifecycle = "active" OBVIOUS
<1>3. row \in StoredRows BY TransactionAssumption DEF StoredRows
<1> HIDE DEF row
<1>4. row # Null BY <1>3, RowsLoad
<1>5. /\ events \in [Ids -> StoredRows \cup {Null}] /\ exceptions \subseteq Exceptions
      /\ events'[e] = row /\ \A f \in Ids \ {e} : events'[f] = Null
  BY <1>1 DEF StandInv, TransactionInv, TransactionTypeOK
<1>6. exceptions = {}
  <2>1. \A x \in exceptions : x.series \in Ids BY <1>5 DEF Exceptions
  <2> QED BY <1>1, <2>1 DEF StandInv, ExceptionsHaveRows
<1>7. NarrowRows' /\ ExceptionsHaveRows'
  BY <1>1, <1>2, <1>5, <1>6 DEF ShortJumps, NarrowRows, ExceptionsHaveRows
<1>8. ASSUME NEW c \in Callers PROVE StandsOn(calls'[c], events', exceptions')
  <2>1. calls[c].step = "idle"
    BY <1>1, CallsTyped DEF StandInv, CallOK, KnowsItsRow
  <2> QED BY <1>1, <2>1 DEF StandsOn, Picked, WritesItsExceptions, HoldsTheRow
<1>9. StandInv' BY <1>0, <1>7, <1>8 DEF StandInv
<1>10. {f \in Ids : Active(f)}' = {e} BY <1>2, <1>4, <1>5 DEF Active
<1>11. InstantsOf(e)' = promised'
  BY <1>1, <1>2, <1>5, <1>6 DEF InstantsOf, ReadingsOf, ExceptionsOf
<1>12. EditsKeepTheCalendar' BY <1>10, <1>11 DEF EditsKeepTheCalendar
<1> QED BY <1>9, <1>12

LEMMA TrashStands ==
    ASSUME StandInv, EditsKeepTheCalendar, NEW e \in Ids, TrashEvent(e)
    PROVE  StandInv' /\ EditsKeepTheCalendar'
<1>0. TransactionInv' BY TrashKeeps DEF StandInv
<1>1. /\ Active(e) /\ events[e] # Null /\ ~Locked(e) /\ UNCHANGED <<exceptions, calls>>
      /\ events' = [events EXCEPT ![e].lifecycle = "trashed", ![e].version = @ + 1]
      /\ promised' = promised \ InstantsOf(e)
  BY DEF TrashEvent, Active
<1>2. events \in [Ids -> StoredRows \cup {Null}] /\ events[e] \in StoredRows
  BY <1>1 DEF StandInv, TransactionInv, TransactionTypeOK
<1>3. PICK row : row = [events[e] EXCEPT !.lifecycle = "trashed", !.version = @ + 1] OBVIOUS
<1>4. /\ row.zone = events[e].zone /\ row.lifecycle = "trashed"
      /\ row.version = events[e].version + 1 /\ row \in StoredRows
  <2>1. PICK v \in Nat : v = events[e].version + 1
    <3>1. events[e].version \in Nat BY <1>2, RowsLoad
    <3> QED BY <3>1
  <2>2. PICK trashed : trashed = [events[e] EXCEPT !.lifecycle = "trashed"] OBVIOUS
  <2>3. /\ trashed \in StoredRows /\ trashed.version = events[e].version
        /\ trashed.zone = events[e].zone /\ trashed.lifecycle = "trashed"
    BY <1>2, <2>2 DEF StoredRows
  <2>4. row = [trashed EXCEPT !.version = v] BY <1>3, <2>1, <2>2, <2>3
  <2> QED BY <2>1, <2>3, <2>4 DEF StoredRows
<1>5. events' = [events EXCEPT ![e] = row] BY <1>1, <1>3
<1>6. StandInv' BY <1>0, <1>1, <1>4, <1>5, FreeRowStands
<1>7. events'[e] = row /\ \A f \in Ids \ {e} : events'[f] = events[f] BY <1>2, <1>5
<1>8. {f \in Ids : Active(f)}' = {f \in Ids : Active(f)} \ {e}
  BY <1>4, <1>7 DEF Active
<1>9. \A f \in Ids \ {e} : InstantsOf(f)' = InstantsOf(f)
  BY <1>1, <1>7 DEF InstantsOf, ReadingsOf, ExceptionsOf
<1>10. EditsKeepTheCalendar'
  <2>1. \A f, g \in {h \in Ids : Active(h)} : f # g => InstantsOf(f) \cap InstantsOf(g) = {}
    BY DEF EditsKeepTheCalendar
  <2>2. UNION {InstantsOf(f) : f \in {h \in Ids : Active(h)}} = promised
    BY DEF EditsKeepTheCalendar
  <2>3. UNION {InstantsOf(f)' : f \in {h \in Ids : Active(h)} \ {e}}
          = UNION {InstantsOf(f) : f \in {h \in Ids : Active(h)} \ {e}}
    BY <1>9
  <2>4. UNION {InstantsOf(f) : f \in {h \in Ids : Active(h)} \ {e}} = promised \ InstantsOf(e)
    BY <1>1, <2>1, <2>2
  <2>5. \A f, g \in {h \in Ids : Active(h)} \ {e} :
          f # g => InstantsOf(f)' \cap InstantsOf(g)' = {}
    BY <1>9, <2>1
  <2> QED BY <1>1, <1>8, <2>3, <2>4, <2>5 DEF EditsKeepTheCalendar
<1> QED BY <1>6, <1>10

LEMMA CancelStands ==
    ASSUME StandInv, EditsKeepTheCalendar, NEW e \in Ids, NEW k \in ReadingsOf(e),
           CancelOccurrence(e, k)
    PROVE  StandInv' /\ EditsKeepTheCalendar'
<1> DEFINE cancelled == [series |-> e, at |-> k, kind |-> "cancelled", by |-> Null]
           gone == Slots(ExceptedIn(exceptions, e))
<1>0. TransactionInv' BY CancelKeeps DEF StandInv
<1>1. /\ Active(e) /\ events[e] # Null /\ ~Locked(e) /\ UNCHANGED calls
      /\ events' = [events EXCEPT ![e].version = @ + 1]
      /\ exceptions' = exceptions \cup {cancelled}
      /\ promised' = promised \ {OccurrenceInstant(events[e].zone, k)}
  BY DEF CancelOccurrence, Active
<1>2. events \in [Ids -> StoredRows \cup {Null}] /\ events[e] \in StoredRows
  BY <1>1 DEF StandInv, TransactionInv, TransactionTypeOK
<1>3. PICK v \in Nat : v = events[e].version + 1
  <2>1. events[e].version \in Nat BY <1>2, RowsLoad
  <2> QED BY <2>1
<1>14. PICK row : row = [events[e] EXCEPT !.version = v] OBVIOUS
<1>4. /\ row.zone = events[e].zone /\ row.lifecycle = events[e].lifecycle
      /\ row.version = events[e].version + 1 /\ row \in StoredRows /\ row # Null
      /\ LoadSeriesSpec(row) = LoadSeriesSpec(events[e])
  <2>1. row.zone = events[e].zone /\ row.lifecycle = events[e].lifecycle
    BY <1>2, <1>14 DEF StoredRows
  <2> QED BY <1>2, <1>3, <1>14, <2>1, RowsLoad
<1>5. events' = [events EXCEPT ![e] = row] BY <1>1, <1>2, <1>3, <1>14
<1>6. cancelled.series = e /\ cancelled.at = k OBVIOUS
<1> HIDE DEF cancelled
<1>7. /\ \A f \in Ids \ {e} : ExceptedIn(exceptions', f) = ExceptedIn(exceptions, f)
      /\ ExceptedIn(exceptions', e) = ExceptedIn(exceptions, e) \cup {cancelled}
      /\ \A x \in exceptions' : x \in exceptions \/ x.series = e
  BY <1>1, <1>6 DEF ExceptedIn
<1>8. StandInv' BY <1>0, <1>1, <1>4, <1>5, <1>7, FreeRowStands
<1>9. events'[e] = row /\ \A f \in Ids \ {e} : events'[f] = events[f] BY <1>2, <1>5
<1>10. {f \in Ids : Active(f)}' = {f \in Ids : Active(f)}
  BY <1>1, <1>4, <1>9 DEF Active
<1>11. \A f \in Ids \ {e} : InstantsOf(f)' = InstantsOf(f)
  BY <1>7, <1>9, InstantsAre, InstantsNext
<1>12. InstantsOf(e)' = InstantsOf(e) \ {OccurrenceInstant(events[e].zone, k)}
  <2>1. Slots(ExceptedIn(exceptions', e)) = gone \cup {k} BY <1>6, <1>7 DEF Slots
  <2>2. InstantsOf(e)' = InstantsIn(row, gone \cup {k})
    BY <1>9, <2>1 DEF InstantsOf, InstantsIn, ReadingsOf, ExceptionsOf, Slots, ExceptedIn
  <2>3. InstantsOf(e) = InstantsIn(events[e], gone) BY InstantsAre
  <2>4. k \in SeriesReadings(LoadSeriesSpec(events[e])) /\ k \notin gone
    BY DEF ReadingsOf, ExceptionsOf, ExceptedIn, Slots
  <2>5. Narrow(events[e].zone) BY <1>1 DEF StandInv, NarrowRows
  <2> DEFINE left == SeriesReadings(LoadSeriesSpec(events[e])) \ (gone \cup {k})
             instant(S) == {OccurrenceInstant(events[e].zone, r) : r \in S}
  <2>6. left \cup {k} = SeriesReadings(LoadSeriesSpec(events[e])) \ gone /\ left \cap {k} = {}
    BY <2>4
  <2>7. instant(left) \cup instant({k}) = InstantsIn(events[e], gone)
        /\ instant(left) \cap instant({k}) = {}
    BY <1>2, <2>5, <2>6, PartsOfRow
  <2>8. InstantsIn(row, gone \cup {k}) = instant(left) BY <1>4 DEF InstantsIn
  <2>9. instant({k}) = {OccurrenceInstant(events[e].zone, k)} OBVIOUS
  <2> HIDE DEF instant
  <2> QED BY <2>2, <2>3, <2>7, <2>8, <2>9
<1>13. EditsKeepTheCalendar'
  <2> DEFINE shown == {h \in Ids : Active(h)}
             i == OccurrenceInstant(events[e].zone, k)
  <2>1. \A f, g \in shown : f # g => InstantsOf(f) \cap InstantsOf(g) = {}
    BY DEF EditsKeepTheCalendar
  <2>2. UNION {InstantsOf(f) : f \in shown} = promised BY DEF EditsKeepTheCalendar
  <2>3. e \in shown /\ i \in InstantsOf(e)
    BY <1>1 DEF InstantsOf
  <2>4. \A f \in shown : InstantsOf(f)' = InstantsOf(f) \ {i}
    BY <1>11, <1>12, <2>1, <2>3
  <2> HIDE DEF i
  <2>5. UNION {InstantsOf(f)' : f \in shown} = promised \ {i} BY <2>2, <2>4
  <2>6. \A f, g \in shown : f # g => InstantsOf(f)' \cap InstantsOf(g)' = {}
    BY <2>1, <2>4
  <2> QED BY <1>1, <1>10, <2>5, <2>6 DEF EditsKeepTheCalendar, i
<1> QED BY <1>8, <1>13


LEMMA CommandStands ==
    ASSUME StandInv, NEW c \in Callers, Commands(c)
    PROVE  StandInv'
<1>0. TransactionInv' BY CommandsKeep DEF StandInv
<1>1. PICK e \in Ids, payload \in Payloads :
        \E k, scope, range, n :
           /\ Active(e)
           /\ Command(c, e, k, scope, range, n, payload)
           /\ scope \in {"entire-series", "this-and-future", "this"}
           /\ scope = "this" => k \in SeriesReadings(LoadSeriesSpec(events[e]))
  <2>1. PICK e \in Ids, payload \in Payloads :
          /\ Active(e)
          /\ \/ Command(c, e, Null, "entire-series", Null, Null, payload)
             \/ \E n \in Free, k \in Places(e) :
                  \/ \E range \in Ranges \cup {Null} :
                       Command(c, e, k, "this-and-future", range, n, payload)
                  \/ /\ k \in SeriesReadings(LoadSeriesSpec(events[e]))
                     /\ Command(c, e, k, "this", Null, n, payload)
    BY DEF Commands
  <2>2. CASE Command(c, e, Null, "entire-series", Null, Null, payload) BY <2>1, <2>2
  <2>3. ASSUME NEW n \in Free, NEW k \in Places(e), NEW range \in Ranges \cup {Null},
               Command(c, e, k, "this-and-future", range, n, payload)
        PROVE  \E scope :
                 /\ Command(c, e, k, scope, range, n, payload)
                 /\ scope \in {"entire-series", "this-and-future", "this"}
                 /\ scope = "this" => k \in SeriesReadings(LoadSeriesSpec(events[e]))
    BY <2>3
  <2>4. ASSUME NEW n \in Free, NEW k \in SeriesReadings(LoadSeriesSpec(events[e])),
               Command(c, e, k, "this", Null, n, payload)
        PROVE  \E scope :
                 /\ Command(c, e, k, scope, Null, n, payload)
                 /\ scope \in {"entire-series", "this-and-future", "this"}
                 /\ scope = "this" => k \in SeriesReadings(LoadSeriesSpec(events[e]))
    BY <2>4
  <2> QED BY <2>1, <2>2, <2>3, <2>4
<1>2. PICK k, scope, range, n :
        /\ Active(e)
        /\ Command(c, e, k, scope, range, n, payload)
        /\ scope \in {"entire-series", "this-and-future", "this"}
        /\ scope = "this" => k \in SeriesReadings(LoadSeriesSpec(events[e]))
  BY <1>1
<1> DEFINE call == [step |-> "open", series |-> e, occurrence |-> k, scope |-> scope,
                    range |-> range, newId |-> n, fields |-> {payload},
                    expected |-> events[e].version, current |-> Null, own |-> Unwritten,
                    excepted |-> {}]
<1>3. calls' = [calls EXCEPT ![c] = call] /\ UNCHANGED <<events, exceptions>>
  BY <1>2 DEF Command
<1>4. /\ call.step = "open" /\ call.series = e /\ call.occurrence = k /\ call.scope = scope
      OBVIOUS
<1> HIDE DEF call
<1>5. events[e].lifecycle = "active" BY <1>2 DEF Active
<1>6. StandsOn(call, events, exceptions)
  BY <1>2, <1>4, <1>5 DEF StandsOn, Picked, WritesItsExceptions, HoldsTheRow
<1> QED BY <1>0, <1>3, <1>6, OneCallStands

LEMMA LoadStands ==
    ASSUME StandInv, NEW c \in Callers, LoadSeries(c)
    PROVE  StandInv'
<1>1. CASE Throw(c) BY <1>1, ThrowStands
<1>2. CASE ~Throw(c)
  <2>0. TransactionInv' BY LoadKeeps DEF StandInv
  <2>1. PICK call \in CallRecords : call = calls[c] BY CallsTyped DEF StandInv
  <2>2. PICK current : current = LoadSeriesSpec(events[call.series]) OBVIOUS
  <2>3. PICK loaded : loaded = [call EXCEPT !.step = "loaded", !.current = current] OBVIOUS
  <2>4. /\ call.step = "open" /\ calls' = [calls EXCEPT ![c] = loaded]
        /\ UNCHANGED <<events, exceptions>>
    BY <1>2, <2>1, <2>2, <2>3 DEF LoadSeries
  <2>5. /\ loaded.step = "loaded" /\ loaded.series = call.series
        /\ loaded.occurrence = call.occurrence /\ loaded.scope = call.scope
        /\ loaded.expected = call.expected
    BY <2>3 DEF CallRecords
  <2>6. Picked(call, events) BY <2>1 DEF StandInv, StandsOn
  <2>7. StandsOn(loaded, events, exceptions)
    BY <2>4, <2>5, <2>6 DEF StandsOn, Picked, WritesItsExceptions, HoldsTheRow
  <2> QED BY <2>0, <2>4, <2>7, OneCallStands
<1> QED BY <1>1, <1>2

LEMMA UpdateStands ==
    ASSUME StandInv, NEW c \in Callers, UpdateSeries(c)
    PROVE  StandInv'
<1>1. CASE Throw(c) BY <1>1, ThrowStands
<1>2. CASE ~Throw(c)
  <2>0. TransactionInv /\ TransactionInv' BY UpdateKeeps DEF StandInv
  <2>1. PICK call \in CallRecords : call = calls[c] BY <2>0, CallsTyped
  <2> DEFINE bumped == [events[call.series] EXCEPT !.version = @ + 1]
             row == IF PlannedScope(call) = "this-and-future"
                    THEN [bumped EXCEPT !.rule = PlanOf(call).truncated] ELSE bumped
             own == [call.own EXCEPT ![call.series] = row]
             next == Wrote(call, "guarded", own, ExceptionsOf(call.series))
  <2>2. /\ call.step = "loaded" /\ VersionGuard(call)
        /\ calls' = [calls EXCEPT ![c] = next] /\ UNCHANGED <<events, exceptions>>
    BY <1>2, <2>1 DEF UpdateSeries, Wrote
  <2>3. /\ call.series \in Ids /\ events[call.series] # Null
        /\ events[call.series].version = call.expected /\ call.own = Unwritten
        /\ KeepsItsId(call, events) /\ Picked(call, events)
    <3>1. CallOK(call, events) /\ StandsOn(call, events, exceptions)
      BY <2>0, <2>1, CallsTyped DEF StandInv
    <3> QED BY <2>2, <3>1 DEF CallOK, KnowsItsRow, WritesItsPlan, VersionGuard, StandsOn
  <2>4. events[call.series] \in StoredRows /\ events[call.series].lifecycle = "active"
    BY <2>0, <2>2, <2>3 DEF TransactionInv, TransactionTypeOK, Picked
  <2>5. row.lifecycle = "active"
    <3>1. bumped.lifecycle = "active" /\ DOMAIN bumped = DOMAIN events[call.series]
      BY <2>4 DEF StoredRows
    <3>2. "lifecycle" \in DOMAIN bumped BY <2>4, <3>1 DEF StoredRows
    <3> HIDE DEF bumped
    <3> QED BY <3>1, <3>2
  <2> HIDE DEF row
  <2>6. own[call.series] = row /\ \A e \in Ids \ {call.series} : own[e] = Null
    BY <2>3 DEF Unwritten
  <2>7. call.newId # Null => call.newId \in Ids \ {call.series}
    BY <2>3 DEF KeepsItsId
  <2> HIDE DEF own
  <2>8. /\ next.step = "guarded" /\ next.series = call.series /\ next.newId = call.newId
        /\ next.own = own /\ next.excepted = ExceptionsOf(call.series)
        /\ next.scope = call.scope /\ next.occurrence = call.occurrence
        /\ next.expected = call.expected
    BY DEF Wrote, CallRecords
  <2> HIDE DEF next
  <2>9. Picked(next, events) BY <2>2, <2>3, <2>8 DEF Picked
  <2>10. WritesItsExceptions(next, exceptions)
    BY <2>5, <2>6, <2>7, <2>8 DEF WritesItsExceptions, ExceptionsOf, ExceptedIn
  <2>11. StandsOn(next, events, exceptions) BY <2>9, <2>10 DEF StandsOn
  <2> QED BY <2>0, <2>2, <2>11, OneCallStands
<1> QED BY <1>1, <1>2

\* What the next statement of a held transaction leaves of the call.
LEMMA HeldParts ==
    ASSUME StandInv, NEW c \in Callers, NEW call \in CallRecords, call = calls[c],
           call.step = "guarded", NEW own, NEW excepted,
           \A e \in Ids \ {call.newId} : own[e] = call.own[e]
    PROVE  LET next == Wrote(call, "written", own, excepted)
               table == ExceptedIn(exceptions, call.series) IN
           /\ next.step = "written" /\ next.series = call.series /\ next.newId = call.newId
           /\ next.own = own /\ next.excepted = excepted
           /\ next.scope = call.scope /\ next.occurrence = call.occurrence
           /\ next.expected = call.expected /\ next.current = call.current
           /\ PlannedScope(next) = PlannedScope(call)
           /\ Picked(next, events)
           /\ own[call.series].lifecycle = "active"
           /\ call.excepted = table
           /\ call.newId # Null => call.own[call.newId] = Null
<1> DEFINE next == Wrote(call, "written", own, excepted)
<1>1. /\ next.step = "written" /\ next.series = call.series /\ next.newId = call.newId
      /\ next.own = own /\ next.excepted = excepted
      /\ next.scope = call.scope /\ next.occurrence = call.occurrence
      /\ next.expected = call.expected /\ next.current = call.current
  BY DEF Wrote, CallRecords
<1> HIDE DEF next
<1>2. PlannedScope(next) = PlannedScope(call) BY <1>1 DEF PlannedScope
<1>3. /\ CallOK(call, events) /\ Picked(call, events) /\ WritesItsExceptions(call, exceptions)
      /\ HoldsTheRow(call)
  BY CallsTyped DEF StandInv, StandsOn, HoldsTheRow
<1>4. call.series \in Ids /\ call.series # call.newId
  BY <1>3, PagesAssumption DEF CallOK, KnowsItsRow, KeepsItsId
<1>5. Picked(next, events) BY <1>1, <1>3 DEF Picked
<1>6. own[call.series].lifecycle = "active" BY <1>3, <1>4 DEF WritesItsExceptions
<1>7. /\ call.excepted = ExceptedIn(exceptions, call.series)
      /\ call.newId # Null => call.own[call.newId] = Null
  BY <1>3 DEF WritesItsExceptions
<1> QED BY <1>1, <1>2, <1>5, <1>6, <1>7 DEF next

LEMMA EntireStands ==
    ASSUME StandInv, NEW c \in Callers, EntireSeries(c)
    PROVE  StandInv'
<1>0. TransactionInv' BY EntireKeeps DEF StandInv
<1>1. PICK call \in CallRecords : call = calls[c] BY CallsTyped DEF StandInv
<1> DEFINE next == Wrote(call, "written", call.own, call.excepted)
<1>2. /\ call.step = "guarded" /\ PlannedScope(call) = "entire-series"
      /\ UNCHANGED <<events, exceptions>>
  BY <1>1 DEF EntireSeries
<1>3. calls' = [calls EXCEPT ![c] = next]
  <2>1. calls' = [calls EXCEPT ![c] = [call EXCEPT !.step = "written"]]
    BY <1>1 DEF EntireSeries
  <2>2. PICK moved : moved = [call EXCEPT !.step = "written"] OBVIOUS
  <2>3. moved.own = call.own /\ moved.excepted = call.excepted /\ moved \in CallRecords
    BY <2>2 DEF CallRecords
  <2>4. next = [moved EXCEPT !.own = call.own, !.excepted = call.excepted]
    BY <2>2 DEF Wrote
  <2>5. [moved EXCEPT !.own = call.own, !.excepted = call.excepted] = moved
    BY <2>3 DEF CallRecords
  <2> QED BY <2>1, <2>2, <2>4, <2>5
<1>4. /\ next.step = "written" /\ next.series = call.series /\ next.newId = call.newId
      /\ next.own = call.own /\ next.excepted = call.excepted
      /\ PlannedScope(next) = "entire-series" /\ Picked(next, events)
      /\ call.own[call.series].lifecycle = "active"
      /\ call.excepted = ExceptedIn(exceptions, call.series)
      /\ call.newId # Null => call.own[call.newId] = Null
  BY <1>1, <1>2, HeldParts
<1> HIDE DEF next
<1>5. WritesItsExceptions(next, exceptions) BY <1>4 DEF WritesItsExceptions
<1> QED BY <1>0, <1>2, <1>3, <1>4, <1>5, OneCallStands DEF StandsOn

\* The row a detached occurrence becomes shows its instant.
Single(call) == [call.current EXCEPT !.dtstart = call.occurrence, !.rule = Null]

LEMMA SingleIs ==
    ASSUME TransactionInv, NEW c \in Callers, NEW call \in CallRecords, call = calls[c],
           HoldsTheRow(call), PlannedScope(call) = "this"
    PROVE  LET row == NewRow(call, Single(call), Null) IN
           /\ row \in StoredRows /\ row.zone = call.current.zone
           /\ InstantsIn(row, {}) = {OccurrenceInstant(call.current.zone, call.occurrence)}
<1>1. /\ call.current \in Series /\ call.fields \subseteq Payloads /\ call.occurrence \in Int
  <2>1. call.scope # "entire-series" BY DEF PlannedScope
  <2> QED BY <2>1, HeldIs
<1>2. PICK single : single = Single(call) OBVIOUS
<1>3. /\ single \in Series /\ single.rule = Null /\ single.dtstart = call.occurrence
      /\ single.zone = call.current.zone
  BY <1>1, <1>2 DEF Single, Series
<1>4. SeriesReadings(single) = {call.occurrence} BY <1>3 DEF SeriesReadings
<1>5. PICK zone \in Zones, i \in Int : /\ zone = call.current.zone
                                       /\ i = OccurrenceInstant(zone, call.occurrence)
  BY <1>1, StoredInstantReturns DEF Series
<1>6. PICK row \in StoredRows : row = NewRow(call, single, Null)
  BY <1>1, <1>3, <1>4, NewRowIs
<1>7. row.start = i /\ row.zone = zone /\ row.dtstart = Null /\ row.rule = Null
  <2>1. {OccurrenceInstant(zone, r) : r \in {call.occurrence}} = {i, i} BY <1>5
  <2>2. Min({i, i}) = i BY OfTwo
  <2>3. row.start = Min({OccurrenceInstant(single.zone, r) : r \in SeriesReadings(single)})
    BY <1>6 DEF NewRow
  <2>4. row.start = i BY <1>3, <1>4, <1>5, <2>1, <2>2, <2>3
  <2>5. row.zone = single.zone /\ row.dtstart = Null /\ row.rule = single.rule
    BY <1>6 DEF NewRow
  <2> QED BY <1>3, <1>5, <2>4, <2>5
<1>8. SeriesReadings(LoadSeriesSpec(row)) = {WallAt(zone, i)}
  BY <1>7 DEF LoadSeriesSpec, SeriesReadings
<1>9. OccurrenceInstant(zone, WallAt(zone, i)) = i BY <1>1, <1>5, StoredInstantReturns
<1>10. InstantsIn(row, {}) = {i} BY <1>7, <1>8, <1>9 DEF InstantsIn
<1> QED BY <1>2, <1>5, <1>6, <1>7, <1>10

LEMMA SuccessorStands ==
    ASSUME StandInv, NEW c \in Callers, InsertSuccessor(c)
    PROVE  StandInv'
<1>1. CASE Throw(c) BY <1>1, ThrowStands
<1>2. CASE ~Throw(c)
  <2>0. TransactionInv /\ TransactionInv' BY SuccessorKeeps DEF StandInv
  <2>1. PICK call \in CallRecords : call = calls[c] BY <2>0, CallsTyped
  <2>2. PICK row : row = NewRow(call, Future(call), call.occurrence) OBVIOUS
  <2> DEFINE own == [call.own EXCEPT ![call.newId] = row]
             next == Wrote(call, "written", own, MoveExceptions(call))
  <2>3. /\ call.step = "guarded" /\ PlannedScope(call) = "this-and-future"
        /\ SeriesReadings(Future(call)) # {}
        /\ calls' = [calls EXCEPT ![c] = next] /\ UNCHANGED <<events, exceptions>>
    BY <1>2, <2>1, <2>2 DEF InsertSuccessor, Wrote, Future
  <2>4. HoldsTheRow(call) BY <2>3 DEF HoldsTheRow
  <2>5. call.own \in [Ids -> StoredRows \cup {Null}] /\ call.newId \in Ids
    <3>1. call.scope # "entire-series" BY <2>3 DEF PlannedScope
    <3> QED BY <2>0, <2>1, <2>4, <3>1, HeldIs
  <2>6. row.lifecycle = "active" BY <2>2 DEF NewRow
  <2>7. row # Null
    <3>1. row \in StoredRows BY <2>0, <2>1, <2>2, <2>3, <2>4, SuccessorIs
    <3> QED BY <3>1, RowsLoad
  <2>8. own[call.newId] = row /\ \A e \in Ids \ {call.newId} : own[e] = call.own[e]
    BY <2>5
  <2> HIDE DEF own
  <2>9. /\ next.step = "written" /\ next.series = call.series /\ next.newId = call.newId
        /\ next.own = own /\ next.excepted = MoveExceptions(call)
        /\ next.occurrence = call.occurrence
        /\ PlannedScope(next) = "this-and-future" /\ Picked(next, events)
        /\ own[call.series].lifecycle = "active"
        /\ call.excepted = ExceptedIn(exceptions, call.series)
    BY <2>1, <2>3, <2>8, HeldParts
  <2> HIDE DEF next
  <2>10. next.excepted = HandedOn(next, ExceptedIn(exceptions, next.series))
    BY <2>9 DEF MoveExceptions, HandedOn
  <2>11. WritesItsExceptions(next, exceptions)
    BY <2>6, <2>7, <2>8, <2>9, <2>10 DEF WritesItsExceptions
  <2> QED BY <2>0, <2>3, <2>9, <2>11, OneCallStands DEF StandsOn
<1> QED BY <1>1, <1>2

LEMMA DetachedStands ==
    ASSUME StandInv, NEW c \in Callers, InsertDetached(c)
    PROVE  StandInv'
<1>1. CASE Throw(c) BY <1>1, ThrowStands
<1>2. CASE ~Throw(c)
  <2>0. TransactionInv /\ TransactionInv' BY DetachedKeeps DEF StandInv
  <2>1. PICK call \in CallRecords : call = calls[c] BY <2>0, CallsTyped
  <2>2. PICK row : row = NewRow(call, Single(call), Null) OBVIOUS
  <2> DEFINE own == [call.own EXCEPT ![call.newId] = row]
             excepted == call.excepted \cup {MovedBy(call)}
             next == Wrote(call, "written", own, excepted)
  <2>3. /\ call.step = "guarded" /\ PlannedScope(call) = "this"
        /\ \A x \in call.excepted : x.at # call.occurrence
        /\ calls' = [calls EXCEPT ![c] = next] /\ UNCHANGED <<events, exceptions>>
    BY <1>2, <2>1, <2>2 DEF InsertDetached, Wrote, Single, MovedBy
  <2>4. HoldsTheRow(call) BY <2>3 DEF HoldsTheRow
  <2>5. call.own \in [Ids -> StoredRows \cup {Null}] /\ call.newId \in Ids
    <3>1. call.scope # "entire-series" BY <2>3 DEF PlannedScope
    <3> QED BY <2>0, <2>1, <2>4, <3>1, HeldIs
  <2>6. row.lifecycle = "active" BY <2>2 DEF NewRow
  <2>7. /\ row # Null /\ row.zone = call.current.zone
        /\ InstantsIn(row, {}) = {OccurrenceInstant(call.current.zone, call.occurrence)}
    BY <2>0, <2>1, <2>2, <2>3, <2>4, SingleIs, RowsLoad
  <2>8. own[call.newId] = row /\ \A e \in Ids \ {call.newId} : own[e] = call.own[e]
    BY <2>5
  <2> HIDE DEF own
  <2>9. /\ next.step = "written" /\ next.series = call.series /\ next.newId = call.newId
        /\ next.own = own /\ next.excepted = excepted
        /\ next.occurrence = call.occurrence /\ next.current = call.current
        /\ PlannedScope(next) = "this" /\ Picked(next, events)
        /\ own[call.series].lifecycle = "active"
        /\ call.excepted = ExceptedIn(exceptions, call.series)
    BY <2>1, <2>3, <2>8, HeldParts
  <2> HIDE DEF next
  <2>10. DetachedRow(next) BY <2>6, <2>7, <2>8, <2>9 DEF DetachedRow
  <2>11. MovedBy(next) = MovedBy(call) BY <2>9 DEF MovedBy
  <2>12. WritesItsExceptions(next, exceptions)
    BY <2>3, <2>9, <2>10, <2>11 DEF WritesItsExceptions
  <2> QED BY <2>0, <2>3, <2>9, <2>12, OneCallStands DEF StandsOn
<1> QED BY <1>1, <1>2


-----------------------------------------------------------------------------

\* A commit that goes through: of the row the caller picked, as it still is.
LEMMA CommittedIs ==
    ASSUME StandInv, NEW c \in Callers, Commit(c), ~Throw(c),
           NEW call \in CallRecords, call = calls[c]
    PROVE  LET e == call.series
               n == call.newId IN
           /\ call.step = "written" /\ HoldsTheRow(call)
           /\ PlannedScope(call) \in {"entire-series", "this-and-future", "this"}
           /\ PlannedScope(call) = "this-and-future" => StoredSplitReproduces(call)
           /\ PlannedScope(call) = "this" => call.scope = "this"
           /\ e \in Ids /\ Active(e) /\ events[e] \in StoredRows /\ Narrow(events[e].zone)
           /\ call.current \in Series /\ call.current = LoadSeriesSpec(events[e])
           /\ events'[e] = call.own[e] /\ events'[e] \in StoredRows
           /\ events'[e].lifecycle = "active" /\ events'[e].version > events[e].version
           /\ LoadSeriesSpec(events'[e]) = Past(call)
           /\ \A f \in Ids \ {e, n} : events'[f] = events[f]
           /\ n # Null =>
                /\ n \in Ids \ {e} /\ events[n] = Null /\ ExceptedIn(exceptions, n) = {}
                /\ events'[n] = call.own[n]
           /\ exceptions' = (exceptions \ ExceptedIn(exceptions, e)) \cup call.excepted
           /\ calls'[c] = Idle /\ \A d \in Callers \ {c} : calls'[d] = calls[d]
           /\ promised' = promised
           /\ Picked(call, events) /\ WritesItsExceptions(call, exceptions)
           /\ events[e].version = call.expected
<1> DEFINE e == call.series
           n == call.newId
<1>0. TransactionInv BY DEF StandInv
<1>1. /\ call.step = "written"
      /\ PlannedScope(call) = "this-and-future" => StoredSplitReproduces(call)
      /\ events' = [f \in Ids |-> IF call.own[f] # Null THEN call.own[f] ELSE events[f]]
      /\ exceptions' = (exceptions \ ExceptedIn(exceptions, e)) \cup call.excepted
      /\ calls' = [calls EXCEPT ![c] = Idle] /\ promised' = promised
  BY DEF Commit, ExceptionsOf, ExceptedIn
<1>2. HoldsTheRow(call) BY <1>1 DEF HoldsTheRow
<1>3. /\ KnowsItsRow(call, events) /\ KeepsItsId(call, events)
      /\ ReadsWhatIsThere(call, events) /\ WritesItsPlan(call, events)
      /\ Picked(call, events) /\ WritesItsExceptions(call, exceptions)
  BY <1>0, CallsTyped DEF CallOK, StandInv, StandsOn
<1>4. /\ e \in Ids /\ events[e] # Null /\ events[e].version = call.expected
      /\ call.expected \in Nat
      /\ call.own[e] # Null /\ call.own[e].version = call.expected + 1
      /\ LoadSeriesSpec(call.own[e]) = Past(call)
      /\ \A f \in Ids \ {e, n} : call.own[f] = Null
      /\ call.current \in Series /\ call.current = LoadSeriesSpec(events[e])
      /\ call.own \in [Ids -> StoredRows \cup {Null}]
  <2>1. call.expected \in Nat /\ call.own \in [Ids -> StoredRows \cup {Null}]
    BY DEF CallRecords
  <2>2. e \in Ids /\ events[e] # Null BY <1>1, <1>3 DEF KnowsItsRow
  <2>3. /\ events[e].version = call.expected
        /\ call.own[e] # Null /\ call.own[e].version = call.expected + 1
        /\ LoadSeriesSpec(call.own[e]) = Past(call)
        /\ \A f \in Ids \ {e, n} : call.own[f] = Null
    BY <1>2, <1>3 DEF WritesItsPlan
  <2>4. call.current \in Series /\ call.current = LoadSeriesSpec(events[e])
    BY <1>1, <1>3, <2>3 DEF ReadsWhatIsThere
  <2> QED BY <2>1, <2>2, <2>3, <2>4
<1>5. events \in [Ids -> StoredRows \cup {Null}] /\ calls \in [Callers -> CallRecords]
      /\ exceptions \subseteq Exceptions
  BY <1>0 DEF TransactionInv, TransactionTypeOK
<1>6. Active(e) /\ events[e] \in StoredRows /\ Narrow(events[e].zone)
  BY <1>1, <1>3, <1>4, <1>5 DEF Picked, Active, StandInv, NarrowRows
<1>7. /\ events'[e] = call.own[e] /\ events'[e] \in StoredRows
      /\ events'[e].version > events[e].version
      /\ LoadSeriesSpec(events'[e]) = Past(call)
      /\ \A f \in Ids \ {e, n} : events'[f] = events[f]
  BY <1>1, <1>4
<1>8. events'[e].lifecycle = "active"
  BY <1>2, <1>3, <1>7 DEF WritesItsExceptions
<1>9. call.scope \in {"entire-series", "this-and-future", "this"}
  BY <1>1, <1>3 DEF Picked
<1>10. /\ PlannedScope(call) \in {"entire-series", "this-and-future", "this"}
       /\ PlannedScope(call) = "this" => call.scope = "this"
  BY <1>9 DEF PlannedScope
<1>11. ASSUME n # Null
       PROVE  /\ n \in Ids \ {e} /\ events[n] = Null /\ ExceptedIn(exceptions, n) = {}
              /\ events'[n] = call.own[n]
  <2>1. n \in Ids \ {e} /\ events[n] = Null BY <1>3, <1>4, <1>11 DEF KeepsItsId
  <2>2. ExceptedIn(exceptions, n) = {} BY <2>1 DEF StandInv, ExceptionsHaveRows, ExceptedIn
  <2> QED BY <1>1, <2>1, <2>2
<1>12. calls'[c] = Idle /\ \A d \in Callers \ {c} : calls'[d] = calls[d] BY <1>1, <1>5
<1> HIDE DEF e, n
<1> QED BY <1>1, <1>2, <1>3, <1>4, <1>6, <1>7, <1>8, <1>10, <1>11, <1>12 DEF e, n

\* One row becomes two that share out its instants, or one that shows the same.
LEMMA CalendarSplits ==
    ASSUME EditsKeepTheCalendar, promised' = promised, NEW e \in Ids, Active(e), NEW n,
           {f \in Ids : Active(f)}' = {f \in Ids : Active(f)} \cup {n}, ~(n \in Ids /\ Active(n)),
           \A f \in Ids \ {e, n} : InstantsOf(f)' = InstantsOf(f),
           InstantsOf(e)' \cup InstantsOf(n)' = InstantsOf(e),
           InstantsOf(e)' \cap InstantsOf(n)' = {}
    PROVE  EditsKeepTheCalendar'
<1> DEFINE shown == {f \in Ids : Active(f)}
           others == shown \ {e}
<1>1. \A f, g \in shown : f # g => InstantsOf(f) \cap InstantsOf(g) = {}
  BY DEF EditsKeepTheCalendar
<1>2. UNION {InstantsOf(f) : f \in shown} = promised BY DEF EditsKeepTheCalendar
<1>3. e \in shown /\ n \notin shown /\ shown' = shown \cup {n} OBVIOUS
<1>4. \A f \in others : InstantsOf(f)' = InstantsOf(f) /\ f # n /\ f # e BY <1>3
<1>5. n # e BY <1>3
<1> HIDE DEF shown
<1>6. UNION {InstantsOf(f)' : f \in shown'} = promised
  <2>1. ASSUME NEW i
        PROVE  (\E f \in shown' : i \in InstantsOf(f)') <=> (\E f \in shown : i \in InstantsOf(f))
    <3>1. CASE i \in InstantsOf(e) BY <1>3, <3>1
    <3>2. CASE i \notin InstantsOf(e)
      <4>1. i \notin InstantsOf(e)' /\ i \notin InstantsOf(n)' BY <3>2
      <4> QED BY <1>3, <1>4, <3>2, <4>1
    <3> QED BY <3>1, <3>2
  <2>2. \A i : i \in UNION {InstantsOf(f)' : f \in shown'} <=> i \in promised
    BY <1>2, <2>1
  <2> QED BY <2>2
<1>7. ASSUME NEW f \in shown', NEW g \in shown', f # g
      PROVE  InstantsOf(f)' \cap InstantsOf(g)' = {}
  <2>1. \A h \in others : InstantsOf(h)' \cap InstantsOf(e) = {} BY <1>1, <1>3, <1>4
  <2>2. CASE f \in {e, n} /\ g \in {e, n} BY <1>7, <2>2
  <2>3. CASE f \in {e, n} /\ g \in others BY <2>1, <2>3
  <2>4. CASE f \in others /\ g \in {e, n} BY <2>1, <2>4
  <2>5. CASE f \in others /\ g \in others BY <1>1, <1>4, <1>7, <2>5
  <2> QED BY <1>3, <2>2, <2>3, <2>4, <2>5
<1> QED BY <1>6, <1>7 DEF EditsKeepTheCalendar, shown


\* What a commit leaves of the tables.
Left(e, n) ==
    /\ \A f \in Ids \ {e, n} : ExceptedIn(exceptions', f) = ExceptedIn(exceptions, f)
    /\ NarrowRows' /\ ExceptionsHaveRows'

LEMMA EntireShows ==
    ASSUME StandInv, EditsKeepTheCalendar, NEW c \in Callers, Commit(c), ~Throw(c),
           NEW call \in CallRecords, call = calls[c], PlannedScope(call) = "entire-series"
    PROVE  EditsKeepTheCalendar' /\ Left(call.series, call.newId)
<1> DEFINE e == call.series
           n == call.newId
<1>1. /\ call.step = "written" /\ e \in Ids /\ Active(e) /\ events[e] \in StoredRows
      /\ Narrow(events[e].zone) /\ call.current = LoadSeriesSpec(events[e])
      /\ events'[e] \in StoredRows /\ events'[e].lifecycle = "active"
      /\ LoadSeriesSpec(events'[e]) = Past(call)
      /\ \A f \in Ids \ {e, n} : events'[f] = events[f]
      /\ n # Null => n \in Ids \ {e} /\ events[n] = Null /\ events'[n] = call.own[n]
      /\ exceptions' = (exceptions \ ExceptedIn(exceptions, e)) \cup call.excepted
      /\ promised' = promised /\ WritesItsExceptions(call, exceptions)
  BY CommittedIs
<1>2. call.excepted = ExceptedIn(exceptions, e) /\ (n # Null => call.own[n] = Null)
  BY <1>1 DEF WritesItsExceptions
<1>3. exceptions' = exceptions BY <1>1, <1>2 DEF ExceptedIn
<1>4. \A f \in Ids \ {e} : events'[f] = events[f]
  <2>1. n = Null => n \notin Ids BY PagesAssumption
  <2> QED BY <1>1, <1>2, <2>1
<1>5. LoadSeriesSpec(events'[e]) = LoadSeriesSpec(events[e]) BY <1>1 DEF Past
<1>6. events'[e].zone = events[e].zone
  <2>1. LoadSeriesSpec(events'[e]).zone = events'[e].zone
        /\ LoadSeriesSpec(events[e]).zone = events[e].zone
    BY DEF LoadSeriesSpec
  <2> QED BY <1>5, <2>1
<1>7. events'[e] # Null BY <1>1, RowsLoad
<1>8. \A f \in Ids : InstantsOf(f)' = InstantsOf(f)
  BY <1>3, <1>4, <1>5, <1>6, InstantsAre, InstantsNext DEF InstantsIn
<1>9. {f \in Ids : Active(f)}' = {f \in Ids : Active(f)} BY <1>1, <1>4, <1>7 DEF Active
<1>10. EditsKeepTheCalendar'
  <2> DEFINE shown == {f \in Ids : Active(f)}
  <2>1. \A f, g \in shown : f # g => InstantsOf(f)' \cap InstantsOf(g)' = {}
    BY <1>8 DEF EditsKeepTheCalendar
  <2>2. UNION {InstantsOf(f)' : f \in shown} = UNION {InstantsOf(f) : f \in shown} BY <1>8
  <2>3. UNION {InstantsOf(f) : f \in shown} = promised BY DEF EditsKeepTheCalendar
  <2> QED BY <1>1, <1>9, <2>1, <2>2, <2>3 DEF EditsKeepTheCalendar
<1>11. NarrowRows' BY <1>1, <1>4, <1>6 DEF NarrowRows, StandInv
<1>12. ExceptionsHaveRows'
  <2>1. \A x \in exceptions : x.series \in Ids
    BY DEF StandInv, TransactionInv, TransactionTypeOK, Exceptions
  <2> QED BY <1>3, <1>4, <1>7, <2>1 DEF ExceptionsHaveRows, StandInv
<1> QED BY <1>3, <1>10, <1>11, <1>12 DEF Left

\* Commits that insert a row: the exceptions of the two rows are at slots that the
\* row's own were at, or that the other row now shows.
LEMMA TwoRowsShow ==
    ASSUME StandInv, EditsKeepTheCalendar, NEW c \in Callers, Commit(c), ~Throw(c),
           NEW call \in CallRecords, call = calls[c], PlannedScope(call) # "entire-series",
           NEW e, NEW n, e = call.series, n = call.newId, n \in Ids,
           call.own[n] # Null, call.own[n].lifecycle = "active", Narrow(call.own[n].zone),
           events'[e].zone = events[e].zone,
           \A x \in call.excepted : x.series \in {e, n},
           InstantsIn(call.own[e], Slots(ExceptedIn(call.excepted, e)))
             \cup InstantsIn(call.own[n], Slots(ExceptedIn(call.excepted, n)))
             = InstantsIn(events[e], Slots(ExceptedIn(exceptions, e))),
           InstantsIn(call.own[e], Slots(ExceptedIn(call.excepted, e)))
             \cap InstantsIn(call.own[n], Slots(ExceptedIn(call.excepted, n))) = {}
    PROVE  EditsKeepTheCalendar' /\ Left(e, n)
<1>1. /\ e \in Ids /\ Active(e) /\ Narrow(events[e].zone)
      /\ events'[e] = call.own[e] /\ events'[e] \in StoredRows
      /\ events'[e].lifecycle = "active"
      /\ \A f \in Ids \ {e, n} : events'[f] = events[f]
      /\ n # Null => /\ n \in Ids \ {e} /\ events[n] = Null /\ ExceptedIn(exceptions, n) = {}
                     /\ events'[n] = call.own[n]
      /\ exceptions' = (exceptions \ ExceptedIn(exceptions, e)) \cup call.excepted
      /\ promised' = promised
  BY CommittedIs
<1>2. n # Null /\ e # n BY <1>1, PagesAssumption
<1>3. events'[e] # Null BY <1>1, RowsLoad
<1>4. /\ ExceptedIn(exceptions', e) = ExceptedIn(call.excepted, e)
      /\ ExceptedIn(exceptions', n) = ExceptedIn(call.excepted, n)
      /\ \A f \in Ids \ {e, n} : ExceptedIn(exceptions', f) = ExceptedIn(exceptions, f)
  BY <1>1, <1>2 DEF ExceptedIn
<1>5. {f \in Ids : Active(f)}' = {f \in Ids : Active(f)} \cup {n}
  BY <1>1, <1>2, <1>3 DEF Active
<1>6. ~Active(n) BY <1>1, <1>2 DEF Active
<1>7. \A f \in Ids \ {e, n} : InstantsOf(f)' = InstantsOf(f)
  BY <1>1, <1>4, InstantsAre, InstantsNext
<1>8. /\ InstantsOf(e)' = InstantsIn(call.own[e], Slots(ExceptedIn(call.excepted, e)))
      /\ InstantsOf(n)' = InstantsIn(call.own[n], Slots(ExceptedIn(call.excepted, n)))
      /\ InstantsOf(e) = InstantsIn(events[e], Slots(ExceptedIn(exceptions, e)))
  BY <1>1, <1>2, <1>4, InstantsAre, InstantsNext
<1>9. EditsKeepTheCalendar' BY <1>1, <1>5, <1>6, <1>7, <1>8, CalendarSplits
<1>10. NarrowRows' BY <1>1, <1>2 DEF NarrowRows, StandInv
<1>11. ExceptionsHaveRows'
  <2>1. \A x \in exceptions : x.series \in Ids
    BY DEF StandInv, TransactionInv, TransactionTypeOK, Exceptions
  <2>2. events'[n] # Null BY <1>1, <1>2
  <2>3. \A x \in exceptions : events'[x.series] # Null
    BY <1>1, <1>3, <2>1, <2>2 DEF ExceptionsHaveRows, StandInv
  <2>4. \A x \in call.excepted : events'[x.series] # Null BY <1>3, <2>2
  <2> QED BY <1>1, <2>3, <2>4 DEF ExceptionsHaveRows
<1> QED BY <1>4, <1>9, <1>10, <1>11 DEF Left

LEMMA DetachShows ==
    ASSUME StandInv, EditsKeepTheCalendar, NEW c \in Callers, Commit(c), ~Throw(c),
           NEW call \in CallRecords, call = calls[c], PlannedScope(call) = "this"
    PROVE  EditsKeepTheCalendar' /\ Left(call.series, call.newId)
<1> DEFINE e == call.series
           n == call.newId
           k == call.occurrence
           table == ExceptedIn(exceptions, e)
           readings == SeriesReadings(call.current)
           zone == events[e].zone
           instant(S) == {OccurrenceInstant(zone, r) : r \in S}
<1>0. HoldsTheRow(call) /\ call.scope # "entire-series" /\ call.scope = "this"
  BY CommittedIs
<1>1. n \in Ids /\ k \in Int BY <1>0, HeldIs DEF StandInv
<1>2. /\ call.step = "written" /\ e \in Ids /\ events[e] \in StoredRows /\ Narrow(zone)
      /\ call.current = LoadSeriesSpec(events[e])
      /\ events'[e] = call.own[e] /\ events'[e] \in StoredRows
      /\ LoadSeriesSpec(events'[e]) = Past(call)
      /\ n # Null => n \in Ids \ {e}
      /\ Picked(call, events) /\ WritesItsExceptions(call, exceptions)
      /\ events[e].version = call.expected
  BY CommittedIs
<1>3. /\ DetachedRow(call) /\ \A x \in table : x.at # k
      /\ call.excepted = table \cup {MovedBy(call)}
  BY <1>2 DEF WritesItsExceptions
<1>4. k \in readings BY <1>0, <1>2 DEF Picked
<1>5. call.current.zone = zone /\ LoadSeriesSpec(events'[e]) = call.current
      /\ events'[e].zone = zone
  <2>1. LoadSeriesSpec(events[e]).zone = events[e].zone
        /\ LoadSeriesSpec(events'[e]).zone = events'[e].zone
    BY DEF LoadSeriesSpec
  <2> QED BY <1>2, <2>1 DEF Past
<1>6. n # Null /\ n # e BY <1>1, <1>2, PagesAssumption
<1>7. MovedBy(call).series = e /\ MovedBy(call).at = k BY DEF MovedBy
<1>8. /\ ExceptedIn(call.excepted, e) = table \cup {MovedBy(call)}
      /\ ExceptedIn(call.excepted, n) = {}
      /\ \A x \in call.excepted : x.series \in {e, n}
  BY <1>3, <1>6, <1>7 DEF ExceptedIn
<1>9. Slots(table \cup {MovedBy(call)}) = Slots(table) \cup {k} /\ k \notin Slots(table)
      /\ Slots({}) = {}
  BY <1>3, <1>7 DEF Slots
<1> HIDE DEF table
<1>10. /\ InstantsIn(call.own[e], Slots(table) \cup {k})
            = instant(readings \ (Slots(table) \cup {k}))
       /\ InstantsIn(call.own[n], {}) = {OccurrenceInstant(zone, k)}
       /\ {OccurrenceInstant(zone, k)} = instant({k})
  BY <1>2, <1>3, <1>5 DEF InstantsIn, DetachedRow
<1> DEFINE left == readings \ (Slots(table) \cup {k})
<1>11. left \cup {k} = readings \ Slots(table) /\ left \cap {k} = {} BY <1>4, <1>9
<1>12. /\ instant(left) \cup instant({k}) = InstantsIn(events[e], Slots(table))
       /\ instant(left) \cap instant({k}) = {}
  <2>1. PICK gone, future : gone = Slots(table) /\ future = {k} OBVIOUS
  <2> HIDE DEF left
  <2>2. /\ left \cup future = SeriesReadings(LoadSeriesSpec(events[e])) \ gone
        /\ left \cap future = {}
    BY <1>2, <1>11, <2>1
  <2>3. /\ instant(left) \cup instant(future) = InstantsIn(events[e], gone)
        /\ instant(left) \cap instant(future) = {}
    BY <1>2, <2>2, PartsOfRow
  <2> HIDE DEF instant
  <2> QED BY <2>1, <2>3
<1>13. /\ call.own[n] # Null /\ call.own[n].lifecycle = "active" /\ call.own[n].zone = zone
  BY <1>3, <1>5 DEF DetachedRow
<1>14. /\ InstantsIn(call.own[e], Slots(ExceptedIn(call.excepted, e))) = instant(left)
       /\ InstantsIn(call.own[n], Slots(ExceptedIn(call.excepted, n))) = instant({k})
  <2> HIDE DEF instant, zone, e, n, k
  <2> QED BY <1>8, <1>9, <1>10
<1> HIDE DEF instant, left, readings, zone, e, n, k
<1> QED BY <1>1, <1>2, <1>5, <1>6, <1>8, <1>12, <1>13, <1>14, TwoRowsShow
        DEF table, e, n, zone

LEMMA SplitShows ==
    ASSUME StandInv, EditsKeepTheCalendar, GateMissesNothing,
           NEW c \in Callers, Commit(c), ~Throw(c),
           NEW call \in CallRecords, call = calls[c], PlannedScope(call) = "this-and-future"
    PROVE  EditsKeepTheCalendar' /\ Left(call.series, call.newId)
<1> DEFINE e == call.series
           n == call.newId
           k == call.occurrence
           table == ExceptedIn(exceptions, e)
           gone == Slots(table)
           zone == events[e].zone
           instant(S) == {OccurrenceInstant(zone, r) : r \in S}
<1>0. HoldsTheRow(call) BY CommittedIs
<1>1. n \in Ids /\ k \in Int /\ PlanOf(call).ok
  <2>1. call.scope # "entire-series" BY DEF PlannedScope
  <2> QED BY <1>0, <2>1, HeldIs DEF StandInv
<1>2. /\ call.step = "written" /\ e \in Ids /\ events[e] \in StoredRows /\ Narrow(zone)
      /\ call.current \in Series /\ call.current = LoadSeriesSpec(events[e])
      /\ events'[e] = call.own[e] /\ events'[e] \in StoredRows
      /\ LoadSeriesSpec(events'[e]) = Past(call)
      /\ n # Null => n \in Ids \ {e}
      /\ WritesItsExceptions(call, exceptions) /\ StoredSplitReproduces(call)
  BY CommittedIs
<1>3. /\ call.own[n] # Null /\ call.own[n].lifecycle = "active"
      /\ call.excepted = HandedOn(call, table)
  BY <1>2 DEF WritesItsExceptions
<1>4. LoadSeriesSpec(call.own[n]) = Future(call)
  BY <1>2, CallsTyped DEF StandInv, CallOK, WritesItsPlan
<1>5. /\ call.current.zone = zone /\ events'[e].zone = zone /\ call.own[n].zone = zone
  <2>1. LoadSeriesSpec(events[e]).zone = events[e].zone
        /\ LoadSeriesSpec(events'[e]).zone = events'[e].zone
        /\ LoadSeriesSpec(call.own[n]).zone = call.own[n].zone
    BY DEF LoadSeriesSpec
  <2>2. Past(call).zone = call.current.zone /\ Future(call).zone = call.current.zone
    BY <1>2 DEF Past, Future, Series
  <2> QED BY <1>2, <1>4, <2>1, <2>2
<1>6. n # Null /\ n # e BY <1>1, <1>2, PagesAssumption
<1> DEFINE past == SeriesReadings(Past(call))
           future == SeriesReadings(Future(call))
<1>7. past \cup future = SeriesReadings(call.current)
  <2>1. HalvesAreWhole(call) BY <1>2 DEF GateMissesNothing, Splitting
  <2> QED BY <1>2, <1>4, <2>1 DEF HalvesAreWhole
<1>8. /\ \A r \in past : r \in Int /\ r < k
      /\ \A r \in future : r \in Int /\ r >= k
  <2>1. PICK rule \in Rule, truncated \in Rule, newRule \in Rule :
          /\ rule = call.current.rule /\ newRule = PlanOf(call).newRule
          /\ truncated = PlanOf(call).truncated
          /\ truncated = TruncateRrule(rule, JustBefore(k))
    BY <1>1, <1>2, PlansAreRules
  <2>2. call.current.dtstart \in Int BY <1>2, SeriesParts
  <2>3. /\ Past(call).rule = truncated /\ Past(call).dtstart = call.current.dtstart
        /\ Future(call).rule = newRule /\ Future(call).dtstart = k
    BY <1>2, <2>1 DEF Past, Future, Series
  <2>4. truncated # Null /\ newRule # Null BY NullAssumption
  <2>5. past = Readings(truncated, call.current.dtstart) /\ future = Readings(newRule, k)
    BY <2>3, <2>4 DEF SeriesReadings
  <2>6. truncated.until = k - 1 BY <2>1 DEF TruncateRrule, JustBefore, Rule
  <2>7. ASSUME NEW r \in past PROVE r \in Int /\ r < k
    <3>1. r \in Int /\ Bounded(truncated, r) BY <2>2, <2>5, <2>7, ReadingsAre
    <3>2. k - 1 \in Int /\ k - 1 # Null BY <1>1, NullAssumption
    <3> QED BY <1>1, <2>6, <3>1, <3>2 DEF Bounded
  <2>8. ASSUME NEW r \in future PROVE r \in Int /\ r >= k
    <3>1. r \in Int /\ HourOf(r) = HourOf(k) /\ DayOf(r) \in RuleDays(newRule, k)
      BY <1>1, <2>5, <2>8, ReadingsAre
    <3>2. DayOf(r) >= DayOf(k) BY <1>1, <3>1, DaysFinite
    <3> QED BY <1>1, <3>1, <3>2 DEF HourOf, DayOf, Hours
  <2> QED BY <2>7, <2>8
<1> HIDE DEF past, future
<1>9. /\ Slots(ExceptedIn(call.excepted, e)) = {g \in gone : ~(g >= k)}
      /\ Slots(ExceptedIn(call.excepted, n)) = {g \in gone : g >= k}
      /\ \A x \in call.excepted : x.series \in {e, n}
  <2>1. table \subseteq Exceptions /\ \A x \in table : x.series = e
    BY DEF ExceptedIn, StandInv, TransactionInv, TransactionTypeOK
  <2> DEFINE handed(x) == IF x.at >= k THEN [x EXCEPT !.series = n] ELSE x
  <2>2. \A x \in table : /\ handed(x).at = x.at
                         /\ handed(x).series = IF x.at >= k THEN n ELSE e
    BY <2>1 DEF Exceptions
  <2>3. call.excepted = {handed(x) : x \in table} BY <1>3 DEF HandedOn
  <2> HIDE DEF handed, table
  <2>4. ExceptedIn(call.excepted, e) = {handed(x) : x \in {y \in table : ~(y.at >= k)}}
        /\ ExceptedIn(call.excepted, n) = {handed(x) : x \in {y \in table : y.at >= k}}
    BY <1>6, <2>2, <2>3 DEF ExceptedIn
  <2>5. \A g : g \in Slots(ExceptedIn(call.excepted, e))
                 <=> \E x \in table : ~(x.at >= k) /\ g = x.at
    BY <2>2, <2>4 DEF Slots
  <2>6. \A g : g \in Slots(ExceptedIn(call.excepted, n))
                 <=> \E x \in table : x.at >= k /\ g = x.at
    BY <2>2, <2>4 DEF Slots
  <2>7. \A g : g \in gone <=> \E x \in table : g = x.at BY DEF Slots
  <2>8. \A x \in call.excepted : x.series \in {e, n} BY <2>2, <2>3
  <2> QED BY <2>5, <2>6, <2>7, <2>8
<1>10. /\ past \ {g \in gone : ~(g >= k)} = past \ gone
       /\ future \ {g \in gone : g >= k} = future \ gone
  BY <1>1, <1>8
<1>11. /\ (past \ gone) \cup (future \ gone) = SeriesReadings(call.current) \ gone
       /\ (past \ gone) \cap (future \ gone) = {}
  <2>1. past \cap future = {} BY <1>1, <1>8
  <2> QED BY <1>7, <2>1
<1>12. /\ instant(past \ gone) \cup instant(future \ gone) = InstantsIn(events[e], gone)
       /\ instant(past \ gone) \cap instant(future \ gone) = {}
  <2> HIDE DEF gone
  <2> QED BY <1>2, <1>11, PartsOfRow
<1>13. /\ InstantsIn(call.own[e], Slots(ExceptedIn(call.excepted, e))) = instant(past \ gone)
       /\ InstantsIn(call.own[n], Slots(ExceptedIn(call.excepted, n))) = instant(future \ gone)
  <2>1. /\ SeriesReadings(LoadSeriesSpec(call.own[e])) = past
        /\ SeriesReadings(LoadSeriesSpec(call.own[n])) = future
        /\ call.own[e].zone = zone
    BY <1>2, <1>4, <1>5 DEF past, future
  <2> HIDE DEF gone
  <2> QED BY <1>5, <1>9, <1>10, <2>1 DEF InstantsIn
<1> HIDE DEF instant, zone, e, n, k, table
<1> QED BY <1>1, <1>2, <1>3, <1>5, <1>6, <1>9, <1>12, <1>13, TwoRowsShow
        DEF table, e, n, zone, gone


LEMMA CallsShowNothing ==
    ASSUME EditsKeepTheCalendar, UNCHANGED <<events, exceptions, promised>>
    PROVE  EditsKeepTheCalendar'
<1>1. \A e : InstantsOf(e)' = InstantsOf(e) BY InstantsAre, InstantsNext
<1>2. \A e : Active(e)' = Active(e) BY DEF Active
<1> QED BY <1>1, <1>2 DEF EditsKeepTheCalendar

LEMMA CommitStands ==
    ASSUME StandInv, EditsKeepTheCalendar, GateMissesNothing, NEW c \in Callers, Commit(c)
    PROVE  StandInv' /\ EditsKeepTheCalendar'
<1>0. TransactionInv /\ TransactionInv' BY CommitKeeps DEF StandInv
<1>1. CASE Throw(c)
  <2>1. StandInv' BY <1>1, ThrowStands
  <2>2. UNCHANGED <<events, exceptions, promised>> BY <1>1 DEF Throw
  <2> QED BY <2>1, <2>2, CallsShowNothing
<1>2. CASE ~Throw(c)
  <2>1. PICK call \in CallRecords : call = calls[c] BY <1>0, CallsTyped
  <2>2. /\ HoldsTheRow(call)
        /\ PlannedScope(call) \in {"entire-series", "this-and-future", "this"}
        /\ call.series \in Ids /\ events'[call.series] \in StoredRows
        /\ events'[call.series].version > events[call.series].version
        /\ \A f \in Ids \ {call.series, call.newId} : events'[f] = events[f]
        /\ call.newId # Null => call.newId \in Ids \ {call.series} /\ events[call.newId] = Null
        /\ calls'[c] = Idle /\ \A d \in Callers \ {c} : calls'[d] = calls[d]
    BY <1>2, <2>1, CommittedIs
  <2>3. EditsKeepTheCalendar' /\ Left(call.series, call.newId)
    BY <1>2, <2>1, <2>2, EntireShows, DetachShows, SplitShows
  <2>4. ASSUME NEW f \in Ids, events[f] # Null
        PROVE  /\ events'[f] # Null
               /\ events'[f] = events[f] \/ events'[f].version > events[f].version
    <3>1. CASE f = call.series BY <2>2, <3>1, RowsLoad
    <3>2. CASE f # call.series
      <4>1. f # call.newId BY <2>2, <2>4, PagesAssumption
      <4> QED BY <2>2, <2>4, <3>2, <4>1
    <3> QED BY <3>1, <3>2
  <2>5. ASSUME NEW d \in Callers \ {c} PROVE StandsOn(calls'[d], events', exceptions')
    <3>1. HoldsTheRow(calls[d]) =>
            /\ calls[d].series \in Ids /\ events[calls[d].series] # Null
            /\ calls[d].series # call.series
      BY <1>0, <2>1, <2>2, CallsTyped
      DEF CallOK, KnowsItsRow, HoldsTheRow, TransactionInv, CallsApart
    <3>2. HoldsTheRow(calls[d]) => calls[d].series \in Ids \ {call.series, call.newId}
      BY <2>2, <3>1, PagesAssumption
    <3>3. HoldsTheRow(calls[d]) =>
            ExceptedIn(exceptions', calls[d].series) = ExceptedIn(exceptions, calls[d].series)
      BY <2>3, <3>2 DEF Left
    <3> QED BY <1>0, <2>2, <2>4, <3>3, OthersStand
  <2>6. \A d \in Callers : StandsOn(calls'[d], events', exceptions')
    BY <2>2, <2>5, IdleStands
  <2> QED BY <1>0, <2>3, <2>6 DEF StandInv, Left
<1> QED BY <1>1, <1>2

LEMMA EditsStepKeeps ==
    ASSUME ShortJumps, StandInv, EditsKeepTheCalendar, GateMissesNothing, TransactionNext
    PROVE  StandInv' /\ EditsKeepTheCalendar'
<1>1. CASE \E e \in Ids, input \in Inputs, payload \in Payloads : CreateEvent(e, input, payload)
  BY <1>1, CreateStands
<1>2. CASE \E e \in Ids : TrashEvent(e) BY <1>2, TrashStands
<1>3. CASE \E e \in {f \in Ids : Active(f)} :
             \E k \in ReadingsOf(e) \cap Places(e) : CancelOccurrence(e, k)
  BY <1>3, CancelStands
<1>4. ASSUME NEW c \in Callers,
             \/ Commands(c) \/ LoadSeries(c) \/ UpdateSeries(c)
             \/ InsertSuccessor(c) \/ InsertDetached(c) \/ EntireSeries(c)
             \/ Interrupted(c)
      PROVE  StandInv' /\ EditsKeepTheCalendar'
  <2>1. StandInv'
    <3>1. CASE Interrupted(c) BY <3>1, ThrowStands DEF Interrupted
    <3> QED BY <1>4, <3>1, CommandStands, LoadStands, UpdateStands, SuccessorStands,
            DetachedStands, EntireStands
  <2>2. UNCHANGED <<events, exceptions, promised>>
    <3>1. CASE Commands(c) BY <3>1 DEF Commands, Command
    <3>2. CASE LoadSeries(c) BY <3>2 DEF LoadSeries, Throw
    <3>3. CASE UpdateSeries(c) BY <3>3 DEF UpdateSeries, Throw
    <3>4. CASE InsertSuccessor(c) BY <3>4 DEF InsertSuccessor, Throw
    <3>5. CASE InsertDetached(c) BY <3>5 DEF InsertDetached, Throw
    <3>6. CASE EntireSeries(c) BY <3>6 DEF EntireSeries
    <3>7. CASE Interrupted(c) BY <3>7 DEF Interrupted, Throw
    <3> QED BY <1>4, <3>1, <3>2, <3>3, <3>4, <3>5, <3>6, <3>7
  <2> QED BY <2>1, <2>2, CallsShowNothing
<1>5. CASE \E c \in Callers : Commit(c) BY <1>5, CommitStands
<1> QED BY <1>1, <1>2, <1>3, <1>4, <1>5 DEF TransactionNext

LEMMA EditsStart ==
    ASSUME TransactionInit
    PROVE  StandInv /\ EditsKeepTheCalendar
<1>1. TransactionInv BY TransactionStarts
<1>2. /\ \A c \in Callers : calls[c] = Idle
      /\ \A e \in Ids : events[e] = Null
      /\ exceptions = {} /\ promised = {}
  BY DEF TransactionInit
<1>3. StandInv BY <1>1, <1>2, IdleStands DEF StandInv, NarrowRows, ExceptionsHaveRows
<1>4. {e \in Ids : Active(e)} = {} BY <1>2 DEF Active
<1> QED BY <1>2, <1>3, <1>4 DEF EditsKeepTheCalendar

\* Whatever callers edit at once and wherever one of them is interrupted, the
\* committed rows show what they ought to, each instant once, for as long as gate 3
\* lets no split through that is not whole: the gate is all that stands between a
\* split where there is no occurrence and the calendar.
THEOREM EditsAlwaysKeep ==
    ASSUME ShortJumps
    PROVE  SeriesSpec /\ []GateMissesNothing => []EditsKeepTheCalendar
<1>1. SeriesInit => StandInv /\ EditsKeepTheCalendar BY EditsStart DEF SeriesInit
<1>2. StandInv /\ EditsKeepTheCalendar /\ GateMissesNothing /\ [SeriesNext]_seriesVars
        => StandInv' /\ EditsKeepTheCalendar'
  <2> SUFFICES ASSUME StandInv, EditsKeepTheCalendar, GateMissesNothing,
                      [SeriesNext]_seriesVars
               PROVE  StandInv' /\ EditsKeepTheCalendar'
    OBVIOUS
  <2>1. CASE TransactionNext BY <2>1, EditsStepKeeps
  <2>2. CASE UNCHANGED transactionVars
    <3>1. UNCHANGED <<events, exceptions, calls, promised>> BY <2>2 DEF transactionVars
    <3>2. TransactionInv' BY <3>1 DEF StandInv, TransactionInv, TransactionTypeOK, CallsApart
    <3>3. StandInv' BY <3>1, <3>2 DEF StandInv, NarrowRows, ExceptionsHaveRows
    <3> QED BY <3>1, <3>3, CallsShowNothing
  <2> QED BY <2>1, <2>2 DEF SeriesNext, seriesVars
<1> QED BY <1>1, <1>2, PTL DEF SeriesSpec

SplitsAtOccurrences ==
    \A c \in Callers :
        Splitting(calls[c]) => calls[c].occurrence \in SeriesReadings(calls[c].current)

\* In particular, where every split is made at an occurrence of its series nothing
\* is asked of the gate, nor of the ranges the callers pass.
THEOREM EditsAtOccurrencesKeep ==
    ASSUME ShortJumps
    PROVE  SeriesSpec /\ []SplitsAtOccurrences => []EditsKeepTheCalendar
<1>1. SplitsAtOccurrences /\ GateAcceptsOccurrences => GateMissesNothing
  BY DEF SplitsAtOccurrences, GateAcceptsOccurrences, GateMissesNothing
<1> QED BY <1>1, GateAlwaysAccepts, EditsAlwaysKeep, PTL

-----------------------------------------------------------------------------
(* Transactions: ranges that reach the end of the calendar.  A successor    *)
(* with an occurrence means that UNTIL is not before the split, and a COUNT *)
(* with something left has left no earlier day out, so the cut is the past; *)
(* from the split on the gate sees everything.                              *)

\* A rule that leaves out a day for want of COUNT has given COUNT days before it.
LEMMA CountIsFilled ==
    ASSUME NEW rule \in Rule, NEW dtstart \in Int, NEW e \in RuleDays(rule, dtstart),
           ~Counted(rule, dtstart, e)
    PROVE  LET kept == {d \in RuleDays(rule, dtstart) : Counted(rule, dtstart, d)} IN
           /\ IsFiniteSet(kept) /\ Cardinality(kept) \in Nat /\ Cardinality(kept) >= rule.count
           /\ \A d \in kept : d \in Int /\ d < e
<1> DEFINE days == RuleDays(rule, dtstart)
           kept == {d \in days : Counted(rule, dtstart, d)}
           first == DayOf(dtstart)
<1>1. IsFiniteSet(days) /\ first \in Int /\ \A d \in days : d \in Int /\ d >= first
  BY DaysFinite, ReadingParts
<1>2. rule.count \in Nat /\ rule.count # 0 BY DEF Rule, Counted
<1>3. \A d \in days : Rank(rule, dtstart, d) \in Nat BY <1>1, RankRises
<1>4. \A d \in days : d \in kept <=> Rank(rule, dtstart, d) <= rule.count
  BY <1>2 DEF Counted
<1>5. ASSUME NEW c \in days, NEW d \in days, d \in kept, c \notin kept PROVE d < c
  <2>1. c \in Int /\ d \in Int BY <1>1
  <2>2. c <= d => Rank(rule, dtstart, c) <= Rank(rule, dtstart, d) BY <2>1, RankRises
  <2>3. /\ Rank(rule, dtstart, d) <= rule.count /\ ~(Rank(rule, dtstart, c) <= rule.count)
        /\ Rank(rule, dtstart, c) \in Nat /\ Rank(rule, dtstart, d) \in Nat
    BY <1>3, <1>4, <1>5
  <2> QED BY <1>2, <2>1, <2>2, <2>3
<1>6. PICK x \in days : x \notin kept /\ \A c \in days : c < x => c \in kept
  <2> DEFINE T == {c - first : c \in days \ kept}
  <2>1. T \in SUBSET Nat
    <3>1. \A c \in days \ kept : c - first \in Nat BY <1>1
    <3> QED BY <3>1
  <2>2. T # {} OBVIOUS
  <2>3. PICK t \in T : \A u \in T : t <= u BY <2>1, <2>2, LeastNat
  <2>4. PICK x \in days \ kept : t = x - first BY <2>3
  <2>5. ASSUME NEW c \in days, c < x, c \notin kept PROVE FALSE
    <3>1. c - first \in T BY <2>5
    <3>2. x - first <= c - first BY <2>3, <2>4, <3>1
    <3> QED BY <1>1, <2>4, <2>5, <3>2
  <2> QED BY <2>4, <2>5
<1> DEFINE upTo == {c \in days : c <= x}
<1>7. upTo = kept \cup {x} /\ x \notin kept
  <2>1. \A d \in kept : d \in days /\ d < x BY <1>5, <1>6
  <2>2. ASSUME NEW c \in days PROVE c <= x <=> c \in kept \/ c = x
    BY <1>1, <1>6, <2>1, <2>2
  <2> HIDE DEF kept
  <2> QED BY <1>6, <2>1, <2>2
<1>8. IsFiniteSet(kept) /\ Cardinality(kept) \in Nat
  BY <1>1, PartsFinite
<1>9. Rank(rule, dtstart, x) > rule.count BY <1>2, <1>3, <1>4, <1>6
<1>10. \A d \in kept : d \in Int /\ d < e BY <1>1, <1>5
<1> HIDE DEF kept
<1>11. Cardinality(kept \cup {x}) = Cardinality(kept) + 1 BY <1>7, <1>8, FS_AddElement
<1>12. Rank(rule, dtstart, x) = Cardinality(kept) + 1 BY <1>7, <1>11 DEF Rank
<1> QED BY <1>2, <1>8, <1>9, <1>10, <1>12 DEF kept

\* A COUNT of which something is left after the occurrences before a reading has
\* left none of their days out.
LEMMA CountCovers ==
    ASSUME NEW series \in Series, NEW rule \in Rule, NEW dtstart \in Int,
           rule = series.rule, dtstart = series.dtstart, NEW k \in Int, Bounded(rule, k),
           RewriteSuccessorCount(rule, CountOccurrencesBefore(series, k)).ok,
           NEW r \in Int, HourOf(r) = HourOf(dtstart), DayOf(r) \in RuleDays(rule, dtstart),
           r < k
    PROVE  Counted(rule, dtstart, DayOf(r))
<1> SUFFICES ASSUME ~Counted(rule, dtstart, DayOf(r)) PROVE FALSE
  OBVIOUS
<1> DEFINE days == RuleDays(rule, dtstart)
           kept == {d \in days : Counted(rule, dtstart, d)}
           T == {Midnight(d) + HourOf(dtstart) : d \in kept}
           all == {Midnight(d) + HourOf(dtstart) : d \in days}
           S == {q \in LocalCandidates(series, dtstart, k) : q < k}
<1>1. /\ IsFiniteSet(kept) /\ Cardinality(kept) \in Nat /\ Cardinality(kept) >= rule.count
      /\ \A d \in kept : d \in Int /\ d < DayOf(r)
  BY CountIsFilled
<1>2. IsFiniteSet(days) /\ \A d \in days : d \in Int /\ d >= DayOf(dtstart) BY DaysFinite
<1>3. series.rule # Null BY NullAssumption
<1>4. rule.count \in Nat /\ rule.count # 0 /\ rule.until \in Int \cup {Null}
  BY DEF Counted, Rule
<1>5. \A q : q \in S <=> q \in Readings(rule, dtstart) /\ dtstart <= q /\ q <= k /\ q < k
  BY <1>3 DEF LocalCandidates, SeriesReadings
<1>6. dtstart < k
  <2>1. DayOf(r) >= DayOf(dtstart) BY <1>2
  <2>2. dtstart <= r BY <2>1 DEF DayOf, HourOf, Hours
  <2> QED BY <2>2
<1>7. T \in SUBSET S
  <2>1. ASSUME NEW d \in kept PROVE Midnight(d) + HourOf(dtstart) \in S
    <3>1. PICK q \in Int : q = Midnight(d) + HourOf(dtstart) BY <1>1, ReadingParts
    <3>2. /\ HourOf(q) = HourOf(dtstart) /\ DayOf(q) = d
          /\ d \in days /\ Counted(rule, dtstart, d) /\ d < DayOf(r) /\ DayOf(dtstart) <= d
      BY <1>1, <1>2, <3>1, ReadingParts
    <3>3. q < r /\ dtstart <= q BY <3>2 DEF DayOf, HourOf, Hours
    <3>4. Bounded(rule, q) BY <1>4, <3>3 DEF Bounded
    <3>5. q \in Readings(rule, dtstart) BY <3>2, <3>4, ReadingsAre
    <3>6. q \in S BY <1>5, <3>3, <3>5
    <3> QED BY <3>1, <3>6
  <2> HIDE DEF S, kept
  <2> QED BY <2>1
<1>8. S \in SUBSET all
  <2>1. ASSUME NEW q \in S PROVE q \in all
    <3>1. q \in Readings(rule, dtstart) BY <1>5
    <3>2. q \in Int /\ HourOf(q) = HourOf(dtstart) /\ DayOf(q) \in days BY <3>1, ReadingsAre
    <3>3. q = Midnight(DayOf(q)) + HourOf(dtstart) BY <3>2, ReadingParts
    <3> QED BY <3>2, <3>3
  <2> HIDE DEF S, all
  <2> QED BY <2>1
<1>9. Cardinality(T) = Cardinality(kept) BY <1>1, CountedByDay
<1>10. IsFiniteSet(all) BY <1>2, CountedByDay
<1> HIDE DEF kept, T, all
<1>11. IsFiniteSet(S) /\ Cardinality(S) \in Nat BY <1>8, <1>10, PartsFinite
<1>12. Cardinality(T) <= Cardinality(S) BY <1>7, <1>11, PartsFinite
<1>13. CountOccurrencesBefore(series, k) = Cardinality(S)
  BY <1>3, <1>6 DEF CountOccurrencesBefore
<1> HIDE DEF S
<1>14. rule.count - Cardinality(S) >= 1 BY <1>4, <1>13 DEF RewriteSuccessorCount
<1> QED BY <1>1, <1>4, <1>9, <1>11, <1>12, <1>14

\* Over a range that has no end before the calendar has, the gate sees every
\* occurrence from the split on, and those before it the cut keeps.
LEMMA WideGate ==
    ASSUME NEW call, call.current \in Series, call.current.rule \in Rule,
           call.occurrence \in Int, HourOf(call.occurrence) = HourOf(call.current.dtstart),
           Narrow(call.current.zone),
           NEW consumed, consumed = CountOccurrencesBefore(call.current, call.occurrence),
           RewriteSuccessorCount(call.current.rule, consumed).ok,
           RewriteSuccessorCount(call.current.rule, consumed).rule \in Rule,
           NEW past \in Series, NEW future \in Series,
           past = [call.current EXCEPT
                     !.rule = TruncateRrule(call.current.rule, JustBefore(call.occurrence))],
           future = [call.current EXCEPT
                       !.dtstart = call.occurrence,
                       !.rule = RewriteSuccessorCount(call.current.rule, consumed).rule],
           SeriesReadings(future) # {},
           past = LoadSeriesSpec(call.own[call.series]),
           future = LoadSeriesSpec(call.own[call.newId]),
           call.range.from \in Int, call.range.to \in Int,
           call.range.from < OccurrenceInstant(call.current.zone, call.occurrence),
           \A offset \in {call.current.zone.before, call.current.zone.after} :
                Midnight(LastDay + 1) - offset <= call.range.to,
           StoredSplitReproduces(call)
    PROVE  HalvesAreWhole(call)
<1>1. PICK k \in Int, rule \in Rule, dtstart \in Int, zone \in Zones, from \in Int, to \in Int :
        /\ k = call.occurrence /\ rule = call.current.rule /\ dtstart = call.current.dtstart
        /\ zone = call.current.zone /\ from = call.range.from /\ to = call.range.to
  BY SeriesParts
<1>2. PICK newRule : newRule = RewriteSuccessorCount(rule, consumed).rule OBVIOUS
<1>3. PICK cut : cut = TruncateRrule(rule, JustBefore(k)) OBVIOUS
<1>4. /\ past.dtstart = dtstart /\ past.rule = cut /\ past.zone = zone
      /\ future.dtstart = k /\ future.rule = newRule /\ future.zone = zone
      /\ rule # Null /\ newRule.until = rule.until
  <2>1. past.dtstart = dtstart /\ past.rule = cut /\ past.zone = zone
    BY <1>1, <1>3 DEF Series
  <2>2. future.dtstart = k /\ future.rule = newRule /\ future.zone = zone
    BY <1>1, <1>2 DEF Series
  <2>3. newRule.until = rule.until BY <1>2 DEF RewriteSuccessorCount, Rule
  <2> QED BY <2>1, <2>2, <2>3, NullAssumption
<1>5. cut # Null /\ newRule # Null
  <2>1. cut \in Rule BY <1>1, <1>3, TruncatedIsRule DEF JustBefore
  <2> QED BY <1>1, <1>2, <2>1, NullAssumption
<1>6. /\ SeriesReadings(past) = Readings(cut, dtstart)
      /\ SeriesReadings(future) = Readings(newRule, k)
      /\ SeriesReadings(call.current) = Readings(rule, dtstart)
  BY <1>1, <1>4, <1>5 DEF SeriesReadings
<1>7. \A r \in SeriesReadings(future) :
        r \in Int /\ HourOf(r) = HourOf(k) /\ k <= r /\ DayOf(r) <= LastDay /\ Bounded(rule, r)
  <2> TAKE r \in SeriesReadings(future)
  <2>1. /\ r \in Int /\ HourOf(r) = HourOf(k) /\ DayOf(r) \in RuleDays(newRule, k)
        /\ Bounded(newRule, r)
    BY <1>6, ReadingsAre
  <2>2. DayOf(k) \in Int /\ DayOf(r) \in Int /\ LastDay \in Int
    BY <2>1, ReadingParts, RecurrenceAssumption
  <2>3. DayOf(k) <= DayOf(r) /\ DayOf(r) <= LastDay BY <2>1, <2>2 DEF RuleDays
  <2>4. k <= r BY <2>1, <2>3 DEF DayOf, HourOf, Hours
  <2> QED BY <1>4, <2>1, <2>3, <2>4 DEF Bounded
<1>8. Bounded(rule, k)
  <2>1. PICK r \in SeriesReadings(future) : TRUE OBVIOUS
  <2>2. r \in Int /\ k <= r /\ Bounded(rule, r) BY <1>7
  <2>3. rule.until \in Int \cup {Null} BY DEF Rule
  <2> QED BY <2>2, <2>3 DEF Bounded
<1>9. SeriesReadings(past) = {r \in SeriesReadings(call.current) : r < k}
  <2>1. \A r \in Int : /\ HourOf(r) = HourOf(dtstart) /\ DayOf(r) \in RuleDays(rule, dtstart)
                       /\ r < k
                       => Counted(rule, dtstart, DayOf(r))
    BY <1>1, <1>8, CountCovers
  <2> QED BY <1>3, <1>6, <1>8, <2>1, CutIsPast
<1>10. \A r \in SeriesReadings(call.current) :
         r \in Int /\ HourOf(r) = HourOf(k) /\ DayOf(r) <= LastDay
  <2> TAKE r \in SeriesReadings(call.current)
  <2>1. r \in Int /\ HourOf(r) = HourOf(k) /\ DayOf(r) \in RuleDays(rule, dtstart)
    BY <1>1, <1>6, ReadingsAre
  <2>2. DayOf(dtstart) \in Int /\ LastDay \in Int BY ReadingParts, RecurrenceAssumption
  <2> QED BY <2>1, <2>2 DEF RuleDays
<1>11. ASSUME NEW r \in Int, HourOf(r) = HourOf(k), DayOf(r) <= LastDay, k <= r
       PROVE  InRange(zone, call.range, r)
  <2>1. /\ zone.before \in Int /\ zone.after \in Int
        /\ zone.after - zone.before <= 23 /\ zone.before - zone.after <= 23
    BY <1>1 DEF Zones, Narrow
  <2>2. PICK i \in Int, j \in Int : /\ i = OccurrenceInstant(zone, k)
                                    /\ j = OccurrenceInstant(zone, r)
    BY StoredInstantReturns
  <2>3. i \in {k - zone.before, k - zone.after} /\ j \in {r - zone.before, r - zone.after}
    BY <2>2, InstantIs
  <2>4. i <= j
    <3>1. CASE r = k BY <2>2, <3>1
    <3>2. CASE r # k
      <4>1. k + 24 <= r BY <1>11, <3>2 DEF HourOf, Hours
      <4> QED BY <2>1, <2>3, <4>1
    <3> QED BY <3>1, <3>2
  <2>5. j < to
    <3>1. r < Midnight(LastDay + 1)
      BY <1>11, RecurrenceAssumption DEF DayOf, Midnight, Hours
    <3>2. PICK m \in Int : m = Midnight(LastDay + 1)
      BY RecurrenceAssumption DEF Midnight, Hours
    <3>3. m - zone.before <= to /\ m - zone.after <= to BY <1>1, <3>2
    <3> QED BY <2>1, <2>3, <3>1, <3>2, <3>3
  <2>6. from < i BY <1>1, <2>2
  <2>7. zone.after - zone.before \in -Padding..Padding BY <2>1 DEF Padding, Hours
  <2>8. WallAt(zone, from) - Padding <= r /\ r <= WallAt(zone, to) + Padding
    BY <2>2, <2>4, <2>5, <2>6, <2>7, WindowReaches
  <2> QED BY <1>1, <2>2, <2>4, <2>5, <2>6, <2>8 DEF InRange
<1> DEFINE seen(series) == {r \in SeriesReadings(series) : InRange(series.zone, call.range, r)}
<1>12. /\ \A r \in seen(past) : r < k
       /\ seen(past) \cup seen(future) = seen(call.current)
  <2>1. /\ Keys(ExpandSeries(past, call.range, {})) = seen(past)
        /\ Keys(ExpandSeries(future, call.range, {})) = seen(future)
        /\ Keys(ExpandSeries(call.current, call.range, {})) = seen(call.current)
    BY KeysAre
  <2>2. /\ \A r \in Keys(ExpandSeries(past, call.range, {})) : r < call.occurrence
        /\ Keys(ExpandSeries(past, call.range, {})) \cup Keys(ExpandSeries(future, call.range, {}))
             = Keys(ExpandSeries(call.current, call.range, {}))
    BY Zenon DEF StoredSplitReproduces
  <2> HIDE DEF seen
  <2> QED BY <1>1, <2>1, <2>2
<1>13. ASSUME NEW r
       PROVE  r \in SeriesReadings(future) <=> r \in SeriesReadings(call.current) /\ ~(r < k)
  <2>1. CASE r \in SeriesReadings(future)
    <3>1. r \in Int /\ HourOf(r) = HourOf(k) /\ k <= r /\ DayOf(r) <= LastDay BY <1>7, <2>1
    <3>2. InRange(zone, call.range, r) BY <1>11, <3>1
    <3>3. r \in seen(call.current) BY <1>4, <1>12, <2>1, <3>2
    <3> QED BY <2>1, <3>1, <3>3
  <2>2. CASE r \in SeriesReadings(call.current) /\ ~(r < k)
    <3>1. r \in Int /\ HourOf(r) = HourOf(k) /\ k <= r /\ DayOf(r) <= LastDay BY <1>10, <2>2
    <3>2. InRange(zone, call.range, r) BY <1>11, <3>1
    <3>3. r \in seen(call.current) BY <1>1, <2>2, <3>2
    <3>4. r \in seen(future) BY <1>12, <2>2, <3>3
    <3> QED BY <2>2, <3>4
  <2> QED BY <2>1, <2>2
<1>14. SeriesReadings(past) \cup SeriesReadings(future) = SeriesReadings(call.current)
  BY <1>9, <1>13
<1> QED BY <1>14 DEF HalvesAreWhole

\* Rows keep the zones they were created in, and a call that splits a series was
\* asked to at its hour of some day, strictly inside a range of those callers pass.
KnownZones ==
    \A e \in Ids : events[e] # Null => \E input \in Inputs : events[e].zone = input.zone

Straddles(call, committed) ==
    call.step # "idle" /\ call.scope = "this-and-future" =>
        /\ call.range \in Ranges /\ AssertVerifyRangeShape(call.range)
        /\ committed[call.series].version = call.expected =>
             HourOf(call.occurrence) = HourOf(LoadSeriesSpec(committed[call.series]).dtstart)
        /\ call.step # "open" =>
             AssertVerifyRangeStraddles(call.range, call.occurrence, call.current.zone)
        /\ Splitting(call) => SeriesReadings(Future(call)) # {}

RangeInv == KnownZones /\ \A c \in Callers : Straddles(calls[c], events)

LEMMA RangesMissNothing ==
    ASSUME StandInv, RangeInv, WideRanges
    PROVE  GateMissesNothing
<1> SUFFICES ASSUME NEW c \in Callers, Splitting(calls[c]), StoredSplitReproduces(calls[c])
             PROVE  HalvesAreWhole(calls[c])
  BY DEF GateMissesNothing
<1>0. TransactionInv BY DEF StandInv
<1>1. PICK call \in CallRecords : call = calls[c] BY <1>0, CallsTyped
<1>2. call.step = "written" /\ PlannedScope(call) = "this-and-future" BY <1>1 DEF Splitting
<1>3. HoldsTheRow(call) BY <1>2 DEF HoldsTheRow
<1>4. call.scope = "this-and-future" BY <1>2 DEF PlannedScope
<1>5. call.current \in Series /\ call.occurrence \in Int /\ PlanOf(call).ok /\ call.series \in Ids
  BY <1>0, <1>1, <1>2, <1>3, <1>4, HeldIs
<1>6. /\ KnowsItsRow(call, events) /\ ReadsWhatIsThere(call, events) /\ WritesItsPlan(call, events)
  BY <1>0, <1>1, CallsTyped DEF CallOK
<1>7. /\ events[call.series] # Null /\ events[call.series].version = call.expected
      /\ call.current = LoadSeriesSpec(events[call.series])
      /\ LoadSeriesSpec(call.own[call.series]) = Past(call)
      /\ LoadSeriesSpec(call.own[call.newId]) = Future(call)
  BY <1>2, <1>3, <1>6 DEF KnowsItsRow, ReadsWhatIsThere, WritesItsPlan
<1>8. call.current.zone = events[call.series].zone BY <1>7 DEF LoadSeriesSpec
<1>9. /\ Narrow(call.current.zone)
      /\ \E input \in Inputs : call.current.zone = input.zone
  BY <1>5, <1>7, <1>8 DEF StandInv, NarrowRows, RangeInv, KnownZones
<1>10. /\ call.range \in Ranges /\ AssertVerifyRangeShape(call.range)
       /\ HourOf(call.occurrence) = HourOf(call.current.dtstart)
       /\ AssertVerifyRangeStraddles(call.range, call.occurrence, call.current.zone)
       /\ SeriesReadings(Future(call)) # {}
  BY <1>1, <1>2, <1>4, <1>7 DEF RangeInv, Straddles
<1>11. /\ call.range.from \in Int /\ call.range.to \in Int
       /\ \A offset \in {call.current.zone.before, call.current.zone.after} :
            Midnight(LastDay + 1) - offset <= call.range.to
  BY <1>9, <1>10 DEF WideRanges
<1>12. call.range.from < OccurrenceInstant(call.current.zone, call.occurrence)
  BY <1>10 DEF AssertVerifyRangeStraddles
<1>13. PICK consumed : consumed = CountOccurrencesBefore(call.current, call.occurrence) OBVIOUS
<1>14. /\ call.current.rule \in Rule
       /\ PlanOf(call).truncated = TruncateRrule(call.current.rule, JustBefore(call.occurrence))
       /\ PlanOf(call).newRule = RewriteSuccessorCount(call.current.rule, consumed).rule
       /\ PlanOf(call).truncated \in Rule /\ PlanOf(call).newRule \in Rule
  BY <1>2, <1>5, <1>13, PlansAreRules
<1>15. RewriteSuccessorCount(call.current.rule, consumed).ok
  BY <1>4, <1>5, <1>13 DEF PlanOf, PlanSeriesEdit
<1>16. PICK past, future : past = Past(call) /\ future = Future(call) OBVIOUS
<1>17. /\ past = [call.current EXCEPT
                    !.rule = TruncateRrule(call.current.rule, JustBefore(call.occurrence))]
       /\ future = [call.current EXCEPT
                      !.dtstart = call.occurrence,
                      !.rule = RewriteSuccessorCount(call.current.rule, consumed).rule]
  BY <1>2, <1>14, <1>16 DEF Past, Future
<1>18. past \in Series /\ future \in Series BY <1>5, <1>14, <1>17 DEF Series
<1>19. /\ past = LoadSeriesSpec(call.own[call.series])
       /\ future = LoadSeriesSpec(call.own[call.newId])
       /\ SeriesReadings(future) # {} /\ StoredSplitReproduces(call)
       /\ RewriteSuccessorCount(call.current.rule, consumed).rule \in Rule
  BY <1>1, <1>7, <1>10, <1>14, <1>16
<1>20. HalvesAreWhole(call)
  BY ONLY <1>5, <1>9, <1>10, <1>11, <1>12, <1>13, <1>14, <1>15, <1>17, <1>18, <1>19, WideGate
<1> QED BY <1>1, <1>20

\* Committed rows only gain versions, and keep their zones.
LEMMA RowsGoOn ==
    ASSUME StandInv, KnownZones, TransactionNext
    PROVE  /\ KnownZones'
           /\ \A e \in Ids : events[e] # Null =>
                /\ events'[e] # Null
                /\ events'[e] = events[e] \/ events'[e].version > events[e].version
<1> DEFINE known(row) == \E input \in Inputs : row.zone = input.zone
           GoesOn(e) == /\ events'[e] # Null => known(events'[e])
                        /\ events[e] # Null =>
                             /\ events'[e] # Null
                             /\ events'[e] = events[e] \/ events'[e].version > events[e].version
<1> SUFFICES ASSUME NEW e \in Ids PROVE GoesOn(e)
  BY DEF KnownZones
<1>0. TransactionInv BY DEF StandInv
<1>1. events \in [Ids -> StoredRows \cup {Null}] BY <1>0 DEF TransactionInv, TransactionTypeOK
<1>2. CASE events' = events BY <1>2 DEF KnownZones
<1>3. ASSUME NEW f \in Ids, NEW input \in Inputs, NEW payload \in Payloads,
             CreateEvent(f, input, payload)
      PROVE  GoesOn(e)
  <2> DEFINE row == [start |-> input.start, duration |-> input.duration, zone |-> input.zone,
                     dtstart |-> input.dtstart, rule |-> input.rule, fields |-> {payload},
                     version |-> 1, lifecycle |-> "active"]
  <2>1. (\A g \in Ids : events[g] = Null) /\ events' = [events EXCEPT ![f] = row]
    BY <1>3 DEF CreateEvent
  <2>2. row.zone = input.zone OBVIOUS
  <2> HIDE DEF row
  <2> QED BY <1>1, <2>1, <2>2
<1>4. ASSUME NEW f \in Ids, events[f] # Null, NEW row \in StoredRows,
             row.zone = events[f].zone, row.version = events[f].version + 1,
             events' = [events EXCEPT ![f] = row]
      PROVE  GoesOn(e)
  <2>1. row # Null /\ row.version > events[f].version BY <1>1, <1>4, RowsLoad
  <2>2. CASE e = f BY <1>1, <1>4, <2>1, <2>2 DEF KnownZones
  <2>3. CASE e # f BY <1>1, <1>4, <2>3 DEF KnownZones
  <2> QED BY <2>2, <2>3
<1>5. ASSUME NEW f \in Ids, TrashEvent(f) PROVE GoesOn(e)
  <2>1. events[f] # Null /\ events[f] \in StoredRows BY <1>1, <1>5 DEF TrashEvent, Active
  <2>2. PICK v \in Nat : v = events[f].version + 1 BY <2>1, RowsLoad
  <2>3. PICK row : row = [events[f] EXCEPT !.lifecycle = "trashed", !.version = v] OBVIOUS
  <2>4. events' = [events EXCEPT ![f] = row] BY <1>5, <2>2, <2>3 DEF TrashEvent
  <2>5. PICK trashed : trashed = [events[f] EXCEPT !.lifecycle = "trashed"] OBVIOUS
  <2>6. /\ trashed \in StoredRows /\ trashed.zone = events[f].zone
    BY <2>1, <2>5 DEF StoredRows
  <2>7. row = [trashed EXCEPT !.version = v] BY <2>3, <2>5
  <2>8. row \in StoredRows /\ row.zone = events[f].zone /\ row.version = v
    BY <2>6, <2>7 DEF StoredRows
  <2> QED BY <1>4, <2>1, <2>2, <2>4, <2>8
<1>6. ASSUME NEW f \in Ids, NEW k, CancelOccurrence(f, k) PROVE GoesOn(e)
  <2>1. events[f] # Null /\ events[f] \in StoredRows BY <1>1, <1>6 DEF CancelOccurrence, Active
  <2>2. PICK v \in Nat : v = events[f].version + 1 BY <2>1, RowsLoad
  <2>3. PICK row : row = [events[f] EXCEPT !.version = v] OBVIOUS
  <2>4. events' = [events EXCEPT ![f] = row]
    BY <1>1, <1>6, <2>2, <2>3 DEF CancelOccurrence
  <2>5. row \in StoredRows /\ row.zone = events[f].zone /\ row.version = v
    BY <2>1, <2>3 DEF StoredRows
  <2> QED BY <1>4, <2>1, <2>2, <2>4, <2>5
<1>7. ASSUME NEW c \in Callers, Commit(c), ~Throw(c) PROVE GoesOn(e)
  <2>1. PICK call \in CallRecords : call = calls[c] BY <1>0, CallsTyped
  <2>2. /\ call.step = "written" /\ HoldsTheRow(call)
        /\ PlannedScope(call) \in {"entire-series", "this-and-future", "this"}
        /\ call.series \in Ids /\ events[call.series] # Null
        /\ call.current \in Series /\ call.current = LoadSeriesSpec(events[call.series])
        /\ events'[call.series] \in StoredRows
        /\ events'[call.series].version > events[call.series].version
        /\ LoadSeriesSpec(events'[call.series]) = Past(call)
        /\ \A f \in Ids \ {call.series, call.newId} : events'[f] = events[f]
        /\ call.newId # Null =>
             call.newId \in Ids \ {call.series} /\ events[call.newId] = Null
             /\ events'[call.newId] = call.own[call.newId]
        /\ WritesItsExceptions(call, exceptions)
    BY <1>7, <2>1, CommittedIs DEF Active
  <2>3. known(call.current)
    <3>1. call.current.zone = events[call.series].zone BY <2>2 DEF LoadSeriesSpec
    <3> QED BY <2>2, <3>1 DEF KnownZones
  <2>4. CASE e = call.series
    <3>1. Past(call).zone = call.current.zone
      <4>1. Past(call) = [call.current EXCEPT !.rule = PlanOf(call).truncated]
            \/ Past(call) = call.current
        BY DEF Past
      <4> QED BY <2>2, <4>1 DEF Series
    <3>2. events'[e].zone = Past(call).zone BY <2>2, <2>4 DEF LoadSeriesSpec
    <3>3. events'[e] # Null BY <2>2, <2>4, RowsLoad
    <3> QED BY <2>2, <2>3, <2>4, <3>1, <3>2, <3>3
  <2>5. CASE e = call.newId /\ e # call.series
    <3>0. call.newId # Null BY <2>5, PagesAssumption
    <3>1. events[e] = Null /\ events'[e] = call.own[e] BY <2>2, <2>5, <3>0
    <3>2. CASE PlannedScope(call) = "entire-series"
      BY <2>2, <2>5, <3>0, <3>1, <3>2 DEF WritesItsExceptions
    <3>3. CASE PlannedScope(call) = "this"
      BY <2>2, <2>3, <2>5, <3>1, <3>3 DEF WritesItsExceptions, DetachedRow
    <3>4. CASE PlannedScope(call) = "this-and-future"
      <4>1. LoadSeriesSpec(call.own[e]) = Future(call)
        <5>1. CallOK(call, events) BY <1>0, <2>1, CallsTyped
        <5> QED BY <2>2, <2>5, <3>4, <5>1 DEF CallOK, WritesItsPlan
      <4>2. Future(call).zone = call.current.zone BY <2>2 DEF Future, Series
      <4>3. call.own[e].zone = Future(call).zone BY <4>1 DEF LoadSeriesSpec
      <4> QED BY <2>3, <3>1, <4>2, <4>3
    <3> QED BY <2>2, <3>2, <3>3, <3>4
  <2>6. CASE e # call.series /\ e # call.newId BY <2>2, <2>6 DEF KnownZones
  <2> QED BY <2>4, <2>5, <2>6
<1>8. ASSUME NEW c \in Callers,
             \/ Commands(c) \/ LoadSeries(c) \/ UpdateSeries(c)
             \/ InsertSuccessor(c) \/ InsertDetached(c) \/ EntireSeries(c)
             \/ Throw(c) \/ Interrupted(c)
      PROVE  events' = events
  <2>1. CASE Commands(c) BY <2>1 DEF Commands, Command
  <2>2. CASE LoadSeries(c) BY <2>2 DEF LoadSeries, Throw
  <2>3. CASE UpdateSeries(c) BY <2>3 DEF UpdateSeries, Throw
  <2>4. CASE InsertSuccessor(c) BY <2>4 DEF InsertSuccessor, Throw
  <2>5. CASE InsertDetached(c) BY <2>5 DEF InsertDetached, Throw
  <2>6. CASE EntireSeries(c) BY <2>6 DEF EntireSeries
  <2>7. CASE Throw(c) \/ Interrupted(c) BY <2>7 DEF Interrupted, Throw
  <2> QED BY <1>8, <2>1, <2>2, <2>3, <2>4, <2>5, <2>6, <2>7
<1> HIDE DEF GoesOn
<1>9. CASE \E c \in Callers : Commit(c) BY <1>2, <1>7, <1>8, <1>9
<1>10. CASE \/ \E f \in Ids, input \in Inputs, payload \in Payloads : CreateEvent(f, input, payload)
            \/ \E f \in Ids : TrashEvent(f)
            \/ \E f \in {g \in Ids : Active(g)} :
                 \E k \in ReadingsOf(f) \cap Places(f) : CancelOccurrence(f, k)
  BY <1>3, <1>5, <1>6, <1>10
<1> QED BY <1>2, <1>8, <1>9, <1>10 DEF TransactionNext

\* A call is asked the same of rows that only gained versions.
LEMMA StraddlesOn ==
    ASSUME NEW committed \in [Ids -> StoredRows \cup {Null}],
           NEW later \in [Ids -> StoredRows \cup {Null}],
           NEW call \in CallRecords, CallOK(call, committed), Straddles(call, committed),
           \A e \in Ids : committed[e] # Null =>
                /\ later[e] # Null
                /\ later[e] = committed[e] \/ later[e].version > committed[e].version
    PROVE  Straddles(call, later)
<1>1. call.expected \in Nat BY DEF CallRecords
<1>2. call.step # "idle" => /\ call.series \in Ids /\ committed[call.series] # Null
                            /\ call.expected <= committed[call.series].version
  BY DEF CallOK, KnowsItsRow
<1>3. \A e \in Ids : /\ committed[e] # Null => committed[e].version \in Nat
                     /\ later[e] # Null => later[e].version \in Nat
  BY RowsLoad
<1>4. call.step # "idle" /\ later[call.series].version = call.expected
        => later[call.series] = committed[call.series]
  BY <1>1, <1>2, <1>3
<1> QED BY <1>4 DEF Straddles

LEMMA IdleStraddles == \A committed : Straddles(Idle, committed)
BY DEF Straddles, Idle

LEMMA OneCallStraddles ==
    ASSUME TransactionInv, RangeInv, UNCHANGED events, NEW c \in Callers, NEW call,
           calls' = [calls EXCEPT ![c] = call], Straddles(call, events)
    PROVE  RangeInv'
<1>1. calls'[c] = call /\ \A d \in Callers \ {c} : calls'[d] = calls[d]
  BY DEF TransactionInv, TransactionTypeOK
<1>2. \A d \in Callers : Straddles(calls'[d], events') BY <1>1 DEF RangeInv
<1>3. KnownZones' BY DEF RangeInv, KnownZones
<1> QED BY <1>2, <1>3 DEF RangeInv

LEMMA ThrowStraddles ==
    ASSUME TransactionInv, RangeInv, NEW c \in Callers, Throw(c)
    PROVE  RangeInv'
BY IdleStraddles, OneCallStraddles DEF Throw

LEMMA CommandStraddles ==
    ASSUME TransactionInv, RangeInv, NEW c \in Callers, Commands(c)
    PROVE  RangeInv'
<1>1. PICK e \in Ids, payload \in Payloads :
        /\ Active(e)
        /\ \/ Command(c, e, Null, "entire-series", Null, Null, payload)
           \/ \E n \in Free, k \in Places(e) :
                \/ \E range \in Ranges \cup {Null} :
                     Command(c, e, k, "this-and-future", range, n, payload)
                \/ Command(c, e, k, "this", Null, n, payload)
  BY DEF Commands
<1>2. ASSUME NEW k, NEW scope, NEW range, NEW n, Command(c, e, k, scope, range, n, payload),
             scope # "this-and-future"
      PROVE  RangeInv'
  <2> DEFINE call == [step |-> "open", series |-> e, occurrence |-> k, scope |-> scope,
                      range |-> range, newId |-> n, fields |-> {payload},
                      expected |-> events[e].version, current |-> Null, own |-> Unwritten,
                      excepted |-> {}]
  <2>1. calls' = [calls EXCEPT ![c] = call] /\ UNCHANGED events BY <1>2 DEF Command
  <2>2. call.scope = scope OBVIOUS
  <2> HIDE DEF call
  <2>3. Straddles(call, events) BY <1>2, <2>2 DEF Straddles
  <2> QED BY <2>1, <2>3, OneCallStraddles
<1>3. ASSUME NEW n \in Free, NEW k \in Places(e), NEW range \in Ranges \cup {Null},
             Command(c, e, k, "this-and-future", range, n, payload)
      PROVE  RangeInv'
  <2> DEFINE call == [step |-> "open", series |-> e, occurrence |-> k,
                      scope |-> "this-and-future", range |-> range, newId |-> n,
                      fields |-> {payload}, expected |-> events[e].version,
                      current |-> Null, own |-> Unwritten, excepted |-> {}]
  <2>1. /\ calls' = [calls EXCEPT ![c] = call] /\ UNCHANGED events
        /\ AssertVerifyRangeShape(range)
    BY <1>3 DEF Command
  <2>2. call.step = "open" /\ call.range = range /\ call.occurrence = k /\ call.series = e OBVIOUS
  <2> HIDE DEF call
  <2>3. range \in Ranges BY <2>1 DEF AssertVerifyRangeShape
  <2>4. LoadSeriesSpec(events[e]).dtstart \in Int
    <3>1. events[e] \in StoredRows BY <1>1 DEF TransactionInv, TransactionTypeOK, Active
    <3> QED BY <3>1, RowsLoad, SeriesParts
  <2>5. HourOf(k) = HourOf(LoadSeriesSpec(events[e]).dtstart)
    <3>1. PICK day \in EditDays : k = Midnight(day) + HourOf(LoadSeriesSpec(events[e]).dtstart)
      BY <1>3 DEF Places
    <3>2. day \in Int BY TransactionAssumption
    <3> QED BY <2>4, <3>1, <3>2, ReadingParts
  <2>6. Straddles(call, events) BY <2>1, <2>2, <2>3, <2>5 DEF Straddles, Splitting
  <2> QED BY <2>1, <2>6, OneCallStraddles
<1> QED BY <1>1, <1>2, <1>3

LEMMA LoadStraddles ==
    ASSUME TransactionInv, RangeInv, NEW c \in Callers, LoadSeries(c)
    PROVE  RangeInv'
<1>1. CASE Throw(c) BY <1>1, ThrowStraddles
<1>2. CASE ~Throw(c)
  <2>1. PICK call \in CallRecords : call = calls[c] BY CallsTyped
  <2>2. PICK current : current = LoadSeriesSpec(events[call.series]) OBVIOUS
  <2>3. PICK loaded : loaded = [call EXCEPT !.step = "loaded", !.current = current] OBVIOUS
  <2>4. /\ loaded.step = "loaded" /\ loaded.series = call.series
        /\ loaded.occurrence = call.occurrence /\ loaded.scope = call.scope
        /\ loaded.expected = call.expected /\ loaded.range = call.range
        /\ loaded.current = current
    BY <2>3 DEF CallRecords
  <2>5. /\ call.step = "open" /\ calls' = [calls EXCEPT ![c] = loaded] /\ UNCHANGED events
        /\ call.scope = "this-and-future" =>
             AssertVerifyRangeStraddles(call.range, call.occurrence, current.zone)
    BY <1>2, <2>1, <2>2, <2>3, <2>4 DEF LoadSeries
  <2>6. Straddles(call, events) BY <2>1 DEF RangeInv
  <2>7. Straddles(loaded, events) BY <2>4, <2>5, <2>6 DEF Straddles, Splitting
  <2> QED BY <2>5, <2>7, OneCallStraddles
<1> QED BY <1>1, <1>2

\* What a transaction writes is not what it was asked.
LEMMA WritesStraddle ==
    ASSUME TransactionInv, RangeInv, UNCHANGED events, NEW c \in Callers,
           NEW call \in CallRecords, call = calls[c], call.step \in {"loaded", "guarded"},
           NEW step, NEW own, NEW excepted,
           calls' = [calls EXCEPT ![c] = Wrote(call, step, own, excepted)],
           step = "written" /\ PlannedScope(call) = "this-and-future"
              => SeriesReadings(Future(call)) # {}
    PROVE  RangeInv'
<1>1. PICK next : next = Wrote(call, step, own, excepted) OBVIOUS
<1>2. /\ next.step = step /\ next.series = call.series /\ next.occurrence = call.occurrence
      /\ next.scope = call.scope /\ next.expected = call.expected
      /\ next.range = call.range /\ next.current = call.current
  BY <1>1 DEF Wrote, CallRecords
<1>3. PlannedScope(next) = PlannedScope(call) /\ PlanOf(next) = PlanOf(call)
  BY <1>2 DEF PlannedScope, PlanOf
<1>4. Future(next) = Future(call) BY <1>2, <1>3, Zenon DEF Future
<1>5. Straddles(call, events) BY DEF RangeInv
<1>6. Straddles(next, events) BY <1>2, <1>3, <1>4, <1>5 DEF Straddles, Splitting
<1> QED BY <1>1, <1>6, OneCallStraddles

LEMMA HeldStraddle ==
    ASSUME TransactionInv, RangeInv, NEW c \in Callers,
           \/ UpdateSeries(c) \/ InsertSuccessor(c) \/ InsertDetached(c) \/ EntireSeries(c)
    PROVE  RangeInv'
<1>1. CASE Throw(c) BY <1>1, ThrowStraddles
<1>2. CASE ~Throw(c)
  <2>1. PICK call \in CallRecords : call = calls[c] BY CallsTyped
  <2>2. CASE UpdateSeries(c)
    <3>1. PICK own, excepted :
            /\ calls' = [calls EXCEPT ![c] = Wrote(call, "guarded", own, excepted)]
            /\ call.step = "loaded" /\ UNCHANGED events
      BY <1>2, <2>1, <2>2 DEF UpdateSeries, Wrote
    <3> QED BY <2>1, <3>1, WritesStraddle
  <2>3. CASE InsertSuccessor(c)
    <3>1. PICK own, excepted :
            /\ calls' = [calls EXCEPT ![c] = Wrote(call, "written", own, excepted)]
            /\ call.step = "guarded" /\ UNCHANGED events
            /\ SeriesReadings(Future(call)) # {}
      BY <1>2, <2>1, <2>3 DEF InsertSuccessor, Wrote, Future
    <3> QED BY <2>1, <3>1, WritesStraddle
  <2>4. CASE InsertDetached(c)
    <3>1. PICK own, excepted :
            /\ calls' = [calls EXCEPT ![c] = Wrote(call, "written", own, excepted)]
            /\ call.step = "guarded" /\ UNCHANGED events /\ PlannedScope(call) = "this"
      BY <1>2, <2>1, <2>4 DEF InsertDetached, Wrote
    <3> QED BY <2>1, <3>1, WritesStraddle
  <2>5. CASE EntireSeries(c)
    <3>1. /\ calls' = [calls EXCEPT ![c] = [call EXCEPT !.step = "written"]]
          /\ call.step = "guarded" /\ UNCHANGED events /\ PlannedScope(call) = "entire-series"
      BY <2>1, <2>5 DEF EntireSeries
    <3>2. PICK next : next = [call EXCEPT !.step = "written"] OBVIOUS
    <3>3. /\ next.step = "written" /\ next.series = call.series
          /\ next.occurrence = call.occurrence
          /\ next.scope = call.scope /\ next.expected = call.expected
          /\ next.range = call.range /\ next.current = call.current
      BY <3>2 DEF CallRecords
    <3>4. PlannedScope(next) = "entire-series" BY <3>1, <3>3 DEF PlannedScope
    <3>5. Straddles(call, events) BY <2>1 DEF RangeInv
    <3>6. Straddles(next, events) BY <3>1, <3>3, <3>4, <3>5 DEF Straddles, Splitting
    <3> QED BY <3>1, <3>2, <3>6, OneCallStraddles
  <2> QED BY <2>2, <2>3, <2>4, <2>5
<1> QED BY <1>1, <1>2

LEMMA RangesStepKeep ==
    ASSUME StandInv, TransactionInv', RangeInv, TransactionNext
    PROVE  RangeInv'
<1>0. TransactionInv BY DEF StandInv
<1>1. /\ KnownZones'
      /\ \A e \in Ids : events[e] # Null =>
           /\ events'[e] # Null
           /\ events'[e] = events[e] \/ events'[e].version > events[e].version
  BY RowsGoOn DEF RangeInv
<1>2. ASSUME NEW c \in Callers, calls'[c] \in {Idle, calls[c]}
      PROVE  Straddles(calls'[c], events')
  <2>1. CASE calls'[c] = Idle BY <2>1, IdleStraddles
  <2>2. CASE calls'[c] = calls[c]
    <3>1. PICK call \in CallRecords : call = calls[c] BY <1>0, CallsTyped
    <3>2. CallOK(call, events) /\ Straddles(call, events) BY <1>0, <3>1, CallsTyped DEF RangeInv
    <3>3. events \in [Ids -> StoredRows \cup {Null}] /\ events' \in [Ids -> StoredRows \cup {Null}]
      BY <1>0 DEF TransactionInv, TransactionTypeOK
    <3>4. PICK committed, later : committed = events /\ later = events' OBVIOUS
    <3>5. Straddles(call, later) BY <1>1, <3>1, <3>2, <3>3, <3>4, StraddlesOn
    <3> QED BY <2>2, <3>1, <3>4, <3>5
  <2> QED BY <1>2, <2>1, <2>2
<1>3. ASSUME NEW c \in Callers,
             \/ Commands(c) \/ LoadSeries(c) \/ UpdateSeries(c)
             \/ InsertSuccessor(c) \/ InsertDetached(c) \/ EntireSeries(c)
             \/ Interrupted(c)
      PROVE  RangeInv'
  <2>1. CASE Interrupted(c) BY <1>0, <2>1, ThrowStraddles DEF Interrupted
  <2> QED BY <1>0, <1>3, <2>1, CommandStraddles, LoadStraddles, HeldStraddle
<1>4. ASSUME \A c \in Callers : calls'[c] \in {Idle, calls[c]} PROVE RangeInv'
  BY <1>1, <1>2, <1>4 DEF RangeInv
<1>5. CASE \/ \E e \in Ids, input \in Inputs, payload \in Payloads : CreateEvent(e, input, payload)
           \/ \E e \in Ids : TrashEvent(e)
           \/ \E e \in {f \in Ids : Active(f)} :
                \E k \in ReadingsOf(e) \cap Places(e) : CancelOccurrence(e, k)
  <2>1. UNCHANGED calls BY <1>5 DEF CreateEvent, TrashEvent, CancelOccurrence
  <2> QED BY <1>4, <2>1
<1>6. ASSUME NEW c \in Callers, Commit(c) PROVE RangeInv'
  <2>1. calls' = [calls EXCEPT ![c] = Idle] BY <1>6 DEF Commit, Throw
  <2>2. \A d \in Callers : calls'[d] \in {Idle, calls[d]}
    BY <1>0, <2>1 DEF TransactionInv, TransactionTypeOK
  <2> QED BY <1>4, <2>2
<1> QED BY <1>3, <1>5, <1>6 DEF TransactionNext

\* Callers that verify to the end of the calendar ask nothing more of the gate: no
\* split is let through that is not whole, wherever in a series it is made.
THEOREM EditsOverWideRangesKeep ==
    ASSUME ShortJumps, WideRanges
    PROVE  SeriesSpec => [](GateMissesNothing /\ EditsKeepTheCalendar)
<1>1. SeriesInit => StandInv /\ EditsKeepTheCalendar /\ RangeInv
  <2> SUFFICES ASSUME TransactionInit PROVE StandInv /\ EditsKeepTheCalendar /\ RangeInv
    BY DEF SeriesInit
  <2>1. RangeInv BY IdleStraddles DEF TransactionInit, RangeInv, KnownZones
  <2> QED BY <2>1, EditsStart
<1>2. StandInv /\ RangeInv => GateMissesNothing BY RangesMissNothing
<1>3. StandInv /\ EditsKeepTheCalendar /\ RangeInv /\ [SeriesNext]_seriesVars
        => StandInv' /\ EditsKeepTheCalendar' /\ RangeInv'
  <2> SUFFICES ASSUME StandInv, EditsKeepTheCalendar, RangeInv, [SeriesNext]_seriesVars
               PROVE  StandInv' /\ EditsKeepTheCalendar' /\ RangeInv'
    OBVIOUS
  <2>1. CASE TransactionNext
    <3>1. StandInv' /\ EditsKeepTheCalendar' BY <1>2, <2>1, EditsStepKeeps
    <3>2. TransactionInv' BY <3>1 DEF StandInv
    <3> QED BY <2>1, <3>1, <3>2, RangesStepKeep
  <2>2. CASE UNCHANGED transactionVars
    <3>1. UNCHANGED <<events, exceptions, calls, promised>> BY <2>2 DEF transactionVars
    <3>2. TransactionInv' BY <3>1 DEF StandInv, TransactionInv, TransactionTypeOK, CallsApart
    <3>3. StandInv' BY <3>1, <3>2 DEF StandInv, NarrowRows, ExceptionsHaveRows
    <3>4. RangeInv' BY <3>1 DEF RangeInv, KnownZones
    <3> QED BY <3>1, <3>3, <3>4, CallsShowNothing
  <2> QED BY <2>1, <2>2 DEF SeriesNext, seriesVars
<1> QED BY <1>1, <1>2, <1>3, PTL DEF SeriesSpec
=============================================================================
