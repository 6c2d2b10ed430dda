----------------------------- MODULE EditSheet -----------------------------
(***************************************************************************)
(* The edit sheet and the encrypted fields behind it.  One repeating event *)
(* is stored; several tabs of its owner load it, open the sheet, type, and *)
(* save.  The server cannot read the fields, so what a save sends is       *)
(* decided in the tab: planFieldChanges compares the form with what the    *)
(* tab's store says is stored, and a split copies the form to a new row.   *)
(*                                                                         *)
(* A content is the plaintext of one seal, None an absent field and also   *)
(* an empty input, for an empty input means "remove the field".            *)
(***************************************************************************)
EXTENDS Integers

CONSTANTS
    Fields,      \* title, location, notes
    Required,    \* the fields whose input the browser will not submit empty
    Contents,
    Tabs,
    Opaque,      \* the pairs <<tab, content>> this tab's key cannot open
    MaxVersion,  \* bound: the event's version does not go above this
    None

ASSUME SheetAssumption ==
    /\ None \notin Contents
    /\ Required \subseteq Fields
    /\ Opaque \subseteq Tabs \X Contents
    /\ MaxVersion \in Nat \ {0}

VARIABLES
    version,  \* events.version
    stored,   \* cloaked_fields of the event
    load,     \* the page load each tab is waiting for
    page,     \* what each tab renders
    sheet     \* each tab's edit sheet

vars == <<version, stored, load, page, sheet>>

Values == [Fields -> Contents \cup {None}]
Empty == [f \in Fields |-> None]

Load == [read : {"idle", "nothing", "version", "fields"}, version : 0..MaxVersion,
         shown : Values]

\* `first` is the query that ran first, None before a page has arrived.
Page == [store : {"none", "locked", "unlocked"}, first : {"version", "fields", None},
         version : 0..MaxVersion, shown : Values]

Sheet == [open : BOOLEAN, values : Values, touched : SUBSET Fields]

NotLoading == [read |-> "idle", version |-> 0, shown |-> Empty]
Requested == [NotLoading EXCEPT !.read = "nothing"]
NoPage == [store |-> "none", first |-> None, version |-> 0, shown |-> Empty]
Closed == [open |-> FALSE, values |-> Empty, touched |-> {}]

TypeOK ==
    /\ version \in 1..MaxVersion
    /\ stored \in Values
    /\ load \in [Tabs -> Load]
    /\ page \in [Tabs -> Page]
    /\ sheet \in [Tabs -> Sheet]

-----------------------------------------------------------------------------
(* Loading a page.  The row and its fields are two queries sent together,  *)
(* and the page with its answers arrives when both are in.  The store of   *)
(* the page before is then locked, and the next one is built while the     *)
(* sheet and the calendar are already on screen.                           *)

Navigate(t) ==
    /\ page' = [page EXCEPT ![t] = NoPage]
    /\ sheet' = [sheet EXCEPT ![t] = Closed]
    /\ load' = [load EXCEPT ![t] = Requested]
    /\ UNCHANGED <<version, stored>>

ReadVersion(t) ==
    /\ load[t].read = "nothing"
    /\ load' = [load EXCEPT ![t].read = "version", ![t].version = version]
    /\ UNCHANGED <<version, stored, page, sheet>>

ReadFields(t) ==
    /\ load[t].read = "nothing"
    /\ load' = [load EXCEPT ![t].read = "fields", ![t].shown = stored]
    /\ UNCHANGED <<version, stored, page, sheet>>

\* The second query, and with its answer the page.
Arrive(t) ==
    /\ load[t].read \in {"version", "fields"}
    /\ page' = [page EXCEPT
                  ![t] = [store   |-> IF page[t].store = "none" THEN "none" ELSE "locked",
                          first   |-> load[t].read,
                          version |-> IF load[t].read = "version" THEN load[t].version ELSE version,
                          shown   |-> IF load[t].read = "fields" THEN load[t].shown ELSE stored]]
    /\ load' = [load EXCEPT ![t] = NotLoading]
    /\ UNCHANGED <<version, stored, sheet>>

Rebuilt(t) ==
    /\ page[t].first # None
    /\ page[t].store # "unlocked"
    /\ page' = [page EXCEPT ![t].store = "unlocked"]
    /\ UNCHANGED <<version, stored, load, sheet>>

-----------------------------------------------------------------------------
(* The form *)

Readable(t, f) == page[t].shown[f] # None /\ <<t, page[t].shown[f]>> \notin Opaque
Unreadable(t, f) == page[t].shown[f] # None /\ <<t, page[t].shown[f]>> \in Opaque

\* What an input is seeded with: the value if the store has it ready.  A store
\* locked underneath an enabled button has nothing.
Seed(t) ==
    [f \in Fields |-> IF page[t].store = "unlocked" /\ Readable(t, f)
                      THEN page[t].shown[f] ELSE None]

Open(t) ==
    /\ ~sheet[t].open
    /\ page[t].first # None
    /\ page[t].store # "none"
    /\ sheet' = [sheet EXCEPT ![t] = [Closed EXCEPT !.open = TRUE, !.values = Seed(t)]]
    /\ UNCHANGED <<version, stored, load, page>>

Type(t, f, c) ==
    /\ sheet[t].open
    /\ <<t, c>> \notin Opaque
    /\ sheet' = [sheet EXCEPT ![t].values[f] = c, ![t].touched = @ \cup {f}]
    /\ UNCHANGED <<version, stored, load, page>>

Cancel(t) ==
    /\ sheet[t].open
    /\ sheet' = [sheet EXCEPT ![t] = Closed]
    /\ UNCHANGED <<version, stored, load, page>>

(* planFieldChanges *)

\* Mutant: an unreadable field is planned like any other.
SkipsNothing(t) == {}

Skipped(t) == {f \in Fields : Unreadable(t, f) /\ f \notin sheet[t].touched}

Differs(t, f) == Unreadable(t, f) \/ sheet[t].values[f] # page[t].shown[f]

Sealed(t) == {f \in Fields \ Skipped(t) : Differs(t, f) /\ sheet[t].values[f] # None}
Cleared(t) == {f \in Fields \ Skipped(t) : Differs(t, f) /\ sheet[t].values[f] = None}

Applied(t) ==
    [f \in Fields |-> IF f \in Sealed(t) THEN sheet[t].values[f]
                      ELSE IF f \in Cleared(t) THEN None
                      ELSE stored[f]]

-----------------------------------------------------------------------------
(* Saving *)

\* An untouched required input has no value to submit; one holding only blanks
\* has, and its blanks are trimmed to None.
Submits(t) ==
    /\ sheet[t].open
    /\ page[t].store = "unlocked"
    /\ \A f \in Required : sheet[t].values[f] = None => f \in sheet[t].touched

\* Mutant: the last write wins.
CurrentOrNot(t) == version < MaxVersion

Current(t) == page[t].version = version /\ version < MaxVersion

NextVersion == version + 1

\* The answer closes the sheet and refreshes the page; a lost answer is an
\* error that leaves the sheet open as it is.
Answered(t) ==
    \/ /\ sheet' = [sheet EXCEPT ![t] = Closed]
       /\ load' = [load EXCEPT ![t] = Requested]
    \/ UNCHANGED <<sheet, load>>

\* "All events": update_cloaked_event with the fields that changed.
Save(t) ==
    /\ Submits(t)
    /\ Sealed(t) \cup Cleared(t) # {}
    /\ Current(t)
    /\ stored' = Applied(t)
    /\ version' = NextVersion
    /\ Answered(t)
    /\ UNCHANGED page

\* "Only this event", "This and all following": split_cloaked_event.  Every
\* field of the form is sealed for the new row; an unreadable one cannot be.
Carried(t) == sheet[t].values

\* Mutant: a split goes ahead without what it cannot read.
SplitsAnyway(t) == TRUE

MaySplit(t) == Skipped(t) = {}

SaveSplit(t) ==
    /\ Submits(t)
    /\ MaySplit(t)
    /\ Current(t)
    /\ version' = NextVersion
    /\ Answered(t)
    /\ UNCHANGED <<stored, page>>

\* version_conflict.  The sheet stays open and offers "Refresh and keep my
\* changes", which reloads the page under it.
Conflict(t) ==
    /\ Submits(t)
    /\ page[t].version # version
    /\ load' = [load EXCEPT ![t] = Requested]
    /\ UNCHANGED <<version, stored, page, sheet>>

-----------------------------------------------------------------------------
Init ==
    /\ version = 1
    /\ stored \in Values
    /\ load = [t \in Tabs |-> NotLoading]
    /\ page = [t \in Tabs |-> NoPage]
    /\ sheet = [t \in Tabs |-> Closed]

LoadStep(t) == Navigate(t) \/ ReadVersion(t) \/ ReadFields(t) \/ Arrive(t) \/ Rebuilt(t)

FormStep(t) ==
    \/ Open(t)
    \/ \E f \in Fields, c \in Contents \cup {None} : Type(t, f, c)
    \/ Cancel(t)

Next == \E t \in Tabs : LoadStep(t) \/ FormStep(t) \/ Save(t) \/ SaveSplit(t) \/ Conflict(t)

Spec == Init /\ [][Next]_vars

-----------------------------------------------------------------------------
(* Properties *)

\* A version names one content, but only to a tab that read the version first:
\* the fields it read afterwards are the ones of that version as long as the
\* version is current.
VersionNamesContent ==
    \A t \in Tabs :
        page[t].first = "version" /\ page[t].version = version
          => page[t].shown = stored

\* A save replaces or removes only content its page was showing, if that page
\* read the version first.  Two tabs never overwrite each other unseen, through
\* any number of conflicts, refreshes, lost answers and retries.
OverwritesOnlyWhatItShowed ==
    [][\A t \in Tabs :
          Save(t) /\ page[t].first = "version"
            => \A f \in Fields : stored'[f] # stored[f] => page[t].shown[f] = stored[f]]_vars

\* Content this device cannot open is replaced or removed only by somebody who
\* typed in that field, however the form was seeded and refreshed.
UnreadableKept ==
    [][\A t \in Tabs :
          Save(t) /\ page[t].first = "version"
            => \A f \in Fields :
                  <<t, stored[f]>> \in Opaque /\ stored'[f] # stored[f]
                    => f \in sheet[t].touched]_vars

\* A split loses nothing: what it carries to the new row is what is stored for
\* the series, except where the form says otherwise than its page.
SplitKeepsContent ==
    [][\A t \in Tabs :
          SaveSplit(t) /\ page[t].first = "version"
            => \A f \in Fields \ sheet[t].touched :
                  Carried(t)[f] = Seed(t)[f] => Carried(t)[f] = stored[f]]_vars

=============================================================================
