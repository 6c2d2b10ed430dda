--------------------------- MODULE EventLifecycle ---------------------------
(***************************************************************************)
(* The life of an event row: created, edited, split, one occurrence        *)
(* cancelled or put back, trashed, restored, purged.  The write path is    *)
(* eight SQL functions, each one transaction; the callers are browser tabs  *)
(* that act on a page loaded some time ago and guard each write with the   *)
(* version that page showed.                                               *)
(*                                                                         *)
(* An occurrence is named by its local wall time, a pair <<day, wall>>.  A *)
(* series produces one occurrence a day from `first` to `last` at `wall`;  *)
(* a one-off event produces one.  A retime changes the wall time and keeps *)
(* the day, which is enough to tell an exception keyed to the old time     *)
(* from one keyed to the new.  A call the database refuses raises, rolls   *)
(* back and leaves the tab where it was: it is a step that does not occur. *)
(***************************************************************************)
EXTENDS Integers, FiniteSets

CONSTANTS
    EventIds,    \* client-generated ids; one is never used twice
    Tabs,        \* open browser tabs of the owner
    LastDay,     \* bound: the calendar has days 1..LastDay
    Walls,       \* wall-clock times an event can be at
    MaxVersion,  \* bound: no row's version goes above this
    MaxCreated,  \* bound: how many events are created, splits not counted
    None

ASSUME ConstantsAssumption ==
    /\ None \notin EventIds
    /\ LastDay \in Nat \ {0}
    /\ Walls \subseteq Nat /\ Walls # {}
    /\ MaxVersion \in Nat \ {0}
    /\ MaxCreated \in Nat

VARIABLES
    rows,        \* public.events
    fields,      \* ids public.cloaked_fields may hold ciphertext of (no
                 \* foreign key): what an edit clears stays counted
    exceptions,  \* public.recurrence_exceptions
    page,        \* what each tab acts from: a page it loaded, or an undo strip
    root,        \* history: the event whose creation put this row's days there
    gone,        \* history: the occurrences cancelled and not put back since
    retimed      \* history: the lineages with a this-and-future split that
                 \* also moved the time

tables == <<rows, fields, exceptions>>
history == <<root, gone, retimed>>
vars == <<tables, page, history>>

Days == 1..LastDay
Keys == Days \X Walls

\* The order of `occurrence_local` timestamps.
NotBefore(k, l) == k[1] > l[1] \/ (k[1] = l[1] /\ k[2] >= l[2])

Row == [lifecycle : {"absent", "active", "trashed", "purged"},
        version   : 0..MaxVersion,
        rrule     : BOOLEAN,
        first     : Days,
        last      : 0..LastDay,
        wall      : Walls]

AbsentRow == [lifecycle |-> "absent", version |-> 0, rrule |-> FALSE,
              first |-> 1, last |-> 0, wall |-> CHOOSE w \in Walls : TRUE]

Exception == [series : EventIds, key : Keys, kind : {"cancelled", "moved"},
              replacement : EventIds \cup {None}]

\* A tab acts from a calendar page or the trash page, is in the middle of
\* trash_cloaked_event, or shows the undo strip of its last delete.  A browser
\* tab that shows a strip beside a page is two of these.
Page == [view : {"none", "calendar", "trash", "trashing", "undo"},
         of   : EventIds \cup {None},
         row  : Row,
         excs : SUBSET [key : Keys, kind : {"cancelled", "moved"}],
         read : {"nothing", "row", "exceptions", "row first", "exceptions first"},
         key  : Keys \cup {None}]

NoPage == [view |-> "none", of |-> None, row |-> AbsentRow, excs |-> {},
           read |-> "nothing", key |-> None]

TypeOK ==
    /\ rows \in [EventIds -> Row]
    /\ fields \subseteq EventIds
    /\ exceptions \subseteq Exception
    /\ page \in [Tabs -> Page]
    /\ root \in [EventIds -> EventIds]
    /\ gone \subseteq EventIds \X Days
    /\ retimed \subseteq EventIds

-----------------------------------------------------------------------------
(* Reading the tables.                                                     *)

Present(e) == rows[e].lifecycle \in {"active", "trashed"}

ExceptionsOf(e) == {x \in exceptions : x.series = e}

\* expandSeries: what the rule produces, before the exceptions are subtracted.
Produces(row) == {<<d, row.wall>> : d \in row.first..row.last}

\* An exception is subtracted by its exact local wall time.
Shows(row, excs) ==
    IF row.lifecycle = "active" THEN Produces(row) \ {x.key : x \in excs} ELSE {}

\* The occurrences a tab's calendar page shows of its event.
OnPage(t) ==
    IF page[t].view \in {"calendar", "trashing"} /\ page[t].read \in {"row first", "exceptions first"}
    THEN Shows(page[t].row, page[t].excs)
    ELSE {}

Lineage(e, keys) == {<<root[e], k[1]>> : k \in keys}

-----------------------------------------------------------------------------
(* What a tab does around a call.                                          *)

Idle(t) == page[t].view # "trashing"

\* The optimistic guard every versioned function opens with: the row is
\* active and still at the version the tab was shown.
Unchanged(e, v) ==
    /\ rows[e].lifecycle = "active"
    /\ rows[e].version = v
    /\ v < MaxVersion

Bumped(e) == [rows[e] EXCEPT !.version = @ + 1]

\* A committed call whose answer arrives closes the sheet and refreshes the
\* page, or leaves an undo strip; one whose answer is lost leaves the tab with
\* the page it had.
Answered(t, next) == page' = [page EXCEPT ![t] = next] \/ page' = page

UndoStrip(e, row, k) == [NoPage EXCEPT !.view = "undo", !.of = e, !.row = row, !.key = k]

\* One page load is several queries with no transaction around them.  The
\* calendar sends them together, so they may run in either order; the trash
\* page asks for the exceptions first and then which series are active.
OpenPage(t, view, e) ==
    /\ Idle(t)
    /\ page[t].read \notin {"row", "exceptions"}
    /\ Present(e)
    /\ page' = [page EXCEPT ![t] = [NoPage EXCEPT !.view = view, !.of = e]]
    /\ UNCHANGED <<tables, history>>

\* The calendar asks for active rows only; the trash page for both kinds.
Lists(view, row) ==
    row.lifecycle = "active" \/ (view = "trash" /\ row.lifecycle = "trashed")

ReadRow(t) ==
    LET row == rows[page[t].of] IN
    /\ \/ page[t].view = "calendar" /\ page[t].read \in {"nothing", "exceptions"}
       \/ page[t].view = "trash" /\ page[t].read = "exceptions"
    /\ page' = [page EXCEPT ![t] =
                  IF Lists(page[t].view, row)
                  THEN [page[t] EXCEPT
                          !.row = row,
                          !.read = IF @ = "nothing" THEN "row" ELSE "exceptions first"]
                  ELSE NoPage]
    /\ UNCHANGED <<tables, history>>

ReadExceptions(t) ==
    /\ page[t].view \in {"calendar", "trash"}
    /\ page[t].read \in {"nothing", "row"}
    /\ page' = [page EXCEPT
                  ![t].excs = {[key |-> x.key, kind |-> x.kind]
                                 : x \in ExceptionsOf(page[t].of)},
                  ![t].read = IF @ = "nothing" THEN "exceptions" ELSE "row first"]
    /\ UNCHANGED <<tables, history>>

-----------------------------------------------------------------------------
(* create_cloaked_event                                                    *)

Created == {e \in EventIds : root[e] = e /\ rows[e].lifecycle # "absent"}

CreateEvent(t, e, first, last, repeats, w) ==
    /\ Idle(t)
    /\ rows[e].lifecycle = "absent"
    /\ Cardinality(Created) < MaxCreated
    /\ last = IF repeats THEN LastDay ELSE first
    /\ rows' = [rows EXCEPT ![e] =
                  [lifecycle |-> "active", version |-> 1, rrule |-> repeats,
                   first |-> first, last |-> last, wall |-> w]]
    /\ fields' = fields \cup {e}
    /\ root' = [root EXCEPT ![e] = e]
    /\ UNCHANGED <<exceptions, page, gone, retimed>>

(* update_cloaked_event.  Only a one-off event may be retimed.  Which       *)
(* fields the save writes and clears is the matter of EditSheet.            *)

UpdateEvent(t, w) ==
    LET e == page[t].of IN
    /\ Idle(t)
    /\ OnPage(t) # {}
    /\ Unchanged(e, page[t].row.version)
    /\ w # rows[e].wall => ~rows[e].rrule
    /\ rows' = [rows EXCEPT ![e] = [Bumped(e) EXCEPT !.wall = w]]
    /\ Answered(t, NoPage)
    /\ UNCHANGED <<fields, exceptions, history>>

(* split_cloaked_event.  `n` is the new row's id, `w` its wall time.       *)

SplitThis(t, k, n, w) ==
    LET e == page[t].of IN
    /\ Idle(t)
    /\ k \in OnPage(t)
    /\ Unchanged(e, page[t].row.version)
    /\ rows[e].rrule
    /\ rows[n].lifecycle = "absent"
    \* unique (series_id, occurrence_local)
    /\ \A x \in ExceptionsOf(e) : x.key # k
    /\ rows' = [rows EXCEPT
                  ![e] = Bumped(e),
                  ![n] = [lifecycle |-> "active", version |-> 1, rrule |-> FALSE,
                          first |-> k[1], last |-> k[1], wall |-> w]]
    /\ fields' = fields \cup {n}
    /\ exceptions' = exceptions \cup
         {[series |-> e, key |-> k, kind |-> "moved", replacement |-> n]}
    /\ root' = [root EXCEPT ![n] = root[e]]
    /\ Answered(t, NoPage)
    /\ UNCHANGED <<gone, retimed>>

\* Mutant: the split leaves every exception with the original.
CarriedNothing(e, n, k) == exceptions

\* The exceptions from the split point on go to the successor, keyed as they
\* were.
Carried(e, n, k) ==
    {IF x.series = e /\ NotBefore(x.key, k) THEN [x EXCEPT !.series = n] ELSE x
       : x \in exceptions}

\* Mutant: the successor starts at the occurrence after the split point.
SuccessorLate(e, k, w) ==
    [lifecycle |-> "active", version |-> 1, rrule |-> TRUE,
     first |-> k[1] + 1, last |-> rows[e].last, wall |-> w]

\* The rules planSplit makes: UNTIL one second before the occurrence for the
\* original, the rest of its budget for the successor, anchored at wall `w`.
Truncated(e, k) == [Bumped(e) EXCEPT !.last = k[1] - 1]

Successor(e, k, w) ==
    [lifecycle |-> "active", version |-> 1, rrule |-> TRUE,
     first |-> k[1], last |-> rows[e].last, wall |-> w]

SplitFuture(t, k, n, w) ==
    LET e == page[t].of IN
    /\ Idle(t)
    /\ k \in OnPage(t)
    /\ Unchanged(e, page[t].row.version)
    /\ rows[e].rrule
    /\ rows[n].lifecycle = "absent"
    /\ rows' = [rows EXCEPT ![e] = Truncated(e, k), ![n] = Successor(e, k, w)]
    /\ fields' = fields \cup {n}
    /\ exceptions' = Carried(e, n, k)
    /\ root' = [root EXCEPT ![n] = root[e]]
    /\ Answered(t, NoPage)
    /\ retimed' = IF w = rows[e].wall THEN retimed ELSE retimed \cup {root[e]}
    /\ UNCHANGED gone

-----------------------------------------------------------------------------
(* cancel_occurrence                                                       *)

CancelOccurrence(t, k) ==
    LET e == page[t].of IN
    /\ Idle(t)
    /\ k \in OnPage(t)
    /\ Unchanged(e, page[t].row.version)
    /\ rows[e].rrule
    /\ \A x \in ExceptionsOf(e) : x.key # k
    /\ exceptions' = exceptions \cup
         {[series |-> e, key |-> k, kind |-> "cancelled", replacement |-> None]}
    /\ rows' = [rows EXCEPT ![e] = Bumped(e)]
    /\ gone' = gone \cup {<<root[e], k[1]>>}
    /\ Answered(t, UndoStrip(e, AbsentRow, k))
    /\ UNCHANGED <<fields, root, retimed>>

\* The occurrence is already cancelled: the function returns quietly and the
\* tab takes it for its own success.
CancelAgain(t, k) ==
    LET e == page[t].of IN
    /\ Idle(t)
    /\ k \in OnPage(t)
    /\ Unchanged(e, page[t].row.version)
    /\ rows[e].rrule
    /\ \E x \in ExceptionsOf(e) : x.key = k /\ x.kind = "cancelled"
    /\ Answered(t, UndoStrip(e, AbsentRow, k))
    /\ UNCHANGED <<tables, history>>

(* uncancel_occurrence: no version and no lifecycle check.                 *)

Uncancelled(e, k) ==
    /\ Present(e)
    /\ rows[e].version < MaxVersion
    /\ \E x \in ExceptionsOf(e) :
         /\ x.key = k
         /\ x.kind = "cancelled"
         /\ exceptions' = exceptions \ {x}
    /\ rows' = [rows EXCEPT ![e] = Bumped(e)]
    /\ gone' = gone \ {<<root[e], k[1]>>}
    /\ UNCHANGED <<fields, root, retimed>>

UndoCancel(t) ==
    /\ page[t].view = "undo"
    /\ page[t].key # None
    /\ Uncancelled(page[t].of, page[t].key)
    /\ Answered(t, NoPage)

\* The trash page lists the cancelled occurrences of series still active.
UncancelFromTrash(t, k) ==
    /\ page[t].view = "trash"
    /\ page[t].row.lifecycle = "active"
    /\ [key |-> k, kind |-> "cancelled"] \in page[t].excs
    /\ Uncancelled(page[t].of, k)
    /\ Answered(t, NoPage)

-----------------------------------------------------------------------------
(* trash_cloaked_event reads the row without a lock, then updates it under *)
(* a guard that repeats the check.                                         *)

TrashSelect(t) ==
    /\ Idle(t)
    /\ OnPage(t) # {}
    /\ Unchanged(page[t].of, page[t].row.version)
    /\ page' = [page EXCEPT ![t].view = "trashing"]
    /\ UNCHANGED <<tables, history>>

\* Mutant: the update trusts the check the select made.
TrashUnchecked(t) ==
    LET e == page[t].of IN
    /\ page[t].view = "trashing"
    /\ rows[e].lifecycle = "active"
    /\ rows[e].version < MaxVersion
    /\ rows' = [rows EXCEPT ![e] = [Bumped(e) EXCEPT !.lifecycle = "trashed"]]
    /\ \/ page' = [page EXCEPT ![t] = UndoStrip(e, page[t].row, None)]
       \/ page' = [page EXCEPT ![t].view = "calendar"]
    /\ UNCHANGED <<fields, exceptions, history>>

TrashUpdate(t) ==
    LET e == page[t].of IN
    /\ page[t].view = "trashing"
    /\ Unchanged(e, page[t].row.version)
    /\ rows' = [rows EXCEPT ![e] = [Bumped(e) EXCEPT !.lifecycle = "trashed"]]
    /\ \/ page' = [page EXCEPT ![t] = UndoStrip(e, page[t].row, None)]
       \/ page' = [page EXCEPT ![t].view = "calendar"]
    /\ UNCHANGED <<fields, exceptions, history>>

\* The UPDATE matched nothing: a conflict, and nothing was written.
TrashConflict(t) ==
    LET row == rows[page[t].of] IN
    /\ page[t].view = "trashing"
    /\ row.lifecycle # "active" \/ row.version # page[t].row.version
    /\ page' = [page EXCEPT ![t].view = "calendar"]
    /\ UNCHANGED <<tables, history>>

(* restore_cloaked_event *)

\* Mutant: a restore that takes the row back to the version it had.
RestoredToOldVersion(e, deletedFrom) ==
    /\ rows[e].lifecycle = "trashed"
    /\ rows[e].version = deletedFrom + 1
    /\ rows' = [rows EXCEPT ![e].lifecycle = "active", ![e].version = deletedFrom]
    /\ UNCHANGED <<fields, exceptions, history>>

Restored(e, deletedFrom) ==
    /\ rows[e].lifecycle = "trashed"
    /\ rows[e].version = deletedFrom + 1
    /\ rows[e].version < MaxVersion
    /\ rows' = [rows EXCEPT ![e] = [Bumped(e) EXCEPT !.lifecycle = "active"]]
    /\ UNCHANGED <<fields, exceptions, history>>

UndoTrash(t) ==
    /\ page[t].view = "undo"
    /\ page[t].key = None
    /\ Restored(page[t].of, page[t].row.version)
    /\ Answered(t, NoPage)

RestoreFromTrash(t) ==
    /\ page[t].view = "trash"
    /\ page[t].row.lifecycle = "trashed"
    /\ Restored(page[t].of, page[t].row.version - 1)
    /\ Answered(t, NoPage)

(* purge_cloaked_event: an exception pointing at this row as its           *)
(* replacement becomes a cancellation, the ciphertext goes, and with the   *)
(* row the exceptions it owns.                                             *)

Detached(e) == {x \in exceptions : x.replacement = e}

\* Mutant: `on delete set null` alone, the kind still "moved".
PurgedDangling(e) ==
    {x \in exceptions \ Detached(e) : x.series # e}
      \cup {[x EXCEPT !.replacement = None] : x \in {y \in Detached(e) : y.series # e}}

PurgedExceptions(e) ==
    {x \in exceptions \ Detached(e) : x.series # e}
      \cup {[x EXCEPT !.kind = "cancelled", !.replacement = None]
              : x \in {y \in Detached(e) : y.series # e}}

PurgedFields(e) == fields \ {e}

PurgeEvent(t) ==
    LET e == page[t].of IN
    /\ page[t].view = "trash"
    /\ page[t].row.lifecycle = "trashed"
    /\ rows[e].lifecycle = "trashed"
    /\ exceptions' = PurgedExceptions(e)
    /\ fields' = PurgedFields(e)
    /\ rows' = [rows EXCEPT ![e] = [AbsentRow EXCEPT !.lifecycle = "purged"]]
    /\ gone' = gone \cup {<<root[e], x.key[1]>> : x \in {y \in Detached(e) : y.series # e}}
    /\ Answered(t, NoPage)
    /\ UNCHANGED <<root, retimed>>

-----------------------------------------------------------------------------
Init ==
    /\ rows = [e \in EventIds |-> AbsentRow]
    /\ fields = {}
    /\ exceptions = {}
    /\ page = [t \in Tabs |-> NoPage]
    /\ root = [e \in EventIds |-> e]
    /\ gone = {}
    /\ retimed = {}

Load(t) ==
    \/ \E view \in {"calendar", "trash"}, e \in EventIds : OpenPage(t, view, e)
    \/ ReadRow(t)
    \/ ReadExceptions(t)

Edit(t) ==
    \/ \E e \in EventIds, first, last \in Days, repeats \in BOOLEAN, w \in Walls :
         CreateEvent(t, e, first, last, repeats, w)
    \/ \E w \in Walls : UpdateEvent(t, w)
    \/ \E k \in Keys, n \in EventIds, w \in Walls : SplitThis(t, k, n, w)
    \/ \E k \in Keys, n \in EventIds, w \in Walls : SplitFuture(t, k, n, w)

Delete(t) ==
    \/ \E k \in Keys : CancelOccurrence(t, k)
    \/ \E k \in Keys : CancelAgain(t, k)
    \/ TrashSelect(t)
    \/ TrashUpdate(t)
    \/ TrashConflict(t)
    \/ PurgeEvent(t)

PutBack(t) ==
    \/ UndoCancel(t)
    \/ \E k \in Keys : UncancelFromTrash(t, k)
    \/ UndoTrash(t)
    \/ RestoreFromTrash(t)

Next == \E t \in Tabs : Load(t) \/ Edit(t) \/ Delete(t) \/ PutBack(t)

Spec == Init /\ [][Next]_vars

-----------------------------------------------------------------------------
(* Properties *)

\* The tables stay consistent with each other although only one foreign key
\* of the schema cascades the way the program needs: an exception belongs to
\* a stored series, only a 'moved' one names a replacement, and that row is
\* stored and is the same day of the same lineage.
ExceptionsAnchored ==
    \A x \in exceptions :
        /\ Present(x.series)
        /\ (x.kind = "moved") = (x.replacement # None)
        /\ x.kind = "moved" =>
              LET r == x.replacement IN
              /\ Present(r) /\ ~rows[r].rrule
              /\ root[r] = root[x.series] /\ rows[r].first = x.key[1]

\* unique (series_id, occurrence_local): a split that carries exceptions and a
\* split that adds one never collide.
OneExceptionPerSlot ==
    \A x, y \in exceptions : x.series = y.series /\ x.key = y.key => x = y

\* No foreign key ties ciphertext to its event: purge alone erases it, and no
\* interleaving leaves ciphertext behind for a row that is gone.
NoOrphanCiphertext == \A e \in fields : Present(e)

\* Trash, restore, splits, undo and purge of several tabs, in any order, leave
\* the four tables of the schema consistent with each other.
TablesAgree == ExceptionsAnchored /\ OneExceptionPerSlot /\ NoOrphanCiphertext

\* A version names one state of the row.  A tab that holds the current version
\* holds the current row, whatever was trashed, restored, split or put back
\* since it loaded: no write can return a row to a version with other content.
VersionNamesRow ==
    \A t \in Tabs :
        LET p == page[t] IN
        /\ p.of # None
        /\ p.row.lifecycle # "absent"
        /\ p.row.version = rows[p.of].version
        => p.row = rows[p.of]

\* ... and when its exceptions were read after the row, it also shows exactly
\* the occurrences the database has.
VersionNamesOccurrences ==
    \A t \in Tabs :
        LET p == page[t] IN
        /\ p.view = "calendar" /\ p.read = "row first"
        /\ p.row.lifecycle = "active"
        /\ p.row.version = rows[p.of].version
        => OnPage(t) = Shows(rows[p.of], ExceptionsOf(p.of))

\* The version a tab sends stands for all it has on its page, so that checking
\* the version alone is checking the page.
VersionNamesPage == VersionNamesRow /\ VersionNamesOccurrences

\* What the stored rows put on the calendar.
Displayed(e) == Lineage(e, Shows(rows[e], ExceptionsOf(e)))
OnCalendar == UNION {Displayed(e) : e \in EventIds}

\* A cancelled occurrence stays off the calendar until somebody puts it back,
\* through splits, trash and restore, unless its series was split to another
\* hour: the exceptions carried over then name slots the successor never fills.
NoSilentReturnUnlessRetimed == \A l \in OnCalendar \cap gone : l[1] \in retimed

\* No occurrence is on the calendar twice, once in a series and once as the
\* row a split detached, or in both halves of a split series.
ShownOnce ==
    \A e, f \in EventIds :
        e # f => \A l \in Displayed(e) \cap Displayed(f) : l[1] \in retimed

\* What is not on the calendar and was not purged can be put back: its row is
\* in the trash, or its slot is a cancelled occurrence of a stored series.
Recoverable ==
    \A e \in EventIds : Present(e) =>
        \A d \in rows[e].first..rows[e].last :
            \/ <<root[e], d>> \in OnCalendar
            \/ \E f \in EventIds :
                  /\ rows[f].lifecycle = "trashed" /\ root[f] = root[e]
                  /\ d \in rows[f].first..rows[f].last
            \/ \E x \in exceptions :
                  /\ x.kind = "cancelled" /\ root[x.series] = root[e] /\ x.key[1] = d

\* No sequence of edits by several tabs loses an occurrence, shows one twice or
\* brings back one that was cancelled.
CalendarKept == NoSilentReturnUnlessRetimed /\ ShownOnce /\ Recoverable

\* An active row changes only under a tab that holds the row exactly as it is,
\* or by putting a cancelled occurrence back, which needs no version: no write
\* lands on a row its author has not seen, the unlocked trash included.
NoBlindWrite ==
    [][\A e \in EventIds :
          rows[e].lifecycle = "active" /\ rows'[e] # rows[e]
            => \/ \E t \in Tabs : page[t].of = e /\ page[t].row = rows[e]
               \/ \E x \in ExceptionsOf(e) :
                    x.kind = "cancelled" /\ exceptions' = exceptions \ {x}]_vars

(* The calendar as its owner sees it: each occurrence is on it, or off it and  *)
(* recoverable, or erased.  Edits do not show, and neither do splits that keep *)
(* the hour; a series split to another hour keeps exceptions that name the old *)
(* one, and leaves the ledger.                                                 *)

Stored(e) == Lineage(e, Produces(rows[e]))

Retimed == retimed \X Days

On == OnCalendar \ Retimed

Off == ((UNION {Stored(e) : e \in {f \in EventIds : Present(f)}}) \ OnCalendar) \ Retimed

Ledger == INSTANCE OccurrenceLedger
            WITH Occurrences <- EventIds \X Days, on <- On, off <- Off, closed <- Retimed

\* Whatever tabs do, in any order and from pages of any age, the stored rows
\* keep the ledger's promise for every occurrence whose series kept its hour.
ImplementsLedger == Ledger!Spec

=============================================================================
