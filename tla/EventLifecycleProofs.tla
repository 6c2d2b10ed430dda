------------------------ MODULE EventLifecycleProofs ------------------------
(***************************************************************************)
(* Invariance proofs for EventLifecycle, for any number of events, tabs,   *)
(* days and wall times and any bound on versions.                          *)
(***************************************************************************)
EXTENDS EventLifecycle, TLAPS

\* A tab that has anything open has it open on an event.
PagesNameEvents == \A t \in Tabs : page[t].view # "none" => page[t].of \in EventIds

TypeInv == TypeOK /\ PagesNameEvents

-----------------------------------------------------------------------------
(* Types.  The constructors of rows and pages first.                       *)

LEMMA NoneTyped == AbsentRow \in Row /\ NoPage \in Page
BY ConstantsAssumption DEF AbsentRow, NoPage, Row, Page, Days

LEMMA BumpedTyped ==
    ASSUME NEW e \in EventIds, rows \in [EventIds -> Row],
           rows[e].version < MaxVersion
    PROVE  /\ Bumped(e) \in Row
           /\ Bumped(e).version = rows[e].version + 1
           /\ Bumped(e).lifecycle = rows[e].lifecycle
           /\ Bumped(e).rrule = rows[e].rrule
           /\ Bumped(e).first = rows[e].first
BY ConstantsAssumption DEF Bumped, Row

LEMMA UnchangedMeans ==
    ASSUME NEW e \in EventIds, rows \in [EventIds -> Row], NEW v, Unchanged(e, v)
    PROVE  rows[e].lifecycle = "active" /\ rows[e].version = v /\ rows[e].version < MaxVersion
BY DEF Unchanged

LEMMA OnPageMeans ==
    ASSUME TypeInv, NEW t \in Tabs, NEW k \in OnPage(t)
    PROVE  page[t].of \in EventIds /\ page[t].row \in Row /\ k \in Keys
<1>1. page[t].view # "none" BY DEF OnPage
<1>2. page[t] \in Page BY DEF TypeInv, TypeOK
<1>3. page[t].row \in Row BY <1>2 DEF Page
<1>4. k \in Produces(page[t].row) BY DEF OnPage, Shows
<1>5. PICK d \in page[t].row.first..page[t].row.last : k = <<d, page[t].row.wall>>
  BY <1>4 DEF Produces
<1>6. d \in Days BY <1>3, <1>5, ConstantsAssumption DEF Row, Days
<1>7. page[t].row.wall \in Walls BY <1>3 DEF Row
<1> QED BY <1>1, <1>3, <1>5, <1>6, <1>7 DEF TypeInv, PagesNameEvents, Keys

LEMMA AnsweredTyped ==
    ASSUME TypeInv, NEW t \in Tabs, NEW next \in Page, Answered(t, next),
           next.view # "none" => next.of \in EventIds
    PROVE  page' \in [Tabs -> Page] /\ PagesNameEvents'
BY DEF TypeInv, TypeOK, PagesNameEvents, Answered

LEMMA UndoStripTyped ==
    ASSUME NEW e \in EventIds, NEW row \in Row, NEW k \in Keys \cup {None}
    PROVE  /\ UndoStrip(e, row, k) \in Page
           /\ UndoStrip(e, row, k).view = "undo"
           /\ UndoStrip(e, row, k).of = e
BY NoneTyped DEF UndoStrip, NoPage, Page

\* One step per action: only the variables the action changes are at stake.
LEMMA LoadTyped ==
    ASSUME TypeInv, NEW t \in Tabs, Load(t)
    PROVE  TypeInv'
<1> USE DEF TypeInv, TypeOK
<1>1. ASSUME NEW view \in {"calendar", "trash"}, NEW e \in EventIds, OpenPage(t, view, e)
      PROVE  TypeInv'
  <2>1. [NoPage EXCEPT !.view = view, !.of = e] \in Page BY NoneTyped DEF NoPage, Page
  <2>2. page' = [page EXCEPT ![t] = [NoPage EXCEPT !.view = view, !.of = e]]
        /\ UNCHANGED <<tables, history>>
    BY <1>1 DEF OpenPage
  <2>3. [NoPage EXCEPT !.view = view, !.of = e].of = e BY DEF NoPage
  <2> QED BY <2>1, <2>2, <2>3 DEF PagesNameEvents, tables, history
<1>2. ASSUME ReadRow(t) PROVE TypeInv'
  <2>1. page[t].of \in EventIds /\ page[t] \in Page BY <1>2 DEF ReadRow, PagesNameEvents
  <2>2. rows[page[t].of] \in Row BY <2>1
  <2>3. PICK next \in Page :
          /\ page' = [page EXCEPT ![t] = next]
          /\ next.view # "none" => next.of \in EventIds
    <3> DEFINE loaded == [page[t] EXCEPT !.row = rows[page[t].of],
                  !.read = IF @ = "nothing" THEN "row" ELSE "exceptions first"]
    <3>1. loaded \in Page /\ loaded.of = page[t].of BY <2>1, <2>2 DEF Page
    <3>2. page' = [page EXCEPT ![t] = loaded] \/ page' = [page EXCEPT ![t] = NoPage]
      BY <1>2 DEF ReadRow
    <3> QED BY <3>1, <3>2, <2>1, NoneTyped DEF NoPage
  <2>4. UNCHANGED <<tables, history>> BY <1>2 DEF ReadRow
  <2> QED BY <2>3, <2>4 DEF PagesNameEvents, tables, history
<1>3. ASSUME ReadExceptions(t) PROVE TypeInv'
  <2> DEFINE excs == {[key |-> x.key, kind |-> x.kind] : x \in ExceptionsOf(page[t].of)}
  <2>1. excs \in SUBSET [key : Keys, kind : {"cancelled", "moved"}]
    BY DEF ExceptionsOf, Exception
  <2>2. page[t] \in Page /\ page[t].of \in EventIds BY <1>3 DEF ReadExceptions, PagesNameEvents
  <2> DEFINE next == [page[t] EXCEPT !.excs = excs,
                        !.read = IF @ = "nothing" THEN "exceptions" ELSE "row first"]
  <2>3. next \in Page /\ next.of = page[t].of BY <2>1, <2>2 DEF Page
  <2>4. page' = [page EXCEPT ![t] = next] /\ UNCHANGED <<tables, history>>
    BY <1>3 DEF ReadExceptions
  <2> HIDE DEF next
  <2> QED BY <2>2, <2>3, <2>4 DEF PagesNameEvents, tables, history
<1> QED BY <1>1, <1>2, <1>3 DEF Load

LEMMA EditTyped ==
    ASSUME TypeInv, NEW t \in Tabs, Edit(t)
    PROVE  TypeInv'
<1> USE DEF TypeInv, TypeOK
<1>1. ASSUME NEW e \in EventIds, NEW first \in Days, NEW last \in Days,
             NEW repeats \in BOOLEAN, NEW w \in Walls,
             CreateEvent(t, e, first, last, repeats, w)
      PROVE  TypeInv'
  <2>1. [lifecycle |-> "active", version |-> 1, rrule |-> repeats,
         first |-> first, last |-> last, wall |-> w] \in Row
    BY ConstantsAssumption DEF Row, Days
  <2> QED BY <1>1, <2>1 DEF CreateEvent, PagesNameEvents
<1>2. ASSUME NEW w \in Walls, UpdateEvent(t, w) PROVE TypeInv'
  <2> DEFINE e == page[t].of
  <2>1. PICK k : k \in OnPage(t) BY <1>2 DEF UpdateEvent
  <2>2. e \in EventIds BY <2>1, OnPageMeans
  <2>3. Bumped(e) \in Row BY <1>2, <2>2, UnchangedMeans, BumpedTyped DEF UpdateEvent
  <2>4. [Bumped(e) EXCEPT !.wall = w] \in Row BY <2>3 DEF Row
  <2>5. Answered(t, NoPage) BY <1>2 DEF UpdateEvent
  <2>6. page' \in [Tabs -> Page] /\ PagesNameEvents'
    BY <2>5, NoneTyped, AnsweredTyped DEF NoPage
  <2>7. rows' = [rows EXCEPT ![e] = [Bumped(e) EXCEPT !.wall = w]]
        /\ UNCHANGED <<fields, exceptions, history>>
    BY <1>2 DEF UpdateEvent
  <2> HIDE DEF e
  <2> QED BY <2>2, <2>4, <2>6, <2>7 DEF history
<1>3. ASSUME NEW k \in Keys, NEW n \in EventIds, NEW w \in Walls, SplitThis(t, k, n, w)
      PROVE  TypeInv'
  <2> DEFINE e == page[t].of
             detached == [lifecycle |-> "active", version |-> 1, rrule |-> FALSE,
                          first |-> k[1], last |-> k[1], wall |-> w]
             moved == [series |-> e, key |-> k, kind |-> "moved", replacement |-> n]
  <2>1. e \in EventIds BY <1>3, OnPageMeans DEF SplitThis
  <2>2. Bumped(e) \in Row BY <1>3, <2>1, UnchangedMeans, BumpedTyped DEF SplitThis
  <2>3. detached \in Row BY ConstantsAssumption DEF Row, Days, Keys
  <2>4. moved \in Exception BY <2>1 DEF Exception
  <2>5. page' \in [Tabs -> Page] /\ PagesNameEvents'
    BY <1>3, NoneTyped, AnsweredTyped DEF NoPage, SplitThis
  <2>6. /\ rows' = [rows EXCEPT ![e] = Bumped(e), ![n] = detached]
        /\ fields' = fields \cup {n}
        /\ exceptions' = exceptions \cup {moved}
        /\ root' = [root EXCEPT ![n] = root[e]]
        /\ UNCHANGED <<gone, retimed>>
    BY <1>3 DEF SplitThis
  <2> HIDE DEF e, detached, moved
  <2> QED BY <2>1, <2>2, <2>3, <2>4, <2>5, <2>6
<1>4. ASSUME NEW k \in Keys, NEW n \in EventIds, NEW w \in Walls, SplitFuture(t, k, n, w)
      PROVE  TypeInv'
  <2> DEFINE e == page[t].of
  <2>1. e \in EventIds BY <1>4, OnPageMeans DEF SplitFuture
  <2>2. Bumped(e) \in Row BY <1>4, <2>1, UnchangedMeans, BumpedTyped DEF SplitFuture
  <2>3. Truncated(e, k) \in Row
    BY <2>2, ConstantsAssumption DEF Truncated, Row, Days, Keys
  <2>4. Successor(e, k, w) \in Row
    BY <2>1, ConstantsAssumption DEF Successor, Row, Days, Keys
  <2>5. Carried(e, n, k) \subseteq Exception
    BY DEF Carried, Exception
  <2>6. page' \in [Tabs -> Page] /\ PagesNameEvents'
    BY <1>4, NoneTyped, AnsweredTyped DEF NoPage, SplitFuture
  <2>7. /\ rows' = [rows EXCEPT ![e] = Truncated(e, k), ![n] = Successor(e, k, w)]
        /\ fields' = fields \cup {n}
        /\ exceptions' = Carried(e, n, k)
        /\ root' = [root EXCEPT ![n] = root[e]]
        /\ gone' = gone
        /\ retimed' \subseteq retimed \cup {root[e]}
    BY <1>4 DEF SplitFuture
  <2> HIDE DEF e
  <2> QED BY <2>1, <2>3, <2>4, <2>5, <2>6, <2>7
<1> QED BY <1>1, <1>2, <1>3, <1>4 DEF Edit

LEMMA DeleteTyped ==
    ASSUME TypeInv, NEW t \in Tabs, Delete(t)
    PROVE  TypeInv'
<1> USE DEF TypeInv, TypeOK
<1>1. ASSUME NEW k \in Keys, CancelOccurrence(t, k) PROVE TypeInv'
  <2> DEFINE e == page[t].of
             cancelled == [series |-> e, key |-> k, kind |-> "cancelled", replacement |-> None]
  <2>1. e \in EventIds BY <1>1, OnPageMeans DEF CancelOccurrence
  <2>2. Bumped(e) \in Row BY <1>1, <2>1, UnchangedMeans, BumpedTyped DEF CancelOccurrence
  <2>3. cancelled \in Exception BY <2>1 DEF Exception
  <2>4. page' \in [Tabs -> Page] /\ PagesNameEvents'
    BY <1>1, <2>1, NoneTyped, UndoStripTyped, AnsweredTyped DEF CancelOccurrence
  <2>5. /\ rows' = [rows EXCEPT ![e] = Bumped(e)]
        /\ exceptions' = exceptions \cup {cancelled}
        /\ gone' = gone \cup {<<root[e], k[1]>>}
        /\ UNCHANGED <<fields, root, retimed>>
    BY <1>1 DEF CancelOccurrence
  <2>6. <<root[e], k[1]>> \in EventIds \X Days BY <2>1 DEF Keys
  <2> HIDE DEF e, cancelled
  <2> QED BY <2>1, <2>2, <2>3, <2>4, <2>5, <2>6
<1>2. ASSUME NEW k \in Keys, CancelAgain(t, k) PROVE TypeInv'
  <2>1. page[t].of \in EventIds BY <1>2, OnPageMeans DEF CancelAgain
  <2>2. page' \in [Tabs -> Page] /\ PagesNameEvents'
    <3> DEFINE strip == UndoStrip(page[t].of, AbsentRow, k)
    <3>1. strip \in Page /\ strip.of = page[t].of BY <2>1, NoneTyped, UndoStripTyped
    <3>2. Answered(t, strip) BY <1>2 DEF CancelAgain
    <3> HIDE DEF strip
    <3> QED BY <2>1, <3>1, <3>2, AnsweredTyped
  <2>3. UNCHANGED <<tables, history>> BY <1>2 DEF CancelAgain
  <2> QED BY <2>2, <2>3 DEF tables, history
<1>3. ASSUME TrashSelect(t) PROVE TypeInv'
  <2>1. PICK k : k \in OnPage(t) BY <1>3 DEF TrashSelect
  <2>2. page[t].of \in EventIds BY <2>1, OnPageMeans
  <2>3. [page[t] EXCEPT !.view = "trashing"] \in Page BY DEF Page
  <2>4. page' = [page EXCEPT ![t] = [page[t] EXCEPT !.view = "trashing"]]
        /\ UNCHANGED <<tables, history>>
    BY <1>3 DEF TrashSelect
  <2> QED BY <2>2, <2>3, <2>4 DEF PagesNameEvents, Page, tables, history
<1>4. ASSUME TrashUpdate(t) PROVE TypeInv'
  <2> DEFINE e == page[t].of
  <2>1. e \in EventIds BY <1>4 DEF TrashUpdate, PagesNameEvents
  <2>2. Bumped(e) \in Row BY <1>4, <2>1, UnchangedMeans, BumpedTyped DEF TrashUpdate
  <2>3. [Bumped(e) EXCEPT !.lifecycle = "trashed"] \in Row BY <2>2 DEF Row
  <2>4. page[t] \in Page /\ page[t].row \in Row BY DEF Page
  <2>5. UndoStrip(e, page[t].row, None) \in Page
        /\ UndoStrip(e, page[t].row, None).of = e
    BY <2>1, <2>4, UndoStripTyped
  <2>6. [page[t] EXCEPT !.view = "calendar"] \in Page
        /\ [page[t] EXCEPT !.view = "calendar"].of = e
    BY <2>4 DEF Page
  <2>7. \/ page' = [page EXCEPT ![t] = UndoStrip(e, page[t].row, None)]
        \/ page' = [page EXCEPT ![t] = [page[t] EXCEPT !.view = "calendar"]]
    BY <1>4 DEF TrashUpdate
  <2>8. page' \in [Tabs -> Page] /\ PagesNameEvents'
    BY <2>1, <2>5, <2>6, <2>7 DEF PagesNameEvents
  <2>9. /\ rows' = [rows EXCEPT ![e] = [Bumped(e) EXCEPT !.lifecycle = "trashed"]]
        /\ UNCHANGED <<fields, exceptions, history>>
    BY <1>4 DEF TrashUpdate
  <2> HIDE DEF e
  <2> QED BY <2>1, <2>3, <2>8, <2>9 DEF history
<1>5. ASSUME TrashConflict(t) PROVE TypeInv'
  <2>1. page[t].of \in EventIds /\ page[t] \in Page BY <1>5 DEF TrashConflict, PagesNameEvents
  <2>2. [page[t] EXCEPT !.view = "calendar"] \in Page
        /\ [page[t] EXCEPT !.view = "calendar"].of = page[t].of
    BY <2>1 DEF Page
  <2>3. page' = [page EXCEPT ![t] = [page[t] EXCEPT !.view = "calendar"]]
        /\ UNCHANGED <<tables, history>>
    BY <1>5 DEF TrashConflict
  <2> QED BY <2>1, <2>2, <2>3 DEF PagesNameEvents, tables, history
<1>6. ASSUME PurgeEvent(t) PROVE TypeInv'
  <2> DEFINE e == page[t].of
             erased == {<<root[e], x.key[1]>> : x \in {y \in Detached(e) : y.series # e}}
  <2>1. e \in EventIds BY <1>6 DEF PurgeEvent, PagesNameEvents
  <2>2. [AbsentRow EXCEPT !.lifecycle = "purged"] \in Row BY NoneTyped DEF Row
  <2>3. PurgedExceptions(e) \subseteq Exception
    <3>1. \A x \in exceptions :
            [x EXCEPT !.kind = "cancelled", !.replacement = None] \in Exception
      BY DEF Exception
    <3> QED BY <3>1 DEF PurgedExceptions, Detached
  <2>4. erased \subseteq EventIds \X Days BY <2>1 DEF Detached, Exception, Keys
  <2>5. page' \in [Tabs -> Page] /\ PagesNameEvents'
    BY <1>6, NoneTyped, AnsweredTyped DEF NoPage, PurgeEvent
  <2>6. /\ rows' = [rows EXCEPT ![e] = [AbsentRow EXCEPT !.lifecycle = "purged"]]
        /\ exceptions' = PurgedExceptions(e)
        /\ fields' \subseteq fields
        /\ gone' = gone \cup erased
        /\ UNCHANGED <<root, retimed>>
    BY <1>6 DEF PurgeEvent, PurgedFields
  <2> HIDE DEF e, erased
  <2> QED BY <2>1, <2>2, <2>3, <2>4, <2>5, <2>6
<1> QED BY <1>1, <1>2, <1>3, <1>4, <1>5, <1>6 DEF Delete

LEMMA UncancelledTyped ==
    ASSUME TypeInv, NEW e \in EventIds, NEW k, Uncancelled(e, k)
    PROVE  /\ rows' \in [EventIds -> Row] /\ fields' \subseteq EventIds
           /\ exceptions' \subseteq Exception /\ root' = root
           /\ gone' \subseteq EventIds \X Days /\ retimed' \subseteq EventIds
<1>1. rows \in [EventIds -> Row] BY DEF TypeInv, TypeOK
<1>2. Bumped(e) \in Row BY <1>1, BumpedTyped DEF Uncancelled
<1> QED BY <1>1, <1>2 DEF Uncancelled, TypeInv, TypeOK

LEMMA RestoredTyped ==
    ASSUME TypeInv, NEW e \in EventIds, NEW v, Restored(e, v)
    PROVE  rows' \in [EventIds -> Row] /\ UNCHANGED <<fields, exceptions, history>>
<1>1. rows \in [EventIds -> Row] BY DEF TypeInv, TypeOK
<1>2. Bumped(e) \in Row BY <1>1, BumpedTyped DEF Restored
<1>3. [Bumped(e) EXCEPT !.lifecycle = "active"] \in Row BY <1>2 DEF Row
<1> QED BY <1>1, <1>3 DEF Restored

LEMMA PutBackTyped ==
    ASSUME TypeInv, NEW t \in Tabs, PutBack(t)
    PROVE  TypeInv'
<1>1. page[t].of \in EventIds
  BY DEF PutBack, UndoCancel, UncancelFromTrash, UndoTrash, RestoreFromTrash,
         TypeInv, PagesNameEvents
<1>2. Answered(t, NoPage)
  BY DEF PutBack, UndoCancel, UncancelFromTrash, UndoTrash, RestoreFromTrash
<1>3. page' \in [Tabs -> Page] /\ PagesNameEvents'
  BY <1>2, NoneTyped, AnsweredTyped DEF NoPage
<1>4. \/ \E k : Uncancelled(page[t].of, k)
      \/ \E v : Restored(page[t].of, v)
  BY DEF PutBack, UndoCancel, UncancelFromTrash, UndoTrash, RestoreFromTrash
<1>5. CASE \E k : Uncancelled(page[t].of, k)
  BY <1>1, <1>3, <1>5, UncancelledTyped DEF TypeInv, TypeOK
<1>6. CASE \E v : Restored(page[t].of, v)
  BY <1>1, <1>3, <1>6, RestoredTyped DEF TypeInv, TypeOK, history
<1> QED BY <1>4, <1>5, <1>6

LEMMA StepTyped == TypeInv /\ [Next]_vars => TypeInv'
<1> SUFFICES ASSUME TypeInv, [Next]_vars PROVE TypeInv'
  OBVIOUS
<1>1. CASE Next BY <1>1, LoadTyped, EditTyped, DeleteTyped, PutBackTyped DEF Next
<1>2. CASE UNCHANGED vars
  BY <1>2 DEF vars, tables, history, TypeInv, TypeOK, PagesNameEvents
<1> QED BY <1>1, <1>2

LEMMA InitTyped == Init => TypeInv
BY NoneTyped DEF Init, TypeInv, TypeOK, PagesNameEvents, NoPage

\* Every reachable state is well typed: no version passes its bound, no row is
\* outside the calendar, no exception is keyed to a time that does not exist.
THEOREM TypeCorrect == Spec => []TypeOK
<1>1. TypeInv => TypeOK BY DEF TypeInv
<1> QED BY <1>1, InitTyped, StepTyped, PTL DEF Spec

-----------------------------------------------------------------------------
(* The tables stay consistent with each other.  All four parts are needed   *)
(* at once: a split stays collision free because the new id has no          *)
(* exceptions yet, and that follows from every exception having a stored    *)
(* series.                                                                  *)

TablesInv == ExceptionsAnchored /\ OneExceptionPerSlot /\ NoOrphanCiphertext

\* What every action but purge does to the rows already stored.
RowsKept ==
    \A f \in EventIds : Present(f) =>
        /\ rows'[f].lifecycle \in {"active", "trashed"}
        /\ rows'[f].rrule = rows[f].rrule
        /\ rows'[f].first = rows[f].first
        /\ root'[f] = root[f]

LEMMA OneRowKept ==
    ASSUME TypeInv, NEW e \in EventIds, NEW row, rows' = [rows EXCEPT ![e] = row],
           row.lifecycle \in {"active", "trashed"}, root' = root,
           row.rrule = rows[e].rrule, row.first = rows[e].first
    PROVE  RowsKept
BY DEF RowsKept, Present, TypeInv, TypeOK

LEMMA FewerExceptions ==
    ASSUME TypeInv, TablesInv, RowsKept, exceptions' \subseteq exceptions, fields' = fields
    PROVE  TablesInv'
<1>1. ExceptionsAnchored'
  <2> SUFFICES ASSUME NEW x \in exceptions
               PROVE  /\ Present(x.series)'
                      /\ (x.kind = "moved") = (x.replacement # None)
                      /\ x.kind = "moved" =>
                            /\ Present(x.replacement)' /\ ~rows'[x.replacement].rrule
                            /\ root'[x.replacement] = root'[x.series]
                            /\ rows'[x.replacement].first = x.key[1]
    BY DEF ExceptionsAnchored, Present
  <2>1. x \in Exception BY DEF TypeInv, TypeOK
  <2>2. x.series \in EventIds /\ x.replacement \in EventIds \cup {None} BY <2>1 DEF Exception
  <2> QED BY <2>2 DEF TablesInv, ExceptionsAnchored, RowsKept, Present
<1>2. OneExceptionPerSlot' BY DEF TablesInv, OneExceptionPerSlot
<1>3. NoOrphanCiphertext'
  BY DEF TablesInv, NoOrphanCiphertext, RowsKept, Present, TypeInv, TypeOK
<1> QED BY <1>1, <1>2, <1>3 DEF TablesInv

LEMMA CreateKeepsTables ==
    ASSUME TypeInv, TablesInv, NEW t \in Tabs, NEW e \in EventIds,
           NEW first \in Days, NEW last \in Days, NEW repeats \in BOOLEAN, NEW w \in Walls,
           CreateEvent(t, e, first, last, repeats, w)
    PROVE  TablesInv'
<1>1. RowsKept BY DEF CreateEvent, RowsKept, Present, TypeInv, TypeOK
<1>2. Present(e)' BY DEF CreateEvent, Present, TypeInv, TypeOK
<1>3. ExceptionsAnchored'
  <2> SUFFICES ASSUME NEW x \in exceptions
               PROVE  /\ Present(x.series)'
                      /\ (x.kind = "moved") = (x.replacement # None)
                      /\ x.kind = "moved" =>
                            /\ Present(x.replacement)' /\ ~rows'[x.replacement].rrule
                            /\ root'[x.replacement] = root'[x.series]
                            /\ rows'[x.replacement].first = x.key[1]
    BY DEF ExceptionsAnchored, Present, CreateEvent
  <2>1. x \in Exception BY DEF TypeInv, TypeOK
  <2>2. x.series \in EventIds /\ x.replacement \in EventIds \cup {None} BY <2>1 DEF Exception
  <2> QED BY <1>1, <2>2 DEF TablesInv, ExceptionsAnchored, RowsKept, Present
<1>4. OneExceptionPerSlot' BY DEF TablesInv, OneExceptionPerSlot, CreateEvent
<1>5. NoOrphanCiphertext'
  BY <1>1, <1>2 DEF TablesInv, NoOrphanCiphertext, RowsKept, Present, TypeInv, TypeOK, CreateEvent
<1> QED BY <1>3, <1>4, <1>5 DEF TablesInv

\* An action that adds one exception with a stored series, and where 'moved'
\* names a stored one-off row of the lineage, keeps the tables consistent.
LEMMA OneMoreException ==
    ASSUME TypeInv, TablesInv, RowsKept, NEW new \in Exception,
           exceptions' = exceptions \cup {new},
           \A y \in ExceptionsOf(new.series) : y.key # new.key,
           Present(new.series)',
           (new.kind = "moved") = (new.replacement # None),
           new.kind = "moved" =>
              /\ Present(new.replacement)' /\ ~rows'[new.replacement].rrule
              /\ root'[new.replacement] = root'[new.series]
              /\ rows'[new.replacement].first = new.key[1],
           \A f \in fields' : f \in fields \/ Present(f)'
    PROVE  TablesInv'
<1>1. ExceptionsAnchored'
  <2> SUFFICES ASSUME NEW x \in exceptions
               PROVE  /\ Present(x.series)'
                      /\ (x.kind = "moved") = (x.replacement # None)
                      /\ x.kind = "moved" =>
                            /\ Present(x.replacement)' /\ ~rows'[x.replacement].rrule
                            /\ root'[x.replacement] = root'[x.series]
                            /\ rows'[x.replacement].first = x.key[1]
    BY DEF ExceptionsAnchored, Present
  <2>1. x \in Exception BY DEF TypeInv, TypeOK
  <2>2. x.series \in EventIds /\ x.replacement \in EventIds \cup {None} BY <2>1 DEF Exception
  <2> QED BY <2>2 DEF TablesInv, ExceptionsAnchored, RowsKept, Present
<1>2. OneExceptionPerSlot'
  BY DEF TablesInv, OneExceptionPerSlot, ExceptionsOf
<1>3. NoOrphanCiphertext'
  BY DEF TablesInv, NoOrphanCiphertext, RowsKept, Present, TypeInv, TypeOK
<1> QED BY <1>1, <1>2, <1>3 DEF TablesInv

LEMMA EditKeepsTables ==
    ASSUME TypeInv, TablesInv, NEW t \in Tabs, Edit(t)
    PROVE  TablesInv'
<1>1. ASSUME NEW w \in Walls, UpdateEvent(t, w) PROVE TablesInv'
  <2> DEFINE e == page[t].of
             row == [Bumped(e) EXCEPT !.wall = w]
  <2>1. PICK k : k \in OnPage(t) BY <1>1 DEF UpdateEvent
  <2>2. e \in EventIds /\ rows \in [EventIds -> Row]
    BY <2>1, OnPageMeans DEF TypeInv, TypeOK
  <2>3. rows[e].lifecycle = "active" /\ rows[e].version < MaxVersion
    BY <1>1, <2>2, UnchangedMeans DEF UpdateEvent
  <2>4. row.lifecycle = "active" /\ row.rrule = rows[e].rrule /\ row.first = rows[e].first
    BY <2>2, <2>3, BumpedTyped DEF Row
  <2>5. rows' = [rows EXCEPT ![e] = row] /\ UNCHANGED <<fields, exceptions, history>>
    BY <1>1 DEF UpdateEvent
  <2> HIDE DEF e, row
  <2>6. RowsKept BY <2>2, <2>4, <2>5, OneRowKept DEF history
  <2> QED BY <2>5, <2>6, FewerExceptions
<1>2. ASSUME NEW k \in Keys, NEW n \in EventIds, NEW w \in Walls, SplitThis(t, k, n, w)
      PROVE  TablesInv'
  <2>0. PICK e \in EventIds : e = page[t].of BY <1>2, OnPageMeans DEF SplitThis
  <2> DEFINE detached == [lifecycle |-> "active", version |-> 1, rrule |-> FALSE,
                          first |-> k[1], last |-> k[1], wall |-> w]
             moved == [series |-> e, key |-> k, kind |-> "moved", replacement |-> n]
  <2>1. rows \in [EventIds -> Row] /\ root \in [EventIds -> EventIds]
    BY DEF TypeInv, TypeOK
  <2>2. rows[e].lifecycle = "active" /\ rows[e].version < MaxVersion
    BY <1>2, <2>0, <2>1, UnchangedMeans DEF SplitThis
  <2>3. /\ Bumped(e).lifecycle = "active" /\ Bumped(e).rrule = rows[e].rrule
        /\ Bumped(e).first = rows[e].first
    BY <2>1, <2>2, BumpedTyped
  <2>4. /\ rows' = [rows EXCEPT ![e] = Bumped(e), ![n] = detached]
        /\ fields' = fields \cup {n}
        /\ exceptions' = exceptions \cup {moved}
        /\ root' = [root EXCEPT ![n] = root[e]]
        /\ rows[n].lifecycle = "absent"
        /\ \A x \in ExceptionsOf(e) : x.key # k
    BY <1>2, <2>0 DEF SplitThis
  <2>5. e # n BY <2>2, <2>4
  <2>6. RowsKept BY <2>1, <2>2, <2>3, <2>4, <2>5 DEF RowsKept, Present
  <2>7. moved \in Exception BY DEF Exception
  <2>8. Present(e)' BY <2>1, <2>3, <2>4, <2>5 DEF Present
  <2>9. /\ Present(n)' /\ ~rows'[n].rrule /\ root'[n] = root'[e] /\ rows'[n].first = k[1]
    BY <2>1, <2>4, <2>5 DEF Present
  <2>10. n # None BY ConstantsAssumption
  <2>11. /\ moved.series = e /\ moved.key = k /\ moved.kind = "moved"
         /\ moved.replacement = n
    OBVIOUS
  <2> HIDE DEF detached, moved
  <2> QED BY <2>4, <2>6, <2>7, <2>8, <2>9, <2>10, <2>11, OneMoreException
<1>3. ASSUME NEW k \in Keys, NEW n \in EventIds, NEW w \in Walls, SplitFuture(t, k, n, w)
      PROVE  TablesInv'
  <2>0. PICK e \in EventIds : e = page[t].of BY <1>3, OnPageMeans DEF SplitFuture
  <2>1. rows \in [EventIds -> Row] /\ root \in [EventIds -> EventIds]
    BY DEF TypeInv, TypeOK
  <2>2. rows[e].lifecycle = "active" /\ rows[e].version < MaxVersion
    BY <1>3, <2>0, <2>1, UnchangedMeans DEF SplitFuture
  <2>3. Truncated(e, k).lifecycle = "active" /\ Truncated(e, k).rrule = rows[e].rrule
        /\ Truncated(e, k).first = rows[e].first
    BY <2>1, <2>2, BumpedTyped DEF Truncated, Row
  <2>4. /\ rows' = [rows EXCEPT ![e] = Truncated(e, k), ![n] = Successor(e, k, w)]
        /\ fields' = fields \cup {n}
        /\ exceptions' = Carried(e, n, k)
        /\ root' = [root EXCEPT ![n] = root[e]]
        /\ rows[n].lifecycle = "absent"
    BY <1>3, <2>0 DEF SplitFuture
  <2>5. e # n BY <2>2, <2>4
  <2>6. RowsKept BY <2>1, <2>2, <2>3, <2>4, <2>5 DEF RowsKept, Present
  <2>7. Successor(e, k, w).lifecycle = "active" BY DEF Successor
  <2>8. Present(n)' /\ root'[n] = root'[e] BY <2>1, <2>4, <2>5, <2>7 DEF Present
  <2>9. Present(e)' BY <2>1, <2>3, <2>4, <2>5 DEF Present
  <2> DEFINE Moves(x) == IF x.series = e /\ NotBefore(x.key, k)
                         THEN [x EXCEPT !.series = n] ELSE x
  <2>10. exceptions' = {Moves(x) : x \in exceptions} BY <2>4 DEF Carried
  <2>11. \A x \in exceptions :
           /\ Moves(x).key = x.key /\ Moves(x).kind = x.kind
           /\ Moves(x).replacement = x.replacement
           /\ Moves(x).series = x.series \/ (x.series = e /\ Moves(x).series = n)
           /\ Moves(x).series = n => x.series = e /\ NotBefore(x.key, k)
           /\ Moves(x).series # n => Moves(x) = x
    <3>1. \A x \in exceptions : x.series # n
      BY <2>4 DEF TablesInv, ExceptionsAnchored, Present
    <3>2. exceptions \subseteq Exception BY DEF TypeInv, TypeOK
    <3> QED BY <3>1, <3>2, <2>5 DEF Exception
  <2> HIDE DEF Moves
  <2>12. ExceptionsAnchored'
    <3> SUFFICES ASSUME NEW x \in exceptions
                 PROVE  /\ Present(Moves(x).series)'
                        /\ (x.kind = "moved") = (x.replacement # None)
                        /\ x.kind = "moved" =>
                              /\ Present(x.replacement)' /\ ~rows'[x.replacement].rrule
                              /\ root'[x.replacement] = root'[Moves(x).series]
                              /\ rows'[x.replacement].first = x.key[1]
      BY <2>10, <2>11 DEF ExceptionsAnchored, Present
    <3>1. x \in Exception BY DEF TypeInv, TypeOK
    <3>2. x.series \in EventIds /\ x.replacement \in EventIds \cup {None}
      BY <3>1 DEF Exception
    <3>3. /\ Present(x.series)' /\ (x.kind = "moved") = (x.replacement # None)
          /\ x.kind = "moved" =>
                /\ Present(x.replacement)' /\ ~rows'[x.replacement].rrule
                /\ root'[x.replacement] = root'[x.series]
                /\ rows'[x.replacement].first = x.key[1]
      BY <2>6, <3>2 DEF TablesInv, ExceptionsAnchored, RowsKept, Present
    <3> QED BY <2>8, <2>9, <2>11, <3>3
  <2>13. OneExceptionPerSlot'
    <3> SUFFICES ASSUME NEW x \in exceptions, NEW y \in exceptions,
                        Moves(x).series = Moves(y).series, x.key = y.key
                 PROVE  x = y
      BY <2>10, <2>11 DEF OneExceptionPerSlot
    <3>1. x.series = y.series BY <2>11
    <3> QED BY <3>1 DEF TablesInv, OneExceptionPerSlot
  <2>14. NoOrphanCiphertext'
    BY <2>4, <2>6, <2>8 DEF TablesInv, NoOrphanCiphertext, RowsKept, Present, TypeInv, TypeOK
  <2> QED BY <2>12, <2>13, <2>14 DEF TablesInv
<1> QED BY <1>1, <1>2, <1>3, CreateKeepsTables DEF Edit

LEMMA PurgeKeepsTables ==
    ASSUME TypeInv, TablesInv, NEW t \in Tabs, PurgeEvent(t)
    PROVE  TablesInv'
<1>1. PICK e \in EventIds : e = page[t].of BY DEF PurgeEvent, TypeInv, PagesNameEvents
<1>2. /\ rows' = [rows EXCEPT ![e] = [AbsentRow EXCEPT !.lifecycle = "purged"]]
      /\ exceptions' = PurgedExceptions(e)
      /\ fields' = fields \ {e}
      /\ root' = root
  BY <1>1 DEF PurgeEvent, PurgedFields
<1>3. \A f \in EventIds \ {e} : rows'[f] = rows[f] BY <1>2 DEF TypeInv, TypeOK
<1>4. exceptions \subseteq Exception BY DEF TypeInv, TypeOK
<1>5. \A y \in exceptions' : \E x \in exceptions :
        /\ x.series # e
        /\ y.series = x.series /\ y.key = x.key
        /\ \/ y = x /\ x.replacement # e
           \/ x.replacement = e /\ y.kind = "cancelled" /\ y.replacement = None
  <2>1. ASSUME NEW y \in {x \in exceptions \ Detached(e) : x.series # e}
        PROVE  y \in exceptions /\ y.series # e /\ y.replacement # e
    BY DEF Detached
  <2>2. ASSUME NEW x \in {z \in Detached(e) : z.series # e}
        PROVE  /\ x \in exceptions /\ x.series # e /\ x.replacement = e
               /\ [x EXCEPT !.kind = "cancelled", !.replacement = None].series = x.series
               /\ [x EXCEPT !.kind = "cancelled", !.replacement = None].key = x.key
               /\ [x EXCEPT !.kind = "cancelled", !.replacement = None].kind = "cancelled"
               /\ [x EXCEPT !.kind = "cancelled", !.replacement = None].replacement = None
    BY <1>4 DEF Detached, Exception
  <2> QED BY <1>2, <2>1, <2>2 DEF PurgedExceptions
<1>6. ExceptionsAnchored'
  <2> SUFFICES ASSUME NEW y \in exceptions'
               PROVE  /\ Present(y.series)'
                      /\ (y.kind = "moved") = (y.replacement # None)
                      /\ y.kind = "moved" =>
                            /\ Present(y.replacement)' /\ ~rows'[y.replacement].rrule
                            /\ root'[y.replacement] = root'[y.series]
                            /\ rows'[y.replacement].first = y.key[1]
    BY DEF ExceptionsAnchored, Present
  <2>1. PICK x \in exceptions :
          /\ x.series # e /\ y.series = x.series /\ y.key = x.key
          /\ \/ y = x /\ x.replacement # e
             \/ x.replacement = e /\ y.kind = "cancelled" /\ y.replacement = None
    BY <1>5
  <2>2. x.series \in EventIds /\ x.replacement \in EventIds \cup {None}
    BY <1>4 DEF Exception
  <2>3. Present(x.series)' BY <1>3, <2>1, <2>2 DEF TablesInv, ExceptionsAnchored, Present
  <2>4. CASE y = x /\ x.replacement # e
    BY <1>2, <1>3, <2>2, <2>3, <2>4 DEF TablesInv, ExceptionsAnchored, Present
  <2>5. CASE y.kind = "cancelled" /\ y.replacement = None
    BY <2>1, <2>3, <2>5
  <2> QED BY <2>1, <2>4, <2>5
<1>7. OneExceptionPerSlot'
  <2> SUFFICES ASSUME NEW y \in exceptions', NEW z \in exceptions',
                      y.series = z.series, y.key = z.key
               PROVE  y = z
    BY DEF OneExceptionPerSlot
  <2>1. exceptions' = PurgedExceptions(e) BY <1>2
  <2> DEFINE Conv(x) == [x EXCEPT !.kind = "cancelled", !.replacement = None]
  <2>2. \A x \in exceptions : Conv(x).series = x.series /\ Conv(x).key = x.key
    BY <1>4 DEF Exception
  <2>3. \A u \in exceptions' : \E x \in exceptions :
          /\ u.series = x.series /\ u.key = x.key
          /\ u = IF x \in Detached(e) THEN Conv(x) ELSE x
    BY <2>1, <2>2 DEF PurgedExceptions, Detached
  <2> HIDE DEF Conv
  <2> QED BY <2>3 DEF TablesInv, OneExceptionPerSlot
<1>8. NoOrphanCiphertext'
  BY <1>2, <1>3 DEF TablesInv, NoOrphanCiphertext, Present, TypeInv, TypeOK
<1> QED BY <1>6, <1>7, <1>8 DEF TablesInv

LEMMA DeleteKeepsTables ==
    ASSUME TypeInv, TablesInv, NEW t \in Tabs, Delete(t)
    PROVE  TablesInv'
<1>1. ASSUME NEW k \in Keys, CancelOccurrence(t, k) PROVE TablesInv'
  <2>1. PICK e \in EventIds : e = page[t].of BY <1>1, OnPageMeans DEF CancelOccurrence
  <2> DEFINE cancelled == [series |-> e, key |-> k, kind |-> "cancelled", replacement |-> None]
  <2>2. rows \in [EventIds -> Row] BY DEF TypeInv, TypeOK
  <2>3. rows[e].lifecycle = "active" /\ rows[e].version < MaxVersion
    BY <1>1, <2>1, <2>2, UnchangedMeans DEF CancelOccurrence
  <2>4. /\ Bumped(e).lifecycle = "active" /\ Bumped(e).rrule = rows[e].rrule
        /\ Bumped(e).first = rows[e].first
    BY <2>2, <2>3, BumpedTyped
  <2>5. /\ rows' = [rows EXCEPT ![e] = Bumped(e)]
        /\ exceptions' = exceptions \cup {cancelled}
        /\ UNCHANGED <<fields, root>>
        /\ \A x \in ExceptionsOf(e) : x.key # k
    BY <1>1, <2>1 DEF CancelOccurrence
  <2>6. RowsKept BY <2>4, <2>5, OneRowKept
  <2>7. Present(e)' BY <2>2, <2>4, <2>5 DEF Present
  <2>8. cancelled \in Exception BY DEF Exception
  <2>9. /\ cancelled.series = e /\ cancelled.key = k /\ cancelled.kind = "cancelled"
        /\ cancelled.replacement = None
    OBVIOUS
  <2> HIDE DEF cancelled
  <2> QED BY <2>5, <2>6, <2>7, <2>8, <2>9, OneMoreException
<1>2. ASSUME TrashUpdate(t) PROVE TablesInv'
  <2>1. PICK e \in EventIds : e = page[t].of
    BY <1>2 DEF TrashUpdate, TypeInv, PagesNameEvents
  <2> DEFINE row == [Bumped(e) EXCEPT !.lifecycle = "trashed"]
  <2>2. rows \in [EventIds -> Row] BY DEF TypeInv, TypeOK
  <2>3. rows[e].lifecycle = "active" /\ rows[e].version < MaxVersion
    BY <1>2, <2>1, <2>2, UnchangedMeans DEF TrashUpdate
  <2>4. row.lifecycle = "trashed" /\ row.rrule = rows[e].rrule /\ row.first = rows[e].first
    BY <2>2, <2>3, BumpedTyped DEF Row
  <2>5. rows' = [rows EXCEPT ![e] = row] /\ UNCHANGED <<fields, exceptions, history>>
    BY <1>2, <2>1 DEF TrashUpdate
  <2> HIDE DEF row
  <2>6. RowsKept BY <2>4, <2>5, OneRowKept DEF history
  <2> QED BY <2>5, <2>6, FewerExceptions
<1>3. ASSUME UNCHANGED <<tables, history>> PROVE TablesInv'
  <2>1. UNCHANGED <<rows, fields, exceptions, root>> BY <1>3 DEF tables, history
  <2> QED BY <2>1 DEF TablesInv, ExceptionsAnchored, OneExceptionPerSlot,
                      NoOrphanCiphertext, Present
<1>4. ASSUME NEW k \in Keys, CancelAgain(t, k) PROVE TablesInv'
  <2>1. UNCHANGED <<tables, history>> BY <1>4 DEF CancelAgain
  <2> QED BY <1>3, <2>1
<1>5. CASE TrashSelect(t) BY <1>3, <1>5 DEF TrashSelect
<1>6. CASE TrashConflict(t) BY <1>3, <1>6 DEF TrashConflict
<1> QED BY <1>1, <1>2, <1>4, <1>5, <1>6, PurgeKeepsTables DEF Delete

LEMMA PutBackKeepsTables ==
    ASSUME TypeInv, TablesInv, NEW t \in Tabs, PutBack(t)
    PROVE  TablesInv'
<1>1. PICK e \in EventIds : e = page[t].of
  BY DEF PutBack, UndoCancel, UncancelFromTrash, UndoTrash, RestoreFromTrash,
         TypeInv, PagesNameEvents
<1>2. (\E k : Uncancelled(e, k)) \/ (\E v : Restored(e, v))
  BY <1>1 DEF PutBack, UndoCancel, UncancelFromTrash, UndoTrash, RestoreFromTrash
<1>3. rows \in [EventIds -> Row] BY DEF TypeInv, TypeOK
<1>4. ASSUME NEW k, Uncancelled(e, k) PROVE TablesInv'
  <2>1. /\ Bumped(e).lifecycle = rows[e].lifecycle /\ Bumped(e).rrule = rows[e].rrule
        /\ Bumped(e).first = rows[e].first
    BY <1>3, <1>4, BumpedTyped DEF Uncancelled
  <2>2. /\ rows' = [rows EXCEPT ![e] = Bumped(e)] /\ rows[e].lifecycle \in {"active", "trashed"}
        /\ exceptions' \subseteq exceptions /\ UNCHANGED <<fields, root>>
    BY <1>4 DEF Uncancelled, Present
  <2>3. RowsKept BY <2>1, <2>2, OneRowKept
  <2> QED BY <2>2, <2>3, FewerExceptions
<1>5. ASSUME NEW v, Restored(e, v) PROVE TablesInv'
  <2> DEFINE row == [Bumped(e) EXCEPT !.lifecycle = "active"]
  <2>1. row.lifecycle = "active" /\ row.rrule = rows[e].rrule /\ row.first = rows[e].first
    BY <1>3, <1>5, BumpedTyped DEF Restored, Row
  <2>2. rows' = [rows EXCEPT ![e] = row] /\ UNCHANGED <<fields, exceptions, history>>
    BY <1>5 DEF Restored
  <2> HIDE DEF row
  <2>3. RowsKept BY <2>1, <2>2, OneRowKept DEF history
  <2> QED BY <2>2, <2>3, FewerExceptions
<1> QED BY <1>2, <1>4, <1>5

LEMMA StepKeepsTables == TypeInv /\ TablesInv /\ [Next]_vars => TablesInv'
<1> SUFFICES ASSUME TypeInv, TablesInv, [Next]_vars PROVE TablesInv'
  OBVIOUS
<1>1. ASSUME UNCHANGED <<tables, history>> PROVE TablesInv'
  <2>1. UNCHANGED <<rows, fields, exceptions, root>> BY <1>1 DEF tables, history
  <2> QED BY <2>1 DEF TablesInv, ExceptionsAnchored, OneExceptionPerSlot,
                      NoOrphanCiphertext, Present
<1>2. ASSUME NEW t \in Tabs, Load(t) PROVE TablesInv'
  BY <1>1, <1>2 DEF Load, OpenPage, ReadRow, ReadExceptions
<1>3. CASE UNCHANGED vars BY <1>1, <1>3 DEF vars
<1> QED BY <1>2, <1>3, EditKeepsTables, DeleteKeepsTables, PutBackKeepsTables DEF Next

LEMMA InitTables == Init => TablesInv
BY DEF Init, TablesInv, ExceptionsAnchored, OneExceptionPerSlot, NoOrphanCiphertext

\* Referential integrity through every split, cancel, trash, restore and purge,
\* whatever the tabs were looking at: exceptions stay anchored to stored rows
\* of their own lineage, no slot has two, and no ciphertext outlives its event.
THEOREM TablesConsistent == Spec => []TablesAgree
<1>1. Init => TypeInv /\ TablesInv BY InitTyped, InitTables
<1>2. TypeInv /\ TablesInv /\ [Next]_vars => (TypeInv /\ TablesInv)'
  BY StepTyped, StepKeepsTables
<1>3. TablesInv => TablesAgree BY DEF TablesInv, TablesAgree
<1> QED BY <1>1, <1>2, <1>3, PTL DEF Spec

-----------------------------------------------------------------------------
(* A version names one state of a row.  Rows only move forward: every       *)
(* change of a stored row raises its version by one, and a purged id is     *)
(* never stored again.  A page therefore never holds a version from the     *)
(* future, and one that is current is current in every column.              *)

StoredVersioned ==
    \A e \in EventIds :
        IF Present(e) THEN rows[e].version >= 1 ELSE rows[e].version = 0

PageFromPast(p) ==
    /\ p.row.lifecycle \in {"active", "trashed"}
    /\ p.row.version >= 1
    /\ p.of \in EventIds
    /\ \/ rows[p.of].lifecycle = "purged"
       \/ /\ Present(p.of)
          /\ p.row.version <= rows[p.of].version
          /\ p.row.version = rows[p.of].version => p.row = rows[p.of]

PagesFromPast == \A t \in Tabs : page[t].row = AbsentRow \/ PageFromPast(page[t])

VersionInv == StoredVersioned /\ PagesFromPast

\* The only ways a row changes, whatever the action.
Advances(e) ==
    \/ rows'[e] = rows[e]
    \/ Present(e) /\ Present(e)' /\ rows'[e].version = rows[e].version + 1
    \/ rows[e].lifecycle = "absent" /\ Present(e)' /\ rows'[e].version = 1
    \/ rows[e].lifecycle = "trashed" /\ rows'[e] = [AbsentRow EXCEPT !.lifecycle = "purged"]

\* The only ways a tab's row changes: dropped, kept, or read afresh.
PageSteps(t) ==
    \/ page'[t].row = AbsentRow
    \/ page'[t].row = page[t].row /\ page'[t].of = page[t].of
    \/ /\ rows' = rows
       /\ page'[t].of \in EventIds
       /\ page'[t].row = rows[page'[t].of]
       /\ Present(page'[t].of)

LEMMA OneRowAdvances ==
    ASSUME TypeInv, NEW e \in EventIds, NEW row, rows' = [rows EXCEPT ![e] = row],
           rows[e].lifecycle \in {"active", "trashed"},
           row.lifecycle \in {"active", "trashed"}, row.version = rows[e].version + 1
    PROVE  \A f \in EventIds : Advances(f)
BY DEF Advances, Present, TypeInv, TypeOK

LEMMA AnsweredSteps ==
    ASSUME TypeInv, NEW t \in Tabs, NEW next, Answered(t, next),
           next.row = AbsentRow
    PROVE  \A u \in Tabs : PageSteps(u)
BY DEF PageSteps, Answered, TypeInv, TypeOK

LEMMA EditAdvances ==
    ASSUME TypeInv, NEW t \in Tabs, Edit(t)
    PROVE  (\A f \in EventIds : Advances(f)) /\ (\A u \in Tabs : PageSteps(u))
<1> rows \in [EventIds -> Row] BY DEF TypeInv, TypeOK
<1>0. NoPage.row = AbsentRow BY DEF NoPage
<1>1. ASSUME NEW e \in EventIds, NEW first \in Days, NEW last \in Days,
             NEW repeats \in BOOLEAN, NEW w \in Walls,
             CreateEvent(t, e, first, last, repeats, w)
      PROVE  (\A f \in EventIds : Advances(f)) /\ (\A u \in Tabs : PageSteps(u))
  BY <1>1 DEF CreateEvent, Advances, PageSteps, Present
<1>2. ASSUME NEW w \in Walls, UpdateEvent(t, w)
      PROVE  (\A f \in EventIds : Advances(f)) /\ (\A u \in Tabs : PageSteps(u))
  <2>1. PICK k : k \in OnPage(t) BY <1>2 DEF UpdateEvent
  <2>2. PICK e \in EventIds : e = page[t].of BY <2>1, OnPageMeans
  <2> DEFINE row == [Bumped(e) EXCEPT !.wall = w]
  <2>3. rows[e].lifecycle = "active" /\ rows[e].version < MaxVersion
    BY <1>2, <2>2, UnchangedMeans DEF UpdateEvent
  <2>4. row.lifecycle = "active" /\ row.version = rows[e].version + 1
    BY <2>3, BumpedTyped DEF Row
  <2>5. rows' = [rows EXCEPT ![e] = row] /\ Answered(t, NoPage) BY <1>2, <2>2 DEF UpdateEvent
  <2> HIDE DEF row
  <2> QED BY <1>0, <2>3, <2>4, <2>5, OneRowAdvances, AnsweredSteps
<1>3. ASSUME NEW k \in Keys, NEW n \in EventIds, NEW w \in Walls, SplitThis(t, k, n, w)
      PROVE  (\A f \in EventIds : Advances(f)) /\ (\A u \in Tabs : PageSteps(u))
  <2> DEFINE detached == [lifecycle |-> "active", version |-> 1, rrule |-> FALSE,
                          first |-> k[1], last |-> k[1], wall |-> w]
  <2>1. PICK e \in EventIds : e = page[t].of BY <1>3, OnPageMeans DEF SplitThis
  <2>2. rows[e].lifecycle = "active" /\ rows[e].version < MaxVersion
    BY <1>3, <2>1, UnchangedMeans DEF SplitThis
  <2>3. Bumped(e).lifecycle = "active" /\ Bumped(e).version = rows[e].version + 1
    BY <2>2, BumpedTyped
  <2>4. /\ rows' = [rows EXCEPT ![e] = Bumped(e), ![n] = detached]
        /\ rows[n].lifecycle = "absent" /\ Answered(t, NoPage)
    BY <1>3, <2>1 DEF SplitThis
  <2>5. detached.lifecycle = "active" /\ detached.version = 1 OBVIOUS
  <2> HIDE DEF detached
  <2> QED BY <1>0, <2>2, <2>3, <2>4, <2>5, AnsweredSteps DEF Advances, Present
<1>4. ASSUME NEW k \in Keys, NEW n \in EventIds, NEW w \in Walls, SplitFuture(t, k, n, w)
      PROVE  (\A f \in EventIds : Advances(f)) /\ (\A u \in Tabs : PageSteps(u))
  <2>1. PICK e \in EventIds : e = page[t].of BY <1>4, OnPageMeans DEF SplitFuture
  <2>2. rows[e].lifecycle = "active" /\ rows[e].version < MaxVersion
    BY <1>4, <2>1, UnchangedMeans DEF SplitFuture
  <2>3. Truncated(e, k).lifecycle = "active" /\ Truncated(e, k).version = rows[e].version + 1
    BY <2>2, BumpedTyped DEF Truncated, Row
  <2>4. /\ rows' = [rows EXCEPT ![e] = Truncated(e, k), ![n] = Successor(e, k, w)]
        /\ rows[n].lifecycle = "absent" /\ Answered(t, NoPage)
    BY <1>4, <2>1 DEF SplitFuture
  <2>5. Successor(e, k, w).lifecycle = "active" /\ Successor(e, k, w).version = 1
    BY DEF Successor
  <2> QED BY <1>0, <2>2, <2>3, <2>4, <2>5, AnsweredSteps DEF Advances, Present
<1> QED BY <1>1, <1>2, <1>3, <1>4 DEF Edit

LEMMA DeleteAdvances ==
    ASSUME TypeInv, NEW t \in Tabs, Delete(t)
    PROVE  (\A f \in EventIds : Advances(f)) /\ (\A u \in Tabs : PageSteps(u))
<1> rows \in [EventIds -> Row] BY DEF TypeInv, TypeOK
<1>0. NoPage.row = AbsentRow BY DEF NoPage
<1>1. ASSUME NEW e, NEW k PROVE UndoStrip(e, AbsentRow, k).row = AbsentRow
  BY DEF UndoStrip, NoPage
<1>2. ASSUME NEW k \in Keys, CancelOccurrence(t, k)
      PROVE  (\A f \in EventIds : Advances(f)) /\ (\A u \in Tabs : PageSteps(u))
  <2>1. PICK e \in EventIds : e = page[t].of BY <1>2, OnPageMeans DEF CancelOccurrence
  <2>2. rows[e].lifecycle = "active" /\ rows[e].version < MaxVersion
    BY <1>2, <2>1, UnchangedMeans DEF CancelOccurrence
  <2>3. Bumped(e).lifecycle = "active" /\ Bumped(e).version = rows[e].version + 1
    BY <2>2, BumpedTyped
  <2>4. rows' = [rows EXCEPT ![e] = Bumped(e)] /\ Answered(t, UndoStrip(e, AbsentRow, k))
    BY <1>2, <2>1 DEF CancelOccurrence
  <2> QED BY <1>1, <2>2, <2>3, <2>4, OneRowAdvances, AnsweredSteps
<1>3. ASSUME NEW k \in Keys, CancelAgain(t, k)
      PROVE  (\A f \in EventIds : Advances(f)) /\ (\A u \in Tabs : PageSteps(u))
  <2>1. PICK e : e = page[t].of OBVIOUS
  <2>2. rows' = rows /\ Answered(t, UndoStrip(e, AbsentRow, k))
    BY <1>3, <2>1 DEF CancelAgain, tables
  <2> QED BY <1>1, <2>2, AnsweredSteps DEF Advances
<1>4. ASSUME TrashSelect(t) \/ TrashConflict(t)
      PROVE  (\A f \in EventIds : Advances(f)) /\ (\A u \in Tabs : PageSteps(u))
  <2>1. rows' = rows BY <1>4 DEF TrashSelect, TrashConflict, tables
  <2>2. \/ page' = [page EXCEPT ![t].view = "trashing"]
        \/ page' = [page EXCEPT ![t].view = "calendar"]
    BY <1>4 DEF TrashSelect, TrashConflict
  <2>3. page \in [Tabs -> Page] BY DEF TypeInv, TypeOK
  <2>4. \A u \in Tabs : page'[u].row = page[u].row /\ page'[u].of = page[u].of
    <3>1. page[t] \in Page BY <2>3
    <3>2. \A u \in Tabs : u # t => page'[u] = page[u] BY <2>2, <2>3
    <3>3. \/ page'[t] = [page[t] EXCEPT !.view = "trashing"]
          \/ page'[t] = [page[t] EXCEPT !.view = "calendar"]
      BY <2>2, <2>3
    <3>4. page'[t].row = page[t].row /\ page'[t].of = page[t].of
      BY <3>1, <3>3 DEF Page
    <3> QED BY <3>2, <3>4
  <2> QED BY <2>1, <2>4 DEF Advances, PageSteps
<1>5. ASSUME TrashUpdate(t)
      PROVE  (\A f \in EventIds : Advances(f)) /\ (\A u \in Tabs : PageSteps(u))
  <2>1. PICK e \in EventIds : e = page[t].of
    BY <1>5 DEF TrashUpdate, TypeInv, PagesNameEvents
  <2> DEFINE row == [Bumped(e) EXCEPT !.lifecycle = "trashed"]
  <2>2. rows[e].lifecycle = "active" /\ rows[e].version < MaxVersion
    BY <1>5, <2>1, UnchangedMeans DEF TrashUpdate
  <2>3. row.lifecycle = "trashed" /\ row.version = rows[e].version + 1
    BY <2>2, BumpedTyped DEF Row
  <2>4. rows' = [rows EXCEPT ![e] = row] BY <1>5, <2>1 DEF TrashUpdate
  <2>5. page \in [Tabs -> Page] BY DEF TypeInv, TypeOK
  <2>6. /\ UndoStrip(e, page[t].row, None).row = page[t].row
        /\ UndoStrip(e, page[t].row, None).of = page[t].of
    BY <2>1 DEF UndoStrip, NoPage
  <2>7. \/ page' = [page EXCEPT ![t] = UndoStrip(e, page[t].row, None)]
        \/ page' = [page EXCEPT ![t].view = "calendar"]
    BY <1>5, <2>1 DEF TrashUpdate
  <2>8. \A u \in Tabs : PageSteps(u) BY <2>5, <2>6, <2>7 DEF PageSteps, Page
  <2> HIDE DEF row
  <2> QED BY <2>2, <2>3, <2>4, <2>8, OneRowAdvances
<1>6. ASSUME PurgeEvent(t)
      PROVE  (\A f \in EventIds : Advances(f)) /\ (\A u \in Tabs : PageSteps(u))
  <2>1. PICK e \in EventIds : e = page[t].of
    BY <1>6 DEF PurgeEvent, TypeInv, PagesNameEvents
  <2>2. /\ rows' = [rows EXCEPT ![e] = [AbsentRow EXCEPT !.lifecycle = "purged"]]
        /\ rows[e].lifecycle = "trashed" /\ Answered(t, NoPage)
    BY <1>6, <2>1 DEF PurgeEvent
  <2> QED BY <1>0, <2>2, AnsweredSteps DEF Advances
<1> QED BY <1>2, <1>3, <1>4, <1>5, <1>6 DEF Delete

LEMMA PutBackAdvances ==
    ASSUME TypeInv, NEW t \in Tabs, PutBack(t)
    PROVE  (\A f \in EventIds : Advances(f)) /\ (\A u \in Tabs : PageSteps(u))
<1> rows \in [EventIds -> Row] BY DEF TypeInv, TypeOK
<1>1. PICK e \in EventIds : e = page[t].of
  BY DEF PutBack, UndoCancel, UncancelFromTrash, UndoTrash, RestoreFromTrash,
         TypeInv, PagesNameEvents
<1>2. (\E k : Uncancelled(e, k)) \/ (\E v : Restored(e, v))
  BY <1>1 DEF PutBack, UndoCancel, UncancelFromTrash, UndoTrash, RestoreFromTrash
<1>3. Answered(t, NoPage)
  BY DEF PutBack, UndoCancel, UncancelFromTrash, UndoTrash, RestoreFromTrash
<1>4. \A u \in Tabs : PageSteps(u) BY <1>3, AnsweredSteps DEF NoPage
<1>5. ASSUME NEW k, Uncancelled(e, k) PROVE \A f \in EventIds : Advances(f)
  <2>1. /\ rows' = [rows EXCEPT ![e] = Bumped(e)]
        /\ rows[e].lifecycle \in {"active", "trashed"} /\ rows[e].version < MaxVersion
    BY <1>5 DEF Uncancelled, Present
  <2>2. Bumped(e).lifecycle = rows[e].lifecycle /\ Bumped(e).version = rows[e].version + 1
    BY <2>1, BumpedTyped
  <2> QED BY <2>1, <2>2, OneRowAdvances
<1>6. ASSUME NEW v, Restored(e, v) PROVE \A f \in EventIds : Advances(f)
  <2> DEFINE row == [Bumped(e) EXCEPT !.lifecycle = "active"]
  <2>1. row.lifecycle = "active" /\ row.version = rows[e].version + 1
    BY <1>6, BumpedTyped DEF Restored, Row
  <2>2. rows' = [rows EXCEPT ![e] = row] /\ rows[e].lifecycle = "trashed"
    BY <1>6 DEF Restored
  <2> HIDE DEF row
  <2> QED BY <2>1, <2>2, OneRowAdvances
<1> QED BY <1>2, <1>4, <1>5, <1>6

LEMMA LoadSteps ==
    ASSUME TypeInv, NEW t \in Tabs, Load(t)
    PROVE  (\A f \in EventIds : Advances(f)) /\ (\A u \in Tabs : PageSteps(u))
<1> page \in [Tabs -> Page] BY DEF TypeInv, TypeOK
<1>1. rows' = rows BY DEF Load, OpenPage, ReadRow, ReadExceptions, tables
<1>2. ASSUME NEW view, NEW e, OpenPage(t, view, e) PROVE \A u \in Tabs : PageSteps(u)
  <2>1. [NoPage EXCEPT !.view = view, !.of = e].row = AbsentRow BY DEF NoPage
  <2>2. page' = [page EXCEPT ![t] = [NoPage EXCEPT !.view = view, !.of = e]]
    BY <1>2 DEF OpenPage
  <2> QED BY <2>1, <2>2 DEF PageSteps
<1>3. ASSUME ReadRow(t) PROVE \A u \in Tabs : PageSteps(u)
  <2> DEFINE row == rows[page[t].of]
             loaded == [page[t] EXCEPT !.row = row,
                          !.read = IF @ = "nothing" THEN "row" ELSE "exceptions first"]
  <2>1. loaded.row = row /\ loaded.of = page[t].of BY DEF Page
  <2>2. page[t].of \in EventIds BY <1>3 DEF ReadRow, TypeInv, PagesNameEvents
  <2>3. \/ page' = [page EXCEPT ![t] = loaded] /\ Lists(page[t].view, row)
        \/ page' = [page EXCEPT ![t] = NoPage]
    BY <1>3 DEF ReadRow
  <2>4. NoPage.row = AbsentRow BY DEF NoPage
  <2>5. Lists(page[t].view, row) => Present(page[t].of) BY DEF Lists, Present
  <2> HIDE DEF loaded
  <2> QED BY <1>1, <2>1, <2>2, <2>3, <2>4, <2>5 DEF PageSteps
<1>4. ASSUME ReadExceptions(t) PROVE \A u \in Tabs : PageSteps(u)
  <2> DEFINE excs == {[key |-> x.key, kind |-> x.kind] : x \in ExceptionsOf(page[t].of)}
             next == [page[t] EXCEPT !.excs = excs,
                        !.read = IF @ = "nothing" THEN "exceptions" ELSE "row first"]
  <2>1. next.row = page[t].row /\ next.of = page[t].of BY DEF Page
  <2>2. page' = [page EXCEPT ![t] = next] BY <1>4 DEF ReadExceptions
  <2> HIDE DEF next
  <2> QED BY <2>1, <2>2 DEF PageSteps
<1>5. \A f \in EventIds : Advances(f) BY <1>1 DEF Advances
<1> QED BY <1>2, <1>3, <1>4, <1>5 DEF Load

LEMMA StepAdvances ==
    ASSUME TypeInv, [Next]_vars
    PROVE  (\A f \in EventIds : Advances(f)) /\ (\A u \in Tabs : PageSteps(u))
<1>1. CASE Next BY <1>1, LoadSteps, EditAdvances, DeleteAdvances, PutBackAdvances DEF Next
<1>2. CASE UNCHANGED vars BY <1>2 DEF vars, tables, Advances, PageSteps
<1> QED BY <1>1, <1>2

LEMMA StepVersions == TypeInv /\ VersionInv /\ [Next]_vars => VersionInv'
<1> SUFFICES ASSUME TypeInv, VersionInv, [Next]_vars PROVE VersionInv'
  OBVIOUS
<1>0. \A f \in EventIds : rows[f] \in Row BY DEF TypeInv, TypeOK
<1>1. \A f \in EventIds : Advances(f) BY StepAdvances
<1>2. \A u \in Tabs : PageSteps(u) BY StepAdvances
<1>3. [AbsentRow EXCEPT !.lifecycle = "purged"].lifecycle = "purged"
      /\ [AbsentRow EXCEPT !.lifecycle = "purged"].version = 0
  BY DEF AbsentRow
<1>4. StoredVersioned'
  <2> SUFFICES ASSUME NEW f \in EventIds
               PROVE  IF Present(f)' THEN rows'[f].version >= 1 ELSE rows'[f].version = 0
    BY DEF StoredVersioned
  <2>1. rows[f].version \in Nat BY <1>0, ConstantsAssumption DEF Row
  <2>2. IF Present(f) THEN rows[f].version >= 1 ELSE rows[f].version = 0
    BY DEF VersionInv, StoredVersioned
  <2>3. CASE rows'[f] = rows[f] BY <2>2, <2>3 DEF Present
  <2>4. CASE Present(f) /\ Present(f)' /\ rows'[f].version = rows[f].version + 1
    BY <2>1, <2>4
  <2>5. CASE Present(f)' /\ rows'[f].version = 1 BY <2>5
  <2>6. CASE rows'[f] = [AbsentRow EXCEPT !.lifecycle = "purged"]
    BY <1>3, <2>6 DEF Present
  <2> QED BY <1>1, <2>3, <2>4, <2>5, <2>6 DEF Advances
<1>5. PagesFromPast'
  <2> SUFFICES ASSUME NEW u \in Tabs
               PROVE  page'[u].row = AbsentRow \/ PageFromPast(page[u])'
    BY DEF PagesFromPast
  <2>1. CASE page'[u].row = AbsentRow BY <2>1
  <2>2. CASE page'[u].row = page[u].row /\ page'[u].of = page[u].of
    <3>1. CASE page[u].row = AbsentRow BY <2>2, <3>1
    <3>2. CASE PageFromPast(page[u])
      <4>1. PICK f \in EventIds : f = page[u].of BY <3>2 DEF PageFromPast
      <4>2. rows[f].version \in Nat /\ page[u].row.version \in Nat
        <5>1. page[u].row \in Row BY DEF TypeInv, TypeOK, Page
        <5> QED BY <1>0, <5>1, ConstantsAssumption DEF Row
      <4>3. \/ rows'[f].lifecycle = "purged"
            \/ /\ rows'[f].lifecycle \in {"active", "trashed"}
               /\ page[u].row.version <= rows'[f].version
               /\ page[u].row.version = rows'[f].version => page[u].row = rows'[f]
        <5>1. CASE rows[f].lifecycle = "purged"
          BY <1>1, <5>1 DEF Advances, Present
        <5>2. CASE Present(f)
          <6>1. /\ page[u].row.version <= rows[f].version
                /\ page[u].row.version = rows[f].version => page[u].row = rows[f]
            BY <3>2, <4>1, <5>2 DEF PageFromPast, Present
          <6>2. CASE rows'[f] = rows[f] BY <5>2, <6>1, <6>2 DEF Present
          <6>3. CASE Present(f)' /\ rows'[f].version = rows[f].version + 1
            BY <4>2, <6>1, <6>3 DEF Present
          <6>4. CASE rows'[f] = [AbsentRow EXCEPT !.lifecycle = "purged"] BY <1>3, <6>4
          <6> QED BY <1>1, <5>2, <6>2, <6>3, <6>4 DEF Advances, Present
        <5> QED BY <3>2, <4>1, <5>1, <5>2 DEF PageFromPast
      <4> QED BY <2>2, <3>2, <4>1, <4>3 DEF PageFromPast, Present
    <3> QED BY <3>1, <3>2 DEF VersionInv, PagesFromPast
  <2>3. CASE /\ rows' = rows
             /\ page'[u].of \in EventIds
             /\ page'[u].row = rows[page'[u].of]
             /\ Present(page'[u].of)
    <3>1. PICK f \in EventIds : f = page'[u].of BY <2>3
    <3>2. rows[f].version >= 1 /\ rows[f].version \in Nat
      BY <1>0, <2>3, <3>1, ConstantsAssumption DEF VersionInv, StoredVersioned, Row
    <3> QED BY <2>3, <3>1, <3>2 DEF PageFromPast, Present
  <2> QED BY <1>2, <2>1, <2>2, <2>3 DEF PageSteps
<1> QED BY <1>4, <1>5 DEF VersionInv

LEMMA InitVersions == Init => VersionInv
<1>1. AbsentRow.lifecycle = "absent" /\ AbsentRow.version = 0 BY DEF AbsentRow
<1>2. NoPage.row = AbsentRow BY DEF NoPage
<1> QED BY <1>1, <1>2 DEF Init, VersionInv, StoredVersioned, PagesFromPast, Present

LEMMA VersionRow == TypeInv /\ VersionInv => VersionNamesRow
<1> SUFFICES ASSUME TypeInv, VersionInv, NEW t \in Tabs,
                    page[t].of # None, page[t].row.lifecycle # "absent",
                    page[t].row.version = rows[page[t].of].version
             PROVE  page[t].row = rows[page[t].of]
  BY DEF VersionNamesRow
<1>1. page[t].row # AbsentRow BY DEF AbsentRow
<1>2. PageFromPast(page[t]) BY <1>1 DEF VersionInv, PagesFromPast
<1> QED BY <1>2 DEF PageFromPast, VersionInv, StoredVersioned, Present

\* No ABA: however many times a row was edited, trashed, restored or put back
\* since a tab loaded it, a tab whose version is current holds the current row.
THEOREM VersionNames == Spec => []VersionNamesRow
<1>1. TypeInv /\ VersionInv => VersionNamesRow BY VersionRow
<1>2. Init => TypeInv /\ VersionInv BY InitTyped, InitVersions
<1>3. TypeInv /\ VersionInv /\ [Next]_vars => (TypeInv /\ VersionInv)'
  BY StepTyped, StepVersions
<1> QED BY <1>1, <1>2, <1>3, PTL DEF Spec

-----------------------------------------------------------------------------
(* Nobody writes blind.                                                     *)

LEMMA CurrentPage ==
    ASSUME TypeInv, VersionInv, NEW t \in Tabs, NEW e \in EventIds, e = page[t].of,
           Unchanged(e, page[t].row.version)
    PROVE  page[t].row = rows[e]
<1>1. rows[e].lifecycle = "active" /\ page[t].row.version = rows[e].version
  BY DEF Unchanged
<1>2. rows[e].version >= 1 BY <1>1 DEF VersionInv, StoredVersioned, Present
<1>3. page[t].row # AbsentRow BY <1>1, <1>2 DEF AbsentRow
<1>4. PageFromPast(page[t]) BY <1>3 DEF VersionInv, PagesFromPast
<1> QED BY <1>1, <1>4 DEF PageFromPast

\* Who may change an active row: somebody who holds it as it is, or somebody
\* taking a cancellation back.
Licensed(e) ==
    \/ \E t \in Tabs : page[t].of = e /\ page[t].row = rows[e]
    \/ \E x \in ExceptionsOf(e) : x.kind = "cancelled" /\ exceptions' = exceptions \ {x}

LEMMA EditLicensed ==
    ASSUME TypeInv, VersionInv, NEW t \in Tabs, Edit(t), NEW f \in EventIds,
           rows[f].lifecycle = "active", rows'[f] # rows[f]
    PROVE  Licensed(f)
<1> rows \in [EventIds -> Row] BY DEF TypeInv, TypeOK
<1>1. ASSUME NEW e \in EventIds, NEW first \in Days, NEW last \in Days,
             NEW repeats \in BOOLEAN, NEW w \in Walls,
             CreateEvent(t, e, first, last, repeats, w)
      PROVE  FALSE
  BY <1>1 DEF CreateEvent
<1>2. ASSUME NEW w \in Walls, UpdateEvent(t, w) PROVE Licensed(f)
  <2>1. PICK e \in EventIds : e = page[t].of BY <1>2, OnPageMeans DEF UpdateEvent
  <2>2. Unchanged(e, page[t].row.version) /\ f = e BY <1>2, <2>1 DEF UpdateEvent
  <2> QED BY <2>1, <2>2, CurrentPage DEF Licensed
<1>3. ASSUME NEW k \in Keys, NEW n \in EventIds, NEW w \in Walls, SplitThis(t, k, n, w)
      PROVE  Licensed(f)
  <2>1. PICK e \in EventIds : e = page[t].of BY <1>3, OnPageMeans DEF SplitThis
  <2>2. Unchanged(e, page[t].row.version) /\ rows[n].lifecycle = "absent"
    BY <1>3, <2>1 DEF SplitThis
  <2>3. f = e BY <1>3, <2>1, <2>2 DEF SplitThis
  <2> QED BY <2>1, <2>2, <2>3, CurrentPage DEF Licensed
<1>4. ASSUME NEW k \in Keys, NEW n \in EventIds, NEW w \in Walls, SplitFuture(t, k, n, w)
      PROVE  Licensed(f)
  <2>1. PICK e \in EventIds : e = page[t].of BY <1>4, OnPageMeans DEF SplitFuture
  <2>2. Unchanged(e, page[t].row.version) /\ rows[n].lifecycle = "absent"
    BY <1>4, <2>1 DEF SplitFuture
  <2>3. f = e BY <1>4, <2>1, <2>2 DEF SplitFuture
  <2> QED BY <2>1, <2>2, <2>3, CurrentPage DEF Licensed
<1> QED BY <1>1, <1>2, <1>3, <1>4 DEF Edit

LEMMA DeleteLicensed ==
    ASSUME TypeInv, VersionInv, NEW t \in Tabs, Delete(t), NEW f \in EventIds,
           rows[f].lifecycle = "active", rows'[f] # rows[f]
    PROVE  Licensed(f)
<1> rows \in [EventIds -> Row] BY DEF TypeInv, TypeOK
<1>1. PICK e : e = page[t].of OBVIOUS
<1>2. ASSUME NEW k \in Keys, CancelOccurrence(t, k) PROVE Licensed(f)
  <2>1. e \in EventIds BY <1>1, <1>2, OnPageMeans DEF CancelOccurrence
  <2>2. Unchanged(e, page[t].row.version) /\ f = e BY <1>1, <1>2 DEF CancelOccurrence
  <2> QED BY <1>1, <2>1, <2>2, CurrentPage DEF Licensed
<1>3. ASSUME TrashUpdate(t) PROVE Licensed(f)
  <2>1. e \in EventIds BY <1>1, <1>3 DEF TrashUpdate, TypeInv, PagesNameEvents
  <2>2. Unchanged(e, page[t].row.version) /\ f = e BY <1>1, <1>3 DEF TrashUpdate
  <2> QED BY <1>1, <2>1, <2>2, CurrentPage DEF Licensed
<1>4. ASSUME PurgeEvent(t) PROVE FALSE BY <1>4 DEF PurgeEvent
<1>5. ASSUME TrashSelect(t) \/ TrashConflict(t) \/ \E k \in Keys : CancelAgain(t, k)
      PROVE  FALSE
  BY <1>5 DEF TrashSelect, TrashConflict, CancelAgain, tables
<1> QED BY <1>2, <1>3, <1>4, <1>5 DEF Delete

LEMMA PutBackLicensed ==
    ASSUME TypeInv, NEW t \in Tabs, PutBack(t), NEW f \in EventIds,
           rows[f].lifecycle = "active", rows'[f] # rows[f]
    PROVE  Licensed(f)
<1> rows \in [EventIds -> Row] BY DEF TypeInv, TypeOK
<1>1. PICK e : e = page[t].of OBVIOUS
<1>2. (\E k : Uncancelled(e, k)) \/ (\E v : Restored(e, v))
  BY <1>1 DEF PutBack, UndoCancel, UncancelFromTrash, UndoTrash, RestoreFromTrash
<1>3. ASSUME NEW k, Uncancelled(e, k) PROVE Licensed(f)
  <2>1. f = e BY <1>3 DEF Uncancelled
  <2> QED BY <1>3, <2>1 DEF Uncancelled, Licensed
<1>4. ASSUME NEW v, Restored(e, v) PROVE FALSE BY <1>4 DEF Restored
<1> QED BY <1>2, <1>3, <1>4

\* An active row changes only under a tab that holds the row exactly as it is,
\* or by taking a cancellation back: the version check of every function, and
\* the repeated check of the unlocked trash, are enough for any interleaving.
THEOREM NoWriteIsBlind == Spec => NoBlindWrite
<1>1. TypeInv /\ VersionInv /\ [Next]_vars
        => [\A e \in EventIds :
              rows[e].lifecycle = "active" /\ rows'[e] # rows[e]
                => \/ \E t \in Tabs : page[t].of = e /\ page[t].row = rows[e]
                   \/ \E x \in ExceptionsOf(e) :
                        x.kind = "cancelled" /\ exceptions' = exceptions \ {x}]_vars
  <2> SUFFICES ASSUME TypeInv, VersionInv, Next, NEW f \in EventIds,
                      rows[f].lifecycle = "active", rows'[f] # rows[f]
               PROVE  Licensed(f)
    BY DEF Licensed
  <2>1. ASSUME NEW t \in Tabs, Load(t) PROVE FALSE
    BY <2>1 DEF Load, OpenPage, ReadRow, ReadExceptions, tables
  <2> QED BY <2>1, EditLicensed, DeleteLicensed, PutBackLicensed DEF Next
<1>2. Init => TypeInv /\ VersionInv BY InitTyped, InitVersions
<1>3. TypeInv /\ VersionInv /\ [Next]_vars => (TypeInv /\ VersionInv)'
  BY StepTyped, StepVersions
<1> QED BY <1>1, <1>2, <1>3, PTL DEF Spec, NoBlindWrite

-----------------------------------------------------------------------------
(* A version names the exceptions too.  They are rows of another table, and *)
(* every action that adds, removes or hands over an exception of an active  *)
(* series also bumps the series, in the same transaction.  Purge touches    *)
(* the exceptions of other series without a bump, but keeps their slots.    *)

Slots(e) == {x.key : x \in ExceptionsOf(e)}

SlotsSeen(p) == {x.key : x \in p.excs}

OnCalendarPage(p) == p.view \in {"calendar", "trashing"} /\ p.read = "row first"

Current(p) == rows[p.of].lifecycle = "active" /\ p.row.version = rows[p.of].version

SlotsInv ==
    \A t \in Tabs :
        OnCalendarPage(page[t]) /\ Current(page[t])
            => SlotsSeen(page[t]) = Slots(page[t].of)

\* What every action does to the slots of an active series it does not bump.
SlotsKept ==
    \A f \in EventIds :
        rows[f].lifecycle = "active" /\ rows'[f] = rows[f] => Slots(f)' = Slots(f)

LEMMA EditKeepsSlots ==
    ASSUME TypeInv, NEW t \in Tabs, Edit(t)
    PROVE  SlotsKept
<1> rows \in [EventIds -> Row] /\ exceptions \subseteq Exception BY DEF TypeInv, TypeOK
<1> SUFFICES ASSUME NEW f \in EventIds, rows[f].lifecycle = "active", rows'[f] = rows[f]
             PROVE  Slots(f)' = Slots(f)
  BY DEF SlotsKept
<1>0. \A e \in EventIds : rows[e].version \in Nat
  BY ConstantsAssumption DEF Row
<1>1. ASSUME exceptions' = exceptions PROVE Slots(f)' = Slots(f)
  BY <1>1 DEF Slots, ExceptionsOf
<1>2. ASSUME NEW e \in EventIds, NEW first \in Days, NEW last \in Days,
             NEW repeats \in BOOLEAN, NEW w \in Walls,
             CreateEvent(t, e, first, last, repeats, w)
      PROVE  Slots(f)' = Slots(f)
  BY <1>1, <1>2 DEF CreateEvent
<1>3. ASSUME NEW w \in Walls, UpdateEvent(t, w) PROVE Slots(f)' = Slots(f)
  BY <1>1, <1>3 DEF UpdateEvent
<1>4. ASSUME NEW k \in Keys, NEW n \in EventIds, NEW w \in Walls, SplitThis(t, k, n, w)
      PROVE  Slots(f)' = Slots(f)
  <2>1. PICK e \in EventIds : e = page[t].of BY <1>4, OnPageMeans DEF SplitThis
  <2>2. rows[e].lifecycle = "active" /\ rows[e].version < MaxVersion
    BY <1>4, <2>1, UnchangedMeans DEF SplitThis
  <2>3. rows[n].lifecycle = "absent" BY <1>4 DEF SplitThis
  <2>4. rows'[e] = Bumped(e) BY <1>4, <2>1, <2>2, <2>3 DEF SplitThis
  <2>5. f # e BY <1>0, <2>2, <2>4, BumpedTyped
  <2> DEFINE x == [series |-> e, key |-> k, kind |-> "moved", replacement |-> n]
  <2>6. exceptions' = exceptions \cup {x} /\ x.series = e BY <1>4, <2>1 DEF SplitThis
  <2> HIDE DEF x
  <2>7. ExceptionsOf(f)' = ExceptionsOf(f) BY <2>5, <2>6 DEF ExceptionsOf
  <2> QED BY <2>7 DEF Slots
<1>5. ASSUME NEW k \in Keys, NEW n \in EventIds, NEW w \in Walls, SplitFuture(t, k, n, w)
      PROVE  Slots(f)' = Slots(f)
  <2>1. PICK e \in EventIds : e = page[t].of BY <1>5, OnPageMeans DEF SplitFuture
  <2>2. rows[e].lifecycle = "active" /\ rows[e].version < MaxVersion
    BY <1>5, <2>1, UnchangedMeans DEF SplitFuture
  <2>3. rows[n].lifecycle = "absent" BY <1>5 DEF SplitFuture
  <2>4. rows'[e] = Truncated(e, k) BY <1>5, <2>1, <2>2, <2>3 DEF SplitFuture
  <2>5. Truncated(e, k).version = rows[e].version + 1
    BY <2>2, BumpedTyped DEF Truncated, Row
  <2>6. f # e /\ f # n BY <1>0, <2>2, <2>3, <2>4, <2>5
  <2>7. exceptions' = {IF x.series = e /\ NotBefore(x.key, k) THEN [x EXCEPT !.series = n] ELSE x
                         : x \in exceptions}
    BY <1>5, <2>1 DEF SplitFuture, Carried
  <2>8. \A x \in exceptions : [x EXCEPT !.series = n].series = n BY DEF Exception
  <2>9. ExceptionsOf(f)' = ExceptionsOf(f) BY <2>6, <2>7, <2>8 DEF ExceptionsOf
  <2> QED BY <2>9 DEF Slots
<1> QED BY <1>2, <1>3, <1>4, <1>5 DEF Edit

LEMMA PurgeKeepsSlots ==
    ASSUME TypeInv, NEW t \in Tabs, PurgeEvent(t)
    PROVE  SlotsKept
<1> rows \in [EventIds -> Row] /\ exceptions \subseteq Exception BY DEF TypeInv, TypeOK
<1> SUFFICES ASSUME NEW f \in EventIds, rows[f].lifecycle = "active", rows'[f] = rows[f]
             PROVE  Slots(f)' = Slots(f)
  BY DEF SlotsKept
<1>1. PICK e \in EventIds : e = page[t].of BY DEF PurgeEvent, TypeInv, PagesNameEvents
<1>2. f # e BY <1>1 DEF PurgeEvent
<1> DEFINE Conv(x) == [x EXCEPT !.kind = "cancelled", !.replacement = None]
<1>3. \A x \in exceptions : Conv(x).series = x.series /\ Conv(x).key = x.key
  BY DEF Exception
<1>4. exceptions' = {x \in exceptions \ Detached(e) : x.series # e}
                      \cup {Conv(x) : x \in {y \in Detached(e) : y.series # e}}
  BY <1>1 DEF PurgeEvent, PurgedExceptions
<1> HIDE DEF Conv
<1>5. ASSUME NEW y \in exceptions', y.series = f
      PROVE  \E x \in exceptions : x.series = f /\ x.key = y.key
  BY <1>3, <1>4, <1>5 DEF Detached
<1>6. ASSUME NEW x \in exceptions, x.series = f
      PROVE  \E y \in exceptions' : y.series = f /\ y.key = x.key
  <2>1. CASE x \in Detached(e)
    <3>1. Conv(x) \in exceptions' BY <1>2, <1>4, <1>6, <2>1
    <3> QED BY <1>3, <1>6, <3>1
  <2>2. CASE x \notin Detached(e) BY <1>2, <1>4, <1>6, <2>2
  <2> QED BY <2>1, <2>2
<1> QED BY <1>5, <1>6 DEF Slots, ExceptionsOf

LEMMA DeleteKeepsSlots ==
    ASSUME TypeInv, NEW t \in Tabs, Delete(t)
    PROVE  SlotsKept
<1> rows \in [EventIds -> Row] BY DEF TypeInv, TypeOK
<1>0. \A e \in EventIds : rows[e].version \in Nat
  BY ConstantsAssumption DEF Row
<1>1. ASSUME exceptions' = exceptions PROVE SlotsKept
  BY <1>1 DEF SlotsKept, Slots, ExceptionsOf
<1>2. ASSUME NEW k \in Keys, CancelOccurrence(t, k) PROVE SlotsKept
  <2> SUFFICES ASSUME NEW f \in EventIds, rows'[f] = rows[f]
               PROVE  Slots(f)' = Slots(f)
    BY DEF SlotsKept
  <2>1. PICK e \in EventIds : e = page[t].of BY <1>2, OnPageMeans DEF CancelOccurrence
  <2>2. rows[e].version < MaxVersion BY <1>2, <2>1, UnchangedMeans DEF CancelOccurrence
  <2>3. rows'[e] = Bumped(e) BY <1>2, <2>1 DEF CancelOccurrence
  <2>4. f # e BY <1>0, <2>2, <2>3, BumpedTyped
  <2> DEFINE x == [series |-> e, key |-> k, kind |-> "cancelled", replacement |-> None]
  <2>5. exceptions' = exceptions \cup {x} /\ x.series = e
    BY <1>2, <2>1 DEF CancelOccurrence
  <2> HIDE DEF x
  <2>6. ExceptionsOf(f)' = ExceptionsOf(f) BY <2>4, <2>5 DEF ExceptionsOf
  <2> QED BY <2>6 DEF Slots
<1>3. ASSUME NEW k \in Keys, CancelAgain(t, k) PROVE SlotsKept
  BY <1>1, <1>3 DEF CancelAgain, tables
<1>4. ASSUME TrashSelect(t) \/ TrashConflict(t) PROVE SlotsKept
  BY <1>1, <1>4 DEF TrashSelect, TrashConflict, tables
<1>5. ASSUME TrashUpdate(t) PROVE SlotsKept
  BY <1>1, <1>5 DEF TrashUpdate
<1> QED BY <1>2, <1>3, <1>4, <1>5, PurgeKeepsSlots DEF Delete

LEMMA PutBackKeepsSlots ==
    ASSUME TypeInv, NEW t \in Tabs, PutBack(t)
    PROVE  SlotsKept
<1> rows \in [EventIds -> Row] BY DEF TypeInv, TypeOK
<1> SUFFICES ASSUME NEW f \in EventIds, rows'[f] = rows[f]
             PROVE  Slots(f)' = Slots(f)
  BY DEF SlotsKept
<1>0. \A e \in EventIds : rows[e].version \in Nat
  BY ConstantsAssumption DEF Row
<1>1. PICK e \in EventIds : e = page[t].of
  BY DEF PutBack, UndoCancel, UncancelFromTrash, UndoTrash, RestoreFromTrash,
         TypeInv, PagesNameEvents
<1>2. (\E k : Uncancelled(e, k)) \/ (\E v : Restored(e, v))
  BY <1>1 DEF PutBack, UndoCancel, UncancelFromTrash, UndoTrash, RestoreFromTrash
<1>3. ASSUME NEW k, Uncancelled(e, k) PROVE Slots(f)' = Slots(f)
  <2>1. rows[e].version < MaxVersion /\ rows'[e] = Bumped(e) BY <1>3 DEF Uncancelled
  <2>2. f # e BY <1>0, <2>1, BumpedTyped
  <2>3. PICK x \in ExceptionsOf(e) : exceptions' = exceptions \ {x}
    BY <1>3 DEF Uncancelled
  <2>4. ExceptionsOf(f)' = ExceptionsOf(f) BY <2>2, <2>3 DEF ExceptionsOf
  <2> QED BY <2>4 DEF Slots
<1>4. ASSUME NEW v, Restored(e, v) PROVE Slots(f)' = Slots(f)
  BY <1>4 DEF Restored, Slots, ExceptionsOf
<1> QED BY <1>2, <1>3, <1>4

LEMMA StepKeepsSlots == TypeInv /\ [Next]_vars => SlotsKept
<1> SUFFICES ASSUME TypeInv, [Next]_vars PROVE SlotsKept
  OBVIOUS
<1>1. ASSUME NEW t \in Tabs, Load(t) PROVE SlotsKept
  BY <1>1 DEF Load, OpenPage, ReadRow, ReadExceptions, tables, SlotsKept, Slots, ExceptionsOf
<1>2. CASE UNCHANGED vars BY <1>2 DEF vars, tables, SlotsKept, Slots, ExceptionsOf
<1> QED BY <1>1, <1>2, EditKeepsSlots, DeleteKeepsSlots, PutBackKeepsSlots DEF Next

\* What a step does to what a tab's calendar page holds: it is as it was, or
\* its exceptions have just been read.
PageKept(t) ==
    OnCalendarPage(page[t])' =>
        \/ /\ OnCalendarPage(page[t])
           /\ page'[t].of = page[t].of
           /\ page'[t].row = page[t].row
           /\ page'[t].excs = page[t].excs
        \/ /\ exceptions' = exceptions
           /\ SlotsSeen(page[t])' = Slots(page'[t].of)

LEMMA AnsweredPages ==
    ASSUME TypeInv, NEW t \in Tabs, NEW next, Answered(t, next),
           next.view \notin {"calendar", "trashing"}
    PROVE  \A u \in Tabs : PageKept(u)
BY DEF PageKept, OnCalendarPage, Answered, TypeInv, TypeOK

LEMMA LoadPages ==
    ASSUME TypeInv, NEW t \in Tabs, Load(t)
    PROVE  \A u \in Tabs : PageKept(u)
<1> page \in [Tabs -> Page] BY DEF TypeInv, TypeOK
<1> DEFINE excs == {[key |-> x.key, kind |-> x.kind] : x \in ExceptionsOf(page[t].of)}
<1>0. exceptions' = exceptions BY DEF Load, OpenPage, ReadRow, ReadExceptions, tables
<1>1. \A u \in Tabs \ {t} : page'[u] = page[u]
  BY DEF Load, OpenPage, ReadRow, ReadExceptions
<1>2. ASSUME OnCalendarPage(page[t])'
      PROVE  page'[t].of = page[t].of /\ page'[t].excs = excs
  <2>1. page[t] \in Page OBVIOUS
  <2>2. ASSUME NEW view, NEW e, OpenPage(t, view, e) PROVE FALSE
    <3> DEFINE opened == [NoPage EXCEPT !.view = view, !.of = e]
    <3>1. opened.read = "nothing" BY DEF NoPage
    <3>2. page'[t] = opened BY <2>2 DEF OpenPage
    <3> HIDE DEF opened
    <3> QED BY <1>2, <3>1, <3>2 DEF OnCalendarPage
  <2>3. ASSUME ReadRow(t) PROVE FALSE
    <3> DEFINE read(r) == IF r = "nothing" THEN "row" ELSE "exceptions first"
               loaded == [page[t] EXCEPT !.row = rows[page[t].of], !.read = read(@)]
    <3>1. loaded.read = read(page[t].read) BY <2>1 DEF Page
    <3>2. page'[t] = loaded \/ page'[t] = NoPage BY <2>3 DEF ReadRow
    <3>3. NoPage.read = "nothing" BY DEF NoPage
    <3> HIDE DEF loaded
    <3> QED BY <1>2, <3>1, <3>2, <3>3 DEF OnCalendarPage
  <2>4. ASSUME ReadExceptions(t)
        PROVE  page'[t].of = page[t].of /\ page'[t].excs = excs
    <3> DEFINE next == [page[t] EXCEPT !.excs = excs,
                          !.read = IF @ = "nothing" THEN "exceptions" ELSE "row first"]
    <3>1. next.of = page[t].of /\ next.excs = excs BY <2>1 DEF Page
    <3>2. page'[t] = next BY <2>4 DEF ReadExceptions
    <3> HIDE DEF next
    <3> QED BY <3>1, <3>2
  <2> QED BY <2>2, <2>3, <2>4 DEF Load
<1>3. {x.key : x \in excs} = Slots(page[t].of)
  <2>1. \A x \in ExceptionsOf(page[t].of) : [key |-> x.key, kind |-> x.kind].key = x.key
    OBVIOUS
  <2> QED BY <2>1 DEF Slots
<1> HIDE DEF excs
<1>4. PageKept(t) BY <1>0, <1>2, <1>3 DEF PageKept, SlotsSeen
<1>5. \A u \in Tabs \ {t} : PageKept(u) BY <1>1 DEF PageKept, OnCalendarPage
<1> QED BY <1>4, <1>5

LEMMA StepKeepsPages == TypeInv /\ [Next]_vars => \A u \in Tabs : PageKept(u)
<1> SUFFICES ASSUME TypeInv, [Next]_vars PROVE \A u \in Tabs : PageKept(u)
  OBVIOUS
<1> page \in [Tabs -> Page] BY DEF TypeInv, TypeOK
<1>0. NoPage.view = "none" BY DEF NoPage
<1>1. ASSUME NEW e, NEW row, NEW k PROVE UndoStrip(e, row, k).view = "undo"
  BY DEF UndoStrip, NoPage
<1>2. ASSUME NEW t \in Tabs, Edit(t) PROVE \A u \in Tabs : PageKept(u)
  <2>1. page' = page \/ Answered(t, NoPage)
    BY <1>2 DEF Edit, CreateEvent, UpdateEvent, SplitThis, SplitFuture
  <2>2. CASE page' = page BY <2>2 DEF PageKept, OnCalendarPage
  <2> QED BY <1>0, <2>1, <2>2, AnsweredPages
<1>3. ASSUME NEW t \in Tabs, Delete(t) PROVE \A u \in Tabs : PageKept(u)
  <2>1. \/ \E e, row, k : Answered(t, UndoStrip(e, row, k))
        \/ Answered(t, NoPage)
        \/ \E e, row, k : page' = [page EXCEPT ![t] = UndoStrip(e, row, k)]
        \/ /\ page[t].view \in {"calendar", "trashing"}
           /\ \/ page' = [page EXCEPT ![t].view = "calendar"]
              \/ page' = [page EXCEPT ![t].view = "trashing"]
    BY <1>3 DEF Delete, CancelOccurrence, CancelAgain, TrashSelect, TrashUpdate,
                TrashConflict, PurgeEvent, OnPage
  <2>2. ASSUME NEW e, NEW row, NEW k,
               \/ Answered(t, UndoStrip(e, row, k))
               \/ page' = [page EXCEPT ![t] = UndoStrip(e, row, k)]
        PROVE  \A u \in Tabs : PageKept(u)
    BY <1>1, <2>2, AnsweredPages DEF Answered
  <2>3. ASSUME page[t].view \in {"calendar", "trashing"}, NEW v,
               page' = [page EXCEPT ![t].view = v]
        PROVE  \A u \in Tabs : PageKept(u)
    <3> DEFINE next == [page[t] EXCEPT !.view = v]
    <3>1. page[t] \in Page OBVIOUS
    <3>2. /\ next.read = page[t].read /\ next.of = page[t].of
          /\ next.row = page[t].row /\ next.excs = page[t].excs
      BY <3>1 DEF Page
    <3>3. page'[t] = next /\ \A u \in Tabs \ {t} : page'[u] = page[u] BY <2>3
    <3> HIDE DEF next
    <3> QED BY <2>3, <3>2, <3>3 DEF PageKept, OnCalendarPage
  <2> QED BY <1>0, <2>1, <2>2, <2>3, AnsweredPages
<1>4. ASSUME NEW t \in Tabs, PutBack(t) PROVE \A u \in Tabs : PageKept(u)
  <2>1. Answered(t, NoPage)
    BY <1>4 DEF PutBack, UndoCancel, UncancelFromTrash, UndoTrash, RestoreFromTrash
  <2> QED BY <1>0, <2>1, AnsweredPages
<1>5. CASE UNCHANGED vars BY <1>5 DEF vars, PageKept, OnCalendarPage
<1> QED BY <1>2, <1>3, <1>4, <1>5, LoadPages DEF Next

LEMMA StepSlots == TypeInv /\ VersionInv /\ SlotsInv /\ [Next]_vars => SlotsInv'
<1> SUFFICES ASSUME TypeInv, VersionInv, SlotsInv, [Next]_vars, NEW t \in Tabs,
                    OnCalendarPage(page[t])', Current(page[t])'
             PROVE  SlotsSeen(page[t])' = Slots(page[t].of)'
  BY DEF SlotsInv
<1>1. PageKept(t) BY StepKeepsPages
<1>2. CASE exceptions' = exceptions /\ SlotsSeen(page[t])' = Slots(page'[t].of)
  BY <1>2 DEF Slots, ExceptionsOf
<1>3. CASE /\ OnCalendarPage(page[t])
           /\ page'[t].of = page[t].of
           /\ page'[t].row = page[t].row
           /\ page'[t].excs = page[t].excs
  <2>1. PICK f \in EventIds : f = page[t].of
    BY <1>3 DEF OnCalendarPage, TypeInv, PagesNameEvents
  <2>2. rows[f] \in Row /\ page[t].row \in Row BY DEF TypeInv, TypeOK, Page
  <2>3. rows[f].version \in Nat BY <2>2, ConstantsAssumption DEF Row
  <2>4. rows'[f].lifecycle = "active" /\ page[t].row.version = rows'[f].version
    BY <1>3, <2>1 DEF Current
  <2>5. rows'[f].version >= 1
    BY <2>4, StepVersions DEF VersionInv, StoredVersioned, Present
  <2>6. page[t].row # AbsentRow BY <2>4, <2>5 DEF AbsentRow
  <2>7. \/ rows[f].lifecycle = "purged"
        \/ Present(f) /\ page[t].row.version <= rows[f].version
    BY <2>1, <2>6 DEF VersionInv, PagesFromPast, PageFromPast
  <2>8. rows'[f] = rows[f]
    <3>1. rows'[f] # [AbsentRow EXCEPT !.lifecycle = "purged"]
      <4>1. [AbsentRow EXCEPT !.lifecycle = "purged"].lifecycle = "purged" BY DEF AbsentRow
      <4> QED BY <2>4, <4>1
    <3>2. Advances(f) BY StepAdvances
    <3> QED BY <2>3, <2>4, <2>7, <3>1, <3>2 DEF Advances, Present
  <2>9. SlotsSeen(page[t]) = Slots(f)
    BY <1>3, <2>1, <2>4, <2>8 DEF SlotsInv, Current
  <2>10. Slots(f)' = Slots(f) BY <2>4, <2>8, StepKeepsSlots DEF SlotsKept
  <2>11. SlotsSeen(page[t])' = SlotsSeen(page[t]) BY <1>3 DEF SlotsSeen
  <2>12. Slots(page[t].of)' = Slots(f)' BY <1>3, <2>1 DEF Slots, ExceptionsOf
  <2> QED BY <2>9, <2>10, <2>11, <2>12
<1> QED BY <1>1, <1>2, <1>3 DEF PageKept

\* The version a tab sends stands for all its page shows: with a current
\* version, and the exceptions read after the row, the page has the database's
\* row and exactly its occurrences, whatever other tabs did in between.
THEOREM VersionNamesAll == Spec => []VersionNamesPage
<1>1. TypeInv /\ VersionInv /\ SlotsInv => VersionNamesOccurrences
  <2> SUFFICES ASSUME TypeInv, VersionInv, SlotsInv, NEW t \in Tabs,
                      page[t].view = "calendar", page[t].read = "row first",
                      page[t].row.lifecycle = "active",
                      page[t].row.version = rows[page[t].of].version
               PROVE  OnPage(t) = Shows(rows[page[t].of], ExceptionsOf(page[t].of))
    BY DEF VersionNamesOccurrences
  <2>1. PICK f \in EventIds : f = page[t].of BY DEF TypeInv, PagesNameEvents
  <2>2. page[t].row.lifecycle # "absent" /\ page[t].of # None
    BY <2>1, ConstantsAssumption
  <2>3. page[t].row = rows[f] BY <2>1, <2>2, VersionRow DEF VersionNamesRow
  <2>4. SlotsSeen(page[t]) = Slots(f) BY <2>1, <2>3 DEF SlotsInv, OnCalendarPage, Current
  <2>5. OnPage(t) = Produces(page[t].row) \ SlotsSeen(page[t])
    BY DEF OnPage, Shows, SlotsSeen
  <2>6. Shows(rows[f], ExceptionsOf(f)) = Produces(rows[f]) \ Slots(f)
    BY <2>3 DEF Shows, Slots
  <2> QED BY <2>1, <2>3, <2>4, <2>5, <2>6
<1>2. Init => TypeInv /\ VersionInv /\ SlotsInv
  <2>1. NoPage.view = "none" BY DEF NoPage
  <2>2. Init => SlotsInv BY <2>1 DEF Init, SlotsInv, OnCalendarPage
  <2> QED BY <2>2, InitTyped, InitVersions
<1>3. TypeInv /\ VersionInv /\ SlotsInv /\ [Next]_vars => (TypeInv /\ VersionInv /\ SlotsInv)'
  BY StepTyped, StepVersions, StepSlots
<1>4. VersionNamesRow /\ VersionNamesOccurrences => VersionNamesPage
  BY DEF VersionNamesPage
<1> QED BY <1>1, <1>2, <1>3, <1>4, VersionNames, PTL DEF Spec

-----------------------------------------------------------------------------
(***************************************************************************)
(* Lineages.  No sequence of edits loses an occurrence, shows one twice or *)
(* brings a cancelled one back (CalendarKept), and the tables implement    *)
(* the ledger of occurrences (ImplementsLedger).  The invariant relates    *)
(* the rows, the exceptions and the history of one lineage; everything in  *)
(* it is about stored rows, so tabs and their pages enter only through the *)
(* version check of each write.  The lemmas about one action say what it   *)
(* keeps of the invariant and, if it changes the days of a lineage, what   *)
(* it does to the ledger.                                                  *)
(***************************************************************************)

(* A lineage is the event a person created and all that splits made of it.  *)
(* While it has not been moved to another hour, these hold of it.           *)

Series(e) == Present(e) /\ rows[e].rrule
OneOff(e) == Present(e) /\ ~rows[e].rrule

Covers(e, d) == rows[e].first <= d /\ d <= rows[e].last

Slot(e, d) == <<d, rows[e].wall>>

\* Every lineage anything is recorded of has been created.
LineagesStored ==
    /\ \A e \in EventIds : Present(e) => rows[root[e]].lifecycle # "absent"
    /\ \A l \in gone : rows[l[1]].lifecycle # "absent"
    /\ \A r \in retimed : rows[r].lifecycle # "absent"

OneOffsAreOneDay == \A e \in EventIds : OneOff(e) => rows[e].last = rows[e].first

\* Exceptions belong to a series, and name a slot it fills.
InRange(s, k) ==
    /\ rows[s].rrule
    /\ root[s] \notin retimed => Covers(s, k[1]) /\ k = Slot(s, k[1])

ExceptionsInRange == \A x \in exceptions : InRange(x.series, x.key)

\* The parts of a split series share no day.
PartsApart ==
    \A e, f \in EventIds : \A d \in Days :
        Series(e) /\ Series(f) /\ root[e] = root[f] /\ Covers(e, d) /\ Covers(f, d)
            => e = f

MovedAt(s, d, n) ==
    \E x \in exceptions : x.series = s /\ x.key = Slot(s, d) /\ x.replacement = n

CancelledAt(s, d) ==
    \E x \in exceptions : x.series = s /\ x.key = Slot(s, d) /\ x.kind = "cancelled"

\* A detached occurrence is excepted from the series that covers its day.
DetachedExcepted ==
    \A n, s \in EventIds :
        /\ OneOff(n) /\ Series(s) /\ root[n] = root[s] /\ root[s] \notin retimed
        /\ Covers(s, rows[n].first)
        => MovedAt(s, rows[n].first, n)

DetachedApart ==
    \A n, m \in EventIds :
        /\ OneOff(n) /\ OneOff(m) /\ root[n] = root[m] /\ root[n] \notin retimed
        /\ rows[n].first = rows[m].first
        => n = m

\* What was cancelled is cancelled in the series that covers its day, and no
\* detached occurrence stands in for it.
StaysGone(l) ==
    /\ \A s \in EventIds :
          Series(s) /\ root[s] = l[1] /\ Covers(s, l[2]) => CancelledAt(s, l[2])
    /\ \A n \in EventIds : OneOff(n) /\ root[n] = l[1] => rows[n].first # l[2]

GoneExcepted == \A l \in gone : l[1] \notin retimed => StaysGone(l)

LineageInv ==
    /\ LineagesStored
    /\ OneOffsAreOneDay
    /\ ExceptionsInRange
    /\ PartsApart
    /\ DetachedExcepted
    /\ DetachedApart
    /\ GoneExcepted

(* The two sides of the ledger, by rows: `Kept` are the days some stored row *)
(* of an unmoved lineage covers, `Shown` those of them on the calendar.      *)

Excepted(e, d) == \E x \in exceptions : x.series = e /\ x.key = Slot(e, d)

ShowsDay(e, d) == rows[e].lifecycle = "active" /\ Covers(e, d) /\ ~Excepted(e, d)

Occurrences == EventIds \X Days

Kept ==
    {l \in Occurrences : /\ l[1] \notin retimed
                         /\ \E e \in EventIds : Present(e) /\ root[e] = l[1] /\ Covers(e, l[2])}

Shown ==
    {l \in Occurrences : /\ l[1] \notin retimed
                         /\ \E e \in EventIds : root[e] = l[1] /\ ShowsDay(e, l[2])}

\* A write that passed the version check acts on a slot the stored row fills.
LEMMA PickedSlot ==
    ASSUME TypeInv, VersionInv, NEW t \in Tabs, NEW k \in OnPage(t),
           NEW e \in EventIds, e = page[t].of, Unchanged(e, page[t].row.version)
    PROVE  k[1] \in Days /\ k = Slot(e, k[1]) /\ Covers(e, k[1]) /\ rows[e].lifecycle = "active"
<1>1. page[t].row = rows[e] BY CurrentPage
<1>2. k \in Produces(rows[e]) BY <1>1 DEF OnPage, Shows
<1>3. PICK d \in rows[e].first..rows[e].last : k = <<d, rows[e].wall>>
  BY <1>2 DEF Produces
<1>4. rows[e].first \in Days /\ rows[e].last \in 0..LastDay BY DEF TypeInv, TypeOK, Row
<1>5. d \in Days /\ rows[e].first <= d /\ d <= rows[e].last
  BY <1>3, <1>4, ConstantsAssumption DEF Days
<1>6. k[1] = d BY <1>3
<1> QED BY <1>3, <1>5, <1>6 DEF Slot, Covers, Unchanged

-----------------------------------------------------------------------------
(* Steps that leave every stored row its days, and every series its hour.   *)

SameShape ==
    /\ root' = root
    /\ \A f \in EventIds :
        /\ rows'[f].lifecycle = "absent" <=> rows[f].lifecycle = "absent"
        /\ Present(f)' <=> Present(f)
        /\ Present(f) => /\ rows'[f].rrule = rows[f].rrule
                         /\ rows'[f].first = rows[f].first
                         /\ rows'[f].last = rows[f].last
        /\ Series(f) => rows'[f].wall = rows[f].wall

LEMMA ShapeMeans ==
    ASSUME SameShape, NEW f \in EventIds
    PROVE  /\ Series(f)' <=> Series(f)
           /\ OneOff(f)' <=> OneOff(f)
           /\ \A d \in Days : Present(f) => (Covers(f, d)' <=> Covers(f, d))
           /\ \A d \in Days : Series(f) => Slot(f, d)' = Slot(f, d)
BY DEF SameShape, Series, OneOff, Covers, Slot

LEMMA OneRowSameShape ==
    ASSUME TypeInv, NEW e \in EventIds, NEW row, rows' = [rows EXCEPT ![e] = row], root' = root,
           Present(e), row.lifecycle \in {"active", "trashed"},
           row.rrule = rows[e].rrule, row.first = rows[e].first, row.last = rows[e].last,
           rows[e].rrule => row.wall = rows[e].wall
    PROVE  SameShape
BY DEF SameShape, Series, Present, TypeInv, TypeOK

\* What depends on the rows' shape alone.
LEMMA ShapeKeepsRows ==
    ASSUME TypeInv, LineageInv, SameShape, retimed' = retimed
    PROVE  /\ OneOffsAreOneDay' /\ PartsApart' /\ DetachedApart'
           /\ gone' \subseteq gone => LineagesStored'
<1> root \in [EventIds -> EventIds] /\ gone \subseteq EventIds \X Days /\ retimed \subseteq EventIds
  BY DEF TypeInv, TypeOK
<1>1. OneOffsAreOneDay'
  BY DEF OneOffsAreOneDay, LineageInv, SameShape, OneOff
<1>2. PartsApart'
  <2> SUFFICES ASSUME NEW e \in EventIds, NEW f \in EventIds, NEW d \in Days,
                      Series(e)', Series(f)', root'[e] = root'[f], Covers(e, d)', Covers(f, d)'
               PROVE  e = f
    BY DEF PartsApart
  <2>1. Series(e) /\ Series(f) BY ShapeMeans
  <2>2. Covers(e, d) /\ Covers(f, d) BY <2>1, ShapeMeans DEF Series
  <2>3. root[e] = root[f] BY DEF SameShape
  <2> QED BY <2>1, <2>2, <2>3 DEF LineageInv, PartsApart
<1>3. DetachedApart'
  <2> SUFFICES ASSUME NEW n \in EventIds, NEW m \in EventIds,
                      OneOff(n)', OneOff(m)', root'[n] = root'[m], root'[n] \notin retimed,
                      rows'[n].first = rows'[m].first
               PROVE  n = m
    BY DEF DetachedApart
  <2>1. OneOff(n) /\ OneOff(m) BY ShapeMeans
  <2>2. rows[n].first = rows[m].first BY <2>1 DEF SameShape, OneOff
  <2> QED BY <2>1, <2>2 DEF LineageInv, DetachedApart, SameShape
<1>4. ASSUME gone' \subseteq gone PROVE LineagesStored'
  BY <1>4 DEF LineageInv, LineagesStored, SameShape
<1> QED BY <1>1, <1>2, <1>3, <1>4

LEMMA ExceptionsTyped ==
    ASSUME TypeInv, TablesInv, LineageInv
    PROVE  \A x \in exceptions : /\ x.series \in EventIds /\ Series(x.series)
                                /\ x.key \in Keys /\ x.key[1] \in Days
BY DEF TypeInv, TypeOK, Exception, Keys, LineageInv, ExceptionsInRange, InRange, Series,
       TablesInv, ExceptionsAnchored

LEMMA ShapeKeepsRange ==
    ASSUME SameShape, retimed' = retimed, NEW s \in EventIds, NEW k \in Keys, Series(s),
           InRange(s, k)
    PROVE  InRange(s, k)'
<1>1. k[1] \in Days BY DEF Keys
<1>2. Series(s)' /\ Slot(s, k[1])' = Slot(s, k[1]) /\ (Covers(s, k[1])' <=> Covers(s, k[1]))
  BY <1>1, ShapeMeans DEF Series
<1>3. root'[s] = root[s] BY DEF SameShape
<1> QED BY <1>2, <1>3 DEF InRange, Series

LEMMA ShapeKeepsDetached ==
    ASSUME TypeInv, LineageInv, SameShape, retimed' = retimed,
           \A s, n \in EventIds : \A d \in Days :
               Series(s) /\ MovedAt(s, d, n) => MovedAt(s, d, n)'
    PROVE  DetachedExcepted'
<1> SUFFICES ASSUME NEW n \in EventIds, NEW s \in EventIds,
                    OneOff(n)', Series(s)', root'[n] = root'[s], root'[s] \notin retimed,
                    Covers(s, rows[n].first)'
             PROVE  MovedAt(s, rows[n].first, n)'
  BY DEF DetachedExcepted
<1>1. OneOff(n) /\ Series(s) BY ShapeMeans
<1>2. PICK d \in Days : d = rows[n].first BY DEF TypeInv, TypeOK, Row
<1>3. rows'[n].first = d BY <1>1, <1>2 DEF SameShape, OneOff
<1>4. Covers(s, d)' BY <1>3 DEF Covers
<1>5. Covers(s, d) BY <1>1, <1>4, ShapeMeans DEF Series
<1>6. root[n] = root[s] /\ root[s] \notin retimed BY DEF SameShape
<1>7. MovedAt(s, d, n) BY <1>1, <1>2, <1>5, <1>6 DEF LineageInv, DetachedExcepted
<1>8. MovedAt(s, d, n)' BY <1>1, <1>7
<1> QED BY <1>3, <1>8 DEF MovedAt, Slot

LEMMA ShapeKeepsGone ==
    ASSUME SameShape, NEW l \in EventIds \X Days, StaysGone(l),
           \A s \in EventIds :
               Series(s) /\ root[s] = l[1] /\ CancelledAt(s, l[2]) => CancelledAt(s, l[2])'
    PROVE  StaysGone(l)'
<1>0. l[2] \in Days OBVIOUS
<1>1. ASSUME NEW s \in EventIds, Series(s)', root'[s] = l[1], Covers(s, l[2])'
      PROVE  CancelledAt(s, l[2])'
  <2>1. Series(s) BY <1>1, ShapeMeans
  <2>2. Covers(s, l[2]) BY <1>0, <1>1, <2>1, ShapeMeans DEF Series
  <2>3. root[s] = l[1] BY <1>1 DEF SameShape
  <2>4. CancelledAt(s, l[2]) BY <2>1, <2>2, <2>3 DEF StaysGone
  <2> QED BY <2>1, <2>3, <2>4
<1>2. ASSUME NEW n \in EventIds, OneOff(n)', root'[n] = l[1] PROVE rows'[n].first # l[2]
  <2>1. OneOff(n) BY <1>2, ShapeMeans
  <2>2. rows'[n].first = rows[n].first /\ root[n] = l[1]
    BY <1>2, <2>1 DEF SameShape, OneOff
  <2> QED BY <2>1, <2>2 DEF StaysGone
<1> QED BY <1>1, <1>2 DEF StaysGone

LEMMA ShapeKeeps ==
    ASSUME TypeInv, TablesInv, LineageInv, SameShape, exceptions' = exceptions,
           gone' = gone, retimed' = retimed
    PROVE  LineageInv'
<1>1. ExceptionsInRange'
  BY ExceptionsTyped, ShapeKeepsRange DEF LineageInv, ExceptionsInRange
<1>2. \A s \in EventIds : \A d \in Days :
        Series(s) => /\ \A n : MovedAt(s, d, n)' <=> MovedAt(s, d, n)
                     /\ CancelledAt(s, d)' <=> CancelledAt(s, d)
  BY ShapeMeans DEF MovedAt, CancelledAt
<1>3. DetachedExcepted' BY <1>2, ShapeKeepsDetached
<1>4. GoneExcepted'
  <2>1. gone \subseteq EventIds \X Days BY DEF TypeInv, TypeOK
  <2> SUFFICES ASSUME NEW l \in gone, l[1] \notin retimed PROVE StaysGone(l)'
    BY DEF GoneExcepted
  <2>2. StaysGone(l) BY DEF LineageInv, GoneExcepted
  <2> QED BY <1>2, <2>1, <2>2, ShapeKeepsGone
<1> QED BY <1>1, <1>3, <1>4, ShapeKeepsRows DEF LineageInv

-----------------------------------------------------------------------------
(* Cancelling and putting back.                                             *)

LEMMA BumpedSameShape ==
    ASSUME TypeInv, NEW e \in EventIds, Present(e), rows[e].version < MaxVersion,
           rows' = [rows EXCEPT ![e] = Bumped(e)], root' = root
    PROVE  SameShape
<1> rows \in [EventIds -> Row] BY DEF TypeInv, TypeOK
<1>1. Bumped(e).last = rows[e].last /\ Bumped(e).wall = rows[e].wall BY DEF Bumped, Row
<1> QED BY <1>1, BumpedTyped, OneRowSameShape DEF Present

LEMMA CancelKeepsLineage ==
    ASSUME TypeInv, TablesInv, VersionInv, LineageInv, NEW t \in Tabs, NEW k \in Keys,
           CancelOccurrence(t, k)
    PROVE  LineageInv'
<1>1. PICK e \in EventIds : e = page[t].of BY OnPageMeans DEF CancelOccurrence
<1>0. PICK r \in EventIds : r = root[e] BY DEF TypeInv, TypeOK
<1> DEFINE c == [series |-> e, key |-> k, kind |-> "cancelled", replacement |-> None]
           g == <<r, k[1]>>
<1>2. Unchanged(e, page[t].row.version) /\ k \in OnPage(t) BY <1>1 DEF CancelOccurrence
<1>3. k[1] \in Days /\ k = Slot(e, k[1]) /\ Covers(e, k[1]) /\ rows[e].lifecycle = "active"
  BY <1>1, <1>2, PickedSlot
<1>4. rows[e].version < MaxVersion BY <1>2, UnchangedMeans DEF TypeInv, TypeOK
<1>5. /\ rows' = [rows EXCEPT ![e] = Bumped(e)] /\ root' = root /\ retimed' = retimed
      /\ exceptions' = exceptions \cup {c} /\ gone' = gone \cup {g}
      /\ rows[e].rrule
      /\ \A x \in ExceptionsOf(e) : x.key # k
  BY <1>0, <1>1 DEF CancelOccurrence
<1>6. Series(e) BY <1>3, <1>5 DEF Series, Present
<1>7. SameShape BY <1>1, <1>4, <1>5, <1>6, BumpedSameShape DEF Series
<1>8. c.series = e /\ c.key = k /\ c.kind = "cancelled" OBVIOUS
<1>9. g \in EventIds \X Days /\ g[1] = r /\ g[2] = k[1] /\ gone \subseteq EventIds \X Days
  BY <1>3 DEF TypeInv, TypeOK
<1> HIDE DEF c, g
<1>10. ExceptionsInRange'
  <2>1. InRange(e, k) BY <1>3, <1>5 DEF InRange
  <2>2. InRange(c.series, c.key)' BY <1>1, <1>5, <1>6, <1>7, <1>8, <2>1, ShapeKeepsRange
  <2>3. \A x \in exceptions : InRange(x.series, x.key)'
    BY <1>5, <1>7, ExceptionsTyped, ShapeKeepsRange DEF LineageInv, ExceptionsInRange
  <2> QED BY <1>5, <2>2, <2>3 DEF ExceptionsInRange
<1>11. \A s \in EventIds : \A d \in Days :
         Series(s) => /\ \A n : MovedAt(s, d, n) => MovedAt(s, d, n)'
                      /\ CancelledAt(s, d) => CancelledAt(s, d)'
  BY <1>5, <1>7, ShapeMeans DEF MovedAt, CancelledAt
<1>12. DetachedExcepted' BY <1>5, <1>7, <1>11, ShapeKeepsDetached
<1>13. GoneExcepted'
  <2>1. ASSUME NEW l \in gone, l[1] \notin retimed PROVE StaysGone(l)'
    <3>1. StaysGone(l) BY <2>1 DEF LineageInv, GoneExcepted
    <3> QED BY <1>7, <1>9, <1>11, <3>1, ShapeKeepsGone
  <2>2. ASSUME r \notin retimed PROVE StaysGone(g)'
    <3>1. ASSUME NEW s \in EventIds, Series(s)', root'[s] = g[1], Covers(s, g[2])'
          PROVE  CancelledAt(s, g[2])'
      <4>1. Series(s) BY <1>7, <3>1, ShapeMeans
      <4>2. Covers(s, k[1])' BY <1>9, <3>1 DEF Covers
      <4>3. Covers(s, k[1]) BY <1>3, <1>7, <4>1, <4>2, ShapeMeans DEF Series
      <4>4. root[s] = root[e] BY <1>0, <1>9, <3>1, <1>7 DEF SameShape
      <4>5. s = e BY <1>1, <1>3, <1>6, <4>1, <4>3, <4>4 DEF LineageInv, PartsApart
      <4>6. k = Slot(e, k[1])' BY <1>1, <1>3, <1>6, <1>7, ShapeMeans
      <4>7. CancelledAt(e, k[1])' BY <1>5, <1>8, <4>6 DEF CancelledAt
      <4> QED BY <1>9, <4>5, <4>7 DEF CancelledAt, Slot
    <3>2. ASSUME NEW n \in EventIds, OneOff(n)', root'[n] = g[1], rows'[n].first = g[2]
          PROVE  FALSE
      <4>1. OneOff(n) BY <1>7, <3>2, ShapeMeans
      <4>2. rows[n].first = k[1] /\ root[n] = root[e]
        BY <1>0, <1>7, <1>9, <3>2, <4>1 DEF SameShape, OneOff
      <4>3. Covers(e, rows[n].first) BY <1>3, <4>2
      <4>4. MovedAt(e, rows[n].first, n)
        BY <1>0, <1>6, <2>2, <4>1, <4>2, <4>3 DEF LineageInv, DetachedExcepted
      <4>5. MovedAt(e, k[1], n) BY <4>2, <4>4 DEF MovedAt, Slot
      <4> QED BY <1>3, <1>5, <4>5 DEF MovedAt, ExceptionsOf
    <3> QED BY <3>1, <3>2 DEF StaysGone
  <2> QED BY <1>5, <1>9, <2>1, <2>2 DEF GoneExcepted
<1>14. LineagesStored'
  <2>1. rows[r].lifecycle # "absent" /\ \A l \in gone : rows[l[1]].lifecycle # "absent"
    BY <1>0, <1>6 DEF LineageInv, LineagesStored, Series
  <2>2. \A l \in gone' : rows'[l[1]].lifecycle # "absent"
    BY <1>5, <1>7, <1>9, <2>1 DEF SameShape
  <2>3. \A f \in EventIds : Present(f)' => rows'[root'[f]].lifecycle # "absent"
    BY <1>7 DEF LineageInv, LineagesStored, SameShape, TypeInv, TypeOK
  <2>4. \A q \in retimed' : rows'[q].lifecycle # "absent"
    BY <1>5, <1>7 DEF LineageInv, LineagesStored, SameShape, TypeInv, TypeOK
  <2> QED BY <2>2, <2>3, <2>4 DEF LineagesStored
<1> QED BY <1>5, <1>7, <1>10, <1>12, <1>13, <1>14, ShapeKeepsRows DEF LineageInv

LEMMA UncancelKeepsLineage ==
    ASSUME TypeInv, TablesInv, LineageInv, NEW e \in EventIds, NEW k, Uncancelled(e, k)
    PROVE  LineageInv'
<1> DEFINE g == <<root[e], k[1]>>
<1>1. PICK c \in ExceptionsOf(e) :
        c.key = k /\ c.kind = "cancelled" /\ exceptions' = exceptions \ {c}
  BY DEF Uncancelled
<1>2. /\ rows' = [rows EXCEPT ![e] = Bumped(e)] /\ root' = root /\ retimed' = retimed
      /\ gone' = gone \ {g} /\ Present(e) /\ rows[e].version < MaxVersion
  BY DEF Uncancelled
<1>3. SameShape BY <1>2, BumpedSameShape
<1>4. c \in exceptions /\ c.series = e /\ c.replacement = None
  BY <1>1 DEF ExceptionsOf, TablesInv, ExceptionsAnchored
<1>5. gone \subseteq EventIds \X Days BY DEF TypeInv, TypeOK
<1>6. ExceptionsInRange'
  BY <1>1, <1>2, <1>3, ExceptionsTyped, ShapeKeepsRange DEF LineageInv, ExceptionsInRange
<1>7. DetachedExcepted'
  <2>1. ASSUME NEW s \in EventIds, NEW n \in EventIds, NEW d \in Days, Series(s),
               MovedAt(s, d, n)
        PROVE  MovedAt(s, d, n)'
    <3>1. PICK x \in exceptions : x.series = s /\ x.key = Slot(s, d) /\ x.replacement = n
      BY <2>1 DEF MovedAt
    <3>2. x # c BY <1>4, <3>1, ConstantsAssumption
    <3>3. x \in exceptions' BY <1>1, <3>2
    <3>4. Slot(s, d)' = Slot(s, d) BY <1>3, <2>1, ShapeMeans
    <3> QED BY <3>1, <3>3, <3>4 DEF MovedAt
  <2> QED BY <1>2, <1>3, <2>1, ShapeKeepsDetached
<1>8. GoneExcepted'
  <2> SUFFICES ASSUME NEW l \in gone, l # g, l[1] \notin retimed PROVE StaysGone(l)'
    BY <1>2 DEF GoneExcepted
  <2>1. l \in EventIds \X Days /\ StaysGone(l) BY <1>5 DEF LineageInv, GoneExcepted
  <2>2. ASSUME NEW s \in EventIds, Series(s), root[s] = l[1], CancelledAt(s, l[2])
        PROVE  CancelledAt(s, l[2])'
    <3>1. PICK x \in exceptions : x.series = s /\ x.key = Slot(s, l[2]) /\ x.kind = "cancelled"
      BY <2>2 DEF CancelledAt
    <3>2. x # c
      <4>1. ASSUME x = c PROVE FALSE
        <5>1. s = e /\ k = Slot(e, l[2]) BY <1>1, <1>4, <3>1, <4>1
        <5>2. k[1] = l[2] BY <5>1 DEF Slot
        <5>3. l = <<l[1], l[2]>> BY <2>1
        <5> QED BY <2>2, <5>1, <5>2, <5>3
      <4> QED BY <4>1
    <3>3. x \in exceptions' BY <1>1, <3>2
    <3>4. Slot(s, l[2])' = Slot(s, l[2]) BY <1>3, <2>1, <2>2, ShapeMeans
    <3> QED BY <3>1, <3>3, <3>4 DEF CancelledAt
  <2> QED BY <1>3, <2>1, <2>2, ShapeKeepsGone
<1>9. gone' \subseteq gone BY <1>2
<1> QED BY <1>2, <1>3, <1>6, <1>7, <1>8, <1>9, ShapeKeepsRows DEF LineageInv

-----------------------------------------------------------------------------
(* A new lineage.                                                           *)

LEMMA CreateKeepsLineage ==
    ASSUME TypeInv, TablesInv, LineageInv, NEW t \in Tabs, NEW n \in EventIds,
           NEW first \in Days, NEW last \in Days, NEW repeats \in BOOLEAN, NEW w \in Walls,
           CreateEvent(t, n, first, last, repeats, w)
    PROVE  /\ LineageInv' /\ retimed' = retimed
           /\ \E S \in SUBSET Occurrences :
                 /\ S \cap Kept = {} /\ S \cap Retimed = {}
                 /\ Kept' = Kept \cup S /\ Shown' = Shown \cup S
<1> DEFINE row == [lifecycle |-> "active", version |-> 1, rrule |-> repeats,
                   first |-> first, last |-> last, wall |-> w]
<1>1. /\ rows' = [rows EXCEPT ![n] = row] /\ root' = [root EXCEPT ![n] = n]
      /\ exceptions' = exceptions /\ gone' = gone /\ retimed' = retimed
      /\ rows[n].lifecycle = "absent" /\ (repeats \/ last = first)
  BY DEF CreateEvent
<1>2. /\ row.lifecycle = "active" /\ row.rrule = repeats
      /\ row.first = first /\ row.last = last
  OBVIOUS
<1> HIDE DEF row
<1>3. rows \in [EventIds -> Row] /\ root \in [EventIds -> EventIds]
      /\ gone \subseteq EventIds \X Days /\ retimed \subseteq EventIds
  BY DEF TypeInv, TypeOK
<1>4. rows'[n] = row /\ root'[n] = n /\ ~Present(n) BY <1>1, <1>3 DEF Present
<1>5. \A f \in EventIds \ {n} : rows'[f] = rows[f] /\ root'[f] = root[f] BY <1>1, <1>3
<1>6. \A f \in EventIds : Present(f) => root[f] # n /\ f # n
  BY <1>1, <1>4 DEF LineageInv, LineagesStored
<1>7. \A f \in EventIds \ {n} :
        /\ Present(f)' <=> Present(f)
        /\ Series(f)' <=> Series(f)
        /\ OneOff(f)' <=> OneOff(f)
        /\ \A d : (Covers(f, d)' <=> Covers(f, d)) /\ Slot(f, d)' = Slot(f, d)
        /\ \A d, m : MovedAt(f, d, m)' <=> MovedAt(f, d, m)
        /\ \A d : CancelledAt(f, d)' <=> CancelledAt(f, d)
  BY <1>1, <1>5 DEF Present, Series, OneOff, Covers, Slot, MovedAt, CancelledAt
<1>8. LineagesStored'
  <2>1. \A f \in EventIds : rows[f].lifecycle # "absent" => rows'[f].lifecycle # "absent"
    BY <1>1, <1>5
  <2>2. \A f \in EventIds : Present(f)' => rows'[root'[f]].lifecycle # "absent"
    BY <1>2, <1>3, <1>4, <1>5, <1>7, <2>1 DEF LineageInv, LineagesStored
  <2> QED BY <1>1, <1>3, <2>1, <2>2 DEF LineageInv, LineagesStored
<1>9. OneOffsAreOneDay'
  BY <1>1, <1>2, <1>4, <1>5, <1>7 DEF LineageInv, OneOffsAreOneDay, OneOff
<1>10. ExceptionsInRange'
  <2> SUFFICES ASSUME NEW x \in exceptions PROVE InRange(x.series, x.key)'
    BY <1>1 DEF ExceptionsInRange
  <2>1. PICK s \in EventIds : s = x.series BY ExceptionsTyped
  <2>2. Series(s) /\ InRange(s, x.key)
    BY <2>1, ExceptionsTyped DEF LineageInv, ExceptionsInRange
  <2>3. s # n BY <1>6, <2>2 DEF Series
  <2>4. InRange(s, x.key)' BY <1>1, <1>5, <1>7, <2>2, <2>3 DEF InRange
  <2> QED BY <2>1, <2>4
<1>11. PartsApart'
  <2> SUFFICES ASSUME NEW e \in EventIds, NEW f \in EventIds, NEW d \in Days,
                      Series(e)', Series(f)', root'[e] = root'[f], Covers(e, d)', Covers(f, d)'
               PROVE  e = f
    BY DEF PartsApart
  <2>1. CASE e # n /\ f # n
    BY <1>5, <1>7, <2>1 DEF LineageInv, PartsApart
  <2>2. CASE e = n /\ f # n BY <1>4, <1>5, <1>6, <1>7, <2>2 DEF Series
  <2>3. CASE f = n /\ e # n BY <1>4, <1>5, <1>6, <1>7, <2>3 DEF Series
  <2> QED BY <2>1, <2>2, <2>3
<1>12. DetachedApart'
  <2> SUFFICES ASSUME NEW e \in EventIds, NEW f \in EventIds,
                      OneOff(e)', OneOff(f)', root'[e] = root'[f], root'[e] \notin retimed',
                      rows'[e].first = rows'[f].first
               PROVE  e = f
    BY DEF DetachedApart
  <2>1. CASE e # n /\ f # n
    BY <1>1, <1>5, <1>7, <2>1 DEF LineageInv, DetachedApart
  <2>2. CASE e = n /\ f # n BY <1>4, <1>5, <1>6, <1>7, <2>2 DEF OneOff
  <2>3. CASE f = n /\ e # n BY <1>4, <1>5, <1>6, <1>7, <2>3 DEF OneOff
  <2> QED BY <2>1, <2>2, <2>3
<1>13. DetachedExcepted'
  <2> SUFFICES ASSUME NEW m \in EventIds, NEW s \in EventIds,
                      OneOff(m)', Series(s)', root'[m] = root'[s], root'[s] \notin retimed',
                      Covers(s, rows[m].first)'
               PROVE  MovedAt(s, rows[m].first, m)'
    BY DEF DetachedExcepted
  <2>1. CASE m # n /\ s # n
    <3>1. OneOff(m) /\ Series(s) /\ root[m] = root[s] /\ root[s] \notin retimed
      BY <1>1, <1>5, <1>7, <2>1
    <3>2. rows'[m].first = rows[m].first BY <1>5, <2>1
    <3>3. Covers(s, rows[m].first) BY <1>5, <2>1 DEF Covers
    <3>4. MovedAt(s, rows[m].first, m) BY <3>1, <3>3 DEF LineageInv, DetachedExcepted
    <3> QED BY <1>1, <1>5, <2>1, <3>2, <3>4 DEF MovedAt, Slot
  <2>2. CASE m = n /\ s # n BY <1>4, <1>5, <1>6, <1>7, <2>2 DEF Series
  <2>3. CASE s = n /\ m # n BY <1>4, <1>5, <1>6, <1>7, <2>3 DEF OneOff
  <2>4. CASE s = n /\ m = n BY <2>4 DEF Series, OneOff
  <2> QED BY <2>1, <2>2, <2>3, <2>4
<1>14. GoneExcepted'
  <2> SUFFICES ASSUME NEW l \in gone, l[1] \notin retimed PROVE StaysGone(l)'
    BY <1>1 DEF GoneExcepted
  <2>1. StaysGone(l) /\ l[1] # n BY <1>1 DEF LineageInv, GoneExcepted, LineagesStored
  <2>2. \A s \in EventIds : Series(s)' /\ root'[s] = l[1] /\ Covers(s, l[2])'
                              => CancelledAt(s, l[2])'
    BY <1>4, <1>5, <1>7, <2>1 DEF StaysGone
  <2>3. \A m \in EventIds : OneOff(m)' /\ root'[m] = l[1] => rows'[m].first # l[2]
    BY <1>4, <1>5, <1>7, <2>1 DEF StaysGone
  <2> QED BY <2>2, <2>3 DEF StaysGone
<1> DEFINE S == {l \in Occurrences : l[1] = n /\ Covers(n, l[2])'}
<1>15. S \cap Kept = {} BY <1>6 DEF Kept
<1>16. S \cap Retimed = {}
  <2>1. n \notin retimed BY <1>1 DEF LineageInv, LineagesStored
  <2> QED BY <2>1 DEF Retimed
<1>17. Kept' = Kept \cup S
  <2>1. Present(n)' BY <1>2, <1>4 DEF Present
  <2>2. n \notin retimed BY <1>1 DEF LineageInv, LineagesStored
  <2>3. ASSUME NEW l \in Occurrences
        PROVE  (\E e \in EventIds : Present(e)' /\ root'[e] = l[1] /\ Covers(e, l[2])')
                 <=> \/ \E e \in EventIds : Present(e) /\ root[e] = l[1] /\ Covers(e, l[2])
                     \/ l[1] = n /\ Covers(n, l[2])'
    BY <1>4, <1>5, <1>7, <2>1
  <2> QED BY <1>1, <2>2, <2>3 DEF Kept
<1>18. Shown' = Shown \cup S
  <2>1. rows'[n].lifecycle = "active" /\ rows[n].lifecycle # "active" BY <1>1, <1>2, <1>4
  <2>2. n \notin retimed BY <1>1 DEF LineageInv, LineagesStored
  <2>3. \A d : ~Excepted(n, d)' BY <1>1, <1>6, ExceptionsTyped DEF Excepted, Series
  <2>4. \A d : ShowsDay(n, d)' <=> Covers(n, d)' BY <2>1, <2>3 DEF ShowsDay
  <2>5. \A f \in EventIds \ {n} : \A d : ShowsDay(f, d)' <=> ShowsDay(f, d)
    BY <1>1, <1>5, <1>7 DEF ShowsDay, Excepted
  <2>6. ASSUME NEW l \in Occurrences
        PROVE  (\E e \in EventIds : root'[e] = l[1] /\ ShowsDay(e, l[2])')
                 <=> \/ \E e \in EventIds : root[e] = l[1] /\ ShowsDay(e, l[2])
                     \/ l[1] = n /\ Covers(n, l[2])'
    <3>1. \A d : ~ShowsDay(n, d) BY <2>1 DEF ShowsDay
    <3> QED BY <1>4, <1>5, <2>4, <2>5, <3>1
  <2> QED BY <1>1, <2>2, <2>6 DEF Shown
<1>19. S \in SUBSET Occurrences OBVIOUS
<1>20. LineageInv' BY <1>8, <1>9, <1>10, <1>11, <1>12, <1>13, <1>14 DEF LineageInv
<1> HIDE DEF S
<1> QED BY <1>1, <1>15, <1>16, <1>17, <1>18, <1>19, <1>20

-----------------------------------------------------------------------------
(* An occurrence detached.  What the new row `n` does not disturb is moved  *)
(* over row by row; what it adds rests on the series having no exception at *)
(* its slot.                                                                *)

LEMMA SplitThisKeepsLineage ==
    ASSUME TypeInv, TablesInv, VersionInv, LineageInv, NEW t \in Tabs, NEW k \in Keys,
           NEW n \in EventIds, NEW w \in Walls, SplitThis(t, k, n, w)
    PROVE  LineageInv' /\ retimed' = retimed /\ Kept' = Kept /\ Shown' = Shown
<1>1. PICK e \in EventIds : e = page[t].of BY OnPageMeans DEF SplitThis
<1>2. PICK r \in EventIds : r = root[e] BY DEF TypeInv, TypeOK
<1> DEFINE row == [lifecycle |-> "active", version |-> 1, rrule |-> FALSE,
                   first |-> k[1], last |-> k[1], wall |-> w]
           c == [series |-> e, key |-> k, kind |-> "moved", replacement |-> n]
<1>3. Unchanged(e, page[t].row.version) /\ k \in OnPage(t) BY <1>1 DEF SplitThis
<1>4. k[1] \in Days /\ k = Slot(e, k[1]) /\ Covers(e, k[1]) /\ rows[e].lifecycle = "active"
  BY <1>1, <1>3, PickedSlot
<1>5. rows[e].version < MaxVersion BY <1>3, UnchangedMeans DEF TypeInv, TypeOK
<1>6. /\ rows' = [rows EXCEPT ![e] = Bumped(e), ![n] = row]
      /\ root' = [root EXCEPT ![n] = r] /\ retimed' = retimed /\ gone' = gone
      /\ exceptions' = exceptions \cup {c}
      /\ rows[e].rrule /\ rows[n].lifecycle = "absent"
      /\ \A x \in ExceptionsOf(e) : x.key # k
  BY <1>1, <1>2 DEF SplitThis
<1>7. /\ row.lifecycle = "active" /\ row.rrule = FALSE
      /\ row.first = k[1] /\ row.last = k[1]
      /\ c.series = e /\ c.key = k /\ c.kind = "moved" /\ c.replacement = n
  OBVIOUS
<1> HIDE DEF row, c
<1>7a. retimed' = retimed /\ gone' = gone /\ c \in exceptions' /\ exceptions \subseteq exceptions'
  BY <1>6
<1>8. rows \in [EventIds -> Row] /\ root \in [EventIds -> EventIds]
      /\ gone \subseteq EventIds \X Days /\ retimed \subseteq EventIds
  BY DEF TypeInv, TypeOK
<1>9. e # n /\ Series(e) BY <1>4, <1>6 DEF Series, Present
<1>10. rows'[n] = row /\ root'[n] = r /\ ~Present(n) /\ OneOff(n)' /\ ~Series(n)'
  BY <1>6, <1>7, <1>8 DEF Present, OneOff, Series
<1>11. \A f \in EventIds \ {n} :
         /\ root'[f] = root[f]
         /\ rows'[f].lifecycle = rows[f].lifecycle /\ rows'[f].rrule = rows[f].rrule
         /\ rows'[f].first = rows[f].first /\ rows'[f].last = rows[f].last
         /\ rows'[f].wall = rows[f].wall
  <2>1. \A f \in EventIds \ {n, e} : rows'[f] = rows[f] BY <1>6, <1>8
  <2>2. rows'[e] = Bumped(e) BY <1>6, <1>8, <1>9
  <2>3. Bumped(e).last = rows[e].last /\ Bumped(e).wall = rows[e].wall
    BY <1>8 DEF Bumped, Row
  <2> QED BY <1>5, <1>6, <1>8, <2>1, <2>2, <2>3, BumpedTyped
<1>12. \A f \in EventIds : Present(f) => root[f] # n /\ f # n
  BY <1>6, <1>10 DEF LineageInv, LineagesStored
<1>13. \A f \in EventIds \ {n} :
         /\ Present(f)' <=> Present(f)
         /\ Series(f)' <=> Series(f)
         /\ OneOff(f)' <=> OneOff(f)
         /\ \A d : (Covers(f, d)' <=> Covers(f, d)) /\ Slot(f, d)' = Slot(f, d)
         /\ \A d, m : MovedAt(f, d, m) => MovedAt(f, d, m)'
         /\ \A d : CancelledAt(f, d) => CancelledAt(f, d)'
  <2> SUFFICES ASSUME NEW f \in EventIds \ {n}
               PROVE  /\ Present(f)' <=> Present(f)
                      /\ Series(f)' <=> Series(f)
                      /\ OneOff(f)' <=> OneOff(f)
                      /\ \A d : (Covers(f, d)' <=> Covers(f, d)) /\ Slot(f, d)' = Slot(f, d)
                      /\ \A d, m : MovedAt(f, d, m) => MovedAt(f, d, m)'
                      /\ \A d : CancelledAt(f, d) => CancelledAt(f, d)'
    OBVIOUS
  <2>1. \A d : (Covers(f, d)' <=> Covers(f, d)) /\ Slot(f, d)' = Slot(f, d)
    BY <1>11 DEF Covers, Slot
  <2>2. /\ Present(f)' <=> Present(f)
        /\ Series(f)' <=> Series(f)
        /\ OneOff(f)' <=> OneOff(f)
    BY <1>11 DEF Present, Series, OneOff
  <2>3. /\ \A d, m : MovedAt(f, d, m) => MovedAt(f, d, m)'
        /\ \A d : CancelledAt(f, d) => CancelledAt(f, d)'
    BY <1>7a, <2>1 DEF MovedAt, CancelledAt
  <2> QED BY <2>1, <2>2, <2>3
\* Nothing of the lineage stands at the slot yet.
<1>14. ASSUME r \notin retimed
       PROVE  /\ \A m \in EventIds : OneOff(m) /\ root[m] = r => rows[m].first # k[1]
              /\ <<r, k[1]>> \notin gone
  <2>1. ASSUME NEW m \in EventIds, OneOff(m), root[m] = r, rows[m].first = k[1]
        PROVE  FALSE
    <3>1. Covers(e, rows[m].first) BY <1>4, <2>1
    <3>2. MovedAt(e, rows[m].first, m)
      BY <1>2, <1>9, <1>14, <2>1, <3>1 DEF LineageInv, DetachedExcepted
    <3> QED BY <1>4, <1>6, <2>1, <3>2 DEF MovedAt, ExceptionsOf
  <2>2. ASSUME <<r, k[1]>> \in gone PROVE FALSE
    <3> DEFINE g == <<r, k[1]>>
    <3>1. g[1] = r /\ g[2] = k[1] OBVIOUS
    <3> HIDE DEF g
    <3>2. StaysGone(g) BY <1>14, <2>2, <3>1 DEF LineageInv, GoneExcepted, g
    <3>3. CancelledAt(e, k[1]) BY <1>2, <1>4, <1>9, <3>1, <3>2 DEF StaysGone
    <3> QED BY <1>4, <1>6, <3>3 DEF CancelledAt, ExceptionsOf
  <2> QED BY <2>1, <2>2
<1>15. LineagesStored'
  <2>1. \A f \in EventIds : rows[f].lifecycle # "absent" => rows'[f].lifecycle # "absent"
    BY <1>6, <1>11
  <2>2. \A f \in EventIds : Present(f)' => rows'[root'[f]].lifecycle # "absent"
    BY <1>2, <1>8, <1>9, <1>10, <1>11, <1>13, <2>1 DEF LineageInv, LineagesStored, Series
  <2> QED BY <1>6, <1>8, <2>1, <2>2 DEF LineageInv, LineagesStored
<1>16. OneOffsAreOneDay'
  BY <1>7, <1>10, <1>11, <1>13 DEF LineageInv, OneOffsAreOneDay
<1>17. ExceptionsInRange'
  <2>1. ASSUME NEW x \in exceptions PROVE InRange(x.series, x.key)'
    <3>1. PICK s \in EventIds : s = x.series BY ExceptionsTyped
    <3>2. Series(s) /\ InRange(s, x.key)
      BY <3>1, ExceptionsTyped DEF LineageInv, ExceptionsInRange
    <3>3. s # n BY <1>12, <3>2 DEF Series
    <3>4. InRange(s, x.key)' BY <1>7a, <1>11, <1>13, <3>2, <3>3 DEF InRange
    <3> QED BY <3>1, <3>4
  <2>2. InRange(e, k)' BY <1>4, <1>6, <1>9, <1>11, <1>13 DEF InRange
  <2> QED BY <1>6, <1>7, <2>1, <2>2 DEF ExceptionsInRange
<1>18. PartsApart'
  BY <1>10, <1>11, <1>13 DEF LineageInv, PartsApart
<1>19. DetachedApart'
  <2> SUFFICES ASSUME NEW a \in EventIds, NEW b \in EventIds,
                      OneOff(a)', OneOff(b)', root'[a] = root'[b], root'[a] \notin retimed',
                      rows'[a].first = rows'[b].first
               PROVE  a = b
    BY DEF DetachedApart
  <2>0. root'[a] \notin retimed BY <1>7a
  <2>1. CASE a # n /\ b # n
    <3>1. OneOff(a) /\ OneOff(b) BY <1>13, <2>1
    <3>2. root[a] = root[b] /\ root[a] \notin retimed BY <1>11, <2>0, <2>1
    <3>3. rows[a].first = rows[b].first BY <1>11, <2>1
    <3> QED BY <3>1, <3>2, <3>3 DEF LineageInv, DetachedApart
  <2>2. ASSUME NEW m \in EventIds \ {n}, OneOff(m)', root'[m] = r, rows'[m].first = k[1],
               r \notin retimed
        PROVE  FALSE
    <3>1. OneOff(m) /\ root[m] = r /\ rows[m].first = k[1] BY <1>11, <1>13, <2>2
    <3> QED BY <1>14, <2>2, <3>1
  <2>3. CASE a = n /\ b # n
    <3>1. root'[b] = r /\ rows'[b].first = k[1] /\ r \notin retimed
      BY <1>7, <1>10, <2>0, <2>3
    <3> QED BY <2>2, <2>3, <3>1
  <2>4. CASE b = n /\ a # n
    <3>1. root'[a] = r /\ rows'[a].first = k[1] /\ r \notin retimed
      BY <1>7, <1>10, <2>0, <2>4
    <3> QED BY <2>2, <2>4, <3>1
  <2> QED BY <2>1, <2>3, <2>4
<1>20. DetachedExcepted'
  <2> SUFFICES ASSUME NEW m \in EventIds, NEW s \in EventIds,
                      OneOff(m)', Series(s)', root'[m] = root'[s], root'[s] \notin retimed',
                      Covers(s, rows[m].first)'
               PROVE  MovedAt(s, rows[m].first, m)'
    BY DEF DetachedExcepted
  <2>0. s # n /\ Series(s) BY <1>10, <1>13
  <2>1. CASE m # n
    <3>1. OneOff(m) /\ root[m] = root[s] /\ root[s] \notin retimed
      BY <1>6, <1>11, <1>13, <2>0, <2>1
    <3>2. rows'[m].first = rows[m].first BY <1>11, <2>1
    <3>3. Covers(s, rows[m].first) BY <1>11, <2>0, <2>1 DEF Covers
    <3>4. MovedAt(s, rows[m].first, m)
      BY <2>0, <3>1, <3>3 DEF LineageInv, DetachedExcepted
    <3>5. PICK x \in exceptions :
            x.series = s /\ x.key = Slot(s, rows[m].first) /\ x.replacement = m
      BY <3>4 DEF MovedAt
    <3>6. rows'[s].wall = rows[s].wall BY <1>11, <2>0
    <3>7. x \in exceptions' /\ x.key = Slot(s, rows[m].first)'
      BY <1>7a, <3>2, <3>5, <3>6 DEF Slot
    <3> QED BY <3>5, <3>7 DEF MovedAt
  <2>2. CASE m = n
    <3>1. rows'[m].first = k[1] BY <1>7, <1>10, <2>2
    <3>2. Covers(s, k[1]) BY <1>11, <2>0, <3>1 DEF Covers
    <3>3. s = e
      BY <1>2, <1>4, <1>9, <1>10, <1>11, <2>0, <2>2, <3>2 DEF LineageInv, PartsApart
    <3>4. k = Slot(e, rows[m].first)' BY <1>4, <1>9, <1>11, <3>1 DEF Slot
    <3>5. c \in exceptions' BY <1>6
    <3> QED BY <1>7, <2>2, <3>3, <3>4, <3>5 DEF MovedAt
  <2> QED BY <2>1, <2>2
<1>21. GoneExcepted'
  <2> SUFFICES ASSUME NEW l \in gone, l[1] \notin retimed PROVE StaysGone(l)'
    BY <1>6 DEF GoneExcepted
  <2>1. StaysGone(l) /\ l = <<l[1], l[2]>> BY <1>8 DEF LineageInv, GoneExcepted
  <2>2. \A s \in EventIds : Series(s)' /\ root'[s] = l[1] /\ Covers(s, l[2])'
                              => CancelledAt(s, l[2])'
    BY <1>10, <1>11, <1>13, <2>1 DEF StaysGone
  <2>3. ASSUME NEW m \in EventIds, OneOff(m)', root'[m] = l[1] PROVE rows'[m].first # l[2]
    <3>1. CASE m # n BY <1>11, <1>13, <2>1, <2>3, <3>1 DEF StaysGone
    <3>2. CASE m = n
      <4>1. r = l[1] /\ rows'[m].first = k[1] BY <1>7, <1>10, <2>3, <3>2
      <4> QED BY <1>14, <2>1, <4>1
    <3> QED BY <3>1, <3>2
  <2> QED BY <2>2, <2>3 DEF StaysGone
<1>22. Covers(n, k[1])' /\ \A d \in Days : Covers(n, d)' => d = k[1]
  BY <1>4, <1>7, <1>10 DEF Covers, Days
<1>23. Kept' = Kept
  <2>1. ASSUME NEW l \in Occurrences
        PROVE  (\E f \in EventIds : Present(f)' /\ root'[f] = l[1] /\ Covers(f, l[2])')
                 <=> \E f \in EventIds : Present(f) /\ root[f] = l[1] /\ Covers(f, l[2])
    <3>1. l[2] \in Days BY DEF Occurrences
    <3>2. ASSUME NEW f \in EventIds, Present(f), root[f] = l[1], Covers(f, l[2])
          PROVE  Present(f)' /\ root'[f] = l[1] /\ Covers(f, l[2])'
      BY <1>11, <1>12, <1>13, <3>2
    <3>3. ASSUME NEW f \in EventIds, Present(f)', root'[f] = l[1], Covers(f, l[2])'
          PROVE  \E g \in EventIds : Present(g) /\ root[g] = l[1] /\ Covers(g, l[2])
      <4>1. CASE f = n BY <1>2, <1>4, <1>9, <1>10, <1>22, <3>1, <3>3, <4>1 DEF Series
      <4>2. CASE f # n BY <1>11, <1>13, <3>3, <4>2
      <4> QED BY <4>1, <4>2
    <3> QED BY <3>2, <3>3
  <2> QED BY <1>7a, <2>1 DEF Kept
<1>24. Shown' = Shown
  <2>1. ~Excepted(n, k[1])'
    <3>1. \A x \in exceptions : x.series # n BY <1>12, ExceptionsTyped DEF Series
    <3> QED BY <1>6, <1>7, <1>9, <3>1 DEF Excepted
  <2>2. ShowsDay(n, k[1])' BY <1>7, <1>10, <1>22, <2>1 DEF ShowsDay
  <2>3. ShowsDay(e, k[1]) BY <1>4, <1>6 DEF ShowsDay, Excepted, ExceptionsOf
  <2>4. ASSUME NEW f \in EventIds \ {n}, NEW d
        PROVE  /\ ShowsDay(f, d)' => ShowsDay(f, d)
               /\ ShowsDay(f, d) => ShowsDay(f, d)' \/ (f = e /\ d = k[1])
    <3>1. Slot(f, d)' = Slot(f, d) /\ (Covers(f, d)' <=> Covers(f, d)) BY <1>13
    <3>2. Excepted(f, d) => Excepted(f, d)' BY <1>7a, <3>1 DEF Excepted
    <3>3. Excepted(f, d)' => Excepted(f, d) \/ (f = e /\ d = k[1])
      <4> SUFFICES ASSUME NEW x \in exceptions', x.series = f, x.key = Slot(f, d)
                   PROVE  Excepted(f, d) \/ (f = e /\ d = k[1])
        BY <3>1 DEF Excepted
      <4>1. CASE x \in exceptions BY <4>1 DEF Excepted
      <4>2. CASE x = c BY <1>7, <4>2 DEF Slot
      <4> QED BY <1>6, <4>1, <4>2
    <3> QED BY <1>11, <3>1, <3>2, <3>3 DEF ShowsDay
  <2>5. ASSUME NEW l \in Occurrences
        PROVE  (\E f \in EventIds : root'[f] = l[1] /\ ShowsDay(f, l[2])')
                 <=> \E f \in EventIds : root[f] = l[1] /\ ShowsDay(f, l[2])
    <3>1. l[2] \in Days BY DEF Occurrences
    <3>2. ASSUME NEW f \in EventIds, root[f] = l[1], ShowsDay(f, l[2])
          PROVE  \E g \in EventIds : root'[g] = l[1] /\ ShowsDay(g, l[2])'
      <4>1. f # n BY <1>10, <3>2 DEF ShowsDay, Present
      <4> QED BY <1>2, <1>10, <1>11, <2>2, <2>4, <3>2, <4>1
    <3>3. ASSUME NEW f \in EventIds, root'[f] = l[1], ShowsDay(f, l[2])'
          PROVE  \E g \in EventIds : root[g] = l[1] /\ ShowsDay(g, l[2])
      <4>1. CASE f = n
        <5>1. l[2] = k[1] BY <1>22, <3>1, <3>3, <4>1 DEF ShowsDay
        <5> QED BY <1>2, <1>10, <2>3, <3>3, <4>1, <5>1
      <4>2. CASE f # n BY <1>11, <2>4, <3>3, <4>2
      <4> QED BY <4>1, <4>2
    <3> QED BY <3>2, <3>3
  <2> QED BY <1>7a, <2>5 DEF Shown
<1>25. LineageInv' BY <1>15, <1>16, <1>17, <1>18, <1>19, <1>20, <1>21 DEF LineageInv
<1> QED BY <1>7a, <1>23, <1>24, <1>25

-----------------------------------------------------------------------------
(* A series split in two.  Every exception and every day goes to one of the *)
(* two parts, and a lineage that keeps its hour keeps each exception on the *)
(* slot it names.                                                           *)

LEMMA SplitFutureKeepsLineage ==
    ASSUME TypeInv, TablesInv, VersionInv, LineageInv, NEW t \in Tabs, NEW k \in Keys,
           NEW n \in EventIds, NEW w \in Walls, SplitFuture(t, k, n, w)
    PROVE  /\ LineageInv' /\ retimed \subseteq retimed'
           /\ Kept' = {l \in Kept : l[1] \notin retimed'}
           /\ Shown' = {l \in Shown : l[1] \notin retimed'}
<1>1. PICK e \in EventIds : e = page[t].of BY OnPageMeans DEF SplitFuture
<1>2. PICK r \in EventIds : r = root[e] BY DEF TypeInv, TypeOK
<1>3. Unchanged(e, page[t].row.version) /\ k \in OnPage(t) BY <1>1 DEF SplitFuture
<1>4. k[1] \in Days /\ k = Slot(e, k[1]) /\ Covers(e, k[1]) /\ rows[e].lifecycle = "active"
  BY <1>1, <1>3, PickedSlot
<1>5. rows[e].version < MaxVersion BY <1>3, UnchangedMeans DEF TypeInv, TypeOK
<1>6. /\ rows' = [rows EXCEPT ![e] = Truncated(e, k), ![n] = Successor(e, k, w)]
      /\ root' = [root EXCEPT ![n] = r] /\ gone' = gone
      /\ exceptions' = Carried(e, n, k)
      /\ rows[e].rrule /\ rows[n].lifecycle = "absent"
      /\ retimed' = IF w = rows[e].wall THEN retimed ELSE retimed \cup {r}
  BY <1>1, <1>2 DEF SplitFuture
<1>7. gone' = gone /\ retimed \subseteq retimed' /\ retimed' \subseteq retimed \cup {r}
      /\ (r \notin retimed' => w = rows[e].wall)
  BY <1>6
<1>8. rows \in [EventIds -> Row] /\ root \in [EventIds -> EventIds]
      /\ gone \subseteq EventIds \X Days /\ retimed \subseteq EventIds
      /\ exceptions \subseteq Exception
  BY DEF TypeInv, TypeOK
<1>9. e # n /\ Series(e) BY <1>4, <1>6 DEF Series, Present
<1>10. /\ rows'[n].lifecycle = "active" /\ rows'[n].rrule = TRUE
       /\ rows'[n].first = k[1] /\ rows'[n].last = rows[e].last /\ rows'[n].wall = w
       /\ root'[n] = r /\ ~Present(n)
  BY <1>6, <1>8 DEF Successor, Present
<1>11. /\ rows'[e].lifecycle = "active" /\ rows'[e].rrule = TRUE
       /\ rows'[e].first = rows[e].first /\ rows'[e].last = k[1] - 1
       /\ rows'[e].wall = rows[e].wall /\ root'[e] = r
  <2>1. rows'[e] = Truncated(e, k) BY <1>6, <1>8, <1>9
  <2>2. Bumped(e) \in Row /\ Bumped(e).wall = rows[e].wall
    BY <1>5, <1>8, BumpedTyped DEF Bumped, Row
  <2>3. rows[e].rrule = TRUE BY <1>6, <1>8 DEF Row
  <2> QED BY <1>2, <1>4, <1>5, <1>6, <1>8, <1>9, <2>1, <2>2, <2>3, BumpedTyped DEF Truncated, Row
<1>12. \A f \in EventIds \ {e, n} : rows'[f] = rows[f] /\ root'[f] = root[f]
  BY <1>6, <1>8
<1>13. \A f \in EventIds : Present(f) => root[f] # n /\ f # n
  BY <1>6, <1>10 DEF LineageInv, LineagesStored
<1>14. /\ \A f \in EventIds : OneOff(f)' => OneOff(f) /\ f # e /\ f # n
       /\ \A f \in EventIds : Series(f)' => f = n \/ Series(f)
  BY <1>9, <1>10, <1>11, <1>12 DEF OneOff, Series, Present
<1>15. rows[e].first \in Int /\ rows[e].last \in Int /\ k[1] \in Int /\ rows[e].wall \in Int
  <2>1. rows[e].wall \in Walls BY <1>8 DEF Row
  <2>2. rows[e].wall \in Int
    <3>1. \A v \in Walls : v \in Nat BY ConstantsAssumption
    <3> QED BY <2>1, <3>1
  <2>3. rows[e].first \in Int /\ rows[e].last \in Int /\ k[1] \in Int
    BY <1>4, <1>8, ConstantsAssumption DEF Row, Days
  <2> QED BY <2>2, <2>3

<1>16. /\ \A x \in exceptions : \E y \in exceptions' :
             /\ y.key = x.key /\ y.kind = x.kind /\ y.replacement = x.replacement
             /\ y.series = IF x.series = e /\ NotBefore(x.key, k) THEN n ELSE x.series
       /\ \A y \in exceptions' : \E x \in exceptions :
             /\ y.key = x.key
             /\ y.series = IF x.series = e /\ NotBefore(x.key, k) THEN n ELSE x.series
  <2> DEFINE To(x) == IF x.series = e /\ NotBefore(x.key, k) THEN [x EXCEPT !.series = n] ELSE x
  <2>1. \A x \in exceptions :
          /\ To(x).key = x.key /\ To(x).kind = x.kind /\ To(x).replacement = x.replacement
          /\ To(x).series = IF x.series = e /\ NotBefore(x.key, k) THEN n ELSE x.series
    BY <1>8 DEF Exception
  <2>2. exceptions' = {To(x) : x \in exceptions} BY <1>6 DEF Carried
  <2> HIDE DEF To
  <2> QED BY <2>1, <2>2
<1>17. ASSUME r \notin retimed, NEW x \in exceptions, x.series = e
       PROVE  /\ NotBefore(x.key, k) <=> k[1] <= x.key[1]
              /\ Covers(e, x.key[1]) /\ x.key = Slot(e, x.key[1])
  <2>1. InRange(e, x.key) BY <1>17 DEF LineageInv, ExceptionsInRange
  <2>2. Covers(e, x.key[1]) /\ x.key = Slot(e, x.key[1]) BY <1>2, <1>17, <2>1 DEF InRange
  <2>3. x.key[2] = rows[e].wall /\ k[2] = rows[e].wall BY <1>4, <2>2 DEF Slot
  <2>4. x.key[1] \in Int BY ExceptionsTyped DEF Days
  <2>5. NotBefore(x.key, k) <=> k[1] <= x.key[1] BY <1>15, <2>3, <2>4 DEF NotBefore
  <2> QED BY <2>2, <2>5
\* The part a day belongs to came from the series that covered it, and took
\* the exception of that day along.
<1>18. ASSUME NEW f \in EventIds, Series(f)', NEW d \in Days, Covers(f, d)'
       PROVE  \E g \in EventIds :
                 /\ Series(g) /\ root[g] = root'[f] /\ Covers(g, d)
                 /\ f = n => g = e /\ k[1] <= d
                 /\ f = e => g = e /\ d < k[1]
                 /\ f \notin {e, n} => g = f
  <2>0. d \in Int BY DEF Days
  <2>1. CASE f = n
    <3>1. k[1] <= d /\ d <= rows[e].last BY <1>10, <1>18, <2>1 DEF Covers
    <3>2. Covers(e, d) BY <1>4, <1>15, <2>0, <3>1 DEF Covers
    <3> QED BY <1>2, <1>9, <1>10, <2>1, <3>1, <3>2
  <2>2. CASE f = e
    <3>1. rows[e].first <= d /\ d <= k[1] - 1 BY <1>11, <1>18, <2>2 DEF Covers
    <3>2. k[1] <= rows[e].last BY <1>4 DEF Covers
    <3>3. d < k[1] /\ d <= rows[e].last BY <1>15, <2>0, <3>1, <3>2
    <3>4. Covers(e, d) BY <3>1, <3>3 DEF Covers
    <3> QED BY <1>2, <1>9, <1>11, <2>2, <3>3, <3>4
  <2>3. CASE f \notin {e, n}
    <3>1. Series(f) /\ root[f] = root'[f] BY <1>12, <1>14, <1>18, <2>3
    <3>2. Covers(f, d) BY <1>12, <1>18, <2>3 DEF Covers
    <3> QED BY <2>3, <3>1, <3>2
  <2> QED BY <2>1, <2>2, <2>3
<1>19. ASSUME NEW f \in EventIds, Series(f)', root'[f] \notin retimed', NEW d \in Days,
              NEW g \in EventIds, Series(g),
              f = n => g = e /\ k[1] <= d,
              f = e => g = e /\ d < k[1],
              f \notin {e, n} => g = f,
              NEW x \in exceptions, x.series = g, x.key = Slot(g, d)
       PROVE  \E y \in exceptions' :
                 /\ y.series = f /\ y.key = Slot(f, d)' /\ y.kind = x.kind
                 /\ y.replacement = x.replacement
  <2>0. d \in Int /\ x.key[1] = d BY <1>19 DEF Days, Slot
  <2>1. PICK y \in exceptions' :
          /\ y.key = x.key /\ y.kind = x.kind /\ y.replacement = x.replacement
          /\ y.series = IF x.series = e /\ NotBefore(x.key, k) THEN n ELSE x.series
    BY <1>16
  <2>2. rows'[f].wall = rows[g].wall
    <3>1. CASE f = n BY <1>7, <1>10, <1>19, <3>1
    <3>2. CASE f = e BY <1>11, <1>19, <3>2
    <3>3. CASE f \notin {e, n} BY <1>12, <1>19, <3>3
    <3> QED BY <3>1, <3>2, <3>3
  <2>3. Slot(f, d)' = x.key BY <1>19, <2>2 DEF Slot
  <2>4. y.series = f
    <3>1. CASE f = n
      <4>1. x.series = e /\ r \notin retimed /\ k[1] <= x.key[1]
        BY <1>7, <1>10, <1>19, <2>0, <3>1
      <4> QED BY <1>17, <2>1, <3>1, <4>1
    <3>2. CASE f = e
      <4>1. x.series = e /\ r \notin retimed /\ ~(k[1] <= x.key[1])
        BY <1>7, <1>11, <1>15, <1>19, <2>0, <3>2
      <4> QED BY <1>17, <2>1, <3>2, <4>1
    <3>3. CASE f \notin {e, n} BY <1>19, <2>1, <3>3
    <3> QED BY <3>1, <3>2, <3>3
  <2> QED BY <2>1, <2>3, <2>4
<1>20. LineagesStored'
  <2>1. \A f \in EventIds : rows[f].lifecycle # "absent" => rows'[f].lifecycle # "absent"
    BY <1>6, <1>11, <1>12
  <2>2. rows[r].lifecycle # "absent" BY <1>2, <1>9 DEF LineageInv, LineagesStored, Series
  <2>3. \A f \in EventIds : Present(f)' => rows'[root'[f]].lifecycle # "absent"
    <3> SUFFICES ASSUME NEW f \in EventIds, Present(f)'
                 PROVE  rows'[root'[f]].lifecycle # "absent"
      OBVIOUS
    <3>1. CASE f \in {e, n} BY <1>10, <1>11, <2>1, <2>2, <3>1
    <3>2. CASE f \notin {e, n}
      <4>1. Present(f) /\ root'[f] = root[f] BY <1>12, <3>2 DEF Present
      <4> QED BY <1>8, <2>1, <4>1 DEF LineageInv, LineagesStored
    <3> QED BY <3>1, <3>2
  <2>4. \A l \in gone' : rows'[l[1]].lifecycle # "absent"
    BY <1>7, <1>8, <2>1 DEF LineageInv, LineagesStored
  <2>5. \A q \in retimed' : rows'[q].lifecycle # "absent"
    BY <1>7, <1>8, <2>1, <2>2 DEF LineageInv, LineagesStored
  <2> QED BY <2>3, <2>4, <2>5 DEF LineagesStored
<1>21. OneOffsAreOneDay'
  BY <1>12, <1>14 DEF LineageInv, OneOffsAreOneDay
<1>22. ExceptionsInRange'
  <2> SUFFICES ASSUME NEW y \in exceptions' PROVE InRange(y.series, y.key)'
    BY DEF ExceptionsInRange
  <2>1. PICK x \in exceptions :
          /\ y.key = x.key
          /\ y.series = IF x.series = e /\ NotBefore(x.key, k) THEN n ELSE x.series
    BY <1>16
  <2>2. PICK s \in EventIds : s = x.series /\ Series(s) BY ExceptionsTyped
  <2>3. x.key[1] \in Int BY ExceptionsTyped DEF Days
  <2>4. InRange(s, x.key) BY <2>2 DEF LineageInv, ExceptionsInRange
  <2>5. CASE s = e /\ NotBefore(x.key, k)
    <3>1. r \notin retimed' => Covers(n, x.key[1])' /\ x.key = Slot(n, x.key[1])'
      <4>1. SUFFICES ASSUME r \notin retimed'
                     PROVE  Covers(n, x.key[1])' /\ x.key = Slot(n, x.key[1])'
        OBVIOUS
      <4>2. w = rows[e].wall /\ r \notin retimed BY <1>7, <4>1
      <4>3. k[1] <= x.key[1] /\ Covers(e, x.key[1]) /\ x.key = Slot(e, x.key[1])
        BY <1>17, <2>2, <2>5, <4>2
      <4> QED BY <1>10, <4>2, <4>3 DEF Covers, Slot
    <3>2. InRange(n, x.key)' BY <1>10, <3>1 DEF InRange
    <3> QED BY <2>1, <2>2, <2>5, <3>2
  <2>6. CASE s = e /\ ~NotBefore(x.key, k)
    <3>1. r \notin retimed' => Covers(e, x.key[1])' /\ x.key = Slot(e, x.key[1])'
      <4>1. SUFFICES ASSUME r \notin retimed'
                     PROVE  Covers(e, x.key[1])' /\ x.key = Slot(e, x.key[1])'
        OBVIOUS
      <4>2. r \notin retimed BY <1>7, <4>1
      <4>3. ~(k[1] <= x.key[1]) /\ Covers(e, x.key[1]) /\ x.key = Slot(e, x.key[1])
        BY <1>17, <2>2, <2>6, <4>2
      <4>4. x.key[1] <= k[1] - 1 BY <1>15, <2>3, <4>3
      <4> QED BY <1>11, <4>3, <4>4 DEF Covers, Slot
    <3>2. InRange(e, x.key)' BY <1>11, <3>1 DEF InRange
    <3> QED BY <2>1, <2>2, <2>6, <3>2
  <2>7. CASE s # e
    <3>1. s # n BY <1>13, <2>2 DEF Series
    <3>2. rows'[s] = rows[s] /\ root'[s] = root[s] BY <1>12, <2>7, <3>1
    <3>3. InRange(s, x.key)' BY <1>7, <2>4, <3>2 DEF InRange, Covers, Slot
    <3> QED BY <2>1, <2>2, <2>7, <3>3
  <2> QED BY <2>5, <2>6, <2>7
<1>23. PartsApart'
  <2> SUFFICES ASSUME NEW a \in EventIds, NEW b \in EventIds, NEW d \in Days,
                      Series(a)', Series(b)', root'[a] = root'[b], Covers(a, d)', Covers(b, d)'
               PROVE  a = b
    BY DEF PartsApart
  <2>0. d \in Int BY DEF Days
  <2>1. PICK g \in EventIds :
          /\ Series(g) /\ root[g] = root'[a] /\ Covers(g, d)
          /\ a = n => g = e /\ k[1] <= d
          /\ a = e => g = e /\ d < k[1]
          /\ a \notin {e, n} => g = a
    BY <1>18
  <2>2. PICK h \in EventIds :
          /\ Series(h) /\ root[h] = root'[b] /\ Covers(h, d)
          /\ b = n => h = e /\ k[1] <= d
          /\ b = e => h = e /\ d < k[1]
          /\ b \notin {e, n} => h = b
    BY <1>18
  <2>3. g = h BY <2>1, <2>2 DEF LineageInv, PartsApart
  <2>4. ~(k[1] <= d /\ d < k[1]) BY <1>15, <2>0
  <2> QED BY <2>1, <2>2, <2>3, <2>4
<1>24. DetachedApart'
  <2> SUFFICES ASSUME NEW a \in EventIds, NEW b \in EventIds,
                      OneOff(a)', OneOff(b)', root'[a] = root'[b], root'[a] \notin retimed',
                      rows'[a].first = rows'[b].first
               PROVE  a = b
    BY DEF DetachedApart
  <2>1. OneOff(a) /\ OneOff(b) /\ {a, b} \cap {e, n} = {} BY <1>14
  <2>2. /\ root[a] = root[b] /\ root[a] \notin retimed /\ rows[a].first = rows[b].first
    BY <1>7, <1>12, <2>1
  <2> QED BY <2>1, <2>2 DEF LineageInv, DetachedApart
<1>25. DetachedExcepted'
  <2> SUFFICES ASSUME NEW m \in EventIds, NEW s \in EventIds,
                      OneOff(m)', Series(s)', root'[m] = root'[s], root'[s] \notin retimed',
                      Covers(s, rows[m].first)'
               PROVE  MovedAt(s, rows[m].first, m)'
    BY DEF DetachedExcepted
  <2>1. OneOff(m) /\ m \notin {e, n} BY <1>14
  <2>2. rows'[m] = rows[m] /\ root'[m] = root[m] BY <1>12, <2>1
  <2>3. PICK d \in Days : d = rows[m].first BY <1>8 DEF Row
  <2>4. Covers(s, d)' BY <2>2, <2>3 DEF Covers
  <2>5. PICK g \in EventIds :
          /\ Series(g) /\ root[g] = root'[s] /\ Covers(g, d)
          /\ s = n => g = e /\ k[1] <= d
          /\ s = e => g = e /\ d < k[1]
          /\ s \notin {e, n} => g = s
    BY <1>18, <2>4
  <2>6. MovedAt(g, d, m)
    BY <1>7, <2>1, <2>2, <2>3, <2>5 DEF LineageInv, DetachedExcepted
  <2>7. PICK x \in exceptions : x.series = g /\ x.key = Slot(g, d) /\ x.replacement = m
    BY <2>6 DEF MovedAt
  <2>8. PICK y \in exceptions' : y.series = s /\ y.key = Slot(s, d)' /\ y.replacement = m
    BY <1>19, <2>5, <2>7
  <2>9. MovedAt(s, d, m)' BY <2>8 DEF MovedAt
  <2> QED BY <2>2, <2>3, <2>9 DEF MovedAt, Slot
<1>26. GoneExcepted'
  <2> SUFFICES ASSUME NEW l \in gone, l[1] \notin retimed' PROVE StaysGone(l)'
    BY <1>7 DEF GoneExcepted
  <2>1. StaysGone(l) /\ l[2] \in Days BY <1>7, <1>8 DEF LineageInv, GoneExcepted
  <2>2. ASSUME NEW s \in EventIds, Series(s)', root'[s] = l[1], Covers(s, l[2])'
        PROVE  CancelledAt(s, l[2])'
    <3>1. PICK g \in EventIds :
            /\ Series(g) /\ root[g] = root'[s] /\ Covers(g, l[2])
            /\ s = n => g = e /\ k[1] <= l[2]
            /\ s = e => g = e /\ l[2] < k[1]
            /\ s \notin {e, n} => g = s
      BY <1>18, <2>1, <2>2
    <3>2. CancelledAt(g, l[2]) BY <2>1, <2>2, <3>1 DEF StaysGone
    <3>3. PICK x \in exceptions : x.series = g /\ x.key = Slot(g, l[2]) /\ x.kind = "cancelled"
      BY <3>2 DEF CancelledAt
    <3>4. PICK y \in exceptions' : y.series = s /\ y.key = Slot(s, l[2])' /\ y.kind = "cancelled"
      BY <1>19, <2>1, <2>2, <3>1, <3>3
    <3> QED BY <3>4 DEF CancelledAt
  <2>3. \A m \in EventIds : OneOff(m)' /\ root'[m] = l[1] => rows'[m].first # l[2]
    BY <1>12, <1>14, <2>1 DEF StaysGone
  <2> QED BY <2>2, <2>3 DEF StaysGone
\* Every day of the series is a day of one part.
<1>27. ASSUME NEW f \in EventIds, Present(f), NEW d \in Days, Covers(f, d)
       PROVE  \E p \in EventIds :
                 /\ Present(p)' /\ root'[p] = root[f] /\ Covers(p, d)'
                 /\ rows[f].lifecycle = "active" => rows'[p].lifecycle = "active"
                 /\ p \in {e, n} => f = e
                 /\ p \notin {e, n} => f = p
  <2>0. d \in Int BY DEF Days
  <2>1. CASE f = e /\ k[1] <= d
    <3>1. d <= rows[e].last BY <1>27, <2>1 DEF Covers
    <3>2. Covers(n, d)' /\ Present(n)' BY <1>10, <2>1, <3>1 DEF Covers, Present
    <3> QED BY <1>2, <1>10, <2>1, <3>2
  <2>2. CASE f = e /\ ~(k[1] <= d)
    <3>1. rows[e].first <= d /\ d <= k[1] - 1 BY <1>15, <1>27, <2>0, <2>2 DEF Covers
    <3>2. Covers(e, d)' /\ Present(e)' BY <1>11, <3>1 DEF Covers, Present
    <3> QED BY <1>2, <1>11, <2>2, <3>2
  <2>3. CASE f # e
    <3>1. f # n BY <1>13, <1>27
    <3>2. rows'[f] = rows[f] /\ root'[f] = root[f] BY <1>12, <2>3, <3>1
    <3>3. Covers(f, d)' /\ Present(f)' BY <1>27, <3>2 DEF Covers, Present
    <3> QED BY <2>3, <3>1, <3>2, <3>3
  <2> QED BY <2>1, <2>2, <2>3
\* ... and the other way round, for rows of either kind.
<1>28. ASSUME NEW f \in EventIds, Present(f)', NEW d \in Days, Covers(f, d)'
       PROVE  \E g \in EventIds :
                 /\ Present(g) /\ root[g] = root'[f] /\ Covers(g, d)
                 /\ rows'[f].lifecycle = "active" => rows[g].lifecycle = "active"
                 /\ f \in {e, n} => Series(g)
                 /\ f = n => g = e /\ k[1] <= d
                 /\ f = e => g = e /\ d < k[1]
                 /\ f \notin {e, n} => g = f
  <2>1. CASE f \in {e, n}
    <3>1. Series(f)' BY <1>10, <1>11, <1>28, <2>1 DEF Series
    <3>2. PICK g \in EventIds :
            /\ Series(g) /\ root[g] = root'[f] /\ Covers(g, d)
            /\ f = n => g = e /\ k[1] <= d
            /\ f = e => g = e /\ d < k[1]
            /\ f \notin {e, n} => g = f
      BY <1>18, <1>28, <3>1
    <3> QED BY <1>4, <2>1, <3>2 DEF Series
  <2>2. CASE f \notin {e, n}
    <3>1. rows'[f] = rows[f] /\ root'[f] = root[f] BY <1>12, <2>2
    <3>2. Present(f) /\ Covers(f, d) BY <1>28, <3>1 DEF Present, Covers
    <3> QED BY <2>2, <3>1, <3>2
  <2> QED BY <2>1, <2>2
<1>29. Kept' = {l \in Kept : l[1] \notin retimed'}
  <2>1. ASSUME NEW l \in Occurrences
        PROVE  (\E f \in EventIds : Present(f)' /\ root'[f] = l[1] /\ Covers(f, l[2])')
                 <=> \E f \in EventIds : Present(f) /\ root[f] = l[1] /\ Covers(f, l[2])
    <3>1. l[2] \in Days BY DEF Occurrences
    <3> QED BY <1>27, <1>28, <3>1
  <2>2. \A l \in Occurrences : l[1] \notin retimed' => l[1] \notin retimed BY <1>7
  <2> QED BY <2>1, <2>2 DEF Kept
<1>30. ASSUME NEW p \in EventIds, NEW f \in EventIds, Present(f), NEW d \in Days,
              root[f] \notin retimed',
              p \in {e, n} => f = e, p \notin {e, n} => f = p, Excepted(p, d)'
       PROVE  Excepted(f, d)
  <2>1. PICK y \in exceptions' : y.series = p /\ y.key = Slot(p, d)' BY <1>30 DEF Excepted
  <2>2. PICK x \in exceptions :
          /\ y.key = x.key
          /\ y.series = IF x.series = e /\ NotBefore(x.key, k) THEN n ELSE x.series
    BY <1>16
  <2>3. x.series # n BY <1>13, ExceptionsTyped DEF Series
  <2>4. x.series = f
    <3>1. CASE p = n BY <1>9, <1>30, <2>1, <2>2, <2>3, <3>1
    <3>2. CASE p = e BY <1>9, <1>30, <2>1, <2>2, <3>2
    <3>3. CASE p \notin {e, n} BY <1>30, <2>1, <2>2, <3>3
    <3> QED BY <3>1, <3>2, <3>3
  <2>5. rows'[p].wall = rows[f].wall
    <3>1. CASE p = n BY <1>2, <1>7, <1>10, <1>30, <3>1
    <3>2. CASE p = e BY <1>11, <1>30, <3>2
    <3>3. CASE p \notin {e, n} BY <1>12, <1>30, <3>3
    <3> QED BY <3>1, <3>2, <3>3
  <2>6. x.key = Slot(f, d) BY <2>1, <2>2, <2>5 DEF Slot
  <2> QED BY <2>4, <2>6 DEF Excepted
<1>31. ASSUME NEW f \in EventIds, NEW g \in EventIds, NEW d \in Days, Present(f)',
              root'[f] \notin retimed',
              f \in {e, n} => Series(g),
              f = n => g = e /\ k[1] <= d,
              f = e => g = e /\ d < k[1],
              f \notin {e, n} => g = f,
              Excepted(g, d)
       PROVE  Excepted(f, d)'
  <2>1. PICK x \in exceptions : x.series = g /\ x.key = Slot(g, d) BY <1>31 DEF Excepted
  <2>2. Series(g) BY <2>1, ExceptionsTyped
  <2>3. Series(f)'
    <3>1. CASE f \in {e, n} BY <1>10, <1>11, <1>31, <3>1 DEF Series
    <3>2. CASE f \notin {e, n} BY <1>12, <1>31, <2>2, <3>2 DEF Series, Present
    <3> QED BY <3>1, <3>2
  <2>4. PICK y \in exceptions' : y.series = f /\ y.key = Slot(f, d)'
    BY <1>19, <1>31, <2>1, <2>2, <2>3
  <2> QED BY <2>4 DEF Excepted
<1>32. Shown' = {l \in Shown : l[1] \notin retimed'}
  <2>1. ASSUME NEW l \in Occurrences, l[1] \notin retimed'
        PROVE  (\E f \in EventIds : root'[f] = l[1] /\ ShowsDay(f, l[2])')
                 <=> \E f \in EventIds : root[f] = l[1] /\ ShowsDay(f, l[2])
    <3>1. l[2] \in Days BY DEF Occurrences
    <3>2. ASSUME NEW f \in EventIds, root[f] = l[1], ShowsDay(f, l[2])
          PROVE  \E p \in EventIds : root'[p] = l[1] /\ ShowsDay(p, l[2])'
      <4>1. /\ rows[f].lifecycle = "active" /\ Covers(f, l[2]) /\ ~Excepted(f, l[2])
            /\ Present(f)
        BY <3>2 DEF ShowsDay, Present
      <4>2. PICK p \in EventIds :
              /\ Present(p)' /\ root'[p] = root[f] /\ Covers(p, l[2])'
              /\ rows[f].lifecycle = "active" => rows'[p].lifecycle = "active"
              /\ p \in {e, n} => f = e
              /\ p \notin {e, n} => f = p
        BY <1>27, <3>1, <4>1
      <4>3. ~Excepted(p, l[2])' BY <1>30, <2>1, <3>1, <3>2, <4>1, <4>2
      <4> QED BY <3>2, <4>1, <4>2, <4>3 DEF ShowsDay
    <3>3. ASSUME NEW f \in EventIds, root'[f] = l[1], ShowsDay(f, l[2])'
          PROVE  \E g \in EventIds : root[g] = l[1] /\ ShowsDay(g, l[2])
      <4>1. /\ rows'[f].lifecycle = "active" /\ Covers(f, l[2])' /\ ~Excepted(f, l[2])'
            /\ Present(f)'
        BY <3>3 DEF ShowsDay, Present
      <4>2. PICK g \in EventIds :
              /\ Present(g) /\ root[g] = root'[f] /\ Covers(g, l[2])
              /\ rows'[f].lifecycle = "active" => rows[g].lifecycle = "active"
              /\ f \in {e, n} => Series(g)
              /\ f = n => g = e /\ k[1] <= l[2]
              /\ f = e => g = e /\ l[2] < k[1]
              /\ f \notin {e, n} => g = f
        BY <1>28, <3>1, <4>1
      <4>3. ~Excepted(g, l[2]) BY <1>31, <2>1, <3>1, <3>3, <4>1, <4>2
      <4> QED BY <3>3, <4>1, <4>2, <4>3 DEF ShowsDay
    <3> QED BY <3>2, <3>3
  <2>2. \A l \in Occurrences : l[1] \notin retimed' => l[1] \notin retimed BY <1>7
  <2> QED BY <2>1, <2>2 DEF Shown
<1>33. LineageInv' BY <1>20, <1>21, <1>22, <1>23, <1>24, <1>25, <1>26 DEF LineageInv
<1> QED BY <1>7, <1>29, <1>32, <1>33

-----------------------------------------------------------------------------
(* A row erased.  Where a detached occurrence is erased its slot stays      *)
(* excepted, now as a cancellation.                                         *)

LEMMA PurgeKeepsLineage ==
    ASSUME TypeInv, TablesInv, LineageInv, NEW t \in Tabs, PurgeEvent(t)
    PROVE  LineageInv' /\ retimed' = retimed /\ Kept' \subseteq Kept /\ Shown' = Shown
<1>1. PICK e \in EventIds : e = page[t].of BY DEF PurgeEvent, TypeInv, PagesNameEvents
<1>2. PICK r \in EventIds : r = root[e] BY DEF TypeInv, TypeOK
<1>3. /\ rows' = [rows EXCEPT ![e] = [AbsentRow EXCEPT !.lifecycle = "purged"]]
      /\ rows[e].lifecycle = "trashed" /\ root' = root /\ retimed' = retimed
      /\ exceptions' = PurgedExceptions(e)
      /\ gone' = gone \cup {<<r, x.key[1]>> : x \in {y \in Detached(e) : y.series # e}}
  BY <1>1, <1>2 DEF PurgeEvent
<1>4. rows \in [EventIds -> Row] /\ root \in [EventIds -> EventIds]
      /\ gone \subseteq EventIds \X Days /\ retimed \subseteq EventIds
      /\ exceptions \subseteq Exception
  BY DEF TypeInv, TypeOK
<1>5. root' = root /\ retimed' = retimed /\ Present(e) BY <1>3 DEF Present
<1>6. rows'[e].lifecycle = "purged" /\ ~Present(e)' BY <1>3, <1>4 DEF AbsentRow, Present
<1>7. \A f \in EventIds \ {e} : rows'[f] = rows[f] BY <1>3, <1>4
<1>8. /\ \A f \in EventIds : Present(f)' => f # e /\ Present(f)
      /\ \A f \in EventIds : Series(f)' => f # e /\ Series(f)
      /\ \A f \in EventIds : OneOff(f)' => f # e /\ OneOff(f)
  BY <1>6, <1>7 DEF Present, Series, OneOff
<1>9. /\ \A y \in exceptions' : \E x \in exceptions :
             x.series # e /\ y.series = x.series /\ y.key = x.key
      /\ \A x \in exceptions : x.series # e =>
             \E y \in exceptions' :
                /\ y.series = x.series /\ y.key = x.key
                /\ x.replacement # e => y.replacement = x.replacement
                /\ x.kind = "cancelled" \/ x.replacement = e => y.kind = "cancelled"
  <2> DEFINE Conv(x) == [x EXCEPT !.kind = "cancelled", !.replacement = None]
  <2>1. \A x \in exceptions :
          /\ Conv(x).series = x.series /\ Conv(x).key = x.key /\ Conv(x).kind = "cancelled"
    BY <1>4 DEF Exception
  <2>2. exceptions' = {x \in exceptions \ Detached(e) : x.series # e}
                        \cup {Conv(x) : x \in {y \in Detached(e) : y.series # e}}
    BY <1>3 DEF PurgedExceptions
  <2> HIDE DEF Conv
  <2>3. ASSUME NEW y \in exceptions'
        PROVE  \E x \in exceptions : x.series # e /\ y.series = x.series /\ y.key = x.key
    BY <2>1, <2>2, <2>3 DEF Detached
  <2>4. ASSUME NEW x \in exceptions, x.series # e
        PROVE  \E y \in exceptions' :
                 /\ y.series = x.series /\ y.key = x.key
                 /\ x.replacement # e => y.replacement = x.replacement
                 /\ x.kind = "cancelled" \/ x.replacement = e => y.kind = "cancelled"
    <3>1. CASE x.replacement = e
      <4>1. Conv(x) \in exceptions' BY <2>2, <2>4, <3>1 DEF Detached
      <4> QED BY <2>1, <3>1, <4>1
    <3>2. CASE x.replacement # e
      <4>1. x \in exceptions' BY <2>2, <2>4, <3>2 DEF Detached
      <4> QED BY <2>4, <3>2, <4>1
    <3> QED BY <3>1, <3>2
  <2> QED BY <2>3, <2>4
<1>10. LineagesStored'
  <2>1. \A f \in EventIds : rows[f].lifecycle # "absent" => rows'[f].lifecycle # "absent"
    BY <1>6, <1>7
  <2>2. rows[r].lifecycle # "absent" BY <1>2, <1>5 DEF LineageInv, LineagesStored
  <2>3. \A l \in gone' : l \in gone \/ l[1] = r BY <1>3
  <2>4. \A l \in gone' : rows'[l[1]].lifecycle # "absent"
    BY <1>4, <2>1, <2>2, <2>3 DEF LineageInv, LineagesStored
  <2>5. \A f \in EventIds : Present(f)' => rows'[root'[f]].lifecycle # "absent"
    BY <1>4, <1>5, <1>8, <2>1 DEF LineageInv, LineagesStored
  <2>6. \A q \in retimed' : rows'[q].lifecycle # "absent"
    BY <1>4, <1>5, <2>1 DEF LineageInv, LineagesStored
  <2> QED BY <2>4, <2>5, <2>6 DEF LineagesStored
<1>11. OneOffsAreOneDay' BY <1>7, <1>8 DEF LineageInv, OneOffsAreOneDay
<1>12. ExceptionsInRange'
  <2> SUFFICES ASSUME NEW y \in exceptions' PROVE InRange(y.series, y.key)'
    BY DEF ExceptionsInRange
  <2>1. PICK x \in exceptions : x.series # e /\ y.series = x.series /\ y.key = x.key
    BY <1>9
  <2>2. PICK s \in EventIds : s = x.series BY ExceptionsTyped
  <2>3. InRange(s, x.key) BY <2>2 DEF LineageInv, ExceptionsInRange
  <2>4. InRange(s, x.key)' BY <1>5, <1>7, <2>1, <2>2, <2>3 DEF InRange, Covers, Slot
  <2> QED BY <2>1, <2>2, <2>4
<1>13. PartsApart'
  BY <1>5, <1>7, <1>8 DEF LineageInv, PartsApart, Covers
<1>14. DetachedApart'
  BY <1>5, <1>7, <1>8 DEF LineageInv, DetachedApart
<1>15. DetachedExcepted'
  <2> SUFFICES ASSUME NEW n \in EventIds, NEW s \in EventIds,
                      OneOff(n)', Series(s)', root'[n] = root'[s], root'[s] \notin retimed',
                      Covers(s, rows[n].first)'
               PROVE  MovedAt(s, rows[n].first, n)'
    BY DEF DetachedExcepted
  <2>1. OneOff(n) /\ Series(s) /\ n # e /\ s # e BY <1>8
  <2>2. rows'[n] = rows[n] /\ rows'[s] = rows[s] BY <1>7, <2>1
  <2>3. Covers(s, rows[n].first) BY <2>2 DEF Covers
  <2>4. MovedAt(s, rows[n].first, n)
    BY <1>5, <2>1, <2>3 DEF LineageInv, DetachedExcepted
  <2>5. PICK x \in exceptions :
          x.series = s /\ x.key = Slot(s, rows[n].first) /\ x.replacement = n
    BY <2>4 DEF MovedAt
  <2>6. PICK y \in exceptions' : y.series = s /\ y.key = x.key /\ y.replacement = n
    BY <1>9, <2>1, <2>5
  <2>7. y.key = Slot(s, rows[n].first)' BY <2>2, <2>5, <2>6 DEF Slot
  <2> QED BY <2>6, <2>7 DEF MovedAt
<1>16. ASSUME NEW s \in EventIds, s # e, NEW x \in exceptions, x.series = s, NEW d,
              x.key = Slot(s, d), x.kind = "cancelled" \/ x.replacement = e
       PROVE  CancelledAt(s, d)'
  <2>1. PICK y \in exceptions' : y.series = s /\ y.key = x.key /\ y.kind = "cancelled"
    BY <1>9, <1>16
  <2>2. Slot(s, d)' = Slot(s, d) BY <1>7, <1>16 DEF Slot
  <2> QED BY <1>16, <2>1, <2>2 DEF CancelledAt
<1>17. ASSUME NEW l \in gone, l[1] \notin retimed PROVE StaysGone(l)'
  <2>1. StaysGone(l) BY <1>17 DEF LineageInv, GoneExcepted
  <2>2. ASSUME NEW s \in EventIds, Series(s)', root'[s] = l[1], Covers(s, l[2])'
        PROVE  CancelledAt(s, l[2])'
    <3>1. Series(s) /\ s # e BY <1>8, <2>2
    <3>2. Covers(s, l[2]) BY <1>7, <2>2, <3>1 DEF Covers
    <3>3. CancelledAt(s, l[2]) BY <1>5, <2>1, <2>2, <3>1, <3>2 DEF StaysGone
    <3> QED BY <1>16, <3>1, <3>3 DEF CancelledAt
  <2>3. \A n \in EventIds : OneOff(n)' /\ root'[n] = l[1] => rows'[n].first # l[2]
    BY <1>5, <1>7, <1>8, <2>1 DEF StaysGone
  <2> QED BY <2>2, <2>3 DEF StaysGone
\* The row erased was the only one at its day, and its slot is now cancelled.
<1>18. ASSUME NEW x \in Detached(e), x.series # e, NEW l, l = <<r, x.key[1]>>, r \notin retimed
       PROVE  StaysGone(l)'
  <2>1. l[1] = r /\ l[2] = x.key[1] BY <1>18
  <2>2. PICK s0 \in EventIds : s0 = x.series /\ Series(s0)
    BY ExceptionsTyped DEF Detached
  <2>3. x \in exceptions /\ x.replacement = e /\ x.key[1] \in Days
    BY ExceptionsTyped DEF Detached
  <2>4. OneOff(e) /\ root[e] = root[s0] /\ rows[e].first = x.key[1]
    <3>1. x.kind = "moved" BY <1>1, <2>3, ConstantsAssumption DEF TablesInv, ExceptionsAnchored
    <3> QED BY <2>2, <2>3, <3>1 DEF TablesInv, ExceptionsAnchored, OneOff
  <2>5. Covers(s0, x.key[1]) /\ x.key = Slot(s0, x.key[1])
    BY <1>2, <1>18, <2>2, <2>3, <2>4 DEF LineageInv, ExceptionsInRange, InRange
  <2>6. ASSUME NEW s \in EventIds, Series(s)', root'[s] = r, Covers(s, x.key[1])'
        PROVE  CancelledAt(s, x.key[1])'
    <3>1. Series(s) /\ s # e BY <1>8, <2>6
    <3>2. Covers(s, x.key[1]) BY <1>7, <2>6, <3>1 DEF Covers
    <3>3. root[s] = root[s0] BY <1>2, <1>5, <2>4, <2>6
    <3>4. s = s0 BY <2>2, <2>3, <2>5, <3>1, <3>2, <3>3 DEF LineageInv, PartsApart
    <3> QED BY <1>16, <2>2, <2>3, <2>5, <3>1, <3>4
  <2>7. ASSUME NEW n \in EventIds, OneOff(n)', root'[n] = r, rows'[n].first = x.key[1]
        PROVE  FALSE
    <3>1. OneOff(n) /\ n # e BY <1>8, <2>7
    <3>2. rows[n].first = rows[e].first /\ root[n] = root[e] BY <1>2, <1>5, <1>7, <2>4, <2>7, <3>1
    <3> QED BY <1>2, <1>18, <2>4, <3>1, <3>2 DEF LineageInv, DetachedApart
  <2> QED BY <2>1, <2>6, <2>7 DEF StaysGone
<1>19. GoneExcepted'
  <2> SUFFICES ASSUME NEW l \in gone', l[1] \notin retimed PROVE StaysGone(l)'
    BY <1>5 DEF GoneExcepted
  <2>1. CASE l \in gone BY <1>17, <2>1
  <2>2. CASE l \notin gone
    <3>1. PICK x \in Detached(e) : x.series # e /\ l = <<r, x.key[1]>> BY <1>3, <2>2
    <3> QED BY <1>18, <3>1
  <2> QED BY <2>1, <2>2
<1>20. Kept' \subseteq Kept
  <2>1. \A f \in EventIds, d \in Days :
          Present(f)' /\ Covers(f, d)' => Present(f) /\ Covers(f, d)
    BY <1>7, <1>8 DEF Covers
  <2>2. \A l \in Occurrences : l[2] \in Days BY DEF Occurrences
  <2> QED BY <1>5, <2>1, <2>2 DEF Kept
<1>21. Shown' = Shown
  <2>1. ASSUME NEW f \in EventIds, NEW d PROVE ShowsDay(f, d)' <=> ShowsDay(f, d)
    <3>1. CASE f = e BY <1>3, <1>6, <3>1 DEF ShowsDay
    <3>2. CASE f # e
      <4>1. rows'[f] = rows[f] BY <1>7, <3>2
      <4>2. Slot(f, d)' = Slot(f, d) /\ (Covers(f, d)' <=> Covers(f, d))
        BY <4>1 DEF Slot, Covers
      <4>3. Excepted(f, d)' <=> Excepted(f, d) BY <1>9, <3>2, <4>2 DEF Excepted
      <4> QED BY <4>1, <4>2, <4>3 DEF ShowsDay
    <3> QED BY <3>1, <3>2
  <2> QED BY <1>5, <2>1 DEF Shown
<1>22. LineageInv' BY <1>10, <1>11, <1>12, <1>13, <1>14, <1>15, <1>19 DEF LineageInv
<1> QED BY <1>5, <1>20, <1>21, <1>22

-----------------------------------------------------------------------------
(* The invariant of a lineage, and what it says of the calendar.            *)

\* The steps that keep the shape and leave exceptions and history alone.
LEMMA UpdateShape ==
    ASSUME TypeInv, NEW t \in Tabs, NEW w \in Walls, UpdateEvent(t, w)
    PROVE  /\ SameShape /\ exceptions' = exceptions /\ gone' = gone /\ retimed' = retimed
           /\ \A f \in EventIds : rows'[f].lifecycle = rows[f].lifecycle
<1>1. PICK k : k \in OnPage(t) BY DEF UpdateEvent
<1>2. PICK e \in EventIds : e = page[t].of BY <1>1, OnPageMeans
<1>3. rows[e].lifecycle = "active" /\ rows[e].version < MaxVersion /\ rows[e] \in Row
      /\ rows \in [EventIds -> Row]
  BY <1>2, UnchangedMeans DEF UpdateEvent, TypeInv, TypeOK
<1> DEFINE row == [Bumped(e) EXCEPT !.wall = w]
<1>4. /\ row.lifecycle = "active" /\ row.rrule = rows[e].rrule
      /\ row.first = rows[e].first /\ row.last = rows[e].last /\ row.wall = w
  BY <1>3 DEF Bumped, Row
<1>5. /\ rows' = [rows EXCEPT ![e] = row] /\ (rows[e].rrule => w = rows[e].wall)
      /\ exceptions' = exceptions /\ root' = root /\ gone' = gone /\ retimed' = retimed
  BY <1>2, <1>3 DEF UpdateEvent, history, Row
<1> HIDE DEF row
<1>6. SameShape BY <1>3, <1>4, <1>5, OneRowSameShape DEF Present
<1>7. \A f \in EventIds : rows'[f].lifecycle = rows[f].lifecycle BY <1>3, <1>4, <1>5
<1> QED BY <1>5, <1>6, <1>7

LEMMA TrashShape ==
    ASSUME TypeInv, NEW t \in Tabs, TrashUpdate(t)
    PROVE  /\ SameShape /\ exceptions' = exceptions /\ gone' = gone /\ retimed' = retimed
           /\ \A f \in EventIds : rows'[f].lifecycle = "active" => rows[f].lifecycle = "active"
<1>1. PICK e \in EventIds : e = page[t].of
  BY DEF TrashUpdate, TypeInv, PagesNameEvents
<1>2. rows[e].lifecycle = "active" /\ rows[e].version < MaxVersion
      /\ rows \in [EventIds -> Row]
  BY <1>1, UnchangedMeans DEF TrashUpdate, TypeInv, TypeOK
<1> DEFINE row == [Bumped(e) EXCEPT !.lifecycle = "trashed"]
<1>3. /\ row.lifecycle = "trashed" /\ row.rrule = rows[e].rrule
      /\ row.first = rows[e].first /\ row.last = rows[e].last /\ row.wall = rows[e].wall
  BY <1>2 DEF Bumped, Row
<1>4. /\ rows' = [rows EXCEPT ![e] = row] /\ exceptions' = exceptions
      /\ root' = root /\ gone' = gone /\ retimed' = retimed
  BY <1>1 DEF TrashUpdate, history
<1> HIDE DEF row
<1>5. SameShape BY <1>2, <1>3, <1>4, OneRowSameShape DEF Present
<1>6. \A f \in EventIds : rows'[f].lifecycle = "active" => rows[f].lifecycle = "active"
  BY <1>2, <1>3, <1>4
<1> QED BY <1>4, <1>5, <1>6

LEMMA RestoreShape ==
    ASSUME TypeInv, NEW e \in EventIds, NEW v, Restored(e, v)
    PROVE  /\ SameShape /\ exceptions' = exceptions /\ gone' = gone /\ retimed' = retimed
           /\ \A f \in EventIds : rows[f].lifecycle = "active" => rows'[f].lifecycle = "active"
<1> DEFINE row == [Bumped(e) EXCEPT !.lifecycle = "active"]
<1>1. rows \in [EventIds -> Row] BY DEF TypeInv, TypeOK
<1>2. /\ rows' = [rows EXCEPT ![e] = row] /\ rows[e].lifecycle = "trashed"
      /\ exceptions' = exceptions /\ root' = root /\ gone' = gone /\ retimed' = retimed
  BY DEF Restored, history
<1>3. /\ row.lifecycle = "active" /\ row.rrule = rows[e].rrule
      /\ row.first = rows[e].first /\ row.last = rows[e].last /\ row.wall = rows[e].wall
  BY <1>1 DEF Bumped, Row
<1> HIDE DEF row
<1>4. SameShape BY <1>1, <1>2, <1>3, OneRowSameShape DEF Present
<1>5. \A f \in EventIds : rows[f].lifecycle = "active" => rows'[f].lifecycle = "active"
  BY <1>1, <1>2, <1>3
<1> QED BY <1>2, <1>4, <1>5

LEMMA EditKeepsLineage ==
    ASSUME TypeInv, TablesInv, VersionInv, LineageInv, NEW t \in Tabs, Edit(t)
    PROVE  LineageInv'
<1>1. ASSUME NEW w \in Walls, UpdateEvent(t, w) PROVE LineageInv'
  BY <1>1, UpdateShape, ShapeKeeps
<1> QED BY <1>1, CreateKeepsLineage, SplitThisKeepsLineage, SplitFutureKeepsLineage DEF Edit

LEMMA DeleteKeepsLineage ==
    ASSUME TypeInv, TablesInv, VersionInv, LineageInv, NEW t \in Tabs, Delete(t)
    PROVE  LineageInv'
<1>1. ASSUME rows' = rows, exceptions' = exceptions, UNCHANGED history PROVE LineageInv'
  <2>1. SameShape BY <1>1 DEF SameShape, Present, history
  <2> QED BY <1>1, <2>1, ShapeKeeps DEF history
<1>2. ASSUME TrashUpdate(t) PROVE LineageInv'
  BY <1>2, TrashShape, ShapeKeeps
<1>3. ASSUME NEW k \in Keys, CancelAgain(t, k) PROVE LineageInv'
  BY <1>1, <1>3 DEF CancelAgain, tables
<1>4. ASSUME TrashSelect(t) \/ TrashConflict(t) PROVE LineageInv'
  BY <1>1, <1>4 DEF TrashSelect, TrashConflict, tables
<1> QED BY <1>2, <1>3, <1>4, CancelKeepsLineage, PurgeKeepsLineage DEF Delete

LEMMA PutBackKeepsLineage ==
    ASSUME TypeInv, TablesInv, LineageInv, NEW t \in Tabs, PutBack(t)
    PROVE  LineageInv'
<1>1. PICK e \in EventIds : e = page[t].of
  BY DEF PutBack, UndoCancel, UncancelFromTrash, UndoTrash, RestoreFromTrash,
         TypeInv, PagesNameEvents
<1>2. (\E k : Uncancelled(e, k)) \/ (\E v : Restored(e, v))
  BY <1>1 DEF PutBack, UndoCancel, UncancelFromTrash, UndoTrash, RestoreFromTrash
<1>3. ASSUME NEW v, Restored(e, v) PROVE LineageInv'
  BY <1>3, RestoreShape, ShapeKeeps
<1> QED BY <1>2, <1>3, UncancelKeepsLineage

LEMMA StepKeepsLineage ==
    TypeInv /\ TablesInv /\ VersionInv /\ LineageInv /\ [Next]_vars => LineageInv'
<1> SUFFICES ASSUME TypeInv, TablesInv, VersionInv, LineageInv, [Next]_vars
             PROVE  LineageInv'
  OBVIOUS
<1>1. ASSUME rows' = rows, exceptions' = exceptions, UNCHANGED history PROVE LineageInv'
  <2>1. SameShape BY <1>1 DEF SameShape, Present, history
  <2> QED BY <1>1, <2>1, ShapeKeeps DEF history
<1>2. ASSUME NEW t \in Tabs, Load(t) PROVE LineageInv'
  BY <1>1, <1>2 DEF Load, OpenPage, ReadRow, ReadExceptions, tables
<1>3. CASE UNCHANGED vars BY <1>1, <1>3 DEF vars, tables
<1> QED BY <1>2, <1>3, EditKeepsLineage, DeleteKeepsLineage, PutBackKeepsLineage DEF Next

LEMMA InitLineage == Init => LineageInv
<1> SUFFICES ASSUME Init PROVE LineageInv OBVIOUS
<1>1. AbsentRow.lifecycle = "absent" BY DEF AbsentRow
<1>2. \A e \in EventIds : ~Present(e) BY <1>1 DEF Init, Present
<1>3. exceptions = {} /\ gone = {} /\ retimed = {} BY DEF Init
<1> QED BY <1>2, <1>3 DEF LineageInv, LineagesStored, OneOffsAreOneDay, ExceptionsInRange,
           PartsApart, DetachedExcepted, DetachedApart, GoneExcepted, OneOff, Series

\* An occurrence on the calendar is one its row covers, at a slot no exception
\* of the row names.
LEMMA DisplayedMeans ==
    ASSUME TypeInv, NEW e \in EventIds, NEW l \in Displayed(e)
    PROVE  /\ l[1] = root[e] /\ l[2] \in Days /\ l = <<root[e], l[2]>>
           /\ rows[e].lifecycle = "active" /\ Covers(e, l[2])
           /\ \A x \in exceptions : x.series = e => x.key # Slot(e, l[2])
<1>1. PICK k \in Shows(rows[e], ExceptionsOf(e)) : l = <<root[e], k[1]>>
  BY DEF Displayed, Lineage
<1>2. /\ rows[e].lifecycle = "active" /\ k \in Produces(rows[e])
      /\ \A x \in ExceptionsOf(e) : x.key # k
  BY <1>1 DEF Shows
<1>3. PICK d \in rows[e].first..rows[e].last : k = <<d, rows[e].wall>>
  BY <1>2 DEF Produces
<1>4. rows[e].first \in Days /\ rows[e].last \in 0..LastDay BY DEF TypeInv, TypeOK, Row
<1>5. d \in Days /\ rows[e].first <= d /\ d <= rows[e].last
  BY <1>3, <1>4, ConstantsAssumption DEF Days
<1>6. k[1] = d /\ l[2] = d /\ l[1] = root[e] BY <1>1, <1>3
<1> QED BY <1>1, <1>2, <1>3, <1>5, <1>6 DEF Covers, Slot, ExceptionsOf

LEMMA NoSilentReturn == TypeInv /\ LineageInv => NoSilentReturnUnlessRetimed
<1> SUFFICES ASSUME TypeInv, LineageInv, NEW l \in OnCalendar, l \in gone, l[1] \notin retimed
             PROVE  FALSE
  BY DEF NoSilentReturnUnlessRetimed
<1>1. PICK e \in EventIds : l \in Displayed(e) BY DEF OnCalendar
<1>2. /\ l[1] = root[e] /\ rows[e].lifecycle = "active" /\ Covers(e, l[2])
      /\ \A x \in exceptions : x.series = e => x.key # Slot(e, l[2])
  BY <1>1, DisplayedMeans
<1>3. StaysGone(l) BY DEF LineageInv, GoneExcepted
<1>4. CASE rows[e].rrule
  <2>1. CancelledAt(e, l[2]) BY <1>2, <1>3, <1>4 DEF StaysGone, Series, Present
  <2> QED BY <1>2, <2>1 DEF CancelledAt
<1>5. CASE ~rows[e].rrule
  <2>1. OneOff(e) /\ rows[e].first # l[2] BY <1>2, <1>3, <1>5 DEF StaysGone, OneOff, Present
  <2>2. rows[e].last = rows[e].first BY <2>1 DEF LineageInv, OneOffsAreOneDay
  <2>3. rows[e].first \in Int BY ConstantsAssumption DEF TypeInv, TypeOK, Row, Days
  <2>4. l[2] \in Int BY <1>1, DisplayedMeans DEF Days
  <2> QED BY <1>2, <2>1, <2>2, <2>3, <2>4 DEF Covers
<1> QED BY <1>4, <1>5

LEMMA OneOffDay ==
    ASSUME TypeInv, LineageInv, NEW e \in EventIds, OneOff(e), NEW d \in Days, Covers(e, d)
    PROVE  rows[e].first = d
<1>1. rows[e].last = rows[e].first BY DEF LineageInv, OneOffsAreOneDay
<1>2. rows[e].first \in Int /\ d \in Int BY ConstantsAssumption DEF TypeInv, TypeOK, Row, Days
<1> QED BY <1>1, <1>2 DEF Covers

LEMMA NeverTwice == TypeInv /\ LineageInv => ShownOnce
<1> SUFFICES ASSUME TypeInv, LineageInv, NEW e \in EventIds, NEW f \in EventIds, e # f,
                    NEW l \in Displayed(e), l \in Displayed(f), l[1] \notin retimed
             PROVE  FALSE
  BY DEF ShownOnce
<1> DEFINE At(g) == /\ root[g] = l[1] /\ Present(g) /\ Covers(g, l[2])
                    /\ \A x \in exceptions : x.series = g => x.key # Slot(g, l[2])
<1>1. At(e) /\ At(f) /\ l[2] \in Days BY DisplayedMeans DEF Present
<1>2. ASSUME NEW s \in EventIds, NEW n \in EventIds, At(s), At(n), Series(s), OneOff(n)
      PROVE  FALSE
  <2>1. rows[n].first = l[2] BY <1>1, <1>2, OneOffDay
  <2>2. Covers(s, rows[n].first) /\ root[n] = root[s] /\ root[s] \notin retimed BY <1>2, <2>1
  <2>3. MovedAt(s, rows[n].first, n) BY <1>2, <2>2 DEF LineageInv, DetachedExcepted
  <2>4. MovedAt(s, l[2], n) BY <2>1, <2>3 DEF MovedAt, Slot
  <2> QED BY <1>2, <2>4 DEF MovedAt
<1>3. CASE Series(e) /\ Series(f) BY <1>1, <1>3 DEF LineageInv, PartsApart
<1>4. CASE OneOff(e) /\ OneOff(f)
  <2>1. rows[e].first = rows[f].first BY <1>1, <1>4, OneOffDay
  <2> QED BY <1>1, <1>4, <2>1 DEF LineageInv, DetachedApart
<1>5. (Series(e) \/ OneOff(e)) /\ (Series(f) \/ OneOff(f)) BY <1>1 DEF Series, OneOff
<1> QED BY <1>1, <1>2, <1>3, <1>4, <1>5

LEMMA ShownMeans ==
    ASSUME NEW e \in EventIds, rows[e].lifecycle = "active",
           NEW d \in rows[e].first..rows[e].last,
           \A x \in exceptions : x.series = e => x.key # Slot(e, d)
    PROVE  <<root[e], d>> \in Displayed(e)
<1> DEFINE k == <<d, rows[e].wall>>
<1>1. k \in Produces(rows[e]) BY DEF Produces
<1>2. k \notin {x.key : x \in ExceptionsOf(e)} BY DEF ExceptionsOf, Slot
<1>3. k \in Shows(rows[e], ExceptionsOf(e)) BY <1>1, <1>2 DEF Shows
<1>4. k[1] = d OBVIOUS
<1> HIDE DEF k
<1> QED BY <1>3, <1>4 DEF Displayed, Lineage

LEMMA NothingLost == TypeInv /\ TablesInv /\ LineageInv => Recoverable
<1> SUFFICES ASSUME TypeInv, TablesInv, LineageInv, NEW e \in EventIds, Present(e),
                    NEW d \in rows[e].first..rows[e].last
             PROVE  \/ <<root[e], d>> \in OnCalendar
                    \/ \E f \in EventIds :
                          /\ rows[f].lifecycle = "trashed" /\ root[f] = root[e]
                          /\ d \in rows[f].first..rows[f].last
                    \/ \E x \in exceptions :
                          /\ x.kind = "cancelled" /\ root[x.series] = root[e]
                          /\ x.key[1] = d
  BY DEF Recoverable
<1>1. CASE rows[e].lifecycle = "trashed" BY <1>1
<1>2. CASE /\ rows[e].lifecycle = "active"
           /\ \A x \in exceptions : x.series = e => x.key # Slot(e, d)
  BY <1>2, ShownMeans DEF OnCalendar
<1>3. ASSUME NEW x \in exceptions, x.series = e, x.key = Slot(e, d)
      PROVE  \/ <<root[e], d>> \in OnCalendar
             \/ \E f \in EventIds :
                   /\ rows[f].lifecycle = "trashed" /\ root[f] = root[e]
                   /\ d \in rows[f].first..rows[f].last
             \/ \E y \in exceptions :
                   y.kind = "cancelled" /\ root[y.series] = root[e] /\ y.key[1] = d
  <2>1. x.key[1] = d BY <1>3 DEF Slot
  <2>2. CASE x.kind = "cancelled" BY <1>3, <2>1, <2>2
  <2>3. CASE x.kind = "moved"
    <3>1. PICK n : n = x.replacement OBVIOUS
    <3>2. n \in EventIds
      BY <2>3, <3>1 DEF TablesInv, ExceptionsAnchored, TypeInv, TypeOK, Exception
    <3>3. OneOff(n) /\ root[n] = root[e] /\ rows[n].first = d
      BY <1>3, <2>1, <2>3, <3>1 DEF TablesInv, ExceptionsAnchored, OneOff
    <3>4. rows[n].last = d BY <3>2, <3>3 DEF LineageInv, OneOffsAreOneDay
    <3>5. d \in Int BY <3>2, <3>3, ConstantsAssumption DEF TypeInv, TypeOK, Row, Days
    <3>6. d \in rows[n].first..rows[n].last BY <3>3, <3>4, <3>5
    <3>7. \A y \in exceptions : y.series # n
      BY <3>3, ExceptionsTyped DEF Series, OneOff
    <3>8. CASE rows[n].lifecycle = "trashed" BY <3>2, <3>3, <3>6, <3>8
    <3>9. CASE rows[n].lifecycle = "active"
      <4>1. <<root[n], d>> \in Displayed(n) BY <3>2, <3>6, <3>7, <3>9, ShownMeans
      <4> QED BY <3>2, <3>3, <4>1 DEF OnCalendar
    <3> QED BY <3>3, <3>8, <3>9 DEF OneOff, Present
  <2>4. x.kind \in {"cancelled", "moved"} BY DEF TypeInv, TypeOK, Exception
  <2> QED BY <2>2, <2>3, <2>4
<1> QED BY <1>1, <1>2, <1>3 DEF Present

\* No sequence of edits, splits, cancellations, deletions, restores and purges
\* by any number of tabs, on pages of any age, loses an occurrence that was not
\* purged, shows one twice, or brings back one that was cancelled.
THEOREM NothingLostOrTwice == Spec => []CalendarKept
<1>1. TypeInv /\ TablesInv /\ LineageInv => CalendarKept
  BY NoSilentReturn, NeverTwice, NothingLost DEF CalendarKept
<1>2. Init => TypeInv /\ TablesInv /\ VersionInv /\ LineageInv
  BY InitTyped, InitTables, InitVersions, InitLineage
<1>3. TypeInv /\ TablesInv /\ VersionInv /\ LineageInv /\ [Next]_vars
        => (TypeInv /\ TablesInv /\ VersionInv /\ LineageInv)'
  BY StepTyped, StepKeepsTables, StepVersions, StepKeepsLineage
<1> QED BY <1>1, <1>2, <1>3, PTL DEF Spec

-----------------------------------------------------------------------------
(* The ledger.  A step that keeps every day stored only moves occurrences   *)
(* between its two sides.                                                   *)

LEMMA ShownIsOn == TypeInv => On = Shown
<1> SUFFICES ASSUME TypeInv PROVE On = Shown OBVIOUS
<1>0. root \in [EventIds -> EventIds] BY DEF TypeInv, TypeOK
<1>1. ASSUME NEW l \in On PROVE l \in Shown
  <2>1. PICK e \in EventIds : l \in Displayed(e) BY DEF On, OnCalendar
  <2>2. /\ l[1] = root[e] /\ l[2] \in Days /\ l = <<root[e], l[2]>>
        /\ rows[e].lifecycle = "active" /\ Covers(e, l[2])
        /\ \A x \in exceptions : x.series = e => x.key # Slot(e, l[2])
    BY <2>1, DisplayedMeans
  <2>3. ShowsDay(e, l[2]) BY <2>2 DEF ShowsDay, Excepted
  <2>4. l \in Occurrences BY <1>0, <2>2 DEF Occurrences
  <2>5. l[1] \notin retimed
    <3>1. l \notin retimed \X Days BY DEF On, Retimed
    <3> QED BY <2>2, <3>1
  <2> QED BY <2>2, <2>3, <2>4, <2>5 DEF Shown
<1>2. ASSUME NEW l \in Shown PROVE l \in On
  <2>1. l \in EventIds \X Days /\ l[1] \notin retimed BY DEF Shown, Occurrences
  <2>2. PICK e \in EventIds : root[e] = l[1] /\ ShowsDay(e, l[2]) BY DEF Shown
  <2>3. rows[e].first <= l[2] /\ l[2] <= rows[e].last BY <2>2 DEF ShowsDay, Covers
  <2>4. rows[e].first \in Int /\ rows[e].last \in Int
    BY ConstantsAssumption DEF TypeInv, TypeOK, Row, Days
  <2>5. l[2] \in Int BY <2>1 DEF Days
  <2>6. l[2] \in rows[e].first..rows[e].last BY <2>3, <2>4, <2>5
  <2>7. <<root[e], l[2]>> \in Displayed(e)
    BY <2>2, <2>6, ShownMeans DEF ShowsDay, Excepted
  <2>8. l = <<root[e], l[2]>> BY <2>1, <2>2
  <2>9. l \notin retimed \X Days BY <2>1
  <2> QED BY <2>7, <2>8, <2>9 DEF On, OnCalendar, Retimed
<1> QED BY <1>1, <1>2

LEMMA KeptIsOff == TypeInv => Off = Kept \ Shown /\ Shown \subseteq Kept
<1> SUFFICES ASSUME TypeInv PROVE Off = Kept \ Shown /\ Shown \subseteq Kept OBVIOUS
<1>0. root \in [EventIds -> EventIds] BY DEF TypeInv, TypeOK
<1>1. \A e \in EventIds : rows[e].first \in Days /\ rows[e].last \in 0..LastDay
  BY DEF TypeInv, TypeOK, Row
<1>2. ASSUME NEW e \in EventIds, NEW l
      PROVE  l \in Stored(e) <=> /\ l \in Occurrences /\ root[e] = l[1] /\ Covers(e, l[2])
  <2>1. l \in Stored(e) <=> \E d \in rows[e].first..rows[e].last : l = <<root[e], d>>
    <3>1. l \in Stored(e) <=> \E k \in Produces(rows[e]) : l = <<root[e], k[1]>>
      BY DEF Stored, Lineage
    <3>2. ASSUME NEW k \in Produces(rows[e])
          PROVE  \E d \in rows[e].first..rows[e].last : k[1] = d
      BY DEF Produces
    <3>3. ASSUME NEW d \in rows[e].first..rows[e].last
          PROVE  \E k \in Produces(rows[e]) : k[1] = d
      <4>1. <<d, rows[e].wall>> \in Produces(rows[e]) BY DEF Produces
      <4>2. <<d, rows[e].wall>>[1] = d OBVIOUS
      <4> QED BY <4>1, <4>2
    <3> HIDE DEF Produces
    <3> QED BY <3>1, <3>2, <3>3
  <2>2. ASSUME NEW d \in rows[e].first..rows[e].last, l = <<root[e], d>>
        PROVE  l \in Occurrences /\ root[e] = l[1] /\ Covers(e, l[2])
    <3>1. d \in Days /\ rows[e].first <= d /\ d <= rows[e].last
      BY <1>1, ConstantsAssumption DEF Days
    <3> QED BY <1>0, <2>2, <3>1 DEF Occurrences, Covers
  <2>3. ASSUME l \in Occurrences, root[e] = l[1], Covers(e, l[2])
        PROVE  \E d \in rows[e].first..rows[e].last : l = <<root[e], d>>
    <3>1. l = <<root[e], l[2]>> /\ l[2] \in Int BY <2>3 DEF Occurrences, Days
    <3>2. l[2] \in rows[e].first..rows[e].last
      BY <1>1, <2>3, <3>1, ConstantsAssumption DEF Covers, Days
    <3> QED BY <3>1, <3>2
  <2> QED BY <2>1, <2>2, <2>3
<1>3. ASSUME NEW l
      PROVE  l \in Kept <=> /\ \E e \in EventIds : Present(e) /\ l \in Stored(e)
                            /\ l \notin Retimed
  <2>1. l \in Occurrences => (l \in Retimed <=> l[1] \in retimed)
    BY DEF Occurrences, Retimed
  <2> QED BY <1>2, <2>1 DEF Kept
<1>4. Shown \subseteq Kept BY DEF Shown, Kept, ShowsDay, Present
<1>5. \A l : l \in Shown <=> l \in OnCalendar /\ l \notin Retimed
  BY ShownIsOn DEF On
<1>6. \A l : l \in Off <=> /\ \E e \in EventIds : Present(e) /\ l \in Stored(e)
                           /\ l \notin OnCalendar /\ l \notin Retimed
  <2> DEFINE stored == UNION {Stored(e) : e \in {f \in EventIds : Present(f)}}
  <2>1. \A l : l \in stored <=> \E e \in EventIds : Present(e) /\ l \in Stored(e)
    OBVIOUS
  <2>2. Off = (stored \ OnCalendar) \ Retimed BY DEF Off
  <2> HIDE DEF stored
  <2> QED BY <2>1, <2>2
<1> QED BY <1>3, <1>4, <1>5, <1>6

LEMMA LedgerView ==
    TypeInv => On = Shown /\ Off = Kept \ Shown /\ Shown \subseteq Kept
BY ShownIsOn, KeptIsOff

LEMMA LedgerViewNext ==
    TypeInv' => On' = Shown' /\ Off' = Kept' \ Shown' /\ Shown' \subseteq Kept'
<1>1. (TypeInv => On = Shown /\ Off = Kept \ Shown /\ Shown \subseteq Kept)'
  BY LedgerView, PTL
<1> QED BY <1>1

\* Steps of the ledger, from what a step does to Kept and Shown.
LEMMA LedgerMoves ==
    ASSUME TypeInv, TypeInv', retimed' = retimed, Kept' = Kept,
           Shown' \subseteq Shown \/ Shown \subseteq Shown'
    PROVE  Ledger!Next
<1>1. On = Shown /\ Off = Kept \ Shown /\ Shown \subseteq Kept BY LedgerView
<1>2. On' = Shown' /\ Off' = Kept' \ Shown' /\ Shown' \subseteq Kept' BY LedgerViewNext
<1>3. Retimed' = Retimed BY DEF Retimed
<1>4. Kept \subseteq EventIds \X Days BY DEF Kept, Occurrences
<1>5. CASE Shown' \subseteq Shown
  <2> DEFINE S == Shown \ Shown'
  <2>1. Ledger!Remove(S)
    BY <1>1, <1>2, <1>3, <1>5 DEF Ledger!Remove
  <2>2. S \in SUBSET (EventIds \X Days) BY <1>1, <1>4
  <2> HIDE DEF S
  <2> QED BY <2>1, <2>2 DEF Ledger!Next
<1>6. CASE Shown \subseteq Shown'
  <2> DEFINE S == Shown' \ Shown
  <2>1. Ledger!PutBack(S)
    BY <1>1, <1>2, <1>3, <1>6 DEF Ledger!PutBack
  <2>2. S \in SUBSET (EventIds \X Days) BY <1>2, <1>4
  <2> HIDE DEF S
  <2> QED BY <2>1, <2>2 DEF Ledger!Next
<1> QED BY <1>5, <1>6

LEMMA LedgerErases ==
    ASSUME TypeInv, TypeInv', retimed' = retimed, Kept' \subseteq Kept, Shown' = Shown
    PROVE  Ledger!Next
<1>1. On = Shown /\ Off = Kept \ Shown BY LedgerView
<1>2. On' = Shown' /\ Off' = Kept' \ Shown' BY LedgerViewNext
<1>3. Retimed' = Retimed BY DEF Retimed
<1>4. Kept \subseteq EventIds \X Days BY DEF Kept, Occurrences
<1> DEFINE S == Off \ Off'
<1>5. Ledger!Erase(S) BY <1>1, <1>2, <1>3 DEF Ledger!Erase
<1>6. S \in SUBSET (EventIds \X Days) BY <1>1, <1>4
<1> HIDE DEF S
<1> QED BY <1>5, <1>6 DEF Ledger!Next

LEMMA LedgerSchedules ==
    ASSUME TypeInv, TypeInv', retimed' = retimed, NEW S \in SUBSET Occurrences,
           S \cap Kept = {}, S \cap Retimed = {},
           Kept' = Kept \cup S, Shown' = Shown \cup S
    PROVE  Ledger!Next
<1>1. On = Shown /\ Off = Kept \ Shown /\ Shown \subseteq Kept BY LedgerView
<1>2. On' = Shown' /\ Off' = Kept' \ Shown' BY LedgerViewNext
<1>3. Retimed' = Retimed BY DEF Retimed
<1>4. Ledger!Schedule(S) BY <1>1, <1>2, <1>3 DEF Ledger!Schedule
<1> QED BY <1>4 DEF Ledger!Next, Occurrences

LEMMA LedgerCloses ==
    ASSUME TypeInv, TypeInv', retimed \subseteq retimed',
           Kept' = {l \in Kept : l[1] \notin retimed'},
           Shown' = {l \in Shown : l[1] \notin retimed'}
    PROVE  Ledger!Next
<1>1. On = Shown /\ Off = Kept \ Shown /\ Shown \subseteq Kept BY LedgerView
<1>2. On' = Shown' /\ Off' = Kept' \ Shown' BY LedgerViewNext
<1>3. retimed' \subseteq EventIds BY DEF TypeInv, TypeOK
<1> DEFINE S == Retimed'
<1>4. Retimed' = Retimed \cup S BY DEF Retimed
<1>5. Kept \subseteq EventIds \X Days BY DEF Kept, Occurrences
<1>6. \A l \in EventIds \X Days : l \in S <=> l[1] \in retimed' BY DEF Retimed
<1>7. S \in SUBSET (EventIds \X Days) BY <1>3 DEF Retimed
<1> HIDE DEF S
<1>8. Kept' = Kept \ S /\ Shown' = Shown \ S BY <1>1, <1>5, <1>6
<1>9. On' = On \ S /\ Off' = Off \ S BY <1>1, <1>2, <1>8
<1>10. Ledger!Close(S) BY <1>4, <1>9 DEF Ledger!Close
<1> QED BY <1>7, <1>10 DEF Ledger!Next

LEMMA ShapeKeepsKept ==
    ASSUME SameShape, retimed' = retimed
    PROVE  Kept' = Kept
<1>1. \A l \in Occurrences : \A e \in EventIds :
        (Present(e) /\ root[e] = l[1] /\ Covers(e, l[2]))'
          <=> Present(e) /\ root[e] = l[1] /\ Covers(e, l[2])
  <2> SUFFICES ASSUME NEW l \in Occurrences, NEW e \in EventIds
               PROVE  (Present(e) /\ root[e] = l[1] /\ Covers(e, l[2]))'
                        <=> Present(e) /\ root[e] = l[1] /\ Covers(e, l[2])
    OBVIOUS
  <2>1. l[2] \in Days BY DEF Occurrences
  <2>2. (Present(e)' <=> Present(e)) /\ root'[e] = root[e] BY DEF SameShape
  <2>3. Present(e) => (Covers(e, l[2])' <=> Covers(e, l[2])) BY <2>1, ShapeMeans
  <2> QED BY <2>2, <2>3
<1> QED BY <1>1 DEF Kept, Occurrences

OnlySeriesExcepted == \A x \in exceptions : Series(x.series)

LEMMA OnlySeries == TypeInv /\ TablesInv /\ LineageInv => OnlySeriesExcepted
BY ExceptionsTyped DEF OnlySeriesExcepted

LEMMA OnlySeriesNext == TypeInv' /\ TablesInv' /\ LineageInv' => OnlySeriesExcepted'
<1>1. (TypeInv /\ TablesInv /\ LineageInv => OnlySeriesExcepted)' BY OnlySeries, PTL
<1> QED BY <1>1

\* The slots of a one-off row are nobody's, whatever hour it is moved to.
LEMMA ShapeExcepted ==
    ASSUME TypeInv, TablesInv, LineageInv, TypeInv', TablesInv', LineageInv', SameShape,
           NEW e \in EventIds, NEW d \in Days, Present(e)
    PROVE  /\ exceptions \subseteq exceptions' /\ Excepted(e, d) => Excepted(e, d)'
           /\ exceptions' \subseteq exceptions /\ Excepted(e, d)' => Excepted(e, d)
<1>1. CASE Series(e)
  <2>1. Slot(e, d)' = Slot(e, d) BY <1>1, ShapeMeans
  <2> QED BY <2>1 DEF Excepted
<1>2. CASE ~Series(e)
  <2>1. ~Series(e)' BY <1>2, ShapeMeans
  <2>2. \A x \in exceptions : x.series # e BY <1>2, ExceptionsTyped
  <2>3. OnlySeriesExcepted' BY OnlySeriesNext
  <2>4. \A x \in exceptions' : x.series # e BY <2>1, <2>3 DEF OnlySeriesExcepted
  <2> QED BY <2>2, <2>4 DEF Excepted
<1> QED BY <1>1, <1>2

\* Deleting a row or cancelling an occurrence takes from the calendar ...
LEMMA ShapeFalls ==
    ASSUME TypeInv, TablesInv, LineageInv, TypeInv', TablesInv', LineageInv', SameShape,
           retimed' = retimed, exceptions \subseteq exceptions',
           \A f \in EventIds : rows'[f].lifecycle = "active" => rows[f].lifecycle = "active"
    PROVE  Ledger!Next
<1>1. ASSUME NEW l \in Occurrences, NEW e \in EventIds, ShowsDay(e, l[2])'
      PROVE  ShowsDay(e, l[2])
  <2>1. l[2] \in Days BY DEF Occurrences
  <2>2. rows[e].lifecycle = "active" /\ Present(e) BY <1>1 DEF ShowsDay, Present
  <2>3. Covers(e, l[2]) BY <1>1, <2>1, <2>2, ShapeMeans DEF ShowsDay
  <2>4. ~Excepted(e, l[2]) BY <1>1, <2>1, <2>2, ShapeExcepted DEF ShowsDay
  <2> QED BY <2>2, <2>3, <2>4 DEF ShowsDay
<1>2. Shown' \subseteq Shown BY <1>1 DEF Shown, SameShape, Occurrences
<1> QED BY <1>2, ShapeKeepsKept, LedgerMoves

\* ... and restoring one or undoing the other gives back to it.
LEMMA ShapeRises ==
    ASSUME TypeInv, TablesInv, LineageInv, TypeInv', TablesInv', LineageInv', SameShape,
           retimed' = retimed, exceptions' \subseteq exceptions,
           \A f \in EventIds : rows[f].lifecycle = "active" => rows'[f].lifecycle = "active"
    PROVE  Ledger!Next
<1>1. ASSUME NEW l \in Occurrences, NEW e \in EventIds, ShowsDay(e, l[2])
      PROVE  ShowsDay(e, l[2])'
  <2>1. l[2] \in Days BY DEF Occurrences
  <2>2. rows'[e].lifecycle = "active" /\ Present(e) BY <1>1 DEF ShowsDay, Present
  <2>3. Covers(e, l[2])' BY <1>1, <2>1, <2>2, ShapeMeans DEF ShowsDay
  <2>4. ~Excepted(e, l[2])' BY <1>1, <2>1, <2>2, ShapeExcepted DEF ShowsDay
  <2> QED BY <2>2, <2>3, <2>4 DEF ShowsDay
<1>2. Shown \subseteq Shown' BY <1>1 DEF Shown, SameShape, Occurrences
<1> QED BY <1>2, ShapeKeepsKept, LedgerMoves

LEMMA CancelShape ==
    ASSUME TypeInv, VersionInv, NEW t \in Tabs, NEW k \in Keys, CancelOccurrence(t, k)
    PROVE  /\ SameShape /\ exceptions \subseteq exceptions' /\ retimed' = retimed
           /\ \A f \in EventIds : rows'[f].lifecycle = "active" => rows[f].lifecycle = "active"
<1>1. PICK e \in EventIds : e = page[t].of BY OnPageMeans DEF CancelOccurrence
<1>2. Unchanged(e, page[t].row.version) BY <1>1 DEF CancelOccurrence
<1>3. rows[e].lifecycle = "active" /\ rows[e].version < MaxVersion
      /\ rows \in [EventIds -> Row]
  BY <1>2, UnchangedMeans DEF TypeInv, TypeOK
<1>4. /\ rows' = [rows EXCEPT ![e] = Bumped(e)] /\ root' = root /\ retimed' = retimed
      /\ exceptions \subseteq exceptions'
  BY <1>1 DEF CancelOccurrence
<1>5. SameShape BY <1>3, <1>4, BumpedSameShape DEF Present
<1>6. \A f \in EventIds : rows'[f].lifecycle = "active" => rows[f].lifecycle = "active"
  BY <1>3, <1>4 DEF Bumped
<1> QED BY <1>4, <1>5, <1>6

LEMMA UncancelShape ==
    ASSUME TypeInv, NEW e \in EventIds, NEW k, Uncancelled(e, k)
    PROVE  /\ SameShape /\ exceptions' \subseteq exceptions /\ retimed' = retimed
           /\ \A f \in EventIds : rows[f].lifecycle = "active" => rows'[f].lifecycle = "active"
<1>1. /\ rows' = [rows EXCEPT ![e] = Bumped(e)] /\ root' = root /\ retimed' = retimed
      /\ Present(e) /\ rows[e].version < MaxVersion
  BY DEF Uncancelled
<1>2. exceptions' \subseteq exceptions BY DEF Uncancelled
<1>3. SameShape BY <1>1, BumpedSameShape
<1>4. rows[e] \in Row /\ rows \in [EventIds -> Row] BY DEF TypeInv, TypeOK
<1>5. Bumped(e).lifecycle = rows[e].lifecycle BY <1>4 DEF Bumped, Row
<1>6. \A f \in EventIds : rows[f].lifecycle = "active" => rows'[f].lifecycle = "active"
  BY <1>1, <1>4, <1>5
<1> QED BY <1>1, <1>2, <1>3, <1>6

CalendarInv == TypeInv /\ TablesInv /\ LineageInv

\* Reading, and answers that changed nothing, leave the ledger where it was.
LEMMA StillLedger ==
    ASSUME rows' = rows, exceptions' = exceptions, UNCHANGED history
    PROVE  UNCHANGED Ledger!ledgerVars
<1>1. OnCalendar' = OnCalendar
  BY DEF OnCalendar, Displayed, Lineage, Shows, Produces, ExceptionsOf, history
<1>2. Retimed' = Retimed BY DEF Retimed, history
<1>3. Off' = Off BY <1>1, <1>2 DEF Off, Stored, Lineage, Produces, Present, history
<1>4. On' = On BY <1>1, <1>2 DEF On
<1> QED BY <1>2, <1>3, <1>4 DEF Ledger!ledgerVars

LEMMA EditMovesLedger ==
    ASSUME CalendarInv, CalendarInv', VersionInv, NEW t \in Tabs, Edit(t)
    PROVE  Ledger!Next
<1> USE DEF CalendarInv
<1>1. ASSUME NEW e \in EventIds, NEW first \in Days, NEW last \in Days,
             NEW repeats \in BOOLEAN, NEW w \in Walls, CreateEvent(t, e, first, last, repeats, w)
      PROVE  Ledger!Next
  BY <1>1, CreateKeepsLineage, LedgerSchedules
<1>2. ASSUME NEW w \in Walls, UpdateEvent(t, w) PROVE Ledger!Next
  <2>1. /\ SameShape /\ exceptions' = exceptions /\ retimed' = retimed
        /\ \A f \in EventIds : rows'[f].lifecycle = rows[f].lifecycle
    BY <1>2, UpdateShape
  <2> QED BY <2>1, ShapeFalls
<1>3. ASSUME NEW k \in Keys, NEW n \in EventIds, NEW w \in Walls, SplitThis(t, k, n, w)
      PROVE  Ledger!Next
  BY <1>3, SplitThisKeepsLineage, LedgerMoves
<1>4. ASSUME NEW k \in Keys, NEW n \in EventIds, NEW w \in Walls, SplitFuture(t, k, n, w)
      PROVE  Ledger!Next
  BY <1>4, SplitFutureKeepsLineage, LedgerCloses
<1> QED BY <1>1, <1>2, <1>3, <1>4 DEF Edit

LEMMA DeleteMovesLedger ==
    ASSUME CalendarInv, CalendarInv', VersionInv, NEW t \in Tabs, Delete(t)
    PROVE  Ledger!Next \/ UNCHANGED Ledger!ledgerVars
<1> USE DEF CalendarInv
<1>1. ASSUME NEW k \in Keys, CancelOccurrence(t, k) PROVE Ledger!Next
  BY <1>1, CancelShape, ShapeFalls
<1>2. ASSUME NEW k \in Keys, CancelAgain(t, k) PROVE UNCHANGED Ledger!ledgerVars
  BY <1>2, StillLedger DEF CancelAgain, tables
<1>3. ASSUME TrashSelect(t) \/ TrashConflict(t) PROVE UNCHANGED Ledger!ledgerVars
  BY <1>3, StillLedger DEF TrashSelect, TrashConflict, tables
<1>4. ASSUME TrashUpdate(t) PROVE Ledger!Next
  <2>1. /\ SameShape /\ exceptions' = exceptions /\ retimed' = retimed
        /\ \A f \in EventIds : rows'[f].lifecycle = "active" => rows[f].lifecycle = "active"
    BY <1>4, TrashShape
  <2> QED BY <2>1, ShapeFalls
<1>5. ASSUME PurgeEvent(t) PROVE Ledger!Next
  BY <1>5, PurgeKeepsLineage, LedgerErases
<1> QED BY <1>1, <1>2, <1>3, <1>4, <1>5 DEF Delete

LEMMA PutBackMovesLedger ==
    ASSUME CalendarInv, CalendarInv', NEW t \in Tabs, PutBack(t)
    PROVE  Ledger!Next
<1> USE DEF CalendarInv
<1>1. PICK e \in EventIds : e = page[t].of
  BY DEF PutBack, UndoCancel, UncancelFromTrash, UndoTrash, RestoreFromTrash,
         TypeInv, PagesNameEvents
<1>2. (\E k : Uncancelled(e, k)) \/ (\E v : Restored(e, v))
  BY <1>1 DEF PutBack, UndoCancel, UncancelFromTrash, UndoTrash, RestoreFromTrash
<1>3. ASSUME NEW k, Uncancelled(e, k) PROVE Ledger!Next
  BY <1>3, UncancelShape, ShapeRises
<1>4. ASSUME NEW v, Restored(e, v) PROVE Ledger!Next
  <2>1. /\ SameShape /\ exceptions' = exceptions /\ retimed' = retimed
        /\ \A f \in EventIds : rows[f].lifecycle = "active" => rows'[f].lifecycle = "active"
    BY <1>4, RestoreShape
  <2> QED BY <2>1, ShapeRises
<1> QED BY <1>2, <1>3, <1>4

LEMMA StepMovesLedger ==
    CalendarInv /\ CalendarInv' /\ VersionInv /\ [Next]_vars => [Ledger!Next]_(Ledger!ledgerVars)
<1> SUFFICES ASSUME CalendarInv, CalendarInv', VersionInv, [Next]_vars
             PROVE  Ledger!Next \/ UNCHANGED Ledger!ledgerVars
  OBVIOUS
<1>1. ASSUME NEW t \in Tabs, Load(t) PROVE UNCHANGED Ledger!ledgerVars
  BY <1>1, StillLedger DEF Load, OpenPage, ReadRow, ReadExceptions, tables
<1>2. CASE UNCHANGED vars BY <1>2, StillLedger DEF vars, tables
<1> QED
  BY <1>1, <1>2, EditMovesLedger, DeleteMovesLedger, PutBackMovesLedger DEF Next

\* Nothing is stored at first, so the ledger starts empty.
LEMMA InitLedger == Init => Ledger!Init
<1> SUFFICES ASSUME Init PROVE Ledger!Init OBVIOUS
<1>1. AbsentRow.lifecycle = "absent" BY DEF AbsentRow
<1>2. \A e \in EventIds : ~Present(e) /\ Displayed(e) = {}
  BY <1>1 DEF Init, Present, Displayed, Lineage, Shows
<1>3. retimed = {} BY DEF Init
<1>4. OnCalendar = {} BY <1>2 DEF OnCalendar
<1>5. On = {} BY <1>4 DEF On
<1>6. Off = {} BY <1>2 DEF Off
<1>7. Retimed = {} BY <1>3 DEF Retimed
<1> QED BY <1>5, <1>6, <1>7 DEF Ledger!Init

\* The rows, rules, exceptions and versions keep the promise of the ledger: in
\* every behaviour of any number of tabs, an occurrence is put on the calendar
\* once, leaves it only to where it can be put back from, and is erased only
\* from there.
THEOREM KeepsTheLedger == Spec => ImplementsLedger
<1>1. Init => CalendarInv /\ VersionInv
  BY InitTyped, InitTables, InitVersions, InitLineage DEF CalendarInv
<1>2. CalendarInv /\ VersionInv /\ [Next]_vars => (CalendarInv /\ VersionInv)'
  BY StepTyped, StepKeepsTables, StepVersions, StepKeepsLineage DEF CalendarInv
<1> QED BY <1>1, <1>2, InitLedger, StepMovesLedger, PTL DEF Spec, ImplementsLedger, Ledger!Spec
=============================================================================
