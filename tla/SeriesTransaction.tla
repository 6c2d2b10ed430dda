-------------------------- MODULE SeriesTransaction --------------------------
(***************************************************************************)
(* The transaction of packages/db that edits a series: load the row, plan, *)
(* update the row behind a version guard, write the successor or the       *)
(* detached event, carry the exceptions over, expand what was stored and   *)
(* compare.  Its statements interleave with those of other callers under   *)
(* READ COMMITTED: the guarded update locks the row until the end, and     *)
(* what a transaction wrote shows to no one else before it commits.        *)
(* A calendar of this module is written this way, one of SeriesPages by    *)
(* the sheets; `path` says which.                                          *)
(***************************************************************************)
EXTENDS SeriesPages

CONSTANTS
    Callers,     \* who edits at the same time
    Inputs,      \* what createEvent may be called with
    Ranges,      \* the verification ranges callers pass
    Payloads,    \* the payloads callers pass
    EditDays,    \* bound: the days of the occurrences callers edit
    MaxEdited    \* bound: a row is edited up to this version

\* A row of public.events.
StoredRows ==
    [start : Int, duration : Nat, zone : Zones, dtstart : Int \cup {Null},
     rule : Rule \cup {Null}, fields : SUBSET Payloads, version : Nat,
     lifecycle : {"active", "trashed"}]

\* What createEvent accepts, and where a series may be edited.
ASSUME TransactionAssumption ==
    /\ Null \notin StoredRows
    /\ Inputs \subseteq [start : Int, duration : Nat, zone : Zones,
                         dtstart : Int \cup {Null}, rule : Rule \cup {Null}]
    /\ EditDays \subseteq Int

\* A clock that jumps by less than a day keeps the occurrences of a series apart.
Narrow(zone) == zone.after - zone.before \in -23..23
ShortJumps == \A input \in Inputs : Narrow(input.zone)

VARIABLES
    path,        \* "sheet" or "transaction"
    events,      \* public.events as committed, with their cloaked fields
    exceptions,  \* public.recurrence_exceptions as committed
    calls,       \* what each caller is in the middle of
    promised     \* history: the instants the calendar ought to show

transactionVars == <<events, exceptions, calls, promised>>
seriesVars == <<pageVars, path, transactionVars>>

-----------------------------------------------------------------------------
(* Input *)

\* Structurally AEAD output: the algorithm, raw bytes, a 12-byte nonce, at
\* least the 16 bytes of the tag, and a key version.
AssertCloaked(payload) ==
    /\ payload.alg = "aes-256-gcm-v1"
    /\ payload.rawBytes
    /\ payload.nonce = 12
    /\ payload.ciphertext >= 16
    /\ payload.keyVersion >= 1

AssertVerifyRangeShape(range) == range # Null /\ range.from < range.to

\* The occurrence is strictly inside, so that both halves can show something.
AssertVerifyRangeStraddles(range, reading, zone) ==
    LET at == OccurrenceInstant(zone, reading) IN range.from < at /\ at < range.to

\* Hypothesis of a theorem: callers verify over ranges that do not end before the
\* calendar does, on the clock of any zone they create events in.
WideRanges ==
    \A range \in Ranges : AssertVerifyRangeShape(range) =>
        /\ range.from \in Int /\ range.to \in Int
        /\ \A input \in Inputs : \A offset \in {input.zone.before, input.zone.after} :
             Midnight(LastDay + 1) - offset <= range.to

-----------------------------------------------------------------------------
(* Rows *)

Free == {e \in Ids : events[e] = Null /\ \A c \in Callers : calls[c].newId # e}

Active(e) == events[e] # Null /\ events[e].lifecycle = "active"

\* The stored row as a series: its local anchor, or its start on the clock of
\* its own zone.
LoadSeriesSpec(row) ==
    [dtstart |-> IF row.dtstart # Null THEN row.dtstart ELSE WallAt(row.zone, row.start),
     duration |-> row.duration, zone |-> row.zone, rule |-> row.rule]

ExceptionsOf(e) == {x \in exceptions : x.series = e}

ReadingsOf(e) == SeriesReadings(LoadSeriesSpec(events[e])) \ {x.at : x \in ExceptionsOf(e)}

InstantsOf(e) == {OccurrenceInstant(events[e].zone, r) : r \in ReadingsOf(e)}

\* What a transaction wrote: nothing yet.
Unwritten == [e \in Ids |-> Null]

Idle == [step |-> "idle", series |-> Null, occurrence |-> Null, scope |-> Null,
         range |-> Null, newId |-> Null, fields |-> {}, expected |-> 0,
         current |-> Null, own |-> Unwritten, excepted |-> {}]

\* The row of `e` is locked by a transaction that wrote it.
Locked(e) == \E c \in Callers : calls[c].step \in {"guarded", "written"} /\ calls[c].series = e

Throw(c) ==
    /\ calls' = [calls EXCEPT ![c] = Idle]
    /\ UNCHANGED <<events, exceptions, promised>>

-----------------------------------------------------------------------------
(* Creating, trashing and cancelling: one guarded statement each, and what  *)
(* goes with it in the same transaction.                                    *)

CreateEvent(e, input, payload) ==
    /\ \A f \in Ids : events[f] = Null
    /\ AssertCloaked(payload)
    /\ events' = [events EXCEPT ![e] =
         [start |-> input.start, duration |-> input.duration, zone |-> input.zone,
          dtstart |-> input.dtstart, rule |-> input.rule, fields |-> {payload},
          version |-> 1, lifecycle |-> "active"]]
    /\ promised' = {OccurrenceInstant(input.zone, r) :
                      r \in SeriesReadings(LoadSeriesSpec(events'[e]))}
    /\ UNCHANGED <<exceptions, calls>>

\* With the version the caller sees, so it is the version of the row.
TrashEvent(e) ==
    /\ Active(e) /\ ~Locked(e)
    /\ events' = [events EXCEPT ![e].lifecycle = "trashed", ![e].version = @ + 1]
    /\ promised' = promised \ InstantsOf(e)
    /\ UNCHANGED <<exceptions, calls>>

\* The database's own function, which takes the row's lock and bumps it too.
CancelOccurrence(e, k) ==
    /\ Active(e) /\ ~Locked(e)
    /\ events[e].rule # Null /\ events[e].version < MaxEdited
    /\ exceptions' = exceptions \cup {[series |-> e, at |-> k, kind |-> "cancelled", by |-> Null]}
    /\ events' = [events EXCEPT ![e].version = @ + 1]
    /\ promised' = promised \ {OccurrenceInstant(events[e].zone, k)}
    /\ UNCHANGED calls

-----------------------------------------------------------------------------
(* applySeriesEdit, statement by statement.                                *)

\* The command: made from the row as the caller last saw it.  The caller draws
\* the id of the row the edit will create.
Command(c, e, k, scope, range, n, payload) ==
    /\ calls[c] = Idle
    /\ Active(e) /\ events[e].version < MaxEdited
    /\ AssertCloaked(payload)
    /\ scope = "this-and-future" => AssertVerifyRangeShape(range)
    /\ calls' = [calls EXCEPT ![c] =
         [step |-> "open", series |-> e, occurrence |-> k, scope |-> scope, range |-> range,
          newId |-> n, fields |-> {payload}, expected |-> events[e].version,
          current |-> Null, own |-> Unwritten, excepted |-> {}]]
    /\ UNCHANGED <<events, exceptions, promised>>

\* An event that does not repeat has no scopes.
PlannedScope(call) == IF call.current.rule = Null THEN "entire-series" ELSE call.scope

PlanOf(call) == PlanSeriesEdit(call.current, call.occurrence, call.scope)

LoadSeries(c) ==
    LET call == calls[c]
        loaded == [call EXCEPT !.step = "loaded",
                               !.current = LoadSeriesSpec(events[call.series])] IN
    /\ call.step = "open"
    /\ IF /\ events[call.series] # Null
          /\ call.scope = "this-and-future" =>
               AssertVerifyRangeStraddles(call.range, call.occurrence, loaded.current.zone)
          /\ PlannedScope(loaded) = "this-and-future" => PlanOf(loaded).ok
       THEN /\ calls' = [calls EXCEPT ![c] = loaded]
            /\ UNCHANGED <<events, exceptions, promised>>
       ELSE Throw(c)

\* Mutant: the update names the row and not its version.
AnyVersion(call) == events[call.series] # Null

\* Gate 2.
VersionGuard(call) == events[call.series] # Null /\ events[call.series].version = call.expected

\* The guarded update, which waits for whoever has the row.
UpdateSeries(c) ==
    LET call == calls[c]
        bumped == [events[call.series] EXCEPT !.version = @ + 1]
        row == IF PlannedScope(call) = "this-and-future"
               THEN [bumped EXCEPT !.rule = PlanOf(call).truncated] ELSE bumped IN
    /\ call.step = "loaded"
    /\ ~Locked(call.series)
    /\ IF VersionGuard(call)
       THEN /\ calls' = [calls EXCEPT ![c] =
                 [call EXCEPT !.step = "guarded",
                              !.own = [@ EXCEPT ![call.series] = row],
                              !.excepted = ExceptionsOf(call.series)]]
            /\ UNCHANGED <<events, exceptions, promised>>
       ELSE Throw(c)

\* The row an edit inserts starts when its first occurrence does and belongs
\* to the caller; its fields were sealed for the id the caller drew.
NewRow(call, series, dtstart) ==
    LET first == {OccurrenceInstant(series.zone, r) : r \in SeriesReadings(series)} IN
    [start |-> Min(first), duration |-> series.duration, zone |-> series.zone,
     dtstart |-> dtstart, rule |-> series.rule, fields |-> call.fields,
     version |-> 1, lifecycle |-> "active"]

\* The exceptions from the split on go with the occurrences they are about.
MoveExceptions(call) ==
    {IF x.at >= call.occurrence THEN [x EXCEPT !.series = call.newId] ELSE x : x \in call.excepted}

InsertSuccessor(c) ==
    LET call == calls[c]
        successor == [call.current EXCEPT !.dtstart = call.occurrence,
                                          !.rule = PlanOf(call).newRule] IN
    /\ call.step = "guarded"
    /\ PlannedScope(call) = "this-and-future"
    /\ IF SeriesReadings(successor) = {} THEN Throw(c)
       ELSE /\ calls' = [calls EXCEPT ![c] =
                 [call EXCEPT !.step = "written",
                              !.own = [@ EXCEPT ![call.newId] =
                                         NewRow(call, successor, call.occurrence)],
                              !.excepted = MoveExceptions(call)]]
            /\ UNCHANGED <<events, exceptions, promised>>

\* The detached event before the exception that names it.  One exception per
\* occurrence: a second is a unique violation.
InsertDetached(c) ==
    LET call == calls[c]
        single == [call.current EXCEPT !.dtstart = call.occurrence, !.rule = Null] IN
    /\ call.step = "guarded"
    /\ PlannedScope(call) = "this"
    /\ IF \E x \in call.excepted : x.at = call.occurrence THEN Throw(c)
       ELSE /\ calls' = [calls EXCEPT ![c] =
                 [call EXCEPT !.step = "written",
                              !.own = [@ EXCEPT ![call.newId] = NewRow(call, single, Null)],
                              !.excepted = @ \cup {[series |-> call.series, at |-> call.occurrence,
                                                    kind |-> "moved", by |-> call.newId]}]]
            /\ UNCHANGED <<events, exceptions, promised>>

EntireSeries(c) ==
    /\ calls[c].step = "guarded"
    /\ PlannedScope(calls[c]) = "entire-series"
    /\ calls' = [calls EXCEPT ![c].step = "written"]
    /\ UNCHANGED <<events, exceptions, promised>>

\* Gate 3: what was stored, expanded over the caller's range and without
\* exceptions, is what the series was.
StoredSplitReproduces(call) ==
    LET before == Keys(ExpandSeries(LoadSeriesSpec(call.own[call.series]), call.range, {}))
        after == Keys(ExpandSeries(LoadSeriesSpec(call.own[call.newId]), call.range, {}))
    IN  /\ \A k \in before : k < call.occurrence
        /\ \A k \in after : k >= call.occurrence
        /\ before \cup after = Keys(ExpandSeries(call.current, call.range, {}))

Commit(c) ==
    LET call == calls[c] IN
    /\ call.step = "written"
    /\ IF PlannedScope(call) = "this-and-future" => StoredSplitReproduces(call)
       THEN /\ events' = [e \in Ids |-> IF call.own[e] # Null THEN call.own[e] ELSE events[e]]
            /\ exceptions' = (exceptions \ ExceptionsOf(call.series)) \cup call.excepted
            /\ calls' = [calls EXCEPT ![c] = Idle]
            /\ UNCHANGED promised
       ELSE Throw(c)

\* The connection is lost, or the process ends: the database rolls back.
Interrupted(c) == calls[c] # Idle /\ Throw(c)

-----------------------------------------------------------------------------

\* Where the caller may stand: any day, at the hour of the series.
Places(e) ==
    {Midnight(day) + HourOf(LoadSeriesSpec(events[e]).dtstart) : day \in EditDays}

\* Only a split may be asked for where the series does not repeat.
Commands(c) ==
    \E e \in {f \in Ids : Active(f)}, payload \in Payloads :
        \/ Command(c, e, Null, "entire-series", Null, Null, payload)
        \/ \E n \in Free, k \in Places(e) :
             \/ \E range \in Ranges \cup {Null} : Command(c, e, k, "this-and-future", range, n, payload)
             \/ /\ k \in SeriesReadings(LoadSeriesSpec(events[e]))
                /\ Command(c, e, k, "this", Null, n, payload)

TransactionNext ==
    \/ \E e \in Ids, input \in Inputs, payload \in Payloads : CreateEvent(e, input, payload)
    \/ \E e \in Ids : TrashEvent(e)
    \/ \E e \in {f \in Ids : Active(f)} : \E k \in ReadingsOf(e) \cap Places(e) : CancelOccurrence(e, k)
    \/ \E c \in Callers :
         \/ Commands(c) \/ LoadSeries(c) \/ UpdateSeries(c)
         \/ InsertSuccessor(c) \/ InsertDetached(c) \/ EntireSeries(c)
         \/ Commit(c) \/ Interrupted(c)

TransactionInit ==
    /\ events = [e \in Ids |-> Null]
    /\ exceptions = {}
    /\ calls = [c \in Callers |-> Idle]
    /\ promised = {}

SeriesInit ==
    /\ PagesInit
    /\ TransactionInit
    /\ path \in {"sheet", "transaction"}
    /\ path = "transaction" => display = (CHOOSE d \in Displays : TRUE) /\ weekStart = 0

SeriesNext ==
    /\ UNCHANGED path
    /\ \/ path = "sheet" /\ PagesNext /\ UNCHANGED transactionVars
       \/ path = "transaction" /\ TransactionNext /\ UNCHANGED pageVars

SeriesSpec == SeriesInit /\ [][SeriesNext]_seriesVars

-----------------------------------------------------------------------------
(* Properties *)

\* Whatever callers edit at once, and wherever one of them is interrupted, the
\* committed rows show the instants the series showed, less what was cancelled
\* or trashed: no future is cut off without a successor, no edit is applied
\* over another, no cancelled occurrence comes back, a detached one keeps its
\* hour, and no two rows show the same instant.
EditsKeepTheCalendar ==
    LET shown == {e \in Ids : Active(e)} IN
    /\ UNION {InstantsOf(e) : e \in shown} = promised
    /\ \A e, f \in shown : e # f => InstantsOf(e) \cap InstantsOf(f) = {}

Splitting(call) == call.step = "written" /\ PlannedScope(call) = "this-and-future"

\* The two rows show what the series showed, inside the range and beyond it.
HalvesAreWhole(call) ==
    SeriesReadings(LoadSeriesSpec(call.own[call.series]))
      \cup SeriesReadings(LoadSeriesSpec(call.own[call.newId])) = SeriesReadings(call.current)

\* Gate 3 never turns down a split at an occurrence of the series, whatever
\* range the caller verifies over and however the series was split before; and
\* it need not: the two rows are the series to the end of the calendar.
GateAcceptsOccurrences ==
    \A c \in Callers :
        Splitting(calls[c]) /\ calls[c].occurrence \in SeriesReadings(calls[c].current)
          => StoredSplitReproduces(calls[c]) /\ HalvesAreWhole(calls[c])

\* What gate 3 lets through is the whole series, wherever the caller stands: a
\* range with the split strictly inside gives "a real mismatch somewhere to show
\* up", as the comment on the range has it.
GateMissesNothing ==
    \A c \in Callers :
        Splitting(calls[c]) /\ StoredSplitReproduces(calls[c]) => HalvesAreWhole(calls[c])
=============================================================================
