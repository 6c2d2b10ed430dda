----------------------------- MODULE CloakStore -----------------------------
(***************************************************************************)
(* The one place decrypted content exists: a map from fields to ciphertext *)
(* and a map from fields to what is shown for them.  Its methods are       *)
(* synchronous up to their first `await`; decryption awaits once per       *)
(* field, and between two fields any other call may run.  So several       *)
(* passes of #decryptAll can be under way at once, each with the key it    *)
(* started from.                                                           *)
(*                                                                         *)
(* A seal stands for the bytes of a record, a value for the seal it was    *)
(* decrypted from.                                                         *)
(***************************************************************************)
EXTENDS Integers, Sequences, FiniteSets

CONSTANTS
    Fields,   \* field keys: subject type, subject id and field name
    Seals,    \* sealed bytes; two encryptions of one text are two seals
    RootKeys,     \* root keys
    Opens,    \* pairs <<key, seal>>: the key decrypts the seal
    Passes,   \* bound: as many passes of #decryptAll are ever under way
    Nothing

ASSUME ConstantsAssumption ==
    /\ Nothing \notin Seals \cup RootKeys \cup Fields
    /\ Opens \subseteq RootKeys \X Seals
    /\ IsFiniteSet(Fields)

VARIABLES
    rootKey,     \* #rootKey
    ciphertext,  \* #ciphertext
    order,       \* the insertion order of #ciphertext, which iteration follows
    values,      \* #values; "missing" stands for no entry
    heard,       \* per field, the snapshot at its last notification
    pass,        \* the passes of #decryptAll
    overlapped,  \* history: fields replaced while a pass was decrypting them
    interrupted  \* history: the last lock() ran in the middle of a pass

passHistory == <<overlapped, interrupted>>
storeVars == <<rootKey, ciphertext, order, values, heard, pass, passHistory>>

Snapshot == [status : {"missing", "locked", "ready", "error"}, value : Seals \cup {Nothing}]

Missing == [status |-> "missing", value |-> Nothing]
Locked  == [status |-> "locked", value |-> Nothing]
Failed  == [status |-> "error", value |-> Nothing]
Ready(s) == [status |-> "ready", value |-> s]

\* A pass awaits the decryption of `seal` for the field at position `at`.
NoPass == [at |-> 0, key |-> Nothing, seal |-> Nothing]

Pass == {NoPass} \cup [at : Nat \ {0}, key : RootKeys, seal : Seals]

StoreOK ==
    /\ rootKey \in RootKeys \cup {Nothing}
    /\ ciphertext \in [Fields -> Seals \cup {Nothing}]
    /\ order \in Seq(Fields)
    /\ values \in [Fields -> Snapshot]
    /\ heard \in [Fields -> Snapshot]
    /\ pass \in [Passes -> Pass]
    /\ overlapped \subseteq Fields
    /\ interrupted \in BOOLEAN

Held == {f \in Fields : ciphertext[f] # Nothing}

Running == {p \in Passes : pass[p] # NoPass}

FieldOf(p) == order[pass[p].at]

-----------------------------------------------------------------------------
(* #decryptAll.  A pass goes through the map in insertion order, entries   *)
(* added behind it included, and skips what is already ready.              *)

Stops(i, key, ord, ciph, vals) ==
    LET Todo == {j \in i..Len(ord) : vals[ord[j]].status # "ready"} IN
    IF Todo = {} THEN NoPass
    ELSE LET j == CHOOSE j \in Todo : \A l \in Todo : j <= l
         IN  [at |-> j, key |-> key, seal |-> ciph[ord[j]]]

\* The call itself, up to its first await.
Starts(p, key) ==
    /\ p \notin Running
    /\ pass' = [pass EXCEPT ![p] = Stops(1, key, order', ciphertext', values')]

\* Mutant: a failed decryption leaves the field as if it had no record.
FailureIsBlank(key, seal) == IF <<key, seal>> \in Opens THEN Ready(seal) ELSE Missing

Decrypted(key, seal) == IF <<key, seal>> \in Opens THEN Ready(seal) ELSE Failed

Decrypt(p) ==
    LET f == FieldOf(p)
        result == Decrypted(pass[p].key, pass[p].seal)
    IN
    /\ p \in Running
    /\ values' = [values EXCEPT ![f] = result]
    /\ heard' = [heard EXCEPT ![f] = result]
    /\ pass' = [pass EXCEPT ![p] =
                  Stops(pass[p].at + 1, pass[p].key, order, ciphertext, values')]
    /\ UNCHANGED <<rootKey, ciphertext, order, passHistory>>

-----------------------------------------------------------------------------
(* The public methods.                                                     *)

Unlock(p, key) ==
    /\ rootKey' = key
    /\ UNCHANGED <<ciphertext, order, values, heard, passHistory>>
    /\ Starts(p, key)

Lock ==
    /\ rootKey' = Nothing
    /\ values' = [f \in Fields |-> Missing]
    /\ heard' = [f \in Fields |-> IF values[f] = Missing THEN heard[f] ELSE Missing]
    /\ interrupted' = (Running # {})
    /\ UNCHANGED <<ciphertext, order, pass, overlapped>>

\* Mutant: the first ciphertext seen for a field is the one shown.
NothingReplaced(records) == {}

Replaced(records) ==
    {f \in DOMAIN records \cap Held : records[f] # ciphertext[f]}

\* New entries go to the end of the map, in the order of the call.
Inserted(records) ==
    LET new == DOMAIN records \ Held IN
    {order \o s : s \in {q \in [1..Cardinality(new) -> new] :
                           \A f \in new : \E i \in DOMAIN q : q[i] = f}}

\* A record with other bytes drops the value decrypted from the old ones.
Stored(records) ==
    /\ ciphertext' = [f \in Fields |-> IF f \in DOMAIN records THEN records[f]
                                       ELSE ciphertext[f]]
    /\ order' \in Inserted(records)
    /\ overlapped' = overlapped \cup
         {f \in Replaced(records) : \E p \in Running : FieldOf(p) = f}

\* Mutant: records that arrive in an unlocked store are left to a pass already
\* under way, if any.
IngestWithoutPass(p, records) ==
    /\ rootKey # Nothing
    /\ Stored(records)
    /\ values' = [f \in Fields |-> IF f \in Replaced(records) THEN Missing ELSE values[f]]
    /\ UNCHANGED <<rootKey, heard, interrupted>>
    /\ IF Running = {} THEN Starts(p, rootKey) ELSE UNCHANGED pass

Ingest(p, records) ==
    /\ rootKey # Nothing
    /\ Stored(records)
    /\ values' = [f \in Fields |-> IF f \in Replaced(records) THEN Missing ELSE values[f]]
    /\ UNCHANGED <<rootKey, heard, interrupted>>
    /\ Starts(p, rootKey)

IngestLocked(records) ==
    /\ rootKey = Nothing
    /\ Stored(records)
    /\ values' = [f \in Fields |-> IF f \in DOMAIN records THEN Locked ELSE values[f]]
    /\ heard' = [f \in Fields |-> IF f \in DOMAIN records THEN Locked ELSE heard[f]]
    /\ UNCHANGED <<rootKey, pass, interrupted>>

-----------------------------------------------------------------------------
StoreInit ==
    /\ rootKey = Nothing
    /\ ciphertext = [f \in Fields |-> Nothing]
    /\ order = <<>>
    /\ values = [f \in Fields |-> Missing]
    /\ heard = [f \in Fields |-> Missing]
    /\ pass = [p \in Passes |-> NoPass]
    /\ overlapped = {}
    /\ interrupted = FALSE

Records == UNION {[D -> Seals] : D \in SUBSET Fields}

StoreNext ==
    \/ \E p \in Passes, key \in RootKeys : Unlock(p, key)
    \/ Lock
    \/ \E p \in Passes, records \in Records : Ingest(p, records)
    \/ \E records \in Records : IngestLocked(records)
    \/ \E p \in Passes : Decrypt(p)

StoreSpec == StoreInit /\ [][StoreNext]_storeVars

\* WebCrypto answers every call.  Nobody has to call the store.
WebCryptoAnswers == \A p \in Passes : WF_storeVars(Decrypt(p))

-----------------------------------------------------------------------------
(* Properties *)

\* ingest drops a value without telling anybody and lock tells only the fields
\* that have one.  Once no pass is under way, every subscriber has nevertheless
\* been told of exactly the snapshot the store holds: no component is left with
\* an outdated value because of the calls' order.
HeardWhenQuiet == Running = {} => heard = values

\* An unlocked store with nothing under way has opened, or reported, every
\* record it holds, also those that arrived in the middle of a pass, and those
\* a lock wiped after a pass had opened them.
OpenedWhenQuiet ==
    Running = {} /\ rootKey # Nothing => \A f \in Held : values[f].status \in {"ready", "error"}

\* However passes, records, locks and unlocks overlap, a store that has gone
\* quiet has opened what it can and told everybody.
SettlesWhenQuiet == HeardWhenQuiet /\ OpenedWhenQuiet

\* "INGEST IS AUTHORITATIVE": a decrypted value is that of the ciphertext held,
\* unless the record was replaced while a pass was decrypting the old one.
StaleOnlyIfOverlapped ==
    \A f \in Fields :
        values[f].status = "ready" /\ values[f].value # ciphertext[f] => f \in overlapped

\* A store without a key holds no decrypted value, unless it was locked in the
\* middle of a pass, which goes on with the key it started from.
LockedHoldsNothing ==
    rootKey = Nothing /\ ~interrupted => \A f \in Fields : values[f].status # "ready"

\* A decrypted value is one the store may hold: its ciphertext's, under a key.
ValuesBelong == StaleOnlyIfOverlapped /\ LockedHoldsNothing

\* A record in an unlocked store is eventually opened, or reported as one that
\* cannot be, unless the store is locked first.
EventuallyOpened ==
    \A f \in Fields :
        rootKey # Nothing /\ f \in Held
          ~> values[f].status \in {"ready", "error"} \/ rootKey = Nothing

=============================================================================
