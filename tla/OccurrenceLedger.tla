-------------------------- MODULE OccurrenceLedger --------------------------
(***************************************************************************)
(* What the calendar promises about occurrences, with no rows, rules,      *)
(* exceptions or versions: an occurrence is scheduled once; removing it    *)
(* keeps it; only a kept one can be put back; only a kept one can be       *)
(* erased, and erasing is final.  Nothing else ever happens to it, but     *)
(* that the ledger may close for good on occurrences that change their     *)
(* hour.                                                                   *)
(***************************************************************************)
CONSTANT Occurrences

VARIABLES
    on,     \* occurrences on the calendar
    off,    \* occurrences removed from it that can still be put back
    closed  \* occurrences of which nothing is promised any more

ledgerVars == <<on, off, closed>>

LedgerTypeOK == {on, off, closed} \subseteq SUBSET Occurrences

Init == on = {} /\ off = {} /\ closed = {}

Schedule(S) ==
    /\ S \cap (on \cup off \cup closed) = {}
    /\ on' = on \cup S
    /\ UNCHANGED <<off, closed>>

Remove(S) ==
    /\ S \subseteq on
    /\ on' = on \ S
    /\ off' = off \cup S
    /\ UNCHANGED closed

PutBack(S) ==
    /\ S \subseteq off
    /\ on' = on \cup S
    /\ off' = off \ S
    /\ UNCHANGED closed

Erase(S) ==
    /\ S \subseteq off
    /\ off' = off \ S
    /\ UNCHANGED <<on, closed>>

Close(S) ==
    /\ on' = on \ S
    /\ off' = off \ S
    /\ closed' = closed \cup S

Next == \E S \in SUBSET Occurrences :
          Schedule(S) \/ Remove(S) \/ PutBack(S) \/ Erase(S) \/ Close(S)

Spec == Init /\ [][Next]_ledgerVars
=============================================================================
