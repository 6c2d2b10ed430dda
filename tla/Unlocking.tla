----------------------------- MODULE Unlocking -----------------------------
(***************************************************************************)
(* From a secret to readable titles: the wraps of an account's root key,   *)
(* which a secret opens, and the store, which the key opens.  All that     *)
(* passes between them is the key, and the store takes any, so a behaviour *)
(* follows one of them.                                                    *)
(***************************************************************************)
EXTENDS AccountKeys, CloakStore

CONSTANT Unreadable  \* seals made under a root key that is gone

OpensTheRest == RootKeys \X (Seals \ Unreadable)

VARIABLE followed  \* the "keys" or the "store"

unlockingVars == <<vars, storeVars, followed>>

\* The one that is not followed begins in one state.
UnlockingInit ==
    /\ Init
    /\ StoreInit
    /\ followed \in {"keys", "store"}
    /\ followed = "store" => auth = CHOOSE first \in Passwords : TRUE

UnlockingNext ==
    /\ UNCHANGED followed
    /\ \/ followed = "keys" /\ Next /\ UNCHANGED storeVars
       \/ followed = "store" /\ StoreNext /\ UNCHANGED vars

UnlockingSpec ==
    /\ UnlockingInit /\ [][UnlockingNext]_unlockingVars
    /\ WebCryptoAnswers

=============================================================================
