---------------------------- MODULE AccountKeys ----------------------------
(***************************************************************************)
(* One account: the password GoTrue accepts, and the wraps of the root key *)
(* in Postgres.  The two systems share no transaction, and everything runs *)
(* in the owner's tabs: set up the account, sign in, change or recover the *)
(* password, reissue the recovery phrase, add and remove passkeys.  Each   *)
(* is a flow with a step per request; tabs interleave, requests fail, and  *)
(* answers get lost.                                                       *)
(*                                                                         *)
(* A secret stands for what is derived from it.  A wrap names the secret   *)
(* that opens it and the root key inside.                                  *)
(***************************************************************************)
EXTENDS Naturals

CONSTANTS
    Passwords,
    Phrases,      \* recovery phrases, drawn at random and never twice
    Credentials,  \* passkeys
    Keys,         \* root keys, drawn at random
    Tabs,
    MaxFailures,  \* bound: requests that fail after a write, or lose their answer
    None

ASSUME AccountAssumption ==
    /\ None \notin Passwords \cup Phrases \cup Keys
    /\ MaxFailures \in Nat

VARIABLES
    auth,       \* at GoTrue: the password of the account
    password,   \* root_key_wraps: the row of kind 'password'
    recovery,   \* root_key_wraps: the row of kind 'recovery'
    passkeys,   \* root_key_wraps: the rows of kind 'passkey'
    workspace,  \* how far bootstrapWorkspace came
    flow,       \* what each tab is in the middle of
    session,    \* the key each tab's content is opened with
    shown,      \* the phrases the owner has been shown
    suspect,    \* history: the last change to end was interrupted or overlapped
    unseen,     \* history: the phrase in force was never shown, for a failure
    failures    \* history: how many failures there were

wraps == <<password, recovery, passkeys>>
history == <<suspect, unseen, failures>>
vars == <<auth, wraps, workspace, flow, session, shown, history>>

Secrets == Passwords \cup Phrases \cup Credentials

Wrap(S) == [secret : S, key : Keys]

\* `alone`: no other change wrote its wrap between this one's two writes.
Flow == [at : {"idle", "signed in", "setup", "bootstrap", "change", "auth",
               "reissue", "register", "remove"},
         secret : Secrets \cup {None},
         phrase : Phrases \cup {None},
         key : Keys \cup {None},
         alone : BOOLEAN]

Idle == [at |-> "idle", secret |-> None, phrase |-> None, key |-> None, alone |-> FALSE]

ASSUME WrapAssumption == None \notin Wrap(Secrets)

TypeOK ==
    /\ auth \in Passwords
    /\ password \in Wrap(Passwords) \cup {None}
    /\ recovery \in Wrap(Phrases) \cup {None}
    /\ passkeys \subseteq Wrap(Credentials)
    /\ workspace \in {"none", "partial", "complete"}
    /\ flow \in [Tabs -> Flow]
    /\ session \in [Tabs -> Keys \cup {None}]
    /\ shown \subseteq Phrases
    /\ suspect \in BOOLEAN
    /\ unseen \in BOOLEAN
    /\ failures \in 0..MaxFailures

Go(t, at, secret, phrase, key) ==
    flow' = [flow EXCEPT ![t] = [at |-> at, secret |-> secret, phrase |-> phrase,
                                 key |-> key, alone |-> FALSE]]

Rest(t) == flow' = [flow EXCEPT ![t] = Idle]

Fails == failures < MaxFailures /\ failures' = failures + 1

\* Any flow that has written nothing may stop: a refused request, a cancelled
\* prompt, a closed tab.
Abandon(t) ==
    /\ flow[t].at \in {"signed in", "setup", "change", "reissue", "register", "remove"}
    /\ Rest(t)
    /\ UNCHANGED <<auth, wraps, workspace, session, shown, history>>

-----------------------------------------------------------------------------
(* Signing in, and the first time setting up                               *)

SignIn(t, p) ==
    /\ flow[t].at = "idle"
    /\ p = auth
    /\ Go(t, "signed in", p, None, None)
    /\ UNCHANGED <<auth, wraps, workspace, session, shown, history>>

\* signInAndUnlock reads the wrap in a second request.  One made for another
\* password does not open, which reads as a wrong password.
OpenWrap(t) ==
    /\ flow[t].at = "signed in"
    /\ password # None
    /\ session' = IF password.secret = flow[t].secret
                  THEN [session EXCEPT ![t] = password.key] ELSE session
    /\ Rest(t)
    /\ UNCHANGED <<auth, wraps, workspace, shown, history>>

Unused(q) ==
    /\ q \notin shown
    /\ recovery # None => recovery.secret # q
    /\ \A t \in Tabs : flow[t].phrase # q

CloakSetupRequired(t, k, q) ==
    /\ flow[t].at = "signed in"
    /\ password = None
    /\ \A u \in Tabs : flow[u].key # k
    /\ Unused(q)
    /\ Go(t, "setup", flow[t].secret, q, k)
    /\ UNCHANGED <<auth, wraps, workspace, session, shown, history>>

\* Mutant: the rows that are there are replaced.
Upserts == TRUE

\* One row of each kind: the indexes refuse a second setup.
NoRowsYet == password = None /\ recovery = None

BothWraps(t) ==
    /\ password' = [secret |-> flow[t].secret, key |-> flow[t].key]
    /\ recovery' = [secret |-> flow[t].phrase, key |-> flow[t].key]

\* initializeCloak writes both wraps in one statement, then the workspace.
InsertWraps(t) ==
    /\ flow[t].at = "setup"
    /\ NoRowsYet
    /\ BothWraps(t)
    /\ \/ flow' = [flow EXCEPT ![t].at = "bootstrap"] /\ UNCHANGED <<unseen, failures>>
       \/ Fails /\ Rest(t) /\ unseen' = TRUE
    /\ UNCHANGED <<auth, passkeys, workspace, session, shown, suspect>>

\* finishUnlock
Unlocks(t) == session' = [session EXCEPT ![t] = flow[t].key]

Bootstrap(t) ==
    /\ flow[t].at = "bootstrap"
    /\ workspace' = "complete"
    /\ Unlocks(t)
    /\ shown' = shown \cup {flow[t].phrase}
    /\ Rest(t)
    /\ UNCHANGED <<auth, wraps, history>>

\* A profile, a workspace, a calendar and its name, one request each: any may be
\* the last, and the phrase is never shown.
BootstrapFails(t) ==
    /\ flow[t].at = "bootstrap"
    /\ Fails
    /\ workspace' \in {"none", "partial", "complete"}
    /\ unseen' = (unseen \/ (recovery # None /\ recovery.secret = flow[t].phrase))
    /\ Rest(t)
    /\ UNCHANGED <<auth, wraps, session, shown, suspect>>

-----------------------------------------------------------------------------
(* Opening the root key.  A resumed session cannot give its bytes, so      *)
(* every flow below begins with a proof and then holds the key across its  *)
(* later requests.                                                         *)

ByPassword == IF password = None THEN {} ELSE {password.key}
ByPhrase == IF recovery # None /\ recovery.secret \in shown THEN {recovery.key} ELSE {}
ByPasskey == {w.key : w \in passkeys}

\* ChangePassword takes the password or the phrase, RecoverForm the phrase or a
\* passkey.
StartChange(t, p) ==
    /\ flow[t].at = "idle"
    /\ \E k \in ByPassword \cup ByPhrase \cup ByPasskey : Go(t, "change", p, None, k)
    /\ UNCHANGED <<auth, wraps, workspace, session, shown, history>>

StartReissue(t, q) ==
    /\ flow[t].at = "idle"
    /\ Unused(q)
    /\ \E k \in ByPassword \cup ByPhrase : Go(t, "reissue", None, q, k)
    /\ UNCHANGED <<auth, wraps, workspace, session, shown, history>>

StartRegister(t, c) ==
    /\ flow[t].at = "idle"
    /\ \E k \in ByPassword \cup ByPhrase : Go(t, "register", c, None, k)
    /\ UNCHANGED <<auth, wraps, workspace, session, shown, history>>

UnlockWith(t) ==
    /\ flow[t].at = "idle"
    /\ \E k \in ByPhrase \cup ByPasskey : session' = [session EXCEPT ![t] = k]
    /\ UNCHANGED <<auth, wraps, workspace, flow, shown, history>>

-----------------------------------------------------------------------------
(* rewrapPasswordWrap: the wrap in Postgres, then the password at GoTrue   *)

Between == {u \in Tabs : flow[u].at = "auth"}

\* Every other change between its writes is no longer alone.
Overlap(t, next) ==
    flow' = [u \in Tabs |-> IF u = t THEN next ELSE [flow[u] EXCEPT !.alone = FALSE]]

Rewrapped(t) == password' = [secret |-> flow[t].secret, key |-> flow[t].key]

Rewrap(t) ==
    /\ flow[t].at = "change"
    /\ password # None
    /\ Rewrapped(t)
    /\ \/ /\ Overlap(t, [flow[t] EXCEPT !.at = "auth", !.alone = (Between = {})])
          /\ UNCHANGED <<suspect, failures>>
       \/ Fails /\ Overlap(t, Idle) /\ suspect' = TRUE
    /\ UNCHANGED <<auth, recovery, passkeys, workspace, session, shown, unseen>>

\* Mutant: the password of the account stays as it was.
AuthKept(t) == UNCHANGED auth

AuthSet(t) == auth' = flow[t].secret

\* The recovery page also unlocks the tab.
UpdateAuth(t) ==
    /\ flow[t].at = "auth"
    /\ AuthSet(t)
    /\ Unlocks(t) \/ UNCHANGED session
    /\ suspect' = ~flow[t].alone
    /\ Rest(t)
    /\ UNCHANGED <<wraps, workspace, shown, unseen, failures>>

\* RewrapHalfAppliedError, whether or not GoTrue had taken the password.
UpdateAuthFails(t) ==
    /\ flow[t].at = "auth"
    /\ Fails
    /\ auth' \in {auth, flow[t].secret}
    /\ suspect' = TRUE
    /\ Rest(t)
    /\ UNCHANGED <<wraps, workspace, session, shown, unseen>>

-----------------------------------------------------------------------------
(* reissueRecoveryPhrase, registerPasskeyWrap, removePasskeyWrap           *)

\* Mutant: the phrase is returned to a page that is no longer there.
NotShown(t) == UNCHANGED shown

ShowPhrase(t) == shown' = shown \cup {flow[t].phrase}

Reissue(t) ==
    /\ flow[t].at = "reissue"
    /\ recovery # None
    /\ recovery' = [secret |-> flow[t].phrase, key |-> flow[t].key]
    /\ \/ ShowPhrase(t) /\ unseen' = FALSE /\ UNCHANGED failures
       \/ Fails /\ unseen' = TRUE /\ UNCHANGED shown
    /\ Rest(t)
    /\ UNCHANGED <<auth, password, passkeys, workspace, session, suspect>>

\* unique (user_id, credential_id)
Register(t) ==
    /\ flow[t].at = "register"
    /\ \A w \in passkeys : w.secret # flow[t].secret
    /\ passkeys' = passkeys \cup {[secret |-> flow[t].secret, key |-> flow[t].key]}
    /\ Rest(t)
    /\ UNCHANGED <<auth, password, recovery, workspace, session, shown, history>>

\* LastWrapError unless another row is there when they are counted.
CountWraps(t, w) ==
    /\ flow[t].at = "idle"
    /\ w \in passkeys
    /\ password # None \/ recovery # None \/ passkeys # {w}
    /\ Go(t, "remove", w.secret, None, None)
    /\ UNCHANGED <<auth, wraps, workspace, session, shown, history>>

DeleteWrap(t) ==
    /\ flow[t].at = "remove"
    /\ passkeys' = {w \in passkeys : w.secret # flow[t].secret}
    /\ Rest(t)
    /\ UNCHANGED <<auth, password, recovery, workspace, session, shown, history>>

-----------------------------------------------------------------------------
Init ==
    /\ auth \in Passwords
    /\ password = None
    /\ recovery = None
    /\ passkeys = {}
    /\ workspace = "none"
    /\ flow = [t \in Tabs |-> Idle]
    /\ session = [t \in Tabs |-> None]
    /\ shown = {}
    /\ suspect = FALSE
    /\ unseen = FALSE
    /\ failures = 0

Setup(t) ==
    \/ \E k \in Keys, q \in Phrases : CloakSetupRequired(t, k, q)
    \/ InsertWraps(t)
    \/ Bootstrap(t)
    \/ BootstrapFails(t)

Open(t) ==
    \/ \E p \in Passwords : SignIn(t, p)
    \/ OpenWrap(t)
    \/ UnlockWith(t)
    \/ \E p \in Passwords : StartChange(t, p)
    \/ \E q \in Phrases : StartReissue(t, q)
    \/ \E c \in Credentials : StartRegister(t, c)

Write(t) ==
    \/ Rewrap(t)
    \/ UpdateAuth(t)
    \/ UpdateAuthFails(t)
    \/ Reissue(t)
    \/ Register(t)
    \/ \E w \in passkeys : CountWraps(t, w)
    \/ DeleteWrap(t)

Next == \E t \in Tabs : Setup(t) \/ Open(t) \/ Write(t) \/ Abandon(t)

Spec == Init /\ [][Next]_vars

-----------------------------------------------------------------------------
(* Properties *)

\* There is one root key, whichever tab made it: every wrap holds it and every
\* unlocked tab works with it, through two setups at once and any number of
\* rewraps with a key opened long before.
OneRootKey ==
    LET held == ByPassword \cup ByPasskey
                  \cup (IF recovery = None THEN {} ELSE {recovery.key})
                  \cup ({session[t] : t \in Tabs} \ {None})
    IN  \A j, k \in held : j = k

\* The password that signs in opens the calendar, unless a change is between its
\* two writes or the last one to end was interrupted or overlapped by another.
\* So a change that runs alone repairs what earlier ones left behind.
OnePassword ==
    ~suspect /\ Between = {} /\ password # None => password.secret = auth

\* The phrase in force is one the owner was shown, unless setup is still about
\* to show it or an answer was lost.
PhraseInHand ==
    recovery # None /\ ~unseen =>
        \/ recovery.secret \in shown
        \/ \E t \in Tabs : flow[t].at = "bootstrap" /\ flow[t].phrase = recovery.secret

=============================================================================
