------------------------ MODULE AccountKeysProofs ------------------------
(***************************************************************************)
(* Whatever the number of tabs, passwords, phrases and passkeys: there is  *)
(* one root key, the password that signs in opens it after a change that   *)
(* ran alone, and the phrase in force was shown.                           *)
(***************************************************************************)
EXTENDS AccountKeys, TLAPS

\* Before setup nothing holds a key but a setup under way.  After it, whatever
\* holds a key holds that of the password wrap.
KeyInv ==
    /\ password = None =>
         /\ recovery = None
         /\ passkeys = {}
         /\ \A t \in Tabs : session[t] = None
         /\ \A t \in Tabs : flow[t].at \in {"idle", "signed in", "setup"}
    /\ password # None =>
         /\ recovery # None => recovery.key = password.key
         /\ \A w \in passkeys : w.key = password.key
         /\ \A t \in Tabs : session[t] # None => session[t] = password.key
         /\ \A t \in Tabs : flow[t].at \in {"bootstrap", "change", "auth", "reissue", "register"}
                              => flow[t].key = password.key

\* Nobody has moved the wrap since a change that is alone wrote it, and before
\* setup nobody can have changed the password that a tab signed in with.
PasswordInv ==
    /\ password = None =>
         \A t \in Tabs : flow[t].at \in {"signed in", "setup"} => flow[t].secret = auth
    /\ \A t \in Tabs : flow[t].at = "auth" /\ flow[t].alone
                         => password.secret = flow[t].secret
    /\ OnePassword

\* What each step of a flow has in hand.
FlowInv ==
    \A t \in Tabs :
        /\ flow[t].at \in {"signed in", "setup", "change", "auth"} => flow[t].secret \in Passwords
        /\ flow[t].at = "register" => flow[t].secret \in Credentials
        /\ flow[t].at \in {"setup", "bootstrap", "reissue"} => flow[t].phrase \in Phrases
        /\ flow[t].at \in {"setup", "bootstrap", "change", "auth", "reissue", "register"}
             => flow[t].key \in Keys

Inv == TypeOK /\ FlowInv /\ KeyInv /\ PasswordInv /\ PhraseInHand

USE AccountAssumption, WrapAssumption

-----------------------------------------------------------------------------

LEMMA IdleInFlow == Idle \in Flow /\ Idle.at = "idle"
  BY DEF Idle, Flow

LEMMA InitInv == Init => Inv
  <1> SUFFICES ASSUME Init PROVE Inv
    OBVIOUS
  <1>1. flow \in [Tabs -> Flow] /\ \A t \in Tabs : flow[t].at = "idle"
    BY IdleInFlow DEF Init
  <1>2. TypeOK
    <2>1. 0 \in 0..MaxFailures
      BY AccountAssumption
    <2>2. session \in [Tabs -> Keys \cup {None}]
      BY DEF Init
    <2>3. auth \in Passwords /\ password = None /\ recovery = None
      BY DEF Init
    <2>4. passkeys \subseteq Wrap(Credentials) /\ shown \subseteq Phrases
      BY DEF Init
    <2>5. QED
      BY <1>1, <2>1, <2>2, <2>3, <2>4 DEF Init, TypeOK
  <1>3. FlowInv
    BY <1>1 DEF FlowInv
  <1>4. KeyInv
    BY <1>1 DEF Init, KeyInv
  <1>5. PasswordInv /\ PhraseInHand
    BY <1>1 DEF Init, PasswordInv, OnePassword, PhraseInHand
  <1>6. QED
    BY <1>2, <1>3, <1>4, <1>5 DEF Inv

LEMMA FailureCounted ==
    ASSUME TypeOK, Fails
    PROVE  failures' \in 0..MaxFailures
  BY DEF TypeOK, Fails

\* The keys that a proof opens are the one key.
LEMMA Opened ==
    ASSUME TypeOK, KeyInv, NEW k \in ByPassword \cup ByPhrase \cup ByPasskey
    PROVE  password # None /\ k = password.key /\ k \in Keys
  BY DEF TypeOK, KeyInv, ByPassword, ByPhrase, ByPasskey, Wrap

\* Steps that only move the flow of one tab, outside the writes of a change.
LEMMA FlowOnly ==
    ASSUME Inv,
           UNCHANGED <<auth, wraps, workspace, session, shown, history>>,
           NEW t \in Tabs, NEW f \in Flow,
           flow' = [flow EXCEPT ![t] = f],
           flow[t].at \notin {"bootstrap", "auth"},
           f.at \in {"idle", "signed in", "setup", "change", "reissue", "register", "remove"},
           password = None => f.at \in {"idle", "signed in", "setup"},
           f.at \in {"signed in", "setup"} => f.secret \in Passwords,
           password = None /\ f.at \in {"signed in", "setup"} => f.secret = auth,
           f.at = "change" => f.secret \in Passwords,
           f.at = "register" => f.secret \in Credentials,
           f.at \in {"setup", "reissue"} => f.phrase \in Phrases,
           f.at \in {"setup", "change", "reissue", "register"} => f.key \in Keys,
           f.at \in {"change", "reissue", "register"} => f.key = password.key
    PROVE  Inv'
  <1> USE DEF Inv, TypeOK, wraps, history
  <1>1. flow' \in [Tabs -> Flow] /\ flow'[t] = f /\ \A u \in Tabs \ {t} : flow'[u] = flow[u]
    OBVIOUS
  <1>2. TypeOK'
    BY <1>1
  <1>3. FlowInv'
    BY <1>1 DEF FlowInv
  <1>4. KeyInv'
    BY <1>1 DEF KeyInv
  <1>5. PasswordInv'
    <2>1. Between' = Between
      BY <1>1 DEF Between
    <2>2. QED
      BY <1>1, <2>1 DEF PasswordInv, OnePassword
  <1>6. PhraseInHand'
    BY <1>1 DEF PhraseInHand
  <1>7. QED
    BY <1>2, <1>3, <1>4, <1>5, <1>6

\* What Go leaves in a tab.
LEMMA Went ==
    ASSUME TypeOK, NEW t \in Tabs,
           NEW at \in {"idle", "signed in", "setup", "bootstrap", "change", "auth",
                       "reissue", "register", "remove"},
           NEW secret \in Secrets \cup {None}, NEW phrase \in Phrases \cup {None},
           NEW key \in Keys \cup {None}
    PROVE  [at |-> at, secret |-> secret, phrase |-> phrase, key |-> key, alone |-> FALSE] \in Flow
  BY DEF Flow

-----------------------------------------------------------------------------
(* One lemma for each group of actions *)

LEMMA SetupStep == ASSUME Inv, NEW t \in Tabs, Setup(t) PROVE Inv'
  <1> USE DEF Inv
  <1>1. ASSUME NEW k \in Keys, NEW q \in Phrases, CloakSetupRequired(t, k, q) PROVE Inv'
    <2> DEFINE f == [at |-> "setup", secret |-> flow[t].secret, phrase |-> q, key |-> k,
                     alone |-> FALSE]
    <2>1. /\ flow' = [flow EXCEPT ![t] = f] /\ flow[t].at = "signed in" /\ password = None
          /\ UNCHANGED <<auth, wraps, workspace, session, shown, history>>
      BY <1>1 DEF CloakSetupRequired, Go
    <2>2. flow[t].secret \in Passwords /\ flow[t].secret = auth
      BY <2>1 DEF FlowInv, PasswordInv
    <2>3. f \in Flow
      BY <2>2, Went DEF Secrets
    <2>4. f.at = "setup" /\ f.secret = flow[t].secret /\ f.phrase = q /\ f.key = k
      OBVIOUS
    <2> HIDE DEF f
    <2>5. QED
      BY <2>1, <2>2, <2>3, <2>4, FlowOnly
  <1>2. CASE InsertWraps(t)
    <2>1. /\ flow[t].at = "setup" /\ password = None /\ recovery = None
          /\ flow[t].secret \in Passwords /\ flow[t].secret = auth
          /\ flow[t].phrase \in Phrases /\ flow[t].key \in Keys
          /\ UNCHANGED <<auth, passkeys, workspace, session, shown, suspect>>
      BY <1>2 DEF InsertWraps, NoRowsYet, FlowInv, PasswordInv
    <2>2. /\ password' = [secret |-> flow[t].secret, key |-> flow[t].key]
          /\ recovery' = [secret |-> flow[t].phrase, key |-> flow[t].key]
          /\ password' \in Wrap(Passwords) /\ recovery' \in Wrap(Phrases)
          /\ password' # None /\ recovery' # None
      BY <1>2, <2>1 DEF InsertWraps, BothWraps, Wrap, Secrets
    <2>3. /\ flow' \in [Tabs -> Flow]
          /\ \A u \in Tabs \ {t} : flow'[u] = flow[u]
          /\ \/ /\ flow'[t] = [flow[t] EXCEPT !.at = "bootstrap"]
                /\ UNCHANGED <<unseen, failures>>
             \/ /\ flow'[t] = Idle /\ unseen' = TRUE /\ failures' \in 0..MaxFailures
      <3>1. CASE flow' = [flow EXCEPT ![t].at = "bootstrap"] /\ UNCHANGED <<unseen, failures>>
        <4>1. flow \in [Tabs -> Flow] BY DEF TypeOK
        <4>2. [flow[t] EXCEPT !.at = "bootstrap"] \in Flow
          BY <4>1 DEF Flow
        <4>3. QED
          BY <3>1, <4>1, <4>2
      <3>2. CASE Fails /\ Rest(t) /\ unseen' = TRUE
        <4>1. flow' = [flow EXCEPT ![t] = Idle] /\ flow \in [Tabs -> Flow]
          BY <3>2 DEF Rest, TypeOK
        <4>2. failures' \in 0..MaxFailures
          BY <3>2, FailureCounted
        <4>3. QED
          BY <4>1, <4>2, <3>2, IdleInFlow
      <3>3. QED
        BY <1>2, <3>1, <3>2 DEF InsertWraps
    <2>4. \A u \in Tabs : flow[u].at \in {"idle", "signed in", "setup"} /\ session[u] = None
      BY <2>1 DEF KeyInv
    <2>5. passkeys = {}
      BY <2>1 DEF KeyInv
    <2>6. \/ flow'[t].at = "bootstrap" /\ flow'[t].phrase = flow[t].phrase /\ flow'[t].key = flow[t].key
          \/ flow'[t].at = "idle" /\ unseen' = TRUE
      <3>1. flow[t] \in Flow
        BY DEF TypeOK
      <3>2. QED
        BY <2>3, <3>1, IdleInFlow DEF Flow
    <2>7. TypeOK'
      BY <2>1, <2>2, <2>3 DEF TypeOK
    <2>8. FlowInv'
      BY <2>1, <2>3, <2>6 DEF FlowInv
    <2>9. KeyInv'
      BY <2>1, <2>2, <2>3, <2>4, <2>5, <2>6 DEF KeyInv
    <2>10. PasswordInv'
      BY <2>1, <2>2, <2>3, <2>4, <2>6 DEF PasswordInv, OnePassword
    <2>11. PhraseInHand'
      BY <2>2, <2>6 DEF PhraseInHand
    <2>12. QED
      BY <2>7, <2>8, <2>9, <2>10, <2>11
  <1>3. CASE Bootstrap(t) \/ BootstrapFails(t)
    <2>1. /\ flow[t].at = "bootstrap" /\ flow[t].phrase \in Phrases /\ flow[t].key \in Keys
          /\ password # None /\ flow[t].key = password.key
          /\ UNCHANGED <<auth, wraps, suspect>>
      BY <1>3 DEF Bootstrap, BootstrapFails, FlowInv, KeyInv, history, wraps
    <2>2. /\ flow' \in [Tabs -> Flow] /\ flow'[t] = Idle
          /\ \A u \in Tabs \ {t} : flow'[u] = flow[u]
      BY <1>3, IdleInFlow DEF Bootstrap, BootstrapFails, Rest, TypeOK
    <2>3. /\ session' \in [Tabs -> Keys \cup {None}]
          /\ \A u \in Tabs : session'[u] \in {session[u], password.key}
          /\ workspace' \in {"none", "partial", "complete"}
          /\ shown' \subseteq Phrases /\ shown \subseteq shown'
          /\ unseen' \in BOOLEAN /\ failures' \in 0..MaxFailures
      <3>1. CASE Bootstrap(t)
        BY <3>1, <2>1 DEF Bootstrap, Unlocks, TypeOK, history
      <3>2. CASE BootstrapFails(t)
        BY <3>2, FailureCounted DEF BootstrapFails, TypeOK
      <3>3. QED
        BY <1>3, <3>1, <3>2
    <2>4. recovery # None /\ recovery.secret = flow[t].phrase
            => unseen' \/ flow[t].phrase \in shown'
      BY <1>3 DEF Bootstrap, BootstrapFails
    <2>5. unseen => unseen'
      BY <1>3 DEF Bootstrap, BootstrapFails, history
    <2>6. Between' = Between
      BY <2>1, <2>2, IdleInFlow DEF Between
    <2>7. TypeOK'
      BY <2>1, <2>2, <2>3 DEF TypeOK, wraps
    <2>8. FlowInv'
      BY <2>2, IdleInFlow DEF FlowInv
    <2>9. KeyInv'
      BY <2>1, <2>2, <2>3, IdleInFlow DEF KeyInv, wraps
    <2>10. PasswordInv'
      BY <2>1, <2>2, <2>6, IdleInFlow DEF PasswordInv, OnePassword, wraps
    <2>11. PhraseInHand'
      <3>1. SUFFICES ASSUME recovery # None, ~unseen', recovery.secret \notin shown'
                     PROVE  \E u \in Tabs : flow'[u].at = "bootstrap" /\ flow'[u].phrase = recovery.secret
        BY <2>1 DEF PhraseInHand, wraps
      <3>2. PICK u \in Tabs : flow[u].at = "bootstrap" /\ flow[u].phrase = recovery.secret
        BY <3>1, <2>3, <2>5 DEF PhraseInHand
      <3>3. u # t
        BY <3>1, <3>2, <2>4
      <3>4. QED
        BY <3>2, <3>3, <2>2
    <2>12. QED
      BY <2>7, <2>8, <2>9, <2>10, <2>11
  <1>4. QED
    BY <1>1, <1>2, <1>3 DEF Setup

LEMMA StartStep ==
    ASSUME Inv, NEW t \in Tabs,
           \/ Open(t)
           \/ \E w \in passkeys : CountWraps(t, w)
           \/ Abandon(t)
    PROVE  Inv'
  <1> USE DEF Inv
  <1>1. ASSUME NEW p \in Passwords, SignIn(t, p) PROVE Inv'
    <2> DEFINE f == [at |-> "signed in", secret |-> p, phrase |-> None, key |-> None,
                     alone |-> FALSE]
    <2>1. /\ flow' = [flow EXCEPT ![t] = f] /\ flow[t].at = "idle" /\ p = auth
          /\ UNCHANGED <<auth, wraps, workspace, session, shown, history>>
      BY <1>1 DEF SignIn, Go
    <2>2. f \in Flow /\ f.at = "signed in" /\ f.secret = p
      BY Went DEF Secrets
    <2> HIDE DEF f
    <2>3. QED
      BY <2>1, <2>2, FlowOnly
  <1>2. CASE OpenWrap(t)
    <2>1. /\ password # None /\ flow[t].at = "signed in"
          /\ flow' = [flow EXCEPT ![t] = Idle]
          /\ UNCHANGED <<auth, wraps, workspace, shown, history>>
      BY <1>2 DEF OpenWrap, Rest
    <2>2. password.key \in Keys
      BY <2>1 DEF TypeOK, Wrap
    <2>3. /\ session' \in [Tabs -> Keys \cup {None}]
          /\ \A u \in Tabs : session'[u] \in {session[u], password.key}
      BY <1>2, <2>2 DEF OpenWrap, TypeOK
    <2>4. /\ flow' \in [Tabs -> Flow] /\ flow'[t] = Idle
          /\ \A u \in Tabs \ {t} : flow'[u] = flow[u]
      BY <2>1, IdleInFlow DEF TypeOK
    <2>5. Between' = Between
      BY <2>1, <2>4, IdleInFlow DEF Between
    <2>6. TypeOK'
      BY <2>1, <2>3, <2>4 DEF TypeOK, wraps, history
    <2>7. FlowInv' /\ KeyInv'
      BY <2>1, <2>3, <2>4, IdleInFlow DEF FlowInv, KeyInv, wraps
    <2>8. PasswordInv'
      BY <2>1, <2>4, <2>5, IdleInFlow DEF PasswordInv, OnePassword, wraps, history
    <2>9. PhraseInHand'
      BY <2>1, <2>4 DEF PhraseInHand, wraps, history
    <2>10. QED
      BY <2>6, <2>7, <2>8, <2>9
  <1>3. CASE UnlockWith(t)
    <2>1. PICK k \in ByPhrase \cup ByPasskey : session' = [session EXCEPT ![t] = k]
      BY <1>3 DEF UnlockWith
    <2>2. UNCHANGED <<auth, wraps, workspace, flow, shown, history>>
      BY <1>3 DEF UnlockWith
    <2>3. password # None /\ k = password.key /\ k \in Keys
      BY Opened
    <2>4. /\ session' \in [Tabs -> Keys \cup {None}]
          /\ \A u \in Tabs : session'[u] \in {session[u], password.key}
      BY <2>1, <2>3 DEF TypeOK
    <2>5. TypeOK'
      BY <2>2, <2>4 DEF TypeOK, wraps, history
    <2>6. FlowInv' /\ KeyInv'
      BY <2>2, <2>3, <2>4 DEF FlowInv, KeyInv, wraps
    <2>7. PasswordInv' /\ PhraseInHand'
      BY <2>2 DEF PasswordInv, OnePassword, PhraseInHand, Between, wraps, history
    <2>8. QED
      BY <2>5, <2>6, <2>7
  <1>4. ASSUME NEW p \in Passwords, StartChange(t, p) PROVE Inv'
    <2>1. PICK k \in ByPassword \cup ByPhrase \cup ByPasskey : Go(t, "change", p, None, k)
      BY <1>4 DEF StartChange
    <2> DEFINE f == [at |-> "change", secret |-> p, phrase |-> None, key |-> k, alone |-> FALSE]
    <2>2. /\ flow' = [flow EXCEPT ![t] = f] /\ flow[t].at = "idle"
          /\ UNCHANGED <<auth, wraps, workspace, session, shown, history>>
      BY <1>4, <2>1 DEF StartChange, Go
    <2>3. password # None /\ k = password.key /\ k \in Keys
      BY Opened
    <2>4. f \in Flow /\ f.at = "change" /\ f.secret = p /\ f.key = k
      BY <2>3, Went DEF Secrets
    <2> HIDE DEF f
    <2>5. QED
      BY <2>2, <2>3, <2>4, FlowOnly
  <1>5. ASSUME NEW q \in Phrases, StartReissue(t, q) PROVE Inv'
    <2>1. PICK k \in ByPassword \cup ByPhrase : Go(t, "reissue", None, q, k)
      BY <1>5 DEF StartReissue
    <2> DEFINE f == [at |-> "reissue", secret |-> None, phrase |-> q, key |-> k, alone |-> FALSE]
    <2>2. /\ flow' = [flow EXCEPT ![t] = f] /\ flow[t].at = "idle"
          /\ UNCHANGED <<auth, wraps, workspace, session, shown, history>>
      BY <1>5, <2>1 DEF StartReissue, Go
    <2>3. password # None /\ k = password.key /\ k \in Keys
      BY Opened
    <2>4. f \in Flow /\ f.at = "reissue" /\ f.phrase = q /\ f.key = k
      BY <2>3, Went
    <2> HIDE DEF f
    <2>5. QED
      BY <2>2, <2>3, <2>4, FlowOnly
  <1>6. ASSUME NEW c \in Credentials, StartRegister(t, c) PROVE Inv'
    <2>1. PICK k \in ByPassword \cup ByPhrase : Go(t, "register", c, None, k)
      BY <1>6 DEF StartRegister
    <2> DEFINE f == [at |-> "register", secret |-> c, phrase |-> None, key |-> k, alone |-> FALSE]
    <2>2. /\ flow' = [flow EXCEPT ![t] = f] /\ flow[t].at = "idle"
          /\ UNCHANGED <<auth, wraps, workspace, session, shown, history>>
      BY <1>6, <2>1 DEF StartRegister, Go
    <2>3. password # None /\ k = password.key /\ k \in Keys
      BY Opened
    <2>4. f \in Flow /\ f.at = "register" /\ f.secret = c /\ f.key = k
      BY <2>3, Went DEF Secrets
    <2> HIDE DEF f
    <2>5. QED
      BY <2>2, <2>3, <2>4, FlowOnly
  <1>7. ASSUME NEW w \in passkeys, CountWraps(t, w) PROVE Inv'
    <2> DEFINE f == [at |-> "remove", secret |-> w.secret, phrase |-> None, key |-> None,
                     alone |-> FALSE]
    <2>1. /\ flow' = [flow EXCEPT ![t] = f] /\ flow[t].at = "idle"
          /\ UNCHANGED <<auth, wraps, workspace, session, shown, history>>
      BY <1>7 DEF CountWraps, Go
    <2>2. w.secret \in Secrets /\ password # None
      BY DEF TypeOK, Wrap, Secrets, KeyInv
    <2>3. f \in Flow /\ f.at = "remove"
      BY <2>2, Went
    <2> HIDE DEF f
    <2>4. QED
      BY <2>1, <2>2, <2>3, FlowOnly
  <1>8. CASE Abandon(t)
    BY <1>8, IdleInFlow, FlowOnly DEF Abandon, Rest
  <1>9. QED
    BY <1>1, <1>2, <1>3, <1>4, <1>5, <1>6, <1>7, <1>8 DEF Open

\* A wrap that the key in hand is written to.
LEMMA InHand ==
    ASSUME Inv, NEW t \in Tabs,
           flow[t].at \in {"change", "auth", "reissue", "register"}
    PROVE  password # None /\ flow[t].key = password.key /\ flow[t].key \in Keys
  BY DEF Inv, KeyInv, FlowInv

LEMMA RewrapStep == ASSUME Inv, NEW t \in Tabs, Rewrap(t) PROVE Inv'
  <1> USE DEF Inv
  <1>1. /\ flow[t].at = "change" /\ password # None
        /\ flow[t].key = password.key /\ flow[t].key \in Keys /\ flow[t].secret \in Passwords
        /\ UNCHANGED <<auth, recovery, passkeys, workspace, session, shown, unseen>>
    BY InHand DEF Rewrap, FlowInv
  <1>2. /\ password' = [secret |-> flow[t].secret, key |-> flow[t].key]
        /\ password' \in Wrap(Passwords) /\ password' # None /\ password'.key = password.key
        /\ password'.secret = flow[t].secret
    BY <1>1 DEF Rewrap, Rewrapped, Wrap, Secrets
  <1>3. /\ flow' \in [Tabs -> Flow]
        /\ \A u \in Tabs \ {t} :
             /\ flow'[u].at = flow[u].at /\ flow'[u].secret = flow[u].secret
             /\ flow'[u].phrase = flow[u].phrase /\ flow'[u].key = flow[u].key
             /\ flow'[u].alone = FALSE
        /\ \/ /\ flow'[t].at = "auth" /\ flow'[t].secret = flow[t].secret
              /\ flow'[t].key = flow[t].key
              /\ UNCHANGED <<suspect, failures>>
           \/ /\ flow'[t].at = "idle" /\ suspect' = TRUE /\ failures' \in 0..MaxFailures
    <2>1. \A u \in Tabs : flow[u] \in Flow
      BY DEF TypeOK
    <2>2. \A u \in Tabs :
            LET f == [flow[u] EXCEPT !.alone = FALSE]
            IN  /\ f \in Flow /\ f.at = flow[u].at /\ f.secret = flow[u].secret
                /\ f.phrase = flow[u].phrase /\ f.key = flow[u].key /\ f.alone = FALSE
      BY <2>1 DEF Flow
    <2>3. CASE /\ Overlap(t, [flow[t] EXCEPT !.at = "auth", !.alone = (Between = {})])
               /\ UNCHANGED <<suspect, failures>>
      <3> DEFINE f == [flow[t] EXCEPT !.at = "auth", !.alone = (Between = {})]
      <3>1. f \in Flow /\ f.at = "auth" /\ f.secret = flow[t].secret /\ f.key = flow[t].key
        BY <2>1 DEF Flow
      <3> HIDE DEF f
      <3>2. flow' = [u \in Tabs |-> IF u = t THEN f ELSE [flow[u] EXCEPT !.alone = FALSE]]
        BY <2>3 DEF Overlap, f
      <3>3. QED
        BY <2>2, <2>3, <3>1, <3>2
    <2>4. CASE Fails /\ Overlap(t, Idle) /\ suspect' = TRUE
      <3>1. flow' = [u \in Tabs |-> IF u = t THEN Idle ELSE [flow[u] EXCEPT !.alone = FALSE]]
        BY <2>4 DEF Overlap
      <3>2. QED
        BY <2>2, <2>4, <3>1, IdleInFlow, FailureCounted
    <2>5. QED
      BY <2>3, <2>4 DEF Rewrap
  <1>4. TypeOK'
    BY <1>1, <1>2, <1>3 DEF TypeOK
  <1>5. FlowInv'
    BY <1>1, <1>3 DEF FlowInv
  <1>6. KeyInv'
    BY <1>1, <1>2, <1>3 DEF KeyInv
  <1>7. PasswordInv'
    <2>1. flow'[t].at = "auth" => t \in Between'
      BY DEF Between
    <2>2. OnePassword'
      BY <1>3, <2>1 DEF OnePassword
    <2>3. QED
      BY <1>2, <1>3, <2>2 DEF PasswordInv
  <1>8. PhraseInHand'
    BY <1>1, <1>3 DEF PhraseInHand
  <1>9. QED
    BY <1>4, <1>5, <1>6, <1>7, <1>8

LEMMA AuthStep ==
    ASSUME Inv, NEW t \in Tabs, UpdateAuth(t) \/ UpdateAuthFails(t)
    PROVE  Inv'
  <1> USE DEF Inv
  <1>1. /\ flow[t].at = "auth" /\ password # None
        /\ flow[t].key = password.key /\ flow[t].key \in Keys /\ flow[t].secret \in Passwords
        /\ UNCHANGED <<wraps, workspace, shown, unseen>>
    BY InHand DEF UpdateAuth, UpdateAuthFails, FlowInv
  <1>2. /\ flow' \in [Tabs -> Flow] /\ flow'[t] = Idle
        /\ \A u \in Tabs \ {t} : flow'[u] = flow[u]
    BY IdleInFlow DEF UpdateAuth, UpdateAuthFails, Rest, TypeOK
  <1>3. /\ auth' \in Passwords
        /\ session' \in [Tabs -> Keys \cup {None}]
        /\ \A u \in Tabs : session'[u] \in {session[u], password.key}
        /\ suspect' \in BOOLEAN
        /\ failures' \in 0..MaxFailures
    <2>1. CASE UpdateAuth(t)
      <3>1. flow[t].alone \in BOOLEAN
        BY DEF TypeOK, Flow
      <3>2. QED
        BY <1>1, <2>1, <3>1 DEF UpdateAuth, AuthSet, Unlocks, TypeOK
    <2>2. CASE UpdateAuthFails(t)
      BY <1>1, <2>2, FailureCounted DEF UpdateAuthFails, TypeOK
    <2>3. QED
      BY <2>1, <2>2
  <1>4. suspect' \/ auth' = password.secret
    BY <1>1 DEF UpdateAuth, UpdateAuthFails, AuthSet, PasswordInv
  <1>5. TypeOK'
    BY <1>1, <1>2, <1>3 DEF TypeOK, wraps
  <1>6. FlowInv'
    BY <1>2, IdleInFlow DEF FlowInv
  <1>7. KeyInv'
    BY <1>1, <1>2, <1>3, IdleInFlow DEF KeyInv, wraps
  <1>8. PasswordInv'
    BY <1>1, <1>2, <1>4, IdleInFlow DEF PasswordInv, OnePassword, wraps
  <1>9. PhraseInHand'
    BY <1>1, <1>2 DEF PhraseInHand, wraps
  <1>10. QED
    BY <1>5, <1>6, <1>7, <1>8, <1>9

LEMMA RowStep ==
    ASSUME Inv, NEW t \in Tabs, Reissue(t) \/ Register(t) \/ DeleteWrap(t)
    PROVE  Inv'
  <1> USE DEF Inv
  <1>1. /\ flow[t].at \in {"reissue", "register", "remove"} /\ password # None
        /\ UNCHANGED <<auth, password, workspace, session, suspect>>
    BY DEF Reissue, Register, DeleteWrap, KeyInv, history
  <1>2. /\ flow' \in [Tabs -> Flow] /\ flow'[t] = Idle
        /\ \A u \in Tabs \ {t} : flow'[u] = flow[u]
    BY IdleInFlow DEF Reissue, Register, DeleteWrap, Rest, TypeOK
  <1>3. /\ passkeys' \subseteq Wrap(Credentials)
        /\ \A w \in passkeys' : w.key = password.key
    <2>1. CASE Register(t)
      <3>1. /\ flow[t].secret \in Credentials /\ flow[t].key \in Keys
            /\ flow[t].key = password.key
        BY <2>1, InHand DEF Register, FlowInv
      <3>2. [secret |-> flow[t].secret, key |-> flow[t].key] \in Wrap(Credentials)
        BY <3>1 DEF Wrap
      <3>3. passkeys' = passkeys \cup {[secret |-> flow[t].secret, key |-> flow[t].key]}
        BY <2>1 DEF Register
      <3>4. passkeys \subseteq Wrap(Credentials) /\ \A w \in passkeys : w.key = password.key
        BY <1>1 DEF TypeOK, KeyInv
      <3>5. QED
        BY <3>1, <3>2, <3>3, <3>4
    <2>2. CASE Reissue(t) \/ DeleteWrap(t)
      BY <1>1, <2>2 DEF Reissue, DeleteWrap, TypeOK, KeyInv
    <2>3. QED
      BY <2>1, <2>2
  <1>4. /\ shown' \subseteq Phrases /\ shown \subseteq shown'
        /\ unseen' \in BOOLEAN /\ failures' \in 0..MaxFailures
        /\ \/ recovery' = recovery /\ unseen' = unseen
           \/ /\ recovery' \in Wrap(Phrases) /\ recovery' # None /\ recovery'.key = password.key
              /\ unseen' \/ recovery'.secret \in shown'
    <2>1. CASE Reissue(t)
      <3>1. /\ flow[t].phrase \in Phrases /\ flow[t].key \in Keys
            /\ flow[t].key = password.key
        BY <2>1, InHand DEF Reissue, FlowInv
      <3>2. [secret |-> flow[t].phrase, key |-> flow[t].key] \in Wrap(Phrases)
        BY <3>1 DEF Wrap
      <3>3. /\ recovery' \in Wrap(Phrases) /\ recovery' # None
            /\ recovery'.key = password.key /\ recovery'.secret = flow[t].phrase
        BY <2>1, <3>1, <3>2 DEF Reissue, Wrap, Secrets
      <3>4. \/ shown' = shown \cup {flow[t].phrase} /\ unseen' = FALSE /\ UNCHANGED failures
            \/ Fails /\ unseen' = TRUE /\ UNCHANGED shown
        BY <2>1 DEF Reissue, ShowPhrase
      <3>5. QED
        BY <3>1, <3>3, <3>4, FailureCounted DEF TypeOK
    <2>2. CASE Register(t) \/ DeleteWrap(t)
      BY <2>2 DEF Register, DeleteWrap, TypeOK, history
    <2>3. QED
      BY <2>1, <2>2
  <1>5. Between' = Between
    BY <1>1, <1>2, IdleInFlow DEF Between
  <1>6. TypeOK'
    BY <1>1, <1>2, <1>3, <1>4 DEF TypeOK
  <1>7. FlowInv'
    BY <1>2, IdleInFlow DEF FlowInv
  <1>8. KeyInv'
    BY <1>1, <1>2, <1>3, <1>4, IdleInFlow DEF KeyInv
  <1>9. PasswordInv'
    BY <1>1, <1>2, <1>5, IdleInFlow DEF PasswordInv, OnePassword
  <1>10. PhraseInHand'
    BY <1>1, <1>2, <1>4 DEF PhraseInHand
  <1>11. QED
    BY <1>6, <1>7, <1>8, <1>9, <1>10

-----------------------------------------------------------------------------

LEMMA Preserved == Inv /\ [Next]_vars => Inv'
  <1> SUFFICES ASSUME Inv, [Next]_vars PROVE Inv'
    OBVIOUS
  <1>1. CASE UNCHANGED vars
    BY <1>1 DEF vars, wraps, history, Inv, TypeOK, FlowInv, KeyInv, PasswordInv,
                OnePassword, PhraseInHand, Between
  <1>2. ASSUME NEW t \in Tabs, Setup(t) \/ Open(t) \/ Write(t) \/ Abandon(t) PROVE Inv'
    BY <1>2, SetupStep, StartStep, RewrapStep, AuthStep, RowStep DEF Write
  <1>3. QED
    BY <1>1, <1>2 DEF Next

LEMMA Always == Spec => []Inv
  BY InitInv, Preserved, PTL DEF Spec

\* Every variable stays within its type: a row of a kind is opened by a secret of
\* that kind, and a session holds a root key or nothing.
THEOREM TypeCorrect == Spec => []TypeOK
  <1>1. Inv => TypeOK
    BY DEF Inv
  <1>2. QED
    BY <1>1, Always, PTL

\* Through two setups at once and any number of changes with keys opened long
\* before, all wraps and all unlocked tabs hold one root key.
THEOREM RootKeyIsOne == Spec => []OneRootKey
  <1>1. Inv => OneRootKey
    <2> SUFFICES ASSUME Inv PROVE OneRootKey
      OBVIOUS
    <2> DEFINE held == ByPassword \cup ByPasskey
                         \cup (IF recovery = None THEN {} ELSE {recovery.key})
                         \cup ({session[t] : t \in Tabs} \ {None})
    <2>1. CASE password = None
      <3>1. held = {}
        BY <2>1 DEF Inv, KeyInv, ByPassword, ByPasskey
      <3>2. QED
        BY <3>1 DEF OneRootKey
    <2>2. CASE password # None
      <3>1. \A k \in held : k = password.key
        BY <2>2 DEF Inv, KeyInv, ByPassword, ByPasskey
      <3> HIDE DEF held
      <3>2. \A j, k \in held : j = k
        BY <3>1
      <3>3. QED
        BY <3>2 DEF OneRootKey, held
    <2>3. QED
      BY <2>1, <2>2
  <1>2. QED
    BY <1>1, Always, PTL

\* The password that signs in opens the calendar, unless a change is between its
\* two writes or the last one to end was interrupted or overlapped.
THEOREM SignInOpens == Spec => []OnePassword
  <1>1. Inv => OnePassword
    BY DEF Inv, PasswordInv
  <1>2. QED
    BY <1>1, Always, PTL

\* The phrase in force was shown to the owner, but for a setup about to show it
\* and an answer that was lost.
THEOREM PhraseWasShown == Spec => []PhraseInHand
  <1>1. Inv => PhraseInHand
    BY DEF Inv
  <1>2. QED
    BY <1>1, Always, PTL

=============================================================================
