-------------------------------- MODULE Session --------------------------------
(***************************************************************************)
(* One browser and whoever signs in on it.  GoTrue's session is a cookie   *)
(* every tab shares, the key vault is an IndexedDB every tab shares, and   *)
(* each tab holds a page that was rendered for whoever was signed in when  *)
(* it was asked for.  Signing in, unlocking, recovering, opening a link    *)
(* from an email and signing out are each a chain of requests, and between *)
(* any two another tab may have changed who is signed in.                  *)
(*                                                                         *)
(* A root key is named by the account it belongs to.                       *)
(***************************************************************************)
EXTENDS Naturals

CONSTANTS
    Users,
    Tabs,
    Fresh,      \* accounts confirmed by email and not set up yet
    None

ASSUME SessionAssumption == Fresh \subseteq Users /\ None \notin Users

VARIABLES
    session,    \* the cookie: the account GoTrue takes this browser for
    vault,      \* IndexedDB: the key filed under each account
    storage,    \* whether IndexedDB can be used at all
    password,   \* root_key_wraps: the key inside each account's password wrap
    tab,        \* the page of each tab, and what it is doing
    switched,   \* history: an account replaced another while a key was in hand
    out         \* history: how the last sign-out went

vars == <<session, vault, storage, password, tab, switched, out>>

Someone == Users \cup {None}

\* In these steps a tab waits for the person,
Waiting == {"still", "open", "panel", "reset", "phrase"}

\* in these for an answer, and may file a key yet,
InHand == {"wrap", "setup", "ceremony", "proved", "who", "rewrap", "auth", "filing"}

Steps == Waiting \cup InHand \cup {"resuming", "recalling", "leaving"}

\* `for` is who the page was rendered for, `user` the account the flow was told,
\* `key` the root key it holds (while `open`, the key the content is opened with).
Tab == [page : {"calendar", "sign-in", "recover"}, at : Steps,
        for : Someone, user : Someone, key : Someone]

TypeOK ==
    /\ session \in Someone
    /\ vault \in [Users -> Someone]
    /\ storage \in BOOLEAN
    /\ password \in [Users -> Someone]
    /\ tab \in [Tabs -> Tab]
    /\ switched \in BOOLEAN
    /\ out \in {"none", "alone", "crossed"}

-----------------------------------------------------------------------------
(* Where the middleware lets a request go                                  *)

PUBLIC_PATHS == {"/", "/sign-in", "/recover"}
SIGNED_IN_ELSEWHERE == {"/sign-in"}

guardFor(path, signedIn) ==
    CASE ~signedIn /\ path \notin PUBLIC_PATHS -> "to-sign-in"
      [] signedIn /\ path \in SIGNED_IN_ELSEWHERE -> "to-home"
      [] OTHER -> "allow"

\* The page a request for `path` ends on while `u` is signed in.  Home and the
\* settings carry the provider, and home without an account is the landing page.
Rendered(path, u) ==
    LET signedIn == u # None
        page == CASE guardFor(path, signedIn) = "to-sign-in" -> "sign-in"
                  [] guardFor(path, signedIn) = "to-home" -> "calendar"
                  [] path = "/sign-in" -> "sign-in"
                  [] path = "/recover" -> "recover"
                  [] OTHER -> "calendar"
    IN [page |-> page,
        at |-> IF page = "calendar" /\ signedIn THEN "resuming"
               ELSE IF page = "recover" /\ signedIn THEN "reset" ELSE "still",
        for |-> IF page = "calendar" THEN u ELSE None,
        user |-> None, key |-> None]

Home == Rendered("/", session)

-----------------------------------------------------------------------------
(* What the histories watch                                                *)

\* A flow that may still file a key.
UnderWay(o) == tab[o].at \in InHand \/ (tab[o].at = "leaving" /\ tab[o].key # None)

Busy(t) == \E o \in Tabs \ {t} : UnderWay(o)

Leaving == \E o \in Tabs : tab[o].at = "leaving"

\* Account `u` takes the browser over by an act of tab t.
Becomes(t, u) ==
    /\ session' = u
    /\ switched' = (switched \/ (u # session /\ Busy(t)))
    /\ out' = IF Leaving THEN "crossed" ELSE "none"

\* A flow begins that will file a key.
Begins == out' = IF Leaving THEN "crossed" ELSE out

Goes(t, at) == tab' = [tab EXCEPT ![t].at = at]

\* Mutant: an error leaves the form at work.
StillAtWork(t) == tab[t]

\* An error: the form is there again.
Form(t) == [tab[t] EXCEPT !.user = None, !.key = None,
              !.at = CASE tab[t].page = "calendar" -> "panel"
                       [] tab[t].page = "recover" -> "reset"
                       [] OTHER -> "still"]

Fails(t) == tab' = [tab EXCEPT ![t] = Form(t)]

-----------------------------------------------------------------------------
(* Loading a page.  Leaving one in the middle of a flow is the flow's      *)
(* failing, then the load.                                                 *)

Open(t, path) ==
    /\ tab[t].at \in Waiting
    /\ tab' = [tab EXCEPT ![t] = Rendered(path, session)]
    /\ UNCHANGED <<session, vault, storage, password, switched, out>>

\* resumeSession: getUser, then the vault.  Either may fail, which reads as
\* having no key here.
AskUser(t) ==
    /\ tab[t].at = "resuming"
    /\ \/ /\ session # None
          /\ tab' = [tab EXCEPT ![t].at = "recalling", ![t].user = session]
       \/ tab' = [tab EXCEPT ![t].at = "panel"]
    /\ UNCHANGED <<session, vault, storage, password, switched, out>>

recallSessionKey(u) == IF storage THEN vault[u] ELSE None

Recall(t) ==
    /\ tab[t].at = "recalling"
    /\ LET key == recallSessionKey(tab[t].user)
       IN tab' = [tab EXCEPT ![t].at = IF key = None THEN "panel" ELSE "open",
                             ![t].user = None, ![t].key = key]
    /\ UNCHANGED <<session, vault, storage, password, switched, out>>

\* /auth/callback and the link of /recover exchange a code for a session.  A
\* dead link, or one opened in another browser, ends on the sign-in page.
Link(t, u, path) ==
    /\ tab[t].at \in Waiting
    /\ \/ /\ Becomes(t, u)
          /\ tab' = [tab EXCEPT ![t] = Rendered(path, u)]
       \/ /\ tab' = [tab EXCEPT ![t] = Rendered("/sign-in", session)]
          /\ UNCHANGED <<session, switched, out>>
    /\ UNCHANGED <<vault, storage, password>>

\* /recover hears of a session that another tab began.
AuthChange(t) ==
    /\ tab[t].page = "recover" /\ tab[t].at = "still"
    /\ session # None
    /\ Goes(t, "reset")
    /\ UNCHANGED <<session, vault, storage, password, switched, out>>

\* A session that ran out, or was ended from another device.
Expire ==
    /\ session # None
    /\ session' = None
    /\ switched' = (switched \/ \E o \in Tabs : UnderWay(o))
    /\ out' = "none"
    /\ UNCHANGED <<vault, storage, password, tab>>

-----------------------------------------------------------------------------
(* With the password: the form takes any account, the panel only the one   *)
(* its page was rendered for.                                              *)

SetUp == {u \in Users : password[u] # None}

PanelShown(t) == tab[t].at = "panel"

PasswordOffered(t, u) ==
    \/ tab[t].page = "sign-in" /\ tab[t].at = "still"
    \/ PanelShown(t) /\ u = tab[t].for

SignIn(t, u) ==
    /\ PasswordOffered(t, u)
    /\ Becomes(t, u)
    /\ tab' = [tab EXCEPT ![t].at = "wrap", ![t].user = u]
    /\ UNCHANGED <<vault, storage, password>>

\* The select is for whoever is signed in by now, and the password opens the
\* wrap of its own account only.
ReadWrap(t) ==
    /\ tab[t].at = "wrap"
    /\ \/ /\ session = tab[t].user /\ session \in SetUp
          /\ tab' = [tab EXCEPT ![t].at = "filing", ![t].key = password[session]]
       \/ /\ session \notin SetUp
          /\ IF tab[t].page = "sign-in" THEN Goes(t, "setup") ELSE Fails(t)
       \/ Fails(t)
    /\ UNCHANGED <<session, vault, storage, password, switched, out>>

\* initializeCloak asks anew who is signed in, and makes that account its keys.
Setup(t) ==
    /\ tab[t].at = "setup"
    /\ \/ /\ session # None /\ session \notin SetUp
          /\ password' = [password EXCEPT ![session] = session]
          /\ vault' = IF storage THEN [vault EXCEPT ![session] = session] ELSE vault
          /\ tab' = [tab EXCEPT ![t].at = "phrase", ![t].user = None]
       \/ Fails(t) /\ UNCHANGED <<vault, password>>
    /\ UNCHANGED <<session, storage, switched, out>>

\* The phrase is on the page until it is confirmed.
Confirmed(t) ==
    /\ tab[t].at = "phrase"
    /\ tab' = [tab EXCEPT ![t] = Home]
    /\ UNCHANGED <<session, vault, storage, password, switched, out>>

-----------------------------------------------------------------------------
(* With a passkey or the recovery phrase: the wraps are those of whoever   *)
(* is signed in when they are read, and the account is asked for after.    *)

ResetShown(t) == tab[t].at = "reset"

ProofOffered(t) == PanelShown(t) \/ ResetShown(t)

\* rootKeyFromPasskey waits for the authenticator, the phrase for the slow
\* derivation.
Prove(t) ==
    /\ ProofOffered(t)
    /\ session \in SetUp
    /\ Begins
    /\ tab' = [tab EXCEPT ![t].at = "ceremony", ![t].key = session]
    /\ UNCHANGED <<session, vault, storage, password, switched>>

\* Cancelled, timed out, no PRF output, the wrong words; or the key.
Ceremony(t) ==
    /\ tab[t].at = "ceremony"
    /\ \/ Goes(t, IF tab[t].page = "recover" THEN "who" ELSE "proved")
       \/ Fails(t)
    /\ UNCHANGED <<session, vault, storage, password, switched, out>>

\* rewrapPasswordWrap: who is signed in, that account's password wrap, and the
\* password GoTrue takes.  Row level security has the row belong to the session.
AskWho(t) ==
    /\ tab[t].at = "who"
    /\ \/ session # None /\ tab' = [tab EXCEPT ![t].at = "rewrap", ![t].user = session]
       \/ Fails(t)
    /\ UNCHANGED <<session, vault, storage, password, switched, out>>

Rewrap(t) ==
    /\ tab[t].at = "rewrap"
    /\ \/ /\ session = tab[t].user
          /\ password' = [password EXCEPT ![session] = tab[t].key]
          /\ Goes(t, "auth")
       \/ Fails(t) /\ UNCHANGED password
    /\ UNCHANGED <<session, vault, storage, switched, out>>

UpdateAuth(t) ==
    /\ tab[t].at = "auth"
    /\ \/ session # None /\ tab' = [tab EXCEPT ![t].at = "proved", ![t].user = None]
       \/ Fails(t)
    /\ UNCHANGED <<session, vault, storage, password, switched, out>>

\* Mutant: under the account the page was rendered for.
ThePagesAccount(t) == IF tab[t].for # None THEN tab[t].for ELSE session

\* persistUnlockedSession: under the account that is signed in by now.
AccountToFile(t) == session

Persist(t) ==
    /\ tab[t].at = "proved"
    /\ \/ /\ session # None
          /\ tab' = [tab EXCEPT ![t].at = "filing", ![t].user = AccountToFile(t)]
       \/ Fails(t)
    /\ UNCHANGED <<session, vault, storage, password, switched, out>>

\* finishUnlock.  A vault that cannot be used is no error, and the session it
\* returns instead is used by no caller: the panel resumes again, the forms go home.
File(t) ==
    /\ tab[t].at = "filing"
    /\ vault' = IF storage THEN [vault EXCEPT ![tab[t].user] = tab[t].key] ELSE vault
    /\ tab' = [tab EXCEPT ![t] = IF @.page = "calendar"
                                 THEN [@ EXCEPT !.at = "resuming", !.user = None, !.key = None]
                                 ELSE Home]
    /\ UNCHANGED <<session, storage, password, switched, out>>

-----------------------------------------------------------------------------
(* Signing out: every key first, then the session                          *)

\* Mutant: the key of this account alone.
ForgetOwn == [u \in Users |-> IF u = session THEN None ELSE vault[u]]

forgetAllSessionKeys == [u \in Users |-> None]

KeyUnderWay(t) ==
    CASE tab[t].at \in {"ceremony", "proved", "filing"} -> tab[t].key
      [] tab[t].at = "wrap" /\ session \in SetUp \cap {tab[t].user} -> password[session]
      [] OTHER -> None

SignOut(t) ==
    /\ tab[t].page = "calendar" /\ tab[t].for # None
    /\ tab[t].at \in {"open", "panel"} \cup InHand
    /\ vault' = IF storage THEN forgetAllSessionKeys ELSE vault
    /\ out' = IF Busy(t) \/ Leaving \/ tab[t].at \in InHand THEN "crossed" ELSE "alone"
    /\ tab' = [tab EXCEPT ![t].at = "leaving", ![t].key = KeyUnderWay(t)]
    /\ UNCHANGED <<session, storage, password, switched>>

\* The panel's own unlock goes on until the page is gone.
FileLate(t) ==
    /\ tab[t].at = "leaving" /\ tab[t].key # None
    /\ LET u == IF tab[t].user # None THEN tab[t].user ELSE session
       IN /\ u # None
          /\ vault' = IF storage THEN [vault EXCEPT ![u] = tab[t].key] ELSE vault
    /\ tab' = [tab EXCEPT ![t].user = None, ![t].key = None]
    /\ UNCHANGED <<session, storage, password, switched, out>>

\* A refused sign-out keeps the cookie, and the page goes on as if it had not.
EndSession(t) ==
    /\ tab[t].at = "leaving"
    /\ \E left \in {None, session}, path \in {"/", "/sign-in"} :
          /\ session' = left
          /\ switched' = (switched \/ (left # session /\ Busy(t)))
          /\ tab' = [tab EXCEPT ![t] = Rendered(path, left)]
    /\ UNCHANGED <<vault, storage, password, out>>

-----------------------------------------------------------------------------
Init ==
    /\ session = None
    /\ vault = [u \in Users |-> None]
    /\ storage \in BOOLEAN
    /\ password = [u \in Users |-> IF u \in Fresh THEN None ELSE u]
    /\ tab = [t \in Tabs |-> Rendered("/", None)]
    /\ switched = FALSE
    /\ out = "none"

Answers(t) ==
    \/ AskUser(t) \/ Recall(t) \/ ReadWrap(t) \/ Setup(t) \/ Ceremony(t) \/ AskWho(t)
    \/ Rewrap(t) \/ UpdateAuth(t) \/ Persist(t) \/ File(t) \/ EndSession(t)

Next ==
    \/ Expire
    \/ \E t \in Tabs :
          \/ Answers(t)
          \/ \E path \in {"/", "/settings", "/sign-in", "/recover"} : Open(t, path)
          \/ \E u \in Users : SignIn(t, u) \/ \E path \in {"/", "/recover"} : Link(t, u, path)
          \/ AuthChange(t) \/ Confirmed(t) \/ Prove(t) \/ SignOut(t) \/ FileLate(t)

\* Every request is answered or fails, and a ceremony times out.
Spec == Init /\ [][Next]_vars /\ \A t \in Tabs : WF_vars(Answers(t))

-----------------------------------------------------------------------------
\* The vault and the password wrap of an account hold its own root key, whoever
\* else signs in on this browser, as long as no account took over while a flow
\* of another tab was under way (key-vault.ts, "a second account signing in on
\* the same browser cannot silently inherit the first account's key").
KeysStayApart ==
    ~switched => \A u \in Users : vault[u] \in {None, u} /\ password[u] \in {None, u}

\* Signed out means no key of any account is left on this browser, the keys of
\* sessions that had run out included, unless an unlock was under way meanwhile.
NothingLeftBehind ==
    session = None /\ out = "alone" => \A u \in Users : vault[u] = None

\* Whatever is refused, switched or signed out elsewhere, a tab comes back to
\* something the person can act on.
NeverStuck ==
    \A t \in Tabs : tab[t].at \notin Waiting ~> tab[t].at \in Waiting
===============================================================================
