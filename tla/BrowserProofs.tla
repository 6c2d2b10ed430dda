--------------------------- MODULE BrowserProofs ---------------------------
(***************************************************************************)
(* What one browser holds.  Session, for any number of accounts and tabs:  *)
(* keys stay with their own account, and a sign-out that nothing crossed   *)
(* leaves none behind.  CloakStore, for any set of fields, seals and keys  *)
(* and any number of passes under way: subscribers hear what the store     *)
(* holds, and no value outlives its record or its key.  The two have no    *)
(* state in common: a tab unlocks its store with the key Session opens.    *)
(* CalendarScreen, for any dates and audiences: links land where they say, *)
(* and what the screen says belongs to the page on it.                     *)
(***************************************************************************)
EXTENDS Session, CloakStore, CalendarScreen, SequenceTheorems, FiniteSetTheorems,
        WellFoundedInduction, TLAPS

-----------------------------------------------------------------------------
(* Pages and forms                                                         *)

\* A shown that was just rendered holds no key and was told of no account.
LEMMA RenderedIsIdle ==
    ASSUME NEW path, NEW u \in Someone
    PROVE  /\ Rendered(path, u) \in Tab
           /\ Rendered(path, u).at \in {"resuming", "reset", "still"}
           /\ Rendered(path, u).user = None
           /\ Rendered(path, u).key = None
  <1> DEFINE to == guardFor(path, u # None)
             shown == CASE to = "to-sign-in" -> "sign-in"
                        [] to = "to-home" -> "calendar"
                        [] path = "/sign-in" -> "sign-in"
                        [] path = "/recover" -> "recover"
                        [] OTHER -> "calendar"
             at == IF shown = "calendar" /\ u # None THEN "resuming"
                   ELSE IF shown = "recover" /\ u # None THEN "reset" ELSE "still"
  <1>1. to \in {"to-sign-in", "to-home", "allow"}
    BY DEF guardFor
  <1>2. shown \in {"calendar", "sign-in", "recover"}
    BY <1>1
  <1> HIDE DEF to
  <1>3. Rendered(path, u) = [page |-> shown, at |-> at,
                             for |-> IF shown = "calendar" THEN u ELSE None,
                             user |-> None, key |-> None]
    BY DEF Rendered, to
  <1> HIDE DEF shown
  <1>4. at \in {"resuming", "reset", "still"}
    OBVIOUS
  <1> HIDE DEF at
  <1> QED BY <1>2, <1>3, <1>4 DEF Tab, Steps, Waiting, Someone

\* An error ends a flow: the form is there again, with nothing in hand.
LEMMA FormIsIdle ==
    ASSUME TypeOK, NEW t \in Tabs
    PROVE  /\ Form(t) \in Tab
           /\ Form(t).at \in {"panel", "reset", "still"}
           /\ Form(t).user = None
           /\ Form(t).key = None
  <1>1. tab[t] \in Tab
    BY DEF TypeOK
  <1> QED BY <1>1 DEF Form, Tab, Steps, Waiting, Someone

-----------------------------------------------------------------------------
(* Types                                                                   *)

LEMMA TypeInit == Init => TypeOK
  <1> SUFFICES ASSUME Init PROVE TypeOK
    OBVIOUS
  <1>1. Rendered("/", None) \in Tab
    BY RenderedIsIdle DEF Someone
  <1> QED BY <1>1 DEF Init, TypeOK, Someone

LEMMA TypeStep == TypeOK /\ [Next]_vars => TypeOK'
  <1> SUFFICES ASSUME TypeOK, [Next]_vars PROVE TypeOK'
    OBVIOUS
  <1> USE DEF TypeOK, Someone
  <1>1. ASSUME NEW t \in Tabs, NEW path PROVE Rendered(path, session) \in Tab
    BY RenderedIsIdle
  <1>2. ASSUME NEW t \in Tabs PROVE tab[t] \in Tab /\ Form(t) \in Tab
    BY FormIsIdle
  <1>0. ASSUME NEW t \in Tabs, NEW x \in Tab, tab' = [tab EXCEPT ![t] = x]
        PROVE  tab' \in [Tabs -> Tab]
    BY <1>0
  <1>3. CASE Expire
    BY <1>3 DEF Expire
  <1>4. ASSUME NEW t \in Tabs, AskUser(t) PROVE TypeOK'
    BY <1>2, <1>4 DEF AskUser, Tab, Steps, Waiting
  <1>5. ASSUME NEW t \in Tabs, Recall(t) PROVE TypeOK'
    <2> DEFINE key == recallSessionKey(tab[t].user)
               x == [tab[t] EXCEPT !.at = IF key = None THEN "panel" ELSE "open",
                                   !.user = None, !.key = key]
    <2>1. key \in Users \cup {None}
      BY <1>2, <1>5 DEF recallSessionKey, Recall, Tab
    <2> HIDE DEF key
    <2>2. x \in Tab
      BY <2>1, <1>2 DEF Tab, Steps, Waiting
    <2>3. tab' = [tab EXCEPT ![t] = x]
      BY <1>5 DEF Recall, key
    <2> QED BY <2>2, <2>3, <1>0, <1>5 DEF Recall
  <1>6. ASSUME NEW t \in Tabs, ReadWrap(t) PROVE TypeOK'
    BY <1>2, <1>6 DEF ReadWrap, Fails, Goes, SetUp, Tab, Steps, InHand
  <1>7. ASSUME NEW t \in Tabs, Setup(t) PROVE TypeOK'
    BY <1>2, <1>7 DEF Setup, Fails, SetUp, Tab, Steps, Waiting
  <1>8. ASSUME NEW t \in Tabs, Ceremony(t) PROVE TypeOK'
    <2> DEFINE x == [tab[t] EXCEPT !.at = IF tab[t].page = "recover" THEN "who" ELSE "proved"]
    <2>1. x \in Tab
      BY <1>2 DEF Tab, Steps, InHand
    <2>2. tab' = [tab EXCEPT ![t] = x] \/ tab' = [tab EXCEPT ![t] = Form(t)]
      BY <1>8 DEF Ceremony, Fails, Goes
    <2> HIDE DEF x
    <2> QED BY <2>1, <2>2, <1>0, <1>2, <1>8 DEF Ceremony
  <1>9. ASSUME NEW t \in Tabs, AskWho(t) PROVE TypeOK'
    BY <1>2, <1>9 DEF AskWho, Fails, Tab, Steps, InHand
  <1>10. ASSUME NEW t \in Tabs, Rewrap(t) PROVE TypeOK'
    BY <1>2, <1>10 DEF Rewrap, Fails, Goes, Tab, Steps, InHand
  <1>11. ASSUME NEW t \in Tabs, UpdateAuth(t) PROVE TypeOK'
    BY <1>2, <1>11 DEF UpdateAuth, Fails, Tab, Steps, InHand
  <1>12. ASSUME NEW t \in Tabs, Persist(t) PROVE TypeOK'
    BY <1>2, <1>12 DEF Persist, AccountToFile, Fails, Tab, Steps, InHand
  <1>13. ASSUME NEW t \in Tabs, File(t) PROVE TypeOK'
    <2> DEFINE x == IF tab[t].page = "calendar"
                    THEN [tab[t] EXCEPT !.at = "resuming", !.user = None, !.key = None]
                    ELSE Home
    <2>1. Home \in Tab
      BY <1>1, <1>13 DEF Home
    <2>2. x \in Tab
      BY <2>1, <1>2 DEF Tab, Steps
    <2>3. tab' = [tab EXCEPT ![t] = x]
      BY <1>13 DEF File
    <2>4. vault' \in [Users -> Users \cup {None}]
      BY <1>2, <1>13 DEF File, Tab
    <2> QED BY <2>2, <2>3, <2>4, <1>0, <1>13 DEF File
  <1>14. ASSUME NEW t \in Tabs, EndSession(t) PROVE TypeOK'
    <2>1. PICK left \in {None, session}, path \in {"/", "/sign-in"} :
             /\ session' = left
             /\ switched' = (switched \/ (left # session /\ Busy(t)))
             /\ tab' = [tab EXCEPT ![t] = Rendered(path, left)]
      BY <1>14 DEF EndSession
    <2>2. Rendered(path, left) \in Tab
      BY RenderedIsIdle
    <2> QED BY <2>1, <2>2, <1>14 DEF EndSession
  <1>15. ASSUME NEW t \in Tabs, NEW path, Open(t, path) PROVE TypeOK'
    BY <1>1, <1>15 DEF Open
  <1>16. ASSUME NEW t \in Tabs, NEW u \in Users, SignIn(t, u) PROVE TypeOK'
    <2> DEFINE x == [tab[t] EXCEPT !.at = "wrap", !.user = u]
    <2>1. x \in Tab
      BY <1>2 DEF Tab, Steps, InHand
    <2>2. tab' = [tab EXCEPT ![t] = x]
      BY <1>16 DEF SignIn
    <2> QED BY <2>1, <2>2, <1>0, <1>16 DEF SignIn, Becomes
  <1>17. ASSUME NEW t \in Tabs, NEW u \in Users, NEW path, Link(t, u, path) PROVE TypeOK'
    <2>1. Rendered(path, u) \in Tab /\ Rendered("/sign-in", session) \in Tab
      BY RenderedIsIdle
    <2> QED BY <2>1, <1>17 DEF Link, Becomes
  <1>18. ASSUME NEW t \in Tabs, AuthChange(t) PROVE TypeOK'
    BY <1>2, <1>18 DEF AuthChange, Goes, Tab, Steps, Waiting
  <1>19. ASSUME NEW t \in Tabs, Confirmed(t) PROVE TypeOK'
    BY <1>1, <1>19 DEF Confirmed, Home
  <1>20. ASSUME NEW t \in Tabs, Prove(t) PROVE TypeOK'
    <2> DEFINE x == [tab[t] EXCEPT !.at = "ceremony", !.key = session]
    <2>1. x \in Tab
      BY <1>2 DEF Tab, Steps, InHand
    <2>2. tab' = [tab EXCEPT ![t] = x]
      BY <1>20 DEF Prove
    <2>3. out' \in {"none", "alone", "crossed"}
      BY <1>20 DEF Prove, Begins
    <2> QED BY <2>1, <2>2, <2>3, <1>0, <1>20 DEF Prove
  <1>21. ASSUME NEW t \in Tabs, SignOut(t) PROVE TypeOK'
    <2> DEFINE x == [tab[t] EXCEPT !.at = "leaving", !.key = KeyUnderWay(t)]
    <2>1. KeyUnderWay(t) \in Users \cup {None}
      <3>1. tab[t].key \in Users \cup {None}
        BY <1>2 DEF Tab
      <3>2. session \in SetUp => password[session] \in Users \cup {None}
        BY DEF SetUp
      <3> QED BY <3>1, <3>2 DEF KeyUnderWay
    <2>2. x \in Tab
      BY <2>1, <1>2 DEF Tab, Steps
    <2>3. tab' = [tab EXCEPT ![t] = x]
      BY <1>21 DEF SignOut
    <2>4. vault' \in [Users -> Users \cup {None}]
      BY <1>21 DEF SignOut, forgetAllSessionKeys
    <2>5. out' \in {"none", "alone", "crossed"}
      BY <1>21 DEF SignOut
    <2> QED BY <2>2, <2>3, <2>4, <2>5, <1>0, <1>21 DEF SignOut
  <1>22. ASSUME NEW t \in Tabs, FileLate(t) PROVE TypeOK'
    BY <1>2, <1>22 DEF FileLate, Tab, Steps
  <1>23. CASE UNCHANGED vars
    BY <1>23 DEF vars
  <1> QED BY <1>3, <1>4, <1>5, <1>6, <1>7, <1>8, <1>9, <1>10, <1>11, <1>12, <1>13,
             <1>14, <1>15, <1>16, <1>17, <1>18, <1>19, <1>20, <1>21, <1>22, <1>23
          DEF Next, Answers

\* A tab is on one of three pages, in one of the steps of a flow, and the keys
\* it and the browser hold are keys of accounts.
THEOREM TypeCorrect == Spec => []TypeOK
  BY TypeInit, TypeStep, PTL DEF Spec

-----------------------------------------------------------------------------
(* Keys stay with their own account                                        *)

\* No account was told to a tab that has not asked, or not yet again.
NotTold(t) ==
    tab[t].at \in {"still", "panel", "reset", "resuming", "ceremony", "proved", "who"}
        => tab[t].user = None

\* A key in hand is that of the account it is about to be filed under.
HoldsOwn(t) ==
    /\ tab[t].at \in {"ceremony", "proved", "who", "rewrap", "auth"} => tab[t].key = session
    /\ tab[t].at = "filing" => tab[t].key = tab[t].user
    /\ tab[t].at = "leaving" /\ tab[t].key # None =>
          tab[t].key = IF tab[t].user # None THEN tab[t].user ELSE session

StoredApart == \A u \in Users : vault[u] \in {None, u} /\ password[u] \in {None, u}

ApartInv ==
    /\ \A t \in Tabs : NotTold(t)
    /\ ~switched => StoredApart /\ \A t \in Tabs : HoldsOwn(t)

\* What a step of tab t leaves to the others: their keys are still those of the
\* account that is signed in, unless it took over while they were under way.
LEMMA OthersHold ==
    ASSUME TypeOK, NEW t \in Tabs, NEW x, tab' = [tab EXCEPT ![t] = x],
           session' = session \/ ~Busy(t),
           \A o \in Tabs : HoldsOwn(o)
    PROVE  \A o \in Tabs \ {t} : HoldsOwn(o)'
  <1> SUFFICES ASSUME NEW o \in Tabs, o # t PROVE HoldsOwn(o)'
    OBVIOUS
  <1>1. tab'[o] = tab[o]
    BY DEF TypeOK
  <1>2. CASE session' = session
    BY <1>1, <1>2 DEF HoldsOwn
  <1>3. CASE ~Busy(t)
    BY <1>1, <1>3 DEF HoldsOwn, Busy, UnderWay, InHand
  <1> QED BY <1>2, <1>3

LEMMA ApartInit == Init => ApartInv
  <1> SUFFICES ASSUME Init PROVE ApartInv
    OBVIOUS
  <1>1. \A t \in Tabs : /\ tab[t].at \in {"resuming", "reset", "still"}
                        /\ tab[t].user = None
    BY RenderedIsIdle DEF Init, Someone
  <1> QED BY <1>1 DEF Init, ApartInv, NotTold, HoldsOwn, StoredApart

\* Of a step of tab t that writes its own record only.
LEMMA ApartTab ==
    ASSUME TypeOK, ApartInv, NEW t \in Tabs, NEW x, tab' = [tab EXCEPT ![t] = x],
           NotTold(t)',
           ~switched' => /\ ~switched
                         /\ session' = session \/ ~Busy(t)
                         /\ HoldsOwn(t)' /\ StoredApart'
    PROVE  ApartInv'
  <1>1. \A o \in Tabs : o # t => NotTold(o)'
    BY DEF TypeOK, ApartInv, NotTold
  <1>2. ASSUME ~switched' PROVE \A o \in Tabs : HoldsOwn(o)'
    <2>1. HoldsOwn(t)' /\ \A o \in Tabs : HoldsOwn(o)
      BY <1>2 DEF ApartInv
    <2>2. \A o \in Tabs \ {t} : HoldsOwn(o)'
      BY <1>2, <2>1, OthersHold
    <2> QED BY <2>1, <2>2
  <1> QED BY <1>1, <1>2 DEF ApartInv

LEMMA ApartStep == TypeOK /\ ApartInv /\ [Next]_vars => ApartInv'
  <1> SUFFICES ASSUME TypeOK, ApartInv, [Next]_vars PROVE ApartInv'
    OBVIOUS
  <1>1. \A t \in Tabs : /\ tab[t] \in Tab /\ NotTold(t)
                        /\ ~switched => HoldsOwn(t)
    BY DEF TypeOK, ApartInv
  <1>2. \A t \in Tabs : Form(t).at \in {"panel", "reset", "still"} /\ Form(t).user = None
    BY FormIsIdle
  <1>3. ~switched => StoredApart
    BY DEF ApartInv
  <1>4. ASSUME NEW path
        PROVE  /\ Rendered(path, session).at \in {"resuming", "reset", "still"}
               /\ Rendered(path, session).user = None
    BY RenderedIsIdle DEF TypeOK
  <1>5. \A t \in Tabs : \A x : [tab EXCEPT ![t] = x][t] = x
    BY DEF TypeOK
  <1>7. CASE Expire
    <2>1. \A t \in Tabs : NotTold(t)'
      BY <1>1, <1>7 DEF Expire, NotTold
    <2>2. ASSUME ~switched' PROVE \A t \in Tabs : HoldsOwn(t)'
      BY <1>7, <2>2 DEF Expire, UnderWay, InHand, HoldsOwn
    <2>3. ~switched' => StoredApart'
      BY <1>3, <1>7 DEF Expire, StoredApart
    <2> QED BY <2>1, <2>2, <2>3 DEF ApartInv
  <1>8. ASSUME NEW t \in Tabs, AskUser(t) PROVE ApartInv'
    <2>1. tab' = [tab EXCEPT ![t] = tab'[t]]
      BY <1>1, <1>5, <1>8 DEF TypeOK, AskUser
    <2>2. NotTold(t)'
      BY <1>1, <1>2, <1>4, <1>5, <1>8 DEF NotTold, Tab, AskUser
    <2>3. ~switched' => ~switched /\ (session' = session \/ ~Busy(t))
      BY <1>8 DEF AskUser
    <2>4. ~switched' => HoldsOwn(t)'
      BY <1>1, <1>2, <1>3, <1>4, <1>5, <1>8 DEF HoldsOwn, NotTold, StoredApart, Tab, SetUp, AskUser
    <2>5. ~switched' => StoredApart'
      BY <1>1, <1>3, <1>8 DEF HoldsOwn, StoredApart, TypeOK, AskUser
    <2> QED BY <2>1, <2>2, <2>3, <2>4, <2>5, ApartTab
  <1>9. ASSUME NEW t \in Tabs, Recall(t) PROVE ApartInv'
    <2>1. tab' = [tab EXCEPT ![t] = tab'[t]]
      BY <1>1, <1>5, <1>9 DEF TypeOK, Recall
    <2>2. NotTold(t)'
      BY <1>1, <1>2, <1>4, <1>5, <1>9 DEF NotTold, Tab, Recall
    <2>3. ~switched' => ~switched /\ (session' = session \/ ~Busy(t))
      BY <1>9 DEF Recall
    <2>4. ~switched' => HoldsOwn(t)'
      BY <1>1, <1>2, <1>3, <1>4, <1>5, <1>9 DEF HoldsOwn, NotTold, StoredApart, Tab, SetUp, Recall
    <2>5. ~switched' => StoredApart'
      BY <1>1, <1>3, <1>9 DEF HoldsOwn, StoredApart, TypeOK, Recall
    <2> QED BY <2>1, <2>2, <2>3, <2>4, <2>5, ApartTab
  <1>10. ASSUME NEW t \in Tabs, ReadWrap(t) PROVE ApartInv'
    <2>1. tab' = [tab EXCEPT ![t] = tab'[t]]
      BY <1>1, <1>5, <1>10 DEF TypeOK, ReadWrap, Fails, Goes
    <2>2. NotTold(t)'
      BY <1>1, <1>2, <1>4, <1>5, <1>10 DEF NotTold, Tab, ReadWrap, Fails, Goes
    <2>3. ~switched' => ~switched /\ (session' = session \/ ~Busy(t))
      BY <1>10 DEF ReadWrap, Fails, Goes
    <2>4. ~switched' => HoldsOwn(t)'
      BY <1>1, <1>2, <1>3, <1>4, <1>5, <1>10 DEF HoldsOwn, NotTold, StoredApart, Tab, SetUp, ReadWrap, Fails, Goes
    <2>5. ~switched' => StoredApart'
      BY <1>1, <1>3, <1>10 DEF HoldsOwn, StoredApart, TypeOK, ReadWrap, Fails, Goes
    <2> QED BY <2>1, <2>2, <2>3, <2>4, <2>5, ApartTab
  <1>11. ASSUME NEW t \in Tabs, Setup(t) PROVE ApartInv'
    <2>1. tab' = [tab EXCEPT ![t] = tab'[t]]
      BY <1>1, <1>5, <1>11 DEF TypeOK, Setup, Fails
    <2>2. NotTold(t)'
      BY <1>1, <1>2, <1>4, <1>5, <1>11 DEF NotTold, Tab, Setup, Fails
    <2>3. ~switched' => ~switched /\ (session' = session \/ ~Busy(t))
      BY <1>11 DEF Setup, Fails
    <2>4. ~switched' => HoldsOwn(t)'
      BY <1>1, <1>2, <1>3, <1>4, <1>5, <1>11 DEF HoldsOwn, NotTold, StoredApart, Tab, SetUp, Setup, Fails
    <2>5. ~switched' => StoredApart'
      BY <1>1, <1>3, <1>11 DEF HoldsOwn, StoredApart, TypeOK, Setup, Fails
    <2> QED BY <2>1, <2>2, <2>3, <2>4, <2>5, ApartTab
  <1>12. ASSUME NEW t \in Tabs, Ceremony(t) PROVE ApartInv'
    <2>1. tab' = [tab EXCEPT ![t] = tab'[t]]
      BY <1>1, <1>5, <1>12 DEF TypeOK, Ceremony, Fails, Goes
    <2>2. NotTold(t)'
      BY <1>1, <1>2, <1>4, <1>5, <1>12 DEF NotTold, Tab, Ceremony, Fails, Goes
    <2>3. ~switched' => ~switched /\ (session' = session \/ ~Busy(t))
      BY <1>12 DEF Ceremony, Fails, Goes
    <2>4. ~switched' => HoldsOwn(t)'
      BY <1>1, <1>2, <1>3, <1>4, <1>5, <1>12 DEF HoldsOwn, NotTold, StoredApart, Tab, SetUp, Ceremony, Fails, Goes
    <2>5. ~switched' => StoredApart'
      BY <1>1, <1>3, <1>12 DEF HoldsOwn, StoredApart, TypeOK, Ceremony, Fails, Goes
    <2> QED BY <2>1, <2>2, <2>3, <2>4, <2>5, ApartTab
  <1>13. ASSUME NEW t \in Tabs, AskWho(t) PROVE ApartInv'
    <2>1. tab' = [tab EXCEPT ![t] = tab'[t]]
      BY <1>1, <1>5, <1>13 DEF TypeOK, AskWho, Fails
    <2>2. NotTold(t)'
      BY <1>1, <1>2, <1>4, <1>5, <1>13 DEF NotTold, Tab, AskWho, Fails
    <2>3. ~switched' => ~switched /\ (session' = session \/ ~Busy(t))
      BY <1>13 DEF AskWho, Fails
    <2>4. ~switched' => HoldsOwn(t)'
      BY <1>1, <1>2, <1>3, <1>4, <1>5, <1>13 DEF HoldsOwn, NotTold, StoredApart, Tab, SetUp, AskWho, Fails
    <2>5. ~switched' => StoredApart'
      BY <1>1, <1>3, <1>13 DEF HoldsOwn, StoredApart, TypeOK, AskWho, Fails
    <2> QED BY <2>1, <2>2, <2>3, <2>4, <2>5, ApartTab
  <1>14. ASSUME NEW t \in Tabs, Rewrap(t) PROVE ApartInv'
    <2>1. tab' = [tab EXCEPT ![t] = tab'[t]]
      BY <1>1, <1>5, <1>14 DEF TypeOK, Rewrap, Fails, Goes
    <2>2. NotTold(t)'
      BY <1>1, <1>2, <1>4, <1>5, <1>14 DEF NotTold, Tab, Rewrap, Fails, Goes
    <2>3. ~switched' => ~switched /\ (session' = session \/ ~Busy(t))
      BY <1>14 DEF Rewrap, Fails, Goes
    <2>4. ~switched' => HoldsOwn(t)'
      BY <1>1, <1>2, <1>3, <1>4, <1>5, <1>14 DEF HoldsOwn, NotTold, StoredApart, Tab, SetUp, Rewrap, Fails, Goes
    <2>5. ~switched' => StoredApart'
      BY <1>1, <1>3, <1>14 DEF HoldsOwn, StoredApart, TypeOK, Rewrap, Fails, Goes
    <2> QED BY <2>1, <2>2, <2>3, <2>4, <2>5, ApartTab
  <1>15. ASSUME NEW t \in Tabs, UpdateAuth(t) PROVE ApartInv'
    <2>1. tab' = [tab EXCEPT ![t] = tab'[t]]
      BY <1>1, <1>5, <1>15 DEF TypeOK, UpdateAuth, Fails
    <2>2. NotTold(t)'
      BY <1>1, <1>2, <1>4, <1>5, <1>15 DEF NotTold, Tab, UpdateAuth, Fails
    <2>3. ~switched' => ~switched /\ (session' = session \/ ~Busy(t))
      BY <1>15 DEF UpdateAuth, Fails
    <2>4. ~switched' => HoldsOwn(t)'
      BY <1>1, <1>2, <1>3, <1>4, <1>5, <1>15 DEF HoldsOwn, NotTold, StoredApart, Tab, SetUp, UpdateAuth, Fails
    <2>5. ~switched' => StoredApart'
      BY <1>1, <1>3, <1>15 DEF HoldsOwn, StoredApart, TypeOK, UpdateAuth, Fails
    <2> QED BY <2>1, <2>2, <2>3, <2>4, <2>5, ApartTab
  <1>16. ASSUME NEW t \in Tabs, Persist(t) PROVE ApartInv'
    <2>1. tab' = [tab EXCEPT ![t] = tab'[t]]
      BY <1>1, <1>5, <1>16 DEF TypeOK, Persist, AccountToFile, Fails
    <2>2. NotTold(t)'
      BY <1>1, <1>2, <1>4, <1>5, <1>16 DEF NotTold, Tab, Persist, AccountToFile, Fails
    <2>3. ~switched' => ~switched /\ (session' = session \/ ~Busy(t))
      BY <1>16 DEF Persist, AccountToFile, Fails
    <2>4. ~switched' => HoldsOwn(t)'
      BY <1>1, <1>2, <1>3, <1>4, <1>5, <1>16 DEF HoldsOwn, NotTold, StoredApart, Tab, SetUp, Persist, AccountToFile, Fails
    <2>5. ~switched' => StoredApart'
      BY <1>1, <1>3, <1>16 DEF HoldsOwn, StoredApart, TypeOK, Persist, AccountToFile, Fails
    <2> QED BY <2>1, <2>2, <2>3, <2>4, <2>5, ApartTab
  <1>17. ASSUME NEW t \in Tabs, File(t) PROVE ApartInv'
    <2>1. tab' = [tab EXCEPT ![t] = tab'[t]]
      BY <1>1, <1>5, <1>17 DEF TypeOK, File, Home
    <2>2. NotTold(t)'
      BY <1>1, <1>2, <1>4, <1>5, <1>17 DEF NotTold, Tab, File, Home
    <2>3. ~switched' => ~switched /\ (session' = session \/ ~Busy(t))
      BY <1>17 DEF File, Home
    <2>4. ~switched' => HoldsOwn(t)'
      BY <1>1, <1>2, <1>3, <1>4, <1>5, <1>17 DEF HoldsOwn, NotTold, StoredApart, Tab, SetUp, File, Home
    <2>5. ~switched' => StoredApart'
      BY <1>1, <1>3, <1>17 DEF HoldsOwn, StoredApart, TypeOK, File, Home
    <2> QED BY <2>1, <2>2, <2>3, <2>4, <2>5, ApartTab
  <1>18. ASSUME NEW t \in Tabs, EndSession(t) PROVE ApartInv'
    <2>1. tab' = [tab EXCEPT ![t] = tab'[t]]
      BY <1>1, <1>5, <1>18 DEF TypeOK, EndSession
    <2>2. NotTold(t)' /\ HoldsOwn(t)'
      <3>1. /\ tab'[t].at \in {"resuming", "reset", "still"}
            /\ tab'[t].user = None
        <4>1. PICK left \in {None, session}, path \in {"/", "/sign-in"} :
                 tab' = [tab EXCEPT ![t] = Rendered(path, left)]
          BY <1>18 DEF EndSession
        <4>2. /\ Rendered(path, left).at \in {"resuming", "reset", "still"}
              /\ Rendered(path, left).user = None
          BY RenderedIsIdle DEF TypeOK, Someone
        <4> QED BY <1>5, <4>1, <4>2
      <3> QED BY <3>1 DEF NotTold, HoldsOwn
    <2>3. ~switched' => ~switched /\ (session' = session \/ ~Busy(t))
      BY <1>18 DEF EndSession
    <2>4. ~switched' => HoldsOwn(t)'
      BY <2>2
    <2>5. ~switched' => StoredApart'
      BY <1>1, <1>3, <1>18 DEF HoldsOwn, StoredApart, TypeOK, EndSession
    <2> QED BY <2>1, <2>2, <2>3, <2>4, <2>5, ApartTab
  <1>19. ASSUME NEW t \in Tabs, NEW path, Open(t, path) PROVE ApartInv'
    <2>1. tab' = [tab EXCEPT ![t] = tab'[t]]
      BY <1>1, <1>5, <1>19 DEF TypeOK, Open
    <2>2. NotTold(t)'
      BY <1>1, <1>2, <1>4, <1>5, <1>19 DEF NotTold, Tab, Open
    <2>3. ~switched' => ~switched /\ (session' = session \/ ~Busy(t))
      BY <1>19 DEF Open
    <2>4. ~switched' => HoldsOwn(t)'
      BY <1>1, <1>2, <1>3, <1>4, <1>5, <1>19 DEF HoldsOwn, NotTold, StoredApart, Tab, SetUp, Open
    <2>5. ~switched' => StoredApart'
      BY <1>1, <1>3, <1>19 DEF HoldsOwn, StoredApart, TypeOK, Open
    <2> QED BY <2>1, <2>2, <2>3, <2>4, <2>5, ApartTab
  <1>20. ASSUME NEW t \in Tabs, NEW u \in Users, SignIn(t, u) PROVE ApartInv'
    <2>1. tab' = [tab EXCEPT ![t] = tab'[t]]
      BY <1>1, <1>5, <1>20 DEF TypeOK, SignIn, Becomes
    <2>2. NotTold(t)'
      BY <1>1, <1>2, <1>4, <1>5, <1>20 DEF NotTold, Tab, SignIn, Becomes
    <2>3. ~switched' => ~switched /\ (session' = session \/ ~Busy(t))
      BY <1>20 DEF SignIn, Becomes
    <2>4. ~switched' => HoldsOwn(t)'
      BY <1>1, <1>2, <1>3, <1>4, <1>5, <1>20 DEF HoldsOwn, NotTold, StoredApart, Tab, SetUp, SignIn, Becomes
    <2>5. ~switched' => StoredApart'
      BY <1>1, <1>3, <1>20 DEF HoldsOwn, StoredApart, TypeOK, SignIn, Becomes
    <2> QED BY <2>1, <2>2, <2>3, <2>4, <2>5, ApartTab
  <1>21. ASSUME NEW t \in Tabs, NEW u \in Users, NEW path, Link(t, u, path) PROVE ApartInv'
    <2>1. tab' = [tab EXCEPT ![t] = tab'[t]]
      BY <1>1, <1>5, <1>21 DEF TypeOK, Link, Becomes
    <2>2. NotTold(t)' /\ HoldsOwn(t)'
      <3>1. /\ tab'[t].at \in {"resuming", "reset", "still"}
            /\ tab'[t].user = None
        <4>1. /\ Rendered(path, u).at \in {"resuming", "reset", "still"}
              /\ Rendered(path, u).user = None
          BY RenderedIsIdle DEF Someone
        <4> QED BY <1>4, <1>5, <1>21, <4>1 DEF Link
      <3> QED BY <3>1 DEF NotTold, HoldsOwn
    <2>3. ~switched' => ~switched /\ (session' = session \/ ~Busy(t))
      BY <1>21 DEF Link, Becomes
    <2>4. ~switched' => HoldsOwn(t)'
      BY <2>2
    <2>5. ~switched' => StoredApart'
      BY <1>1, <1>3, <1>21 DEF HoldsOwn, StoredApart, TypeOK, Link, Becomes
    <2> QED BY <2>1, <2>2, <2>3, <2>4, <2>5, ApartTab
  <1>22. ASSUME NEW t \in Tabs, AuthChange(t) PROVE ApartInv'
    <2>1. tab' = [tab EXCEPT ![t] = tab'[t]]
      BY <1>1, <1>5, <1>22 DEF TypeOK, AuthChange, Goes
    <2>2. NotTold(t)'
      BY <1>1, <1>2, <1>4, <1>5, <1>22 DEF NotTold, Tab, AuthChange, Goes
    <2>3. ~switched' => ~switched /\ (session' = session \/ ~Busy(t))
      BY <1>22 DEF AuthChange, Goes
    <2>4. ~switched' => HoldsOwn(t)'
      BY <1>1, <1>2, <1>3, <1>4, <1>5, <1>22 DEF HoldsOwn, NotTold, StoredApart, Tab, SetUp, AuthChange, Goes
    <2>5. ~switched' => StoredApart'
      BY <1>1, <1>3, <1>22 DEF HoldsOwn, StoredApart, TypeOK, AuthChange, Goes
    <2> QED BY <2>1, <2>2, <2>3, <2>4, <2>5, ApartTab
  <1>23. ASSUME NEW t \in Tabs, Confirmed(t) PROVE ApartInv'
    <2>1. tab' = [tab EXCEPT ![t] = tab'[t]]
      BY <1>1, <1>5, <1>23 DEF TypeOK, Confirmed, Home
    <2>2. NotTold(t)'
      BY <1>1, <1>2, <1>4, <1>5, <1>23 DEF NotTold, Tab, Confirmed, Home
    <2>3. ~switched' => ~switched /\ (session' = session \/ ~Busy(t))
      BY <1>23 DEF Confirmed, Home
    <2>4. ~switched' => HoldsOwn(t)'
      BY <1>1, <1>2, <1>3, <1>4, <1>5, <1>23 DEF HoldsOwn, NotTold, StoredApart, Tab, SetUp, Confirmed, Home
    <2>5. ~switched' => StoredApart'
      BY <1>1, <1>3, <1>23 DEF HoldsOwn, StoredApart, TypeOK, Confirmed, Home
    <2> QED BY <2>1, <2>2, <2>3, <2>4, <2>5, ApartTab
  <1>24. ASSUME NEW t \in Tabs, Prove(t) PROVE ApartInv'
    <2>1. tab' = [tab EXCEPT ![t] = tab'[t]]
      BY <1>1, <1>5, <1>24 DEF TypeOK, Prove, Begins, ProofOffered, PanelShown, ResetShown
    <2>2. NotTold(t)'
      BY <1>1, <1>2, <1>4, <1>5, <1>24 DEF NotTold, Tab, Prove, Begins, ProofOffered, PanelShown, ResetShown
    <2>3. ~switched' => ~switched /\ (session' = session \/ ~Busy(t))
      BY <1>24 DEF Prove, Begins, ProofOffered, PanelShown, ResetShown
    <2>4. ~switched' => HoldsOwn(t)'
      BY <1>1, <1>2, <1>3, <1>4, <1>5, <1>24 DEF HoldsOwn, NotTold, StoredApart, Tab, SetUp, Prove, Begins, ProofOffered, PanelShown, ResetShown
    <2>5. ~switched' => StoredApart'
      BY <1>1, <1>3, <1>24 DEF HoldsOwn, StoredApart, TypeOK, Prove, Begins, ProofOffered, PanelShown, ResetShown
    <2> QED BY <2>1, <2>2, <2>3, <2>4, <2>5, ApartTab
  <1>25. ASSUME NEW t \in Tabs, SignOut(t) PROVE ApartInv'
    <2>1. tab' = [tab EXCEPT ![t] = tab'[t]]
      BY <1>1, <1>5, <1>25 DEF TypeOK, SignOut, forgetAllSessionKeys
    <2>2. NotTold(t)'
      BY <1>1, <1>2, <1>4, <1>5, <1>25 DEF NotTold, Tab, SignOut, forgetAllSessionKeys
    <2>3. ~switched' => ~switched /\ (session' = session \/ ~Busy(t))
      BY <1>25 DEF SignOut, forgetAllSessionKeys
    <2>4. ~switched' => HoldsOwn(t)'
      <3>1. tab'[t].at = "leaving" /\ tab'[t].key = KeyUnderWay(t) /\ tab'[t].user = tab[t].user
        BY <1>1, <1>5, <1>25 DEF SignOut, Tab, TypeOK
      <3>2. ASSUME ~switched', KeyUnderWay(t) # None
            PROVE  KeyUnderWay(t) = IF tab[t].user # None THEN tab[t].user ELSE session
        <4>1. ~switched /\ StoredApart /\ HoldsOwn(t) /\ NotTold(t)
          BY <1>1, <1>3, <1>25, <3>2 DEF SignOut
        <4>2. CASE tab[t].at \in {"ceremony", "proved", "filing"}
          BY <3>2, <4>1, <4>2 DEF KeyUnderWay, HoldsOwn, NotTold
        <4>3. CASE tab[t].at = "wrap" /\ session \in SetUp \cap {tab[t].user}
          BY <3>2, <4>1, <4>3, SessionAssumption DEF KeyUnderWay, StoredApart, SetUp
        <4> QED BY <3>2, <4>2, <4>3 DEF KeyUnderWay
      <3>3. session' = session
        BY <1>25 DEF SignOut
      <3> QED BY <3>1, <3>2, <3>3 DEF HoldsOwn
    <2>5. ~switched' => StoredApart'
      BY <1>1, <1>3, <1>25 DEF HoldsOwn, StoredApart, TypeOK, SignOut, forgetAllSessionKeys
    <2> QED BY <2>1, <2>2, <2>3, <2>4, <2>5, ApartTab
  <1>26. ASSUME NEW t \in Tabs, FileLate(t) PROVE ApartInv'
    <2>1. tab' = [tab EXCEPT ![t] = tab'[t]]
      BY <1>1, <1>5, <1>26 DEF TypeOK, FileLate
    <2>2. NotTold(t)'
      BY <1>1, <1>2, <1>4, <1>5, <1>26 DEF NotTold, Tab, FileLate
    <2>3. ~switched' => ~switched /\ (session' = session \/ ~Busy(t))
      BY <1>26 DEF FileLate
    <2>4. ~switched' => HoldsOwn(t)'
      BY <1>1, <1>2, <1>3, <1>4, <1>5, <1>26 DEF HoldsOwn, NotTold, StoredApart, Tab, SetUp, FileLate
    <2>5. ~switched' => StoredApart'
      BY <1>1, <1>3, <1>26 DEF HoldsOwn, StoredApart, TypeOK, FileLate
    <2> QED BY <2>1, <2>2, <2>3, <2>4, <2>5, ApartTab
  <1>27. CASE UNCHANGED vars
    BY <1>1, <1>3, <1>27 DEF vars, ApartInv, NotTold, HoldsOwn, StoredApart
  <1> QED BY <1>7, <1>8, <1>9, <1>10, <1>11, <1>12, <1>13, <1>14, <1>15, <1>16, <1>17, <1>18, <1>19, <1>20, <1>21, <1>22, <1>23, <1>24, <1>25, <1>26, <1>27
          DEF Next, Answers

\* Whatever the interleaving of tabs, requests and failures, the vault and the
\* password wrap of an account hold its own key, unless an account took over
\* while a flow of another tab was under way.
THEOREM OwnKeysOnly == Spec => []KeysStayApart
  <1>1. ApartInv => KeysStayApart
    BY DEF ApartInv, StoredApart, KeysStayApart
  <1> QED BY <1>1, TypeInit, TypeStep, ApartInit, ApartStep, PTL DEF Spec

-----------------------------------------------------------------------------
(* Signing out leaves nothing                                              *)

\* After a sign-out that nothing crossed, until somebody signs in: no key, and
\* nothing under way that may file one.
Clean == (\A u \in Users : vault[u] = None) /\ \A t \in Tabs : ~UnderWay(t)

CleanInv ==
    /\ ~storage => \A u \in Users : vault[u] = None
    /\ out = "alone" /\ (session = None \/ Leaving) => Clean

LEMMA CleanInit == Init => CleanInv
  BY DEF Init, CleanInv

LEMMA CleanStep == TypeOK /\ CleanInv /\ [Next]_vars => CleanInv'
  <1> SUFFICES ASSUME TypeOK, CleanInv, [Next]_vars PROVE CleanInv'
    OBVIOUS
  <1>1. \A t \in Tabs : \A x :
            /\ [tab EXCEPT ![t] = x][t] = x
            /\ \A o \in Tabs \ {t} : [tab EXCEPT ![t] = x][o] = tab[o]
    BY DEF TypeOK
  <1>2. \A t \in Tabs : Form(t).at \in {"panel", "reset", "still"}
    BY FormIsIdle
  <1>3. ASSUME NEW path, NEW u \in Someone
        PROVE  Rendered(path, u).at \in {"resuming", "reset", "still"}
    BY RenderedIsIdle
  <1>4. session \in Someone /\ Users \subseteq Someone
    BY DEF TypeOK, Someone
  \* A tab that is not under way goes on without a key.
  <1>5. ASSUME NEW t \in Tabs, NEW x, tab' = [tab EXCEPT ![t] = x],
               x.at \in Waiting \cup {"resuming", "recalling"},
               UNCHANGED <<vault, out, storage>>, session' = session \/ Leaving
        PROVE  CleanInv'
    <2>1. tab'[t].at \notin InHand \cup {"leaving"}
      BY <1>1, <1>5 DEF Waiting, InHand
    <2>2. \A o \in Tabs : UnderWay(o)' => UnderWay(o)
      BY <1>1, <1>5, <2>1 DEF UnderWay
    <2>3. Leaving' => Leaving
      BY <1>1, <1>5, <2>1 DEF Leaving
    <2> QED BY <1>5, <2>2, <2>3 DEF CleanInv, Clean
  \* A step of a flow that is under way.
  <1>6. ASSUME NEW t \in Tabs, UnderWay(t), Leaving' => Leaving,
               UNCHANGED <<session, out, storage>>, ~storage => UNCHANGED vault
        PROVE  CleanInv'
    BY <1>6 DEF CleanInv, Clean
  <1>7. ASSUME NEW t \in Tabs, NEW x, tab' = [tab EXCEPT ![t] = x], x.at # "leaving"
        PROVE  Leaving' => Leaving
    BY <1>1, <1>7 DEF Leaving
  <1>8. CASE Expire
    BY <1>8 DEF Expire, CleanInv
  <1>9. ASSUME NEW t \in Tabs, ReadWrap(t) PROVE CleanInv'
    <2>1. tab' = [tab EXCEPT ![t] = tab'[t]] /\ tab'[t].at # "leaving"
      BY <1>1, <1>2, <1>3, <1>4, <1>9 DEF ReadWrap, Fails, Goes, TypeOK, Tab
    <2> QED BY <2>1, <1>6, <1>7, <1>9 DEF ReadWrap, Fails, Goes, UnderWay, InHand
  <1>10. ASSUME NEW t \in Tabs, Setup(t) PROVE CleanInv'
    <2>1. tab' = [tab EXCEPT ![t] = tab'[t]] /\ tab'[t].at # "leaving"
      BY <1>1, <1>2, <1>3, <1>4, <1>10 DEF Setup, Fails, TypeOK, Tab
    <2> QED BY <2>1, <1>6, <1>7, <1>10 DEF Setup, Fails, UnderWay, InHand
  <1>11. ASSUME NEW t \in Tabs, Ceremony(t) PROVE CleanInv'
    <2>1. tab' = [tab EXCEPT ![t] = tab'[t]] /\ tab'[t].at # "leaving"
      BY <1>1, <1>2, <1>3, <1>4, <1>11 DEF Ceremony, Fails, Goes, TypeOK, Tab
    <2> QED BY <2>1, <1>6, <1>7, <1>11 DEF Ceremony, Fails, Goes, UnderWay, InHand
  <1>12. ASSUME NEW t \in Tabs, AskWho(t) PROVE CleanInv'
    <2>1. tab' = [tab EXCEPT ![t] = tab'[t]] /\ tab'[t].at # "leaving"
      BY <1>1, <1>2, <1>3, <1>4, <1>12 DEF AskWho, Fails, TypeOK, Tab
    <2> QED BY <2>1, <1>6, <1>7, <1>12 DEF AskWho, Fails, UnderWay, InHand
  <1>13. ASSUME NEW t \in Tabs, Rewrap(t) PROVE CleanInv'
    <2>1. tab' = [tab EXCEPT ![t] = tab'[t]] /\ tab'[t].at # "leaving"
      BY <1>1, <1>2, <1>3, <1>4, <1>13 DEF Rewrap, Fails, Goes, TypeOK, Tab
    <2> QED BY <2>1, <1>6, <1>7, <1>13 DEF Rewrap, Fails, Goes, UnderWay, InHand
  <1>14. ASSUME NEW t \in Tabs, UpdateAuth(t) PROVE CleanInv'
    <2>1. tab' = [tab EXCEPT ![t] = tab'[t]] /\ tab'[t].at # "leaving"
      BY <1>1, <1>2, <1>3, <1>4, <1>14 DEF UpdateAuth, Fails, TypeOK, Tab
    <2> QED BY <2>1, <1>6, <1>7, <1>14 DEF UpdateAuth, Fails, UnderWay, InHand
  <1>15. ASSUME NEW t \in Tabs, Persist(t) PROVE CleanInv'
    <2>1. tab' = [tab EXCEPT ![t] = tab'[t]] /\ tab'[t].at # "leaving"
      BY <1>1, <1>2, <1>3, <1>4, <1>15 DEF Persist, Fails, TypeOK, Tab
    <2> QED BY <2>1, <1>6, <1>7, <1>15 DEF Persist, Fails, UnderWay, InHand
  <1>16. ASSUME NEW t \in Tabs, File(t) PROVE CleanInv'
    <2>1. tab' = [tab EXCEPT ![t] = tab'[t]] /\ tab'[t].at # "leaving"
      BY <1>1, <1>2, <1>3, <1>4, <1>16 DEF File, Home, TypeOK, Tab
    <2> QED BY <2>1, <1>6, <1>7, <1>16 DEF File, Home, UnderWay, InHand
  <1>17. ASSUME NEW t \in Tabs, FileLate(t) PROVE CleanInv'
    <2>1. Leaving /\ UnderWay(t)
      BY <1>17 DEF FileLate, Leaving, UnderWay
    <2> QED BY <2>1, <1>6, <1>17 DEF FileLate
  <1>18. ASSUME NEW t \in Tabs, AskUser(t) PROVE CleanInv'
    <2>1. tab' = [tab EXCEPT ![t] = tab'[t]] /\ tab'[t].at \in Waiting \cup {"resuming", "recalling"}
      BY <1>1, <1>3, <1>4, <1>18 DEF AskUser, Waiting, TypeOK, Tab
    <2> QED BY <2>1, <1>5, <1>18 DEF AskUser
  <1>19. ASSUME NEW t \in Tabs, Recall(t) PROVE CleanInv'
    <2> DEFINE key == recallSessionKey(tab[t].user)
               x == [tab[t] EXCEPT !.at = IF key = None THEN "panel" ELSE "open",
                                   !.user = None, !.key = key]
    <2>1. tab' = [tab EXCEPT ![t] = x]
      BY <1>19 DEF Recall
    <2>2. x.at \in Waiting
      BY DEF Waiting, TypeOK, Tab
    <2> HIDE DEF x
    <2> QED BY <2>1, <2>2, <1>5, <1>19 DEF Recall
  <1>20. ASSUME NEW t \in Tabs, AuthChange(t) PROVE CleanInv'
    <2>1. tab' = [tab EXCEPT ![t] = tab'[t]] /\ tab'[t].at \in Waiting \cup {"resuming", "recalling"}
      BY <1>1, <1>3, <1>4, <1>20 DEF AuthChange, Goes, Waiting, TypeOK, Tab
    <2> QED BY <2>1, <1>5, <1>20 DEF AuthChange, Goes
  <1>21. ASSUME NEW t \in Tabs, Confirmed(t) PROVE CleanInv'
    <2>1. tab' = [tab EXCEPT ![t] = tab'[t]] /\ tab'[t].at \in Waiting \cup {"resuming", "recalling"}
      BY <1>1, <1>3, <1>4, <1>21 DEF Confirmed, Home, Waiting, TypeOK, Tab
    <2> QED BY <2>1, <1>5, <1>21 DEF Confirmed, Home
  <1>22. ASSUME NEW t \in Tabs, NEW path, Open(t, path) PROVE CleanInv'
    <2>1. tab' = [tab EXCEPT ![t] = tab'[t]] /\ tab'[t].at \in Waiting \cup {"resuming", "recalling"}
      BY <1>1, <1>3, <1>4, <1>22 DEF Open, Waiting, TypeOK, Tab
    <2> QED BY <2>1, <1>5, <1>22 DEF Open
  <1>23. ASSUME NEW t \in Tabs, EndSession(t) PROVE CleanInv'
    <2>1. PICK left \in {None, session}, path \in {"/", "/sign-in"} :
             tab' = [tab EXCEPT ![t] = Rendered(path, left)]
      BY <1>23 DEF EndSession
    <2>2. Rendered(path, left).at \in {"resuming", "reset", "still"}
      BY <1>3, <1>4 DEF Someone
    <2>3. Leaving
      BY <1>23 DEF EndSession, Leaving
    <2> QED BY <2>1, <2>2, <2>3, <1>5, <1>23 DEF EndSession, Waiting
  <1>24. ASSUME NEW t \in Tabs, NEW u \in Users, SignIn(t, u) PROVE CleanInv'
    BY <1>24 DEF SignIn, Becomes, CleanInv
  <1>25. ASSUME NEW t \in Tabs, NEW u \in Users, NEW path, Link(t, u, path) PROVE CleanInv'
    <2>1. CASE Becomes(t, u)
      BY <2>1, <1>25 DEF Link, Becomes, CleanInv
    <2>2. CASE /\ tab' = [tab EXCEPT ![t] = Rendered("/sign-in", session)]
               /\ UNCHANGED <<session, switched, out>>
      BY <2>2, <1>3, <1>4, <1>5, <1>25 DEF Link, Waiting
    <2> QED BY <2>1, <2>2, <1>25 DEF Link
  <1>26. ASSUME NEW t \in Tabs, Prove(t) PROVE CleanInv'
    <2>1. session' # None
      BY <1>26, SessionAssumption DEF Prove, SetUp
    <2>2. out' = "alone" => ~Leaving
      BY <1>26 DEF Prove, Begins
    <2> DEFINE x == [tab[t] EXCEPT !.at = "ceremony", !.key = session]
    <2>3. tab' = [tab EXCEPT ![t] = x] /\ x.at # "leaving"
      BY <1>26 DEF Prove, TypeOK, Tab
    <2>4. Leaving' => Leaving
      BY <2>3, <1>7
    <2> QED BY <2>1, <2>2, <2>4, <1>26 DEF Prove, CleanInv
  <1>27. ASSUME NEW t \in Tabs, SignOut(t) PROVE CleanInv'
    <2>1. \A u \in Users : vault'[u] = None
      BY <1>27 DEF SignOut, forgetAllSessionKeys, CleanInv
    <2>2. ASSUME out' = "alone" PROVE \A o \in Tabs : ~UnderWay(o)'
      <3>1. ~Busy(t) /\ tab[t].at \in {"open", "panel"}
        BY <1>27, <2>2 DEF SignOut
      <3>2. KeyUnderWay(t) = None
        BY <3>1 DEF KeyUnderWay
      <3>3. tab'[t].at = "leaving" /\ tab'[t].key = None
        BY <3>2, <1>1, <1>27 DEF SignOut, TypeOK, Tab
      <3>4. \A o \in Tabs \ {t} : tab'[o] = tab[o]
        BY <1>27 DEF SignOut, TypeOK
      <3> QED BY <3>1, <3>3, <3>4 DEF UnderWay, Busy, InHand
    <2> QED BY <2>1, <2>2 DEF CleanInv, Clean
  <1>28. CASE UNCHANGED vars
    BY <1>28 DEF vars, CleanInv, Clean, UnderWay, Leaving
  <1> QED BY <1>8, <1>9, <1>10, <1>11, <1>12, <1>13, <1>14, <1>15, <1>16, <1>17, <1>18, <1>19, <1>20, <1>21, <1>22, <1>23, <1>24, <1>25, <1>26, <1>27, <1>28
          DEF Next, Answers

\* Once the browser is signed out, unless an unlock or another sign-out was under
\* way meanwhile, it holds no key of any account, those of sessions that had run
\* out included.
THEOREM SignOutLeavesNoKey == Spec => []NothingLeftBehind
  <1>1. CleanInv => NothingLeftBehind
    BY DEF CleanInv, Clean, NothingLeftBehind
  <1> QED BY <1>1, TypeInit, TypeStep, CleanInit, CleanStep, PTL DEF Spec

-----------------------------------------------------------------------------
(* The store of decrypted values                                           *)


\* A pass has still to come to `f`, or is decrypting it.
Pending(f) ==
    \E p \in Passes :
        /\ pass[p] # NoPass
        /\ \E j \in pass[p].at..Len(order) : order[j] = f

\* The iteration order lists exactly the fields held, and a pass is somewhere
\* on it.
OrderInv ==
    /\ \A i \in 1..Len(order) : ciphertext[order[i]] # Nothing
    /\ \A f \in Fields : ciphertext[f] # Nothing => \E i \in 1..Len(order) : order[i] = f
    /\ \A p \in Passes : pass[p] # NoPass => pass[p].at \in 1..Len(order)

\* What a subscriber was not told of, a pass is going to decrypt and tell.
HeardInv == \A f \in Fields : heard[f] # values[f] => values[f] = Missing /\ Pending(f)

OpenedInv ==
    \A f \in Fields :
        /\ rootKey # Nothing
        /\ ciphertext[f] # Nothing
        /\ values[f].status \notin {"ready", "error"}
        => Pending(f)

\* What is shown, and what a pass is about to show, is of the record held, or
\* of one replaced under a pass.
FreshInv ==
    /\ \A f \in Fields :
          values[f].status = "ready" =>
              /\ ciphertext[f] # Nothing
              /\ values[f].value # ciphertext[f] => f \in overlapped
    /\ \A p \in Passes :
          /\ pass[p] # NoPass
          /\ pass[p].seal # ciphertext[order[pass[p].at]]
          => order[pass[p].at] \in overlapped

LockedInv ==
    rootKey = Nothing /\ ~interrupted =>
        /\ \A p \in Passes : pass[p] = NoPass
        /\ \A f \in Fields : values[f].status # "ready"

IInv == StoreOK /\ OrderInv /\ HeardInv /\ OpenedInv /\ FreshInv /\ LockedInv

-----------------------------------------------------------------------------
LEMMA Snapshots ==
    /\ Missing \in Snapshot /\ Locked \in Snapshot /\ Failed \in Snapshot
    /\ \A s \in Seals : Ready(s) \in Snapshot
    /\ Missing.status = "missing" /\ Locked.status = "locked" /\ Failed.status = "error"
    /\ \A s : Ready(s).status = "ready" /\ Ready(s).value = s
BY DEF Missing, Locked, Failed, Ready, Snapshot

\* A nonempty set of naturals has a least element.
LEMMA Least ==
    ASSUME NEW T \in SUBSET Nat, T # {}
    PROVE  \E x \in T : \A y \in T : x <= y
<1> DEFINE Upto == {1..x : x \in T}
           R == StrictSubsetOrdering(Nat)
<1>1. IsWellFoundedOn(R, FiniteSubsetsOf(Nat)) BY FS_StrictSubsetOrderingWellFounded
<1>2. Upto \subseteq FiniteSubsetsOf(Nat)
  <2>1. ASSUME NEW x \in T PROVE 1..x \in FiniteSubsetsOf(Nat)
    <3>1. IsFiniteSet(1..x) BY FS_Interval
    <3>2. 1..x \in SUBSET Nat OBVIOUS
    <3> QED BY <3>1, <3>2 DEF FiniteSubsetsOf
  <2> QED BY <2>1
<1>3. PICK A \in Upto : \A B \in Upto : ~ (<<B, A>> \in R)
  <2>1. Upto # {} OBVIOUS
  <2> HIDE DEF R, Upto
  <2> QED BY <1>1, <1>2, <2>1, WFMin
<1>4. PICK x \in T : A = 1..x BY <1>3
<1>5. ASSUME NEW y \in T, y < x PROVE FALSE
  <2>1. 1..y \in SUBSET Nat /\ 1..x \in SUBSET Nat /\ x \in Nat /\ y \in Nat OBVIOUS
  <2>2. 1..y \subseteq 1..x /\ 1..y # 1..x
    <3>1. x \in 1..x /\ x \notin 1..y BY <1>5, <2>1
    <3>2. 1..y \subseteq 1..x BY <1>5, <2>1
    <3> QED BY <3>1, <3>2
  <2>3. <<1..y, 1..x>> \in R BY <2>1, <2>2 DEF StrictSubsetOrdering
  <2>4. 1..y \in Upto OBVIOUS
  <2> HIDE DEF R, Upto
  <2> QED BY <2>3, <2>4, <1>3, <1>4
<1> QED
  <2>1. x \in Nat /\ \A y \in T : y \in Nat OBVIOUS
  <2> QED BY <1>5, <2>1

\* What an iteration goes through, from position `i`.
Walk(i, key, ord, ciph, vals) ==
    /\ i \in Nat \ {0} /\ key \in RootKeys /\ ord \in Seq(Fields)
    /\ ciph \in [Fields -> Seals \cup {Nothing}] /\ vals \in [Fields -> Snapshot]
    /\ \A j \in 1..Len(ord) : ciph[ord[j]] # Nothing

StopsAtFirst(stop, i, key, ord, ciph, vals) ==
    /\ stop \in Pass
    /\ stop = NoPass => \A j \in i..Len(ord) : vals[ord[j]].status = "ready"
    /\ stop # NoPass =>
          /\ stop.at \in i..Len(ord)
          /\ stop.key = key
          /\ stop.seal = ciph[ord[stop.at]]
          /\ \A j \in i..(stop.at - 1) : vals[ord[j]].status = "ready"

\* Where the iteration stops: at the first entry that is not ready, or past the
\* end if there is none.
LEMMA StopsFacts ==
    ASSUME NEW i, NEW key, NEW ord, NEW ciph, NEW vals, Walk(i, key, ord, ciph, vals)
    PROVE  StopsAtFirst(Stops(i, key, ord, ciph, vals), i, key, ord, ciph, vals)
<1> USE DEF Walk, StopsAtFirst
<1> DEFINE Todo == {j \in i..Len(ord) : vals[ord[j]].status # "ready"}
<1>0. Len(ord) \in Nat /\ \A j \in i..Len(ord) : j \in Nat /\ ord[j] \in Fields /\ j \in 1..Len(ord)
  BY LenProperties, ElementOfSeq
<1>1. CASE Todo = {}
  <2>1. Stops(i, key, ord, ciph, vals) = NoPass BY <1>1 DEF Stops
  <2> QED BY <1>1, <2>1 DEF Pass
<1>2. CASE Todo # {}
  <2> DEFINE n == CHOOSE j \in Todo : \A l \in Todo : j <= l
  <2>1. n \in Todo /\ \A l \in Todo : n <= l
    <3>1. Todo \in SUBSET Nat BY <1>0
    <3>2. \E x \in Todo : \A y \in Todo : x <= y BY <1>2, <3>1, Least
    <3> QED BY <3>2
  <2>2. Stops(i, key, ord, ciph, vals) = [at |-> n, key |-> key, seal |-> ciph[ord[n]]]
    BY <1>2 DEF Stops
  <2> HIDE DEF n
  <2>3. n \in i..Len(ord) /\ n \in Nat \ {0} /\ ciph[ord[n]] \in Seals
    BY <1>0, <2>1
  <2>4. [at |-> n, key |-> key, seal |-> ciph[ord[n]]] \in Pass
    BY <2>3 DEF Pass
  <2>5. \A j \in i..(n - 1) : vals[ord[j]].status = "ready"
    BY <2>1, <2>3, <1>0
  <2> QED BY <2>2, <2>3, <2>4, <2>5 DEF NoPass
<1> QED BY <1>1, <1>2


\* A pass that starts: it is well-formed and everything that is held and not
\* ready is pending.
LEMMA StartsFacts ==
    ASSUME StoreOK, NEW p \in Passes, NEW key \in RootKeys, Starts(p, key),
           order' \in Seq(Fields),
           ciphertext' \in [Fields -> Seals \cup {Nothing}], values' \in [Fields -> Snapshot],
           \A i \in 1..Len(order') : ciphertext'[order'[i]] # Nothing,
           \A f \in Fields : ciphertext'[f] # Nothing => \E i \in 1..Len(order') : order'[i] = f
    PROVE  /\ pass' \in [Passes -> Pass]
           /\ \A q \in Passes : pass[q] # NoPass => pass'[q] = pass[q]
           /\ \A q \in Passes : pass'[q] # NoPass /\ pass'[q] # pass[q] =>
                 /\ pass'[q].at \in 1..Len(order')
                 /\ pass'[q].seal = ciphertext'[order'[pass'[q].at]]
           /\ \A f \in Fields :
                 ciphertext'[f] # Nothing /\ values'[f].status # "ready" => Pending(f)'
<1> DEFINE stop == Stops(1, key, order', ciphertext', values')
<1>1. /\ stop \in Pass
      /\ stop = NoPass => \A j \in 1..Len(order') : values'[order'[j]].status = "ready"
      /\ stop # NoPass =>
            /\ stop.at \in 1..Len(order')
            /\ stop.seal = ciphertext'[order'[stop.at]]
            /\ \A j \in 1..(stop.at - 1) : values'[order'[j]].status = "ready"
  <2> DEFINE ord == order'
             ciph == ciphertext'
             vals == values'
  <2>1. Walk(1, key, ord, ciph, vals) BY DEF Walk
  <2> HIDE DEF stop, ord, ciph, vals
  <2>2. StopsAtFirst(Stops(1, key, ord, ciph, vals), 1, key, ord, ciph, vals) BY <2>1, StopsFacts
  <2> QED BY <2>2 DEF StopsAtFirst, stop, ord, ciph, vals
<1>2. pass' = [pass EXCEPT ![p] = stop] /\ pass[p] = NoPass /\ pass \in [Passes -> Pass]
  BY DEF Starts, Running, StoreOK
<1> HIDE DEF stop
<1>3. pass'[p] = stop /\ \A q \in Passes \ {p} : pass'[q] = pass[q]
  BY <1>2
<1>4. ASSUME NEW f \in Fields, ciphertext'[f] # Nothing, values'[f].status # "ready"
      PROVE  Pending(f)'
  <2>1. PICK i \in 1..Len(order') : order'[i] = f BY <1>4
  <2>2. stop # NoPass BY <1>1, <1>4, <2>1
  <2>3. Len(order') \in Nat BY LenProperties
  <2>4. i \in stop.at..Len(order') BY <1>1, <1>4, <2>1, <2>2, <2>3
  <2> QED BY <1>3, <2>1, <2>2, <2>4 DEF Pending
<1> QED BY <1>1, <1>2, <1>3, <1>4

\* While a pass goes on and the order only grows, what is pending stays so.
LEMMA PendingKept ==
    ASSUME NEW f \in Fields, Pending(f), StoreOK, OrderInv,
           order' \in Seq(Fields), Len(order) <= Len(order'),
           \A i \in 1..Len(order) : order'[i] = order[i],
           \A q \in Passes : pass[q] # NoPass => pass'[q] = pass[q]
    PROVE  Pending(f)'
<1>1. PICK p \in Passes : pass[p] # NoPass /\ \E j \in pass[p].at..Len(order) : order[j] = f
  BY DEF Pending
<1>2. PICK j \in pass[p].at..Len(order) : order[j] = f BY <1>1
<1>3. Len(order) \in Nat /\ Len(order') \in Nat BY LenProperties DEF StoreOK
<1>4. pass[p].at \in 1..Len(order) BY <1>1 DEF OrderInv
<1>5. j \in 1..Len(order) /\ j \in pass[p].at..Len(order') BY <1>3, <1>4
<1>6. order'[j] = f BY <1>2, <1>5
<1> QED BY <1>1, <1>5, <1>6 DEF Pending

\* What a call of ingest does to the order.
LEMMA StoredFacts ==
    ASSUME StoreOK, OrderInv, NEW records \in Records, Stored(records)
    PROVE  /\ ciphertext' \in [Fields -> Seals \cup {Nothing}]
           /\ order' \in Seq(Fields) /\ Len(order) <= Len(order')
           /\ \A i \in 1..Len(order) : order'[i] = order[i]
           /\ \A i \in 1..Len(order') : ciphertext'[order'[i]] # Nothing
           /\ \A f \in Fields : ciphertext'[f] # Nothing => \E i \in 1..Len(order') : order'[i] = f
           /\ DOMAIN records \subseteq Fields
           /\ \A f \in DOMAIN records : ciphertext'[f] = records[f] /\ records[f] \in Seals
           /\ \A f \in Fields \ DOMAIN records : ciphertext'[f] = ciphertext[f]
           /\ \A f \in Fields : ciphertext[f] # Nothing /\ ciphertext'[f] # ciphertext[f]
                                  => f \in Replaced(records)
           /\ \A f \in Fields : ciphertext[f] # Nothing => ciphertext'[f] # Nothing
           /\ Replaced(records) \subseteq Fields
<1>1. PICK D \in SUBSET Fields : records \in [D -> Seals] BY DEF Records
<1>2. ciphertext' = [f \in Fields |-> IF f \in DOMAIN records THEN records[f] ELSE ciphertext[f]]
  BY DEF Stored
<1> DEFINE new == DOMAIN records \ Held
<1>3. PICK s \in [1..Cardinality(new) -> new] :
          /\ order' = order \o s
          /\ \A f \in new : \E i \in DOMAIN s : s[i] = f
  BY DEF Stored, Inserted
<1>4. IsFiniteSet(new) BY <1>1, FS_Subset, ConstantsAssumption
<1>5. Cardinality(new) \in Nat BY <1>4, FS_CardinalityType
<1>6. new \subseteq Fields BY <1>1
<1> HIDE DEF new
<1>7. s \in Seq(Fields) /\ Len(s) = Cardinality(new) /\ DOMAIN s = 1..Len(s)
  <2>1. s \in Seq(new) /\ Len(s) = Cardinality(new) BY <1>5, SMT
  <2> QED BY <2>1, <1>6, <1>5
<1>8. order \in Seq(Fields) /\ Len(order) \in Nat /\ Len(s) \in Nat
  BY <1>7, LenProperties DEF StoreOK
<1>9. /\ order' \in Seq(Fields) /\ Len(order') = Len(order) + Len(s)
      /\ \A i \in 1..Len(order) : order'[i] = order[i]
      /\ \A i \in 1..Len(s) : order'[Len(order) + i] = s[i]
      /\ \A i \in 1..Len(order') : i > Len(order) => \E j \in 1..Len(s) : order'[i] = s[j]
  <2>1. /\ order \o s \in Seq(Fields) /\ Len(order \o s) = Len(order) + Len(s)
        /\ \A i \in 1 .. Len(order) + Len(s) : (order \o s)[i] =
              IF i <= Len(order) THEN order[i] ELSE s[i - Len(order)]
    BY <1>7, <1>8, ConcatProperties
  <2>2. \A i \in 1..Len(s) : Len(order) + i \in 1..Len(order) + Len(s)
                               /\ ~(Len(order) + i <= Len(order)) /\ (Len(order) + i) - Len(order) = i
    BY <1>8
  <2>3. \A i \in 1..Len(order) : i \in 1..Len(order) + Len(s) /\ i <= Len(order)
    BY <1>8
  <2>4. \A i \in 1..Len(order) + Len(s) : i > Len(order) =>
            i - Len(order) \in 1..Len(s) /\ ~(i <= Len(order))
    BY <1>8
  <2> QED BY <1>3, <2>1, <2>2, <2>3, <2>4
<1>10. \A f \in new : f \in DOMAIN records BY DEF new
<1>11. ciphertext \in [Fields -> Seals \cup {Nothing}] /\ Nothing \notin Seals
  BY ConstantsAssumption DEF StoreOK
<1>12. \A f \in Fields : ciphertext[f] # Nothing => ciphertext'[f] # Nothing
  BY <1>1, <1>2, <1>11
<1>13. ASSUME NEW i \in 1..Len(order') PROVE ciphertext'[order'[i]] # Nothing
  <2>1. CASE i > Len(order)
    <3>1. PICK j \in 1..Len(s) : order'[i] = s[j] BY <1>9, <2>1
    <3>2. s[j] \in new BY <1>3, <1>7, <3>1
    <3> QED BY <1>1, <1>2, <1>6, <1>10, <1>11, <3>1, <3>2
  <2>2. CASE ~(i > Len(order))
    <3>1. i \in 1..Len(order) BY <1>8, <1>9, <2>2
    <3>2. order[i] \in Fields BY <1>8, <3>1, ElementOfSeq
    <3> QED BY <1>9, <1>12, <3>1, <3>2 DEF OrderInv
  <2> QED BY <2>1, <2>2
<1>14. ASSUME NEW f \in Fields, ciphertext'[f] # Nothing
       PROVE  \E i \in 1..Len(order') : order'[i] = f
  <2>1. CASE f \in new
    <3>1. PICK i \in 1..Len(s) : s[i] = f BY <1>3, <1>7, <2>1
    <3>2. Len(order) + i \in 1..Len(order') BY <1>8, <1>9, <3>1
    <3> QED BY <1>9, <3>1, <3>2
  <2>2. CASE f \notin new
    <3>1. ciphertext[f] # Nothing BY <1>2, <1>14, <2>2 DEF new, Held
    <3>2. PICK i \in 1..Len(order) : order[i] = f BY <3>1 DEF OrderInv
    <3>3. i \in 1..Len(order') BY <1>8, <1>9, <3>2
    <3> QED BY <1>9, <3>2, <3>3
  <2> QED BY <2>1, <2>2
<1>15. \A f \in Fields : ciphertext[f] # Nothing /\ ciphertext'[f] # ciphertext[f]
                           => f \in Replaced(records)
  BY <1>1, <1>2 DEF Replaced, Held
<1>16. ciphertext' \in [Fields -> Seals \cup {Nothing}] BY <1>1, <1>2, <1>11
<1>17. /\ \A f \in DOMAIN records : ciphertext'[f] = records[f] /\ records[f] \in Seals
       /\ \A f \in Fields \ DOMAIN records : ciphertext'[f] = ciphertext[f]
       /\ DOMAIN records \subseteq Fields
  BY <1>1, <1>2
<1>18. Replaced(records) \subseteq Fields BY <1>17 DEF Replaced
<1>19. Len(order) <= Len(order') BY <1>8, <1>9
<1> QED BY <1>9, <1>12, <1>13, <1>14, <1>15, <1>16, <1>17, <1>18, <1>19
-----------------------------------------------------------------------------
(* Each action preserves the invariant.                                    *)

LEMMA Initially == StoreInit => IInv
<1> SUFFICES ASSUME StoreInit PROVE IInv OBVIOUS
<1>1. Len(order) = 0 /\ order \in Seq(Fields) BY DEF StoreInit
<1>2. /\ \A f \in Fields : ciphertext[f] = Nothing /\ values[f] = Missing /\ heard[f] = Missing
      /\ \A p \in Passes : pass[p] = NoPass
  BY DEF StoreInit
<1>3. StoreOK
  <2>1. values \in [Fields -> Snapshot] /\ heard \in [Fields -> Snapshot]
    BY Snapshots DEF StoreInit
  <2> QED BY <1>1, <2>1 DEF StoreInit, StoreOK, Pass
<1>4. OrderInv BY <1>1, <1>2 DEF OrderInv
<1>5. HeardInv /\ OpenedInv BY <1>2 DEF HeardInv, OpenedInv
<1>6. FreshInv /\ LockedInv BY <1>2, Snapshots DEF FreshInv, LockedInv
<1> QED BY <1>3, <1>4, <1>5, <1>6 DEF IInv

LEMMA UnlockKeeps ==
    ASSUME IInv, NEW p \in Passes, NEW key \in RootKeys, Unlock(p, key)
    PROVE  IInv'
<1> USE DEF IInv
<1>0. /\ rootKey' = key /\ Starts(p, key)
      /\ UNCHANGED <<ciphertext, order, values, heard, overlapped, interrupted>>
  BY DEF Unlock, passHistory
<1>1. /\ pass' \in [Passes -> Pass]
      /\ \A q \in Passes : pass[q] # NoPass => pass'[q] = pass[q]
      /\ \A q \in Passes : pass'[q] # NoPass /\ pass'[q] # pass[q] =>
            /\ pass'[q].at \in 1..Len(order')
            /\ pass'[q].seal = ciphertext'[order'[pass'[q].at]]
      /\ \A f \in Fields :
            ciphertext'[f] # Nothing /\ values'[f].status # "ready" => Pending(f)'
  BY <1>0, StartsFacts DEF StoreOK, OrderInv
<1>2. \A f \in Fields : Pending(f) => Pending(f)'
  <2>1. Len(order) <= Len(order') BY <1>0, LenProperties DEF StoreOK
  <2> QED BY <1>0, <1>1, <2>1, PendingKept DEF StoreOK
<1>3. StoreOK' BY <1>0, <1>1 DEF StoreOK
<1>4. OrderInv' BY <1>0, <1>1 DEF OrderInv
<1>5. HeardInv' BY <1>0, <1>2 DEF HeardInv
<1>6. OpenedInv' BY <1>0, <1>1 DEF OpenedInv
<1>7. FreshInv' BY <1>0, <1>1 DEF FreshInv
<1>8. LockedInv' BY <1>0, ConstantsAssumption DEF LockedInv
<1> QED BY <1>3, <1>4, <1>5, <1>6, <1>7, <1>8

LEMMA LockKeeps ==
    ASSUME IInv, Lock
    PROVE  IInv'
<1> USE DEF IInv
<1>1. /\ rootKey' = Nothing
      /\ values' = [f \in Fields |-> Missing]
      /\ heard' = [f \in Fields |-> IF values[f] = Missing THEN heard[f] ELSE Missing]
      /\ interrupted' = (Running # {})
      /\ UNCHANGED <<ciphertext, order, pass, overlapped>>
  BY DEF Lock
<1>2. \A f \in Fields : Pending(f) <=> Pending(f)' BY <1>1 DEF Pending
<1>3. StoreOK'
  <2>1. heard' \in [Fields -> Snapshot] BY <1>1, Snapshots DEF StoreOK
  <2>2. values' \in [Fields -> Snapshot] BY <1>1, Snapshots
  <2> QED BY <1>1, <2>1, <2>2 DEF StoreOK
<1>4. OrderInv' BY <1>1 DEF OrderInv
<1>5. HeardInv' BY <1>1, <1>2 DEF HeardInv
<1>6. OpenedInv' BY <1>1 DEF OpenedInv
<1>7. FreshInv' BY <1>1, Snapshots DEF FreshInv
<1>8. LockedInv'
  <2>1. ~interrupted' => \A p \in Passes : pass'[p] = NoPass BY <1>1 DEF Running
  <2> QED BY <1>1, <2>1, Snapshots DEF LockedInv
<1> QED BY <1>3, <1>4, <1>5, <1>6, <1>7, <1>8

LEMMA IngestKeeps ==
    ASSUME IInv, NEW p \in Passes, NEW records \in Records, Ingest(p, records)
    PROVE  IInv'
<1> USE DEF IInv
<1>0. /\ rootKey # Nothing /\ Stored(records) /\ Starts(p, rootKey)
      /\ values' = [f \in Fields |-> IF f \in Replaced(records) THEN Missing ELSE values[f]]
      /\ UNCHANGED <<rootKey, heard, interrupted>>
  BY DEF Ingest
<1>1. /\ ciphertext' \in [Fields -> Seals \cup {Nothing}]
      /\ order' \in Seq(Fields) /\ Len(order) <= Len(order')
      /\ \A i \in 1..Len(order) : order'[i] = order[i]
      /\ \A i \in 1..Len(order') : ciphertext'[order'[i]] # Nothing
      /\ \A f \in Fields : ciphertext'[f] # Nothing => \E i \in 1..Len(order') : order'[i] = f
      /\ \A f \in Fields : ciphertext[f] # Nothing /\ ciphertext'[f] # ciphertext[f]
                             => f \in Replaced(records)
      /\ \A f \in Fields : ciphertext[f] # Nothing => ciphertext'[f] # Nothing
      /\ Replaced(records) \subseteq Fields
  BY <1>0, StoredFacts
<1>2. values' \in [Fields -> Snapshot] BY <1>0, Snapshots DEF StoreOK
<1>3. rootKey \in RootKeys BY <1>0 DEF StoreOK
<1>4. /\ pass' \in [Passes -> Pass]
      /\ \A q \in Passes : pass[q] # NoPass => pass'[q] = pass[q]
      /\ \A q \in Passes : pass'[q] # NoPass /\ pass'[q] # pass[q] =>
            /\ pass'[q].at \in 1..Len(order')
            /\ pass'[q].seal = ciphertext'[order'[pass'[q].at]]
      /\ \A f \in Fields :
            ciphertext'[f] # Nothing /\ values'[f].status # "ready" => Pending(f)'
  BY <1>0, <1>1, <1>2, <1>3, StartsFacts
<1>5. \A f \in Fields : Pending(f) => Pending(f)'
  BY <1>1, <1>4, PendingKept
<1>6. /\ overlapped' = overlapped \cup
            {f \in Replaced(records) : \E q \in Running : FieldOf(q) = f}
      /\ Running = {q \in Passes : pass[q] # NoPass}
      /\ \A q \in Passes : FieldOf(q) = order[pass[q].at]
  BY <1>0 DEF Stored, Running, FieldOf
<1>7. Len(order) \in Nat /\ Len(order') \in Nat BY <1>1, LenProperties DEF StoreOK
<1>8. StoreOK' BY <1>0, <1>1, <1>2, <1>4, <1>6 DEF StoreOK
<1>9. OrderInv' BY <1>1, <1>4, <1>7 DEF OrderInv
<1>10. HeardInv'
  <2> SUFFICES ASSUME NEW f \in Fields, heard'[f] # values'[f]
               PROVE  values'[f] = Missing /\ Pending(f)'
    BY DEF HeardInv
  <2>1. CASE f \in Replaced(records)
    <3>1. values'[f] = Missing /\ ciphertext'[f] # Nothing
      BY <1>0, <1>1, <2>1 DEF Replaced, Held
    <3> QED BY <1>4, <3>1, Snapshots
  <2>2. CASE f \notin Replaced(records)
    BY <1>0, <1>5, <2>2 DEF HeardInv
  <2> QED BY <2>1, <2>2
<1>11. OpenedInv' BY <1>4 DEF OpenedInv
<1>12. FreshInv'
  <2>1. ASSUME NEW f \in Fields, values'[f].status = "ready"
        PROVE  ciphertext'[f] # Nothing /\ (values'[f].value # ciphertext'[f] => f \in overlapped')
    <3>1. f \notin Replaced(records) /\ values'[f] = values[f]
      BY <1>0, <2>1, Snapshots
    <3>2. ciphertext[f] # Nothing /\ ciphertext'[f] = ciphertext[f]
      BY <1>1, <2>1, <3>1 DEF FreshInv
    <3> QED BY <1>6, <2>1, <3>1, <3>2 DEF FreshInv
  <2>2. ASSUME NEW q \in Passes, pass'[q] # NoPass,
               pass'[q].seal # ciphertext'[order'[pass'[q].at]]
        PROVE  order'[pass'[q].at] \in overlapped'
    <3>1. pass'[q] = pass[q] BY <1>4, <2>2
    <3>2. pass[q].at \in 1..Len(order) BY <2>2, <3>1 DEF OrderInv
    <3> DEFINE f == order[pass[q].at]
    <3>3. f \in Fields /\ order'[pass'[q].at] = f
      BY <1>1, <3>1, <3>2, ElementOfSeq DEF StoreOK
    <3>4. ciphertext[f] # Nothing BY <3>2 DEF OrderInv
    <3>5. CASE ciphertext'[f] = ciphertext[f]
      BY <1>6, <2>2, <3>1, <3>3, <3>5 DEF FreshInv
    <3>6. CASE ciphertext'[f] # ciphertext[f]
      <4>1. f \in Replaced(records) BY <1>1, <3>3, <3>4, <3>6
      <4>2. q \in Running /\ FieldOf(q) = f BY <1>6, <2>2, <3>1
      <4> QED BY <1>6, <3>3, <4>1, <4>2
    <3> QED BY <3>5, <3>6
  <2> QED BY <2>1, <2>2 DEF FreshInv
<1>13. LockedInv' BY <1>0 DEF LockedInv
<1> QED BY <1>8, <1>9, <1>10, <1>11, <1>12, <1>13

LEMMA IngestLockedKeeps ==
    ASSUME IInv, NEW records \in Records, IngestLocked(records)
    PROVE  IInv'
<1> USE DEF IInv
<1>0. /\ rootKey = Nothing /\ Stored(records)
      /\ values' = [f \in Fields |-> IF f \in DOMAIN records THEN Locked ELSE values[f]]
      /\ heard' = [f \in Fields |-> IF f \in DOMAIN records THEN Locked ELSE heard[f]]
      /\ UNCHANGED <<rootKey, pass, interrupted>>
  BY DEF IngestLocked
<1>1. /\ ciphertext' \in [Fields -> Seals \cup {Nothing}]
      /\ order' \in Seq(Fields) /\ Len(order) <= Len(order')
      /\ \A i \in 1..Len(order) : order'[i] = order[i]
      /\ \A i \in 1..Len(order') : ciphertext'[order'[i]] # Nothing
      /\ \A f \in Fields : ciphertext'[f] # Nothing => \E i \in 1..Len(order') : order'[i] = f
      /\ \A f \in Fields \ DOMAIN records : ciphertext'[f] = ciphertext[f]
      /\ \A f \in Fields : ciphertext[f] # Nothing /\ ciphertext'[f] # ciphertext[f]
                             => f \in Replaced(records)
      /\ Replaced(records) \subseteq Fields
  BY <1>0, StoredFacts
<1>2. values' \in [Fields -> Snapshot] /\ heard' \in [Fields -> Snapshot]
  BY <1>0, Snapshots DEF StoreOK
<1>3. \A f \in Fields : Pending(f) => Pending(f)'
  BY <1>0, <1>1, PendingKept
<1>4. /\ overlapped' = overlapped \cup
            {f \in Replaced(records) : \E q \in Running : FieldOf(q) = f}
      /\ Running = {q \in Passes : pass[q] # NoPass}
      /\ \A q \in Passes : FieldOf(q) = order[pass[q].at]
  BY <1>0 DEF Stored, Running, FieldOf
<1>5. Len(order) \in Nat /\ Len(order') \in Nat BY <1>1, LenProperties DEF StoreOK
<1>6. StoreOK' BY <1>0, <1>1, <1>2, <1>4 DEF StoreOK
<1>7. OrderInv' BY <1>0, <1>1, <1>5 DEF OrderInv
<1>8. HeardInv' BY <1>0, <1>3 DEF HeardInv
<1>9. OpenedInv' BY <1>0 DEF OpenedInv
<1>10. FreshInv'
  <2>1. ASSUME NEW f \in Fields, values'[f].status = "ready"
        PROVE  ciphertext'[f] # Nothing /\ (values'[f].value # ciphertext'[f] => f \in overlapped')
    <3>1. f \notin DOMAIN records /\ values'[f] = values[f]
      BY <1>0, <2>1, Snapshots
    <3> QED BY <1>1, <1>4, <2>1, <3>1 DEF FreshInv
  <2>2. ASSUME NEW q \in Passes, pass'[q] # NoPass,
               pass'[q].seal # ciphertext'[order'[pass'[q].at]]
        PROVE  order'[pass'[q].at] \in overlapped'
    <3>1. pass'[q] = pass[q] BY <1>0
    <3>2. pass[q].at \in 1..Len(order) BY <2>2, <3>1 DEF OrderInv
    <3> DEFINE f == order[pass[q].at]
    <3>3. f \in Fields /\ order'[pass'[q].at] = f
      BY <1>1, <3>1, <3>2, ElementOfSeq DEF StoreOK
    <3>4. ciphertext[f] # Nothing BY <3>2 DEF OrderInv
    <3>5. CASE ciphertext'[f] = ciphertext[f]
      BY <1>4, <2>2, <3>1, <3>3, <3>5 DEF FreshInv
    <3>6. CASE ciphertext'[f] # ciphertext[f]
      <4>1. f \in Replaced(records) BY <1>1, <3>3, <3>4, <3>6
      <4>2. q \in Running /\ FieldOf(q) = f BY <1>4, <2>2, <3>1
      <4> QED BY <1>4, <3>3, <4>1, <4>2
    <3> QED BY <3>5, <3>6
  <2> QED BY <2>1, <2>2 DEF FreshInv
<1>11. LockedInv' BY <1>0, Snapshots DEF LockedInv
<1> QED BY <1>6, <1>7, <1>8, <1>9, <1>10, <1>11

LEMMA DecryptKeeps ==
    ASSUME IInv, NEW p \in Passes, Decrypt(p)
    PROVE  IInv'
<1> USE DEF IInv
<1> DEFINE f == order[pass[p].at]
           result == Decrypted(pass[p].key, pass[p].seal)
           stop == Stops(pass[p].at + 1, pass[p].key, order, ciphertext, values')
<1>0. /\ pass[p] # NoPass
      /\ values' = [values EXCEPT ![f] = result]
      /\ heard' = [heard EXCEPT ![f] = result]
      /\ pass' = [pass EXCEPT ![p] = stop]
      /\ UNCHANGED <<rootKey, ciphertext, order, overlapped, interrupted>>
  BY DEF Decrypt, Running, FieldOf, passHistory
<1>1. /\ pass[p].at \in 1..Len(order) /\ pass[p].key \in RootKeys /\ pass[p].seal \in Seals
      /\ Len(order) \in Nat /\ pass[p].at + 1 \in Nat \ {0}
  <2>1. Len(order) \in Nat BY LenProperties DEF StoreOK
  <2>2. pass[p].at \in 1..Len(order) BY <1>0 DEF OrderInv
  <2>3. pass[p] \in [at : Nat \ {0}, key : RootKeys, seal : Seals] BY <1>0 DEF StoreOK, Pass
  <2> QED BY <2>1, <2>2, <2>3
<1>2. f \in Fields /\ ciphertext[f] # Nothing BY <1>1, ElementOfSeq DEF StoreOK, OrderInv
<1>3. /\ result \in Snapshot
      /\ result.status \in {"ready", "error"}
      /\ result.status = "ready" => result.value = pass[p].seal
  BY <1>1, Snapshots DEF Decrypted
<1>4. values' \in [Fields -> Snapshot] /\ heard' \in [Fields -> Snapshot]
  BY <1>0, <1>3 DEF StoreOK
<1>5. /\ stop \in Pass
      /\ stop = NoPass =>
           \A j \in (pass[p].at + 1)..Len(order) : values'[order[j]].status = "ready"
      /\ stop # NoPass =>
           /\ stop.at \in (pass[p].at + 1)..Len(order)
           /\ stop.seal = ciphertext[order[stop.at]]
           /\ \A j \in (pass[p].at + 1)..(stop.at - 1) : values'[order[j]].status = "ready"
  <2>1. order \in Seq(Fields) /\ ciphertext \in [Fields -> Seals \cup {Nothing}]
        /\ \A j \in 1..Len(order) : ciphertext[order[j]] # Nothing
    BY DEF StoreOK, OrderInv
  <2> DEFINE i == pass[p].at + 1
             key == pass[p].key
             vals == values'
             ord == order
             ciph == ciphertext
  <2>2. /\ i \in Nat \ {0} /\ key \in RootKeys /\ vals \in [Fields -> Snapshot]
        /\ ord \in Seq(Fields) /\ ciph \in [Fields -> Seals \cup {Nothing}]
        /\ \A j \in 1..Len(ord) : ciph[ord[j]] # Nothing
    BY <1>1, <1>4, <2>1
  <2> HIDE DEF f, result, stop, i, key, vals, ord, ciph
  <2>3. Walk(i, key, ord, ciph, vals) BY <2>2 DEF Walk
  <2>4. StopsAtFirst(Stops(i, key, ord, ciph, vals), i, key, ord, ciph, vals)
    BY <2>3, StopsFacts
  <2> QED BY <2>4 DEF StopsAtFirst, stop, i, key, vals, ord, ciph
<1> HIDE DEF f, result, stop
<1>6. pass'[p] = stop /\ \A q \in Passes \ {p} : pass'[q] = pass[q]
  BY <1>0 DEF StoreOK
<1>7. /\ values'[f] = result /\ heard'[f] = result
      /\ \A g \in Fields \ {f} : values'[g] = values[g] /\ heard'[g] = heard[g]
  BY <1>0, <1>2 DEF StoreOK
<1>8. ASSUME NEW g \in Fields \ {f}, Pending(g), values[g].status # "ready"
      PROVE  Pending(g)'
  <2>1. PICK q \in Passes : pass[q] # NoPass /\ \E j \in pass[q].at..Len(order) : order[j] = g
    BY <1>8 DEF Pending
  <2>2. PICK j \in pass[q].at..Len(order) : order[j] = g BY <2>1
  <2>3. CASE q # p BY <1>0, <1>6, <2>1, <2>2, <2>3 DEF Pending
  <2>4. CASE q = p
    <3>1. j # pass[p].at BY <2>2, <2>4 DEF f
    <3>2. j \in (pass[p].at + 1)..Len(order) BY <1>1, <2>2, <2>4, <3>1
    <3>3. values'[order[j]].status # "ready" BY <1>7, <1>8, <2>2
    <3>4. stop # NoPass BY <1>5, <3>2, <3>3
    <3>5. j \in stop.at..Len(order) BY <1>1, <1>5, <3>2, <3>3, <3>4
    <3> QED BY <1>0, <1>6, <2>2, <3>4, <3>5 DEF Pending
  <2> QED BY <2>3, <2>4
<1>9. StoreOK' BY <1>0, <1>4, <1>5 DEF StoreOK
<1>10. OrderInv' BY <1>0, <1>1, <1>5, <1>6 DEF OrderInv
<1>11. HeardInv'
  <2> SUFFICES ASSUME NEW g \in Fields, heard'[g] # values'[g]
               PROVE  values'[g] = Missing /\ Pending(g)'
    BY DEF HeardInv
  <2>1. g # f BY <1>7
  <2>2. heard[g] # values[g] BY <1>7, <2>1
  <2>3. values[g] = Missing /\ Pending(g) BY <2>2 DEF HeardInv
  <2>4. Pending(g)' BY <1>8, <2>1, <2>3, Snapshots
  <2> QED BY <1>7, <2>1, <2>3, <2>4
<1>12. OpenedInv'
  <2> SUFFICES ASSUME NEW g \in Fields, rootKey' # Nothing, ciphertext'[g] # Nothing,
                      values'[g].status \notin {"ready", "error"}
               PROVE  Pending(g)'
    BY DEF OpenedInv
  <2>1. g # f BY <1>3, <1>7
  <2>2. values[g].status \notin {"ready", "error"} BY <1>7, <2>1
  <2>3. Pending(g) BY <1>0, <2>2 DEF OpenedInv
  <2> QED BY <1>8, <2>1, <2>2, <2>3
<1>13. FreshInv'
  <2>1. ASSUME NEW g \in Fields, values'[g].status = "ready"
        PROVE  ciphertext'[g] # Nothing /\ (values'[g].value # ciphertext'[g] => g \in overlapped')
    <3>1. CASE g = f
      <4>1. pass[p].seal # ciphertext[f] => f \in overlapped BY <1>0 DEF FreshInv, f
      <4> QED BY <1>0, <1>2, <1>3, <1>7, <2>1, <3>1, <4>1
    <3>2. CASE g # f BY <1>0, <1>7, <2>1, <3>2 DEF FreshInv
    <3> QED BY <3>1, <3>2
  <2>2. ASSUME NEW q \in Passes, pass'[q] # NoPass,
               pass'[q].seal # ciphertext'[order'[pass'[q].at]]
        PROVE  order'[pass'[q].at] \in overlapped'
    <3>1. q # p BY <1>0, <1>5, <1>6, <2>2
    <3> QED BY <1>0, <1>6, <2>2, <3>1 DEF FreshInv
  <2> QED BY <2>1, <2>2 DEF FreshInv
<1>14. LockedInv' BY <1>0 DEF LockedInv
<1> QED BY <1>9, <1>10, <1>11, <1>12, <1>13, <1>14

LEMMA Preserved == IInv /\ [StoreNext]_storeVars => IInv'
<1> SUFFICES ASSUME IInv, [StoreNext]_storeVars PROVE IInv' OBVIOUS
<1>1. CASE \E p \in Passes, key \in RootKeys : Unlock(p, key) BY <1>1, UnlockKeeps
<1>2. CASE Lock BY <1>2, LockKeeps
<1>3. CASE \E p \in Passes, records \in Records : Ingest(p, records) BY <1>3, IngestKeeps
<1>4. CASE \E records \in Records : IngestLocked(records) BY <1>4, IngestLockedKeeps
<1>5. CASE \E p \in Passes : Decrypt(p) BY <1>5, DecryptKeeps
<1>6. CASE UNCHANGED storeVars
  BY <1>6 DEF storeVars, passHistory, IInv, StoreOK, OrderInv, HeardInv, OpenedInv, FreshInv, LockedInv, Pending
<1> QED BY <1>1, <1>2, <1>3, <1>4, <1>5, <1>6 DEF StoreNext

LEMMA Invariant == StoreSpec => []IInv
BY Initially, Preserved, PTL DEF StoreSpec

-----------------------------------------------------------------------------
\* Every variable of the store keeps its type, and a pass is always at an entry
\* that exists.
THEOREM StoreTypeCorrect == StoreSpec => []StoreOK
<1>1. IInv => StoreOK BY DEF IInv
<1> QED BY Invariant, <1>1, PTL

\* When nothing is under way every subscriber has been told of what the store
\* holds, however the calls interleaved.
THEOREM SubscribersHear == StoreSpec => []HeardWhenQuiet
<1>1. IInv => HeardWhenQuiet
  <2> SUFFICES ASSUME IInv, Running = {} PROVE heard = values BY DEF HeardWhenQuiet
  <2>1. \A f \in Fields : ~Pending(f) BY DEF Running, Pending
  <2>2. \A f \in Fields : heard[f] = values[f] BY <2>1 DEF IInv, HeardInv
  <2> QED BY <2>2 DEF IInv, StoreOK
<1> QED BY Invariant, <1>1, PTL

\* When nothing is under way an unlocked store has dealt with every record.
THEOREM NothingLeftSealed == StoreSpec => []OpenedWhenQuiet
<1>1. IInv => OpenedWhenQuiet
  <2> SUFFICES ASSUME IInv, Running = {}, rootKey # Nothing, NEW f \in Held
               PROVE  values[f].status \in {"ready", "error"}
    BY DEF OpenedWhenQuiet
  <2>1. ~Pending(f) BY DEF Running, Pending
  <2> QED BY <2>1 DEF IInv, OpenedInv, Held
<1> QED BY Invariant, <1>1, PTL

\* An outdated value is only ever that of a record replaced under a pass.
THEOREM IngestAuthoritative == StoreSpec => []StaleOnlyIfOverlapped
<1>1. IInv => StaleOnlyIfOverlapped BY DEF IInv, FreshInv, StaleOnlyIfOverlapped
<1> QED BY Invariant, <1>1, PTL

\* A store locked while nothing was under way holds nothing decrypted.
THEOREM LockedEmpty == StoreSpec => []LockedHoldsNothing
<1>1. IInv => LockedHoldsNothing BY DEF IInv, LockedInv, LockedHoldsNothing
<1> QED BY Invariant, <1>1, PTL

\* The two about a store that has gone quiet at once.
THEOREM QuietIsSettled == StoreSpec => []SettlesWhenQuiet
BY SubscribersHear, NothingLeftSealed, PTL DEF SettlesWhenQuiet

\* The two about what a store may hold at once.
THEOREM NothingForeign == StoreSpec => []ValuesBelong
BY IngestAuthoritative, LockedEmpty, PTL DEF ValuesBelong

-----------------------------------------------------------------------------
(* Dates: years and months, one after another                               *)

\* Months counted from the beginning, and the first day of each.
First(n) == Date(n \div 12, (n % 12) + 1, 1)
MonthNumber(date) == 12 * YearOf(date) + MonthOf(date) - 1

LEMMA YearLasts ==
    ASSUME NEW y \in Int
    PROVE  /\ YearFirst(y) \in Int
           /\ YearFirst(y + 1) = YearFirst(y) + (IF IsLeap(y) THEN 366 ELSE 365)
<1>1. PICK a \in Int, b \in Int, c \in Int :
        a = LeapsBefore(y) /\ b = LeapsBefore(y + 1) /\ c = LeapsBefore(1970)
  BY DEF LeapsBefore
<1>2. b - a \in {0, 1} BY <1>1 DEF LeapsBefore
<1>3. YearFirst(y) = 365 * (y - 1970) + a - c /\ YearFirst(y + 1) = 365 * (y + 1 - 1970) + b - c
  BY <1>1 DEF YearFirst
<1>4. IsLeap(y) <=> b > a BY <1>1 DEF IsLeap
<1> QED BY <1>1, <1>2, <1>3, <1>4

LEMMA YearIs ==
    ASSUME NEW date \in Int
    PROVE  /\ YearOf(date) \in Int
           /\ YearFirst(YearOf(date)) <= date /\ date < YearFirst(YearOf(date) + 1)
<1>1. PICK g \in Int : /\ g = (400 * (date - 2)) \div 146097
                       /\ 146097 * g <= 400 * (date - 2) /\ 400 * (date - 2) < 146097 * g + 146097
  OBVIOUS
<1>2. YearFirst(1970 + g) <= date /\ date < YearFirst(1970 + g + 2)
  <2>1. YearFirst(1970 + g) <= date
    BY <1>1 DEF YearFirst, LeapsBefore
  <2>2. date < YearFirst(1970 + g + 2)
    BY <1>1 DEF YearFirst, LeapsBefore
  <2> QED BY <2>1, <2>2
<1>3. YearOf(date) = IF YearFirst(1970 + g + 1) <= date THEN 1970 + g + 1 ELSE 1970 + g
  BY <1>1 DEF YearOf
<1>4. YearFirst(1970 + g + 1) \in Int BY YearLasts
<1> QED BY <1>2, <1>3, <1>4

\* The firsts of a year's months.
LEMMA Firsts ==
    ASSUME NEW y \in Int
    PROVE  \E a \in Int, leap \in {0, 1} :
             /\ a = YearFirst(y) /\ YearFirst(y + 1) = a + 365 + leap
             /\ Date(y, 1, 1) = a /\ Date(y, 2, 1) = a + 31
             /\ Date(y, 3, 1) = a + leap + 59 /\ Date(y, 4, 1) = a + leap + 90
             /\ Date(y, 5, 1) = a + leap + 120 /\ Date(y, 6, 1) = a + leap + 151
             /\ Date(y, 7, 1) = a + leap + 181 /\ Date(y, 8, 1) = a + leap + 212
             /\ Date(y, 9, 1) = a + leap + 243 /\ Date(y, 10, 1) = a + leap + 273
             /\ Date(y, 11, 1) = a + leap + 304 /\ Date(y, 12, 1) = a + leap + 334
<1>1. PICK leap \in {0, 1} : leap = IF IsLeap(y) THEN 1 ELSE 0 OBVIOUS
<1>2. PICK a \in Int : a = YearFirst(y) /\ YearFirst(y + 1) = a + 365 + leap
  BY <1>1, YearLasts
<1>3. ASSUME NEW k \in Int, DaysBefore[k] \in Int
      PROVE  Date(y, k, 1) = a + DaysBefore[k] + (IF k > 2 THEN leap ELSE 0)
  BY <1>1, <1>2, <1>3 DEF Date
<1>4. \A k \in 1..12 : DaysBefore[k] =
        CASE k = 1 -> 0 [] k = 2 -> 31 [] k = 3 -> 59 [] k = 4 -> 90
          [] k = 5 -> 120 [] k = 6 -> 151 [] k = 7 -> 181 [] k = 8 -> 212
          [] k = 9 -> 243 [] k = 10 -> 273 [] k = 11 -> 304 [] k = 12 -> 334
  BY DEF DaysBefore
<1>5. \A k \in 1..12 : DaysBefore[k] \in Int BY <1>4
<1>6. \A k \in 1..12 : Date(y, k, 1) = a + DaysBefore[k] + (IF k > 2 THEN leap ELSE 0)
  BY <1>3, <1>5
<1> QED BY <1>2, <1>4, <1>6

\* The first of a month in its year, and how long it lasts.
LEMMA MonthLasts ==
    ASSUME NEW y \in Int, NEW m \in 1..12
    PROVE  /\ Date(y, m, 1) \in Int
           /\ YearFirst(y) <= Date(y, m, 1)
           /\ Date(y, 1, 1) = YearFirst(y)
           /\ m < 12 => Date(y, m + 1, 1) - Date(y, m, 1) \in 28..31
           /\ YearFirst(y + 1) - Date(y, 12, 1) = 31
BY Firsts

LEMMA MonthIs ==
    ASSUME NEW date \in Int
    PROVE  LET y == YearOf(date)
               m == MonthOf(date)
           IN  /\ m \in 1..12 /\ Date(y, m, 1) <= date
               /\ date < IF m = 12 THEN YearFirst(y + 1) ELSE Date(y, m + 1, 1)
<1>1. PICK y \in Int : y = YearOf(date) /\ YearFirst(y) <= date /\ date < YearFirst(y + 1)
  BY YearIs
<1>2. PICK a \in Int : a = YearFirst(y) BY YearLasts
<1>3. \A k \in 1..12 : Date(y, k, 1) \in Int BY MonthLasts
<1>4. PICK g \in Int : /\ g = 1 + (date - a) \div 32
                       /\ 32 * (g - 1) <= date - a /\ date - a < 32 * g
  OBVIOUS
<1>5. g \in 1..12
  <2>1. YearFirst(y + 1) \in Int /\ YearFirst(y + 1) <= a + 366 BY <1>2, YearLasts
  <2> QED BY <1>1, <1>2, <1>4, <2>1
<1>6. MonthOf(date) = IF g < 12 /\ Date(y, g + 1, 1) <= date THEN g + 1 ELSE g
  BY <1>1, <1>2, <1>4 DEF MonthOf
<1>7. MonthOf(date) \in 1..12 BY <1>5, <1>6
<1>8. /\ \A k \in 1..12 : k = g => Date(y, k, 1) <= date
      /\ \A k \in 1..10 : k = g => date < Date(y, k + 2, 1)
  <2>1. \A k \in 1..12 : Date(y, k, 1) <= a + 32 * (k - 1) BY <1>2, Firsts
  <2>2. \A k \in 1..10 : a + 32 * k <= Date(y, k + 2, 1) BY <1>2, Firsts
  <2>3. \A k \in 1..10 : k + 2 \in 1..12 OBVIOUS
  <2> QED BY <1>1, <1>2, <1>3, <1>4, <2>1, <2>2, <2>3
<1>9. g = 11 \/ g = 12 => date < YearFirst(y + 1) BY <1>1
<1>10. CASE g < 12 /\ Date(y, g + 1, 1) <= date
  <2>1. MonthOf(date) = g + 1 BY <1>6, <1>10
  <2> QED BY <1>1, <1>5, <1>7, <1>8, <1>9, <1>10, <2>1
<1>11. CASE ~(g < 12 /\ Date(y, g + 1, 1) <= date)
  <2>1. MonthOf(date) = g BY <1>6, <1>11
  <2>2. g < 12 => Date(y, g + 1, 1) \in Int BY <1>3, <1>5
  <2> QED BY <1>1, <1>5, <1>7, <1>8, <1>9, <1>11, <2>1, <2>2
<1> QED BY <1>10, <1>11

\* The months one after another: 28 to 31 days each.
LEMMA MonthsFollow ==
    ASSUME NEW n \in Int
    PROVE  First(n) \in Int /\ First(n + 1) - First(n) \in 28..31
<1>1. PICK y \in Int, m \in 1..12 : y = n \div 12 /\ m = (n % 12) + 1 /\ n = 12 * y + m - 1
  OBVIOUS
<1>2. CASE m < 12
  <2>1. (n + 1) \div 12 = y /\ ((n + 1) % 12) + 1 = m + 1 BY <1>1, <1>2
  <2> QED BY <1>1, <1>2, <2>1, MonthLasts DEF First
<1>3. CASE m = 12
  <2>1. (n + 1) \div 12 = y + 1 /\ ((n + 1) % 12) + 1 = 1 BY <1>1, <1>3
  <2>2. Date(y + 1, 1, 1) = YearFirst(y + 1) BY <1>1, MonthLasts
  <2>3. YearFirst(y + 1) \in Int /\ Date(y, 12, 1) \in Int BY <1>1, YearLasts, MonthLasts
  <2>4. YearFirst(y + 1) - Date(y, 12, 1) = 31 BY <1>1, MonthLasts
  <2>5. First(n) = Date(y, 12, 1) /\ First(n + 1) = YearFirst(y + 1)
    BY <1>1, <1>3, <2>1, <2>2 DEF First
  <2> QED BY <2>3, <2>4, <2>5
<1> QED BY <1>1, <1>2, <1>3

LEMMA MonthsRise ==
    ASSUME NEW m \in Int, NEW n \in Int, m < n
    PROVE  First(m) < First(n)
<1>1. PICK y \in Int, j \in 1..12 : y = m \div 12 /\ j = (m % 12) + 1 /\ m = 12 * y + j - 1
  OBVIOUS
<1>2. PICK z \in Int, k \in 1..12 : z = n \div 12 /\ k = (n % 12) + 1 /\ n = 12 * z + k - 1
  OBVIOUS
<1>3. y <= z /\ (y = z => j < k) BY <1>1, <1>2
<1>6. First(m) = Date(y, j, 1) /\ First(n) = Date(z, k, 1) BY <1>1, <1>2 DEF First
<1>7. CASE y = z
  <2>1. \A a \in 1..12, b \in 1..12 : a < b => Date(y, a, 1) < Date(y, b, 1) BY Firsts
  <2> QED BY <1>3, <1>6, <1>7, <2>1
<1>8. CASE y < z
  <2>1. Date(y, j, 1) < YearFirst(y + 1) BY Firsts
  <2>2. YearFirst(y + 1) <= YearFirst(z)
    BY <1>8 DEF YearFirst, LeapsBefore
  <2>3. YearFirst(z) <= Date(z, k, 1) /\ YearFirst(z) \in Int /\ Date(z, k, 1) \in Int
    BY MonthLasts, YearLasts
  <2>4. YearFirst(y + 1) \in Int /\ Date(y, j, 1) \in Int
    <3>1. y + 1 \in Int OBVIOUS
    <3> QED BY <3>1, YearLasts, MonthLasts
  <2> QED BY <1>6, <2>1, <2>2, <2>3, <2>4
<1> QED BY <1>3, <1>7, <1>8

\* A date is in one month, and that is the one it names.
LEMMA InMonth ==
    ASSUME NEW date \in Int
    PROVE  /\ MonthNumber(date) \in Int
           /\ First(MonthNumber(date)) <= date /\ date < First(MonthNumber(date) + 1)
           /\ MonthFirst(date) = First(MonthNumber(date))
           /\ \A k \in Int : MonthsAway(date, k) = First(MonthNumber(date) + k)
           /\ MonthLast(date) = First(MonthNumber(date) + 1) - 1
<1>1. PICK y \in Int, m \in 1..12 :
        /\ y = YearOf(date) /\ m = MonthOf(date) /\ Date(y, m, 1) <= date
        /\ date < IF m = 12 THEN YearFirst(y + 1) ELSE Date(y, m + 1, 1)
  BY YearIs, MonthIs
<1>2. PICK n \in Int : n = 12 * y + m - 1 OBVIOUS
<1>3. n = MonthNumber(date) BY <1>1, <1>2 DEF MonthNumber
<1>4. n \div 12 = y /\ (n % 12) + 1 = m BY <1>2
<1>5. First(n) = Date(y, m, 1) BY <1>4 DEF First
<1>6. First(n + 1) = IF m = 12 THEN YearFirst(y + 1) ELSE Date(y, m + 1, 1)
  <2>1. CASE m < 12
    <3>1. (n + 1) \div 12 = y /\ ((n + 1) % 12) + 1 = m + 1 BY <1>2, <2>1
    <3> QED BY <2>1, <3>1 DEF First
  <2>2. CASE m = 12
    <3>1. (n + 1) \div 12 = y + 1 /\ ((n + 1) % 12) + 1 = 1 BY <1>2, <2>2
    <3>2. Date(y + 1, 1, 1) = YearFirst(y + 1) BY MonthLasts
    <3> QED BY <2>2, <3>1, <3>2 DEF First
  <2> QED BY <2>1, <2>2
<1>7. MonthFirst(date) = First(n) BY <1>1, <1>5 DEF MonthFirst
<1>8. \A k \in Int : MonthsAway(date, k) = First(n + k)
  BY <1>1, <1>2 DEF MonthsAway, First
<1>9. MonthLast(date) = First(n + 1) - 1 BY <1>8 DEF MonthLast
<1> QED BY <1>1, <1>3, <1>5, <1>6, <1>7, <1>8, <1>9

LEMMA OneMonth ==
    ASSUME NEW date \in Int, NEW n \in Int, First(n) <= date, date < First(n + 1)
    PROVE  MonthNumber(date) = n
<1>1. PICK m \in Int : m = MonthNumber(date) /\ First(m) <= date /\ date < First(m + 1)
  BY InMonth
<1>2. PICK f \in Int, g \in Int, h \in Int, k \in Int :
        f = First(m) /\ g = First(m + 1) /\ h = First(n) /\ k = First(n + 1)
  BY MonthsFollow
<1>3. m < n => g <= h
  <2>1. m + 1 < n => First(m + 1) < First(n) BY MonthsRise
  <2> QED BY <1>2, <2>1
<1>4. n < m => k <= f
  <2>1. n + 1 < m => First(n + 1) < First(m) BY MonthsRise
  <2> QED BY <1>2, <2>1
<1> QED BY <1>1, <1>2, <1>3, <1>4

\* Reading a date of a month's days gives back the year and the month, for every
\* year, before 1970 and after the leap years without a day too.
THEOREM DatesReadBack ==
    ASSUME NEW year \in Int, NEW month \in 1..12, NEW date \in Int,
           Date(year, month, 1) <= date,
           date < IF month = 12 THEN Date(year + 1, 1, 1) ELSE Date(year, month + 1, 1)
    PROVE  /\ YearOf(date) = year /\ MonthOf(date) = month
           /\ MonthFirst(date) = Date(year, month, 1)
<1>1. PICK n \in Int : n = 12 * year + month - 1 OBVIOUS
<1>2. n \div 12 = year /\ (n % 12) + 1 = month BY <1>1
<1>3. First(n) = Date(year, month, 1) BY <1>2 DEF First
<1>4. First(n + 1) = IF month = 12 THEN Date(year + 1, 1, 1) ELSE Date(year, month + 1, 1)
  <2>1. CASE month < 12
    <3>1. (n + 1) \div 12 = year /\ ((n + 1) % 12) + 1 = month + 1 BY <1>1, <2>1
    <3> QED BY <2>1, <3>1 DEF First
  <2>2. CASE month = 12
    <3>1. (n + 1) \div 12 = year + 1 /\ ((n + 1) % 12) + 1 = 1 BY <1>1, <2>2
    <3> QED BY <2>2, <3>1 DEF First
  <2> QED BY <2>1, <2>2
<1>5. MonthNumber(date) = n BY <1>3, <1>4, OneMonth
<1>6. YearOf(date) \in Int /\ MonthOf(date) \in 1..12 BY YearIs, MonthIs
<1>7. YearOf(date) = year /\ MonthOf(date) = month BY <1>1, <1>5, <1>6 DEF MonthNumber
<1> QED BY <1>3, <1>5, <1>7, InMonth

LEMMA Extremes ==
    ASSUME NEW a \in Int, NEW b \in Int, a <= b
    PROVE  Min(a..b) = a /\ Max(a..b) = b
<1>1. Min(a..b) \in a..b /\ \A y \in a..b : Min(a..b) <= y
  <2>1. \E x \in a..b : \A y \in a..b : x <= y
    <3>1. a \in a..b /\ \A y \in a..b : a <= y OBVIOUS
    <3> QED BY <3>1
  <2> QED BY <2>1 DEF Min
<1>2. Max(a..b) \in a..b /\ \A y \in a..b : Max(a..b) >= y
  <2>1. \E x \in a..b : \A y \in a..b : x >= y
    <3>1. b \in a..b /\ \A y \in a..b : b >= y OBVIOUS
    <3> QED BY <3>1
  <2> QED BY <2>1 DEF Max
<1>3. Min(a..b) <= a /\ Max(a..b) >= b BY <1>1, <1>2
<1> QED BY <1>1, <1>2, <1>3

LEMMA WeekIs ==
    ASSUME NEW date \in Int, NEW weekStart \in Int
    PROVE  /\ WeekFirst(date, weekStart) \in Int
           /\ WeekFirst(date, weekStart) <= date /\ date <= WeekFirst(date, weekStart) + 6
           /\ WeekFirst(date + 7, weekStart) = WeekFirst(date, weekStart) + 7
           /\ WeekFirst(date - 7, weekStart) = WeekFirst(date, weekStart) - 7
BY DEF WeekFirst, Weekday

LEMMA SameInterval ==
    ASSUME NEW a \in Int, NEW b \in Int, NEW c \in Int, NEW d \in Int, a <= b, a..b = c..d
    PROVE  a = c /\ b = d
<1>1. a \in c..d /\ b \in c..d OBVIOUS
<1>2. c \in a..b /\ d \in a..b BY <1>1
<1> QED BY <1>1, <1>2

\* What is shown on either side of a month's days.
LEMMA CellsHold ==
    ASSUME NEW anchor \in Int, NEW weekStart \in Int
    PROVE  /\ Visible("month", anchor, weekStart) = MonthFirst(anchor)..MonthLast(anchor)
           /\ \A d \in Int : MonthFirst(d) = MonthFirst(anchor) =>
                d \in MonthCells(anchor, weekStart)
           /\ anchor \in MonthCells(anchor, weekStart)
<1> USE DEF Visible
<1>1. PICK n \in Int : n = MonthNumber(anchor) /\ MonthFirst(anchor) = First(n)
  BY InMonth
<1>2. PICK f \in Int, g \in Int : f = First(n) /\ g = First(n + 1) /\ g - f \in 28..31
  <2>1. n + 1 \in Int OBVIOUS
  <2> QED BY <2>1, MonthsFollow
<1>3. \A d \in f..g - 1 : d \in MonthCells(anchor, weekStart)
  <2>1. PICK w \in Int : w = WeekFirst(f, weekStart) /\ w <= f /\ f <= w + 6
    BY WeekIs
  <2>2. MonthCells(anchor, weekStart) = w..w + 41 BY <1>1, <1>2, <2>1 DEF MonthCells
  <2>3. \A d \in f..g - 1 : d \in w..w + 41 BY <1>2, <2>1
  <2> QED BY <2>2, <2>3
<1>4. ASSUME NEW d \in Int, MonthFirst(d) = MonthFirst(anchor) PROVE d \in f..g - 1
  <2>1. PICK m \in Int : /\ m = MonthNumber(d) /\ MonthFirst(d) = First(m)
                         /\ First(m) <= d /\ d < First(m + 1)
    BY InMonth
  <2>2. m = n
    <3>1. m < n => First(m) < First(n) BY MonthsRise
    <3>2. n < m => First(n) < First(m) BY MonthsRise
    <3> QED BY <1>1, <1>2, <1>4, <2>1, <3>1, <3>2
  <2> QED BY <1>2, <2>1, <2>2
<1> QED BY <1>3, <1>4

LEMMA AnchorHeld ==
    ASSUME NEW view, NEW anchor \in Int, NEW weekStart \in Int
    PROVE  anchor \in Fetched(view, anchor, weekStart)
BY CellsHold, WeekIs DEF Fetched, WeekOf

\* A control for the page of a day offers to go there from other pages alone.
LEMMA SamePage ==
    ASSUME NEW view, NEW a \in Int, NEW b \in Int, NEW weekStart \in Int
    PROVE  (CASE view = "day" -> a = b
              [] view = "month" -> MonthFirst(a) = MonthFirst(b)
              [] OTHER -> WeekFirst(a, weekStart) = WeekFirst(b, weekStart))
             <=> Visible(view, a, weekStart) = Visible(view, b, weekStart)
<1>1. CASE view = "day" BY <1>1 DEF Visible
<1>2. CASE view = "month"
  <2>1. PICK m \in Int : /\ m = MonthNumber(a) /\ MonthFirst(a) = First(m)
                         /\ MonthLast(a) = First(m + 1) - 1
    BY InMonth
  <2>2. PICK n \in Int : /\ n = MonthNumber(b) /\ MonthFirst(b) = First(n)
                         /\ MonthLast(b) = First(n + 1) - 1
    BY InMonth
  <2>3. /\ First(m) \in Int /\ First(m + 1) \in Int /\ First(m) < First(m + 1)
        /\ First(n) \in Int /\ First(n + 1) \in Int
    BY MonthsFollow
  <2>4. First(m) = First(n) => m = n
    <3>1. m < n => First(m) < First(n) BY MonthsRise
    <3>2. n < m => First(n) < First(m) BY MonthsRise
    <3> QED BY <2>3, <3>1, <3>2
  <2>5. First(m)..First(m + 1) - 1 = First(n)..First(n + 1) - 1 => First(m) = First(n)
    BY <2>3, SameInterval
  <2> QED BY <1>2, <2>1, <2>2, <2>4, <2>5 DEF Visible
<1>3. CASE view # "day" /\ view # "month"
  <2>1. WeekFirst(a, weekStart) \in Int /\ WeekFirst(b, weekStart) \in Int BY WeekIs
  <2>2. WeekOf(a, weekStart) = WeekOf(b, weekStart)
          => WeekFirst(a, weekStart) = WeekFirst(b, weekStart)
    BY <2>1, SameInterval DEF WeekOf
  <2> QED BY <1>3, <2>2 DEF Visible, WeekOf
<1> QED BY <1>1, <1>2, <1>3

\* A step of a page leads to the day next to those it shows.
LEMMA StepBeyond ==
    ASSUME NEW view \in Views, NEW anchor \in Int, NEW step \in {-1, 1}, NEW audience,
           NEW weekStart \in Int
    PROVE  LET visible == Visible(view, anchor, weekStart)
               beyond == IF step = 1 THEN Max(visible) + 1 ELSE Min(visible) - 1
               query == StepQuery(anchor, view, step, audience)
           IN  /\ query.view = view /\ query.as = audience
               /\ query.date \in Int /\ beyond \in Int
               /\ beyond \in Fetched(view, query.date, weekStart)
<1> DEFINE visible == Visible(view, anchor, weekStart)
           beyond == IF step = 1 THEN Max(visible) + 1 ELSE Min(visible) - 1
           query == StepQuery(anchor, view, step, audience)
<1>0. query.view = view /\ query.as = audience BY DEF StepQuery, ViewQuery
<1>1. CASE view = "day"
  <2>1. query.date = anchor + step BY <1>1 DEF StepQuery, ViewQuery
  <2>2. visible = anchor..anchor BY <1>1 DEF Visible
  <2> HIDE DEF visible
  <2>3. Min(visible) = anchor /\ Max(visible) = anchor
    <3>1. anchor <= anchor OBVIOUS
    <3> QED BY <2>2, <3>1, Extremes
  <2>4. beyond = anchor + step BY <2>3
  <2> HIDE DEF beyond, query
  <2>5. beyond \in Fetched(view, query.date, weekStart) BY <1>1, <2>1, <2>4 DEF Fetched
  <2> QED BY <1>0, <2>1, <2>4, <2>5 DEF beyond, query, visible
<1>2. CASE view = "month"
  <2>1. PICK n \in Int : /\ n = MonthNumber(anchor) /\ MonthFirst(anchor) = First(n)
                         /\ MonthLast(anchor) = First(n + 1) - 1
                         /\ \A k \in Int : MonthsAway(anchor, k) = First(n + k)
    BY InMonth
  <2>2. PICK f \in Int, g \in Int, h \in Int :
          /\ f = First(n - 1) /\ g = First(n) /\ h = First(n + 1)
          /\ g - f \in 28..31 /\ h - g \in 28..31
    <3>1. First(n - 1) \in Int /\ First(n - 1 + 1) - First(n - 1) \in 28..31
      BY MonthsFollow
    <3>2. n - 1 + 1 = n OBVIOUS
    <3>3. First(n) \in Int /\ First(n + 1) - First(n) \in 28..31 BY MonthsFollow
    <3>4. n + 1 \in Int OBVIOUS
    <3>5. First(n + 1) \in Int BY <3>4, MonthsFollow
    <3> QED BY <3>1, <3>2, <3>3, <3>5
  <2>3. query.date = First(n + step) BY <1>2, <2>1 DEF StepQuery, ViewQuery
  <2>4. visible = g..h - 1 BY <1>2, <2>1, <2>2 DEF Visible
  <2>5. Min(visible) = g /\ Max(visible) = h - 1 BY <2>2, <2>4, Extremes
  <2>6. beyond = IF step = 1 THEN h ELSE g - 1 BY <2>2, <2>5
  <2> HIDE DEF beyond, query
  <2>7. CASE step = 1
    <3>1. beyond = h /\ query.date = h BY <2>2, <2>3, <2>6, <2>7
    <3>2. beyond \in MonthCells(query.date, weekStart) BY <2>2, <3>1, CellsHold
    <3> QED BY <1>0, <1>2, <2>2, <3>1, <3>2 DEF beyond, query, Fetched
  <2>8. CASE step = -1
    <3>1. beyond = g - 1 /\ query.date = f
      <4>1. n + step = n - 1 BY <2>8
      <4> QED BY <2>2, <2>3, <2>6, <2>8, <4>1
    <3>2. First(n - 1 + 1) = g BY <2>2
    <3>3. MonthNumber(f) = n - 1 /\ MonthNumber(g - 1) = n - 1
      <4>1. n - 1 \in Int /\ g - 1 \in Int OBVIOUS
      <4>2. f < g /\ f <= g - 1 /\ g - 1 < g BY <2>2
      <4> QED BY <2>2, <3>2, <4>1, <4>2, OneMonth
    <3>4. MonthFirst(f) = f /\ MonthFirst(g - 1) = f BY <2>2, <3>3, InMonth
    <3>5. beyond \in MonthCells(query.date, weekStart) BY <2>2, <3>1, <3>4, CellsHold
    <3> QED BY <1>0, <1>2, <2>2, <3>1, <3>5 DEF beyond, query, Fetched
  <2> QED BY <2>7, <2>8
<1>3. CASE view # "day" /\ view # "month"
  <2>1. PICK w \in Int : /\ w = WeekFirst(anchor, weekStart)
                         /\ WeekFirst(anchor + 7, weekStart) = w + 7
                         /\ WeekFirst(anchor - 7, weekStart) = w - 7
    BY WeekIs
  <2>2. query.date = anchor + 7 * step BY <1>3 DEF StepQuery, ViewQuery
  <2>3. visible = w..w + 6 BY <1>3, <2>1 DEF Visible, WeekOf
  <2>4. Min(visible) = w /\ Max(visible) = w + 6 BY <2>1, <2>3, Extremes
  <2>5. beyond = IF step = 1 THEN w + 7 ELSE w - 1 BY <2>4
  <2> HIDE DEF beyond, query
  <2>6. WeekFirst(query.date, weekStart) = IF step = 1 THEN w + 7 ELSE w - 7
    BY <2>1, <2>2
  <2>7. beyond \in WeekOf(query.date, weekStart) BY <2>1, <2>5, <2>6 DEF WeekOf
  <2> QED BY <1>0, <1>3, <2>1, <2>2, <2>5, <2>7 DEF beyond, query, Fetched
<1> QED BY <1>1, <1>2, <1>3

-----------------------------------------------------------------------------
(* The calendar screen                                                     *)

\* Views of one page.
Alike(v, w) == v = w \/ {v, w} \subseteq Week

\* The page is that of the address, but for what the server has learnt since.
PageInv ==
    /\ page.as = url.as
    /\ url.date # Unset => page.anchor = url.date
    /\ url.view # Unset => page.view = url.view
    /\ url.view = Unset => Alike(page.view, defaultView)

\* The address of a navigation holds what was meant by it, whoever the page is
\* for; a switch of audiences leaves the rest of the address as it was.
Holds(query, view, day) ==
    /\ query.view \in Views /\ Alike(view, query.view)
    /\ query.date = Unset => day = Unset
    /\ query.date # Unset => day # Unset /\ day \in Fetched(query.view, query.date, WeekStart)

\* On a page that holds a week the view asked for is the face on screen.
Faced(view, face) == OnWeekFetch /\ view \in Week => view = face

Asked(n) ==
    /\ n.query.as = n.as /\ Faced(n.view, n.face)
    /\ \/ Holds(n.query, n.view, n.day)
       \/ /\ n.query = [url EXCEPT !.as = n.as]
          /\ Alike(n.view, page.view) /\ n.day = url.date

CoverInv ==
    pending # Unset /\ pending.as # page.as =>
        sealing # Unset /\ sealing.cover = Covers(pending.as)

SelectInv == selected # Unset => page.view = "month" /\ selected \in DatesShown

\* What follows a creation: the page shows its day, or is on its way.
CreatedInv ==
    saved # Unset =>
        /\ deleted = Unset
        /\ saved.kind = "created" => event = saved.date
        /\ saved.kind = "created" /\ undisturbed =>
             /\ pending = Unset =>
                  /\ saved.anchor = page.anchor /\ saved.date \in DatesShown
                  /\ ~refreshing => page.event = saved.date
             /\ pending # Unset =>
                  /\ pending.query.view \in Views /\ pending.query.date = saved.date
                  /\ saved.anchor = saved.date /\ refreshing

ScreenInv ==
    /\ ScreenOK /\ PageInv
    /\ pending # Unset => Asked(pending)
    /\ CoverInv /\ SelectInv /\ CreatedInv

\* The value of a constant that a record cannot have is in the assumptions.
LEMMA Apart ==
    /\ \A d \in Int : d # Unset
    /\ \A v \in Views : v # Unset
    /\ Anchors \subseteq Int
BY ScreenAssumption

LEMMA AlikeFetch ==
    ASSUME NEW v \in Views, NEW w \in Views, Alike(v, w), NEW anchor
    PROVE  Fetched(v, anchor, WeekStart) = Fetched(w, anchor, WeekStart)
BY DEF Alike, Week, Fetched

\* What the server renders for an address.
LEMMA Rendering ==
    ASSUME ScreenOK, NEW address \in Address
    PROVE  /\ PageOf(address) \in
                [view : Views, anchor : Anchors, as : Audiences, event : Anchors \cup {Unset}]
           /\ PageOf(address).as = address.as
           /\ PageOf(address).view = IF address.view = Unset THEN defaultView ELSE address.view
           /\ PageOf(address).anchor = IF address.date = Unset THEN today ELSE address.date
           /\ event \in Fetched(PageOf(address).view, PageOf(address).anchor, WeekStart)
                => PageOf(address).event = event
<1>1. PICK view, anchor : /\ view = ParseView(address.view, defaultView)
                          /\ anchor = AnchorOf(address)
  OBVIOUS
<1>2. view \in Views /\ view = IF address.view = Unset THEN defaultView ELSE address.view
  BY <1>1, Apart DEF ScreenOK, Address, ParseView
<1>3. anchor \in Anchors /\ anchor = IF address.date = Unset THEN today ELSE address.date
  BY <1>1, ScreenAssumption DEF ScreenOK, Address, AnchorOf
<1>4. PICK here : here = IF event \in Fetched(view, anchor, WeekStart) THEN event ELSE Unset
  OBVIOUS
<1>5. here \in Anchors \cup {Unset} BY <1>4 DEF ScreenOK
<1>6. PageOf(address) = [view |-> view, anchor |-> anchor, as |-> address.as, event |-> here]
  BY <1>1, <1>4 DEF PageOf
<1>7. address.as \in Audiences BY DEF Address
<1> QED BY <1>2, <1>3, <1>4, <1>5, <1>6, <1>7

LEMMA ShownIs ==
    ASSUME ScreenOK
    PROVE  /\ Shown \in Views /\ Alike(Shown, page.view)
           /\ page.view \in Views /\ page.anchor \in Int /\ page.as \in Audiences
           /\ Shown \in {"day", "month"} <=> page.view \in {"day", "month"}
           /\ Shown = "month" <=> page.view = "month"
           /\ Faced(Shown, clientView)
<1>1. page.view \in Views /\ page.anchor \in Anchors /\ page.as \in Audiences
      /\ clientView \in Week
  BY DEF ScreenOK
<1> QED BY <1>1, Apart DEF Shown, OnWeekFetch, Alike, Week, Views, Faced

\* A new page for the address on screen, or for another.
LEMMA Rerendered ==
    ASSUME ScreenOK, NEW address \in Address, page' = PageOf(address), url' = address,
           UNCHANGED <<today, defaultView, event>>
    PROVE  /\ PageInv'
           /\ page' \in [view : Views, anchor : Anchors, as : Audiences,
                        event : Anchors \cup {Unset}]
<1>1. defaultView \in Views BY DEF ScreenOK
<1> QED BY <1>1, Rendering DEF PageInv, Alike

\* A selection survives on its own page alone.
LEMMA SelectionHolds ==
    ASSUME ScreenOK, ScreenOK', SelectInv, UNCHANGED clientView,
           SelectionFor(ShownOn(page'), page'.anchor)
    PROVE  SelectInv'
<1>1. SUFFICES ASSUME selected' # Unset
               PROVE  page'.view = "month" /\ selected' \in DatesShown'
  BY DEF SelectInv
<1>2. /\ ShownOn(page') = Shown /\ page'.anchor = page.anchor /\ selected' = selected
  BY <1>1 DEF SelectionFor
<1>3. page.view = "month" /\ selected \in DatesShown BY <1>1, <1>2 DEF SelectInv
<1>4. Shown = "month" BY <1>3, ShownIs
<1>5. page'.view = "month"
  BY <1>2, <1>4 DEF ShownOn, ScreenOK, Week
<1> QED BY <1>2, <1>3, <1>5 DEF DatesShown

LEMMA ArriveKeeps ==
    ASSUME ScreenInv, Arrive
    PROVE  ScreenInv'
<1>1. /\ ScreenOK /\ pending # Unset /\ pending \in Navigation /\ pending.query \in Address
      /\ page' = PageOf(pending.query) /\ url' = pending.query
      /\ pending' = Unset /\ UNCHANGED <<server, refreshing, clientView, todayLocal, saved,
                                         deleted, undisturbed>>
  BY DEF ScreenInv, ScreenOK, Arrive, Navigation
<1>2. /\ PageInv'
      /\ page' \in [view : Views, anchor : Anchors, as : Audiences, event : Anchors \cup {Unset}]
  BY <1>1, Rerendered DEF server
<1>3. SelectionFor(ShownOn(page'), page'.anchor) /\ Release BY DEF Arrive
<1>4. ScreenOK'
  <2>1. selected' \in Anchors \cup {Unset} BY <1>1, <1>3 DEF SelectionFor, ScreenOK
  <2>2. sealing' \in Sealing \cup {Unset} BY <1>1, <1>3 DEF Release, ScreenOK
  <2>3. overtaken' \in BOOLEAN BY <1>3 DEF Release
  <2> QED BY <1>1, <1>2, <2>1, <2>2, <2>3 DEF ScreenOK, server
<1>5. SelectInv' BY <1>1, <1>3, <1>4, SelectionHolds DEF ScreenInv
<1>6. CoverInv' BY <1>1 DEF CoverInv
<1>7. CreatedInv'
  <2> SUFFICES ASSUME saved' # Unset
               PROVE  /\ deleted' = Unset
                      /\ saved'.kind = "created" => event' = saved'.date
                      /\ saved'.kind = "created" /\ undisturbed' =>
                           /\ saved'.anchor = page'.anchor /\ saved'.date \in DatesShown'
                           /\ ~refreshing' => page'.event = saved'.date
    BY <1>1 DEF CreatedInv
  <2>1. CreatedInv /\ saved # Unset /\ UNCHANGED event BY <1>1 DEF ScreenInv, server
  <2>2. ASSUME saved.kind = "created", undisturbed
        PROVE  saved.anchor = page'.anchor /\ saved.date \in DatesShown' /\ refreshing
    <3>1. /\ pending.query.date = saved.date /\ saved.anchor = saved.date /\ refreshing
          /\ saved.date \in Int
      BY <1>1, <2>1, <2>2, Apart DEF CreatedInv, ScreenOK
    <3>2. page'.anchor = saved.date BY <1>1, <3>1, Apart, Rendering
    <3>3. saved.date \in DatesShown'
      BY <3>1, <3>2, ScreenAssumption, AnchorHeld DEF DatesShown
    <3> QED BY <3>1, <3>2, <3>3
  <2> QED BY <1>1, <2>1, <2>2 DEF CreatedInv
<1> QED BY <1>1, <1>2, <1>4, <1>5, <1>6, <1>7 DEF ScreenInv

LEMMA RefreshKeeps ==
    ASSUME ScreenInv, Refresh
    PROVE  ScreenInv'
<1>1. /\ ScreenOK /\ PageInv /\ pending = Unset /\ pending' = Unset /\ url \in Address
      /\ page' = PageOf(url) /\ url' = url /\ refreshing' = FALSE
      /\ undisturbed' = (undisturbed /\ page'.anchor = page.anchor)
      /\ UNCHANGED <<today, defaultView, event, clientView, todayLocal, saved, deleted, sealing,
                     overtaken>>
      /\ SelectionFor(ShownOn(page'), page'.anchor)
  BY DEF ScreenInv, ScreenOK, Refresh, server
<1>2. /\ PageInv'
      /\ page' \in [view : Views, anchor : Anchors, as : Audiences, event : Anchors \cup {Unset}]
  BY <1>1, Rerendered
<1>4. ScreenOK'
  <2>1. selected' \in Anchors \cup {Unset} BY <1>1 DEF SelectionFor, ScreenOK
  <2>2. undisturbed' \in BOOLEAN BY <1>1 DEF ScreenOK
  <2> QED BY <1>1, <1>2, <2>1, <2>2 DEF ScreenOK
<1>5. SelectInv' BY <1>1, <1>4, SelectionHolds DEF ScreenInv
<1>6. CoverInv' BY <1>1 DEF CoverInv
<1>7. CreatedInv'
  <2> SUFFICES ASSUME saved # Unset
               PROVE  /\ deleted = Unset
                      /\ saved.kind = "created" => event = saved.date
                      /\ saved.kind = "created" /\ undisturbed' =>
                           /\ saved.anchor = page'.anchor /\ saved.date \in DatesShown'
                           /\ page'.event = saved.date
    BY <1>1 DEF CreatedInv
  <2>1. CreatedInv BY DEF ScreenInv
  <2>2. ASSUME saved.kind = "created", undisturbed'
        PROVE  /\ saved.anchor = page'.anchor /\ saved.date \in DatesShown'
               /\ page'.event = saved.date
    <3>1. /\ saved.anchor = page.anchor /\ saved.date \in DatesShown /\ event = saved.date
          /\ page'.anchor = page.anchor
      BY <1>1, <2>1, <2>2 DEF CreatedInv
    <3>2. Alike(page.view, page'.view) /\ page.view \in Views /\ page'.view \in Views
      BY <1>1, <1>2, Rendering DEF PageInv, Alike, ScreenOK
    <3>3. Fetched(page.view, page.anchor, WeekStart) = Fetched(page'.view, page'.anchor, WeekStart)
      BY <3>1, <3>2, AlikeFetch
    <3>4. event \in Fetched(page'.view, page'.anchor, WeekStart) BY <3>1, <3>3 DEF DatesShown
    <3>5. page'.event = event BY <1>1, <3>4, Rendering
    <3> QED BY <3>1, <3>4, <3>5 DEF DatesShown
  <2> QED BY <2>1, <2>2 DEF CreatedInv
<1> QED BY <1>1, <1>2, <1>4, <1>5, <1>6, <1>7 DEF ScreenInv

LEMMA ReloadKeeps ==
    ASSUME ScreenInv, Reload
    PROVE  ScreenInv'
<1>1. /\ ScreenOK /\ pending' = Unset /\ url \in Address
      /\ page' = PageOf(url) /\ url' = url /\ refreshing' = FALSE /\ undisturbed' = FALSE
      /\ overtaken' = FALSE /\ clientView' \in Week /\ todayLocal' = today
      /\ UNCHANGED <<today, defaultView, event>>
      /\ selected' = Unset /\ saved' = Unset /\ deleted' = Unset /\ sealing' = Unset
  BY DEF ScreenInv, ScreenOK, Reload, Mounted, server, Week
<1>2. /\ PageInv'
      /\ page' \in [view : Views, anchor : Anchors, as : Audiences, event : Anchors \cup {Unset}]
  BY <1>1, Rerendered
<1>3. ScreenOK' BY <1>1, <1>2 DEF ScreenOK
<1> QED BY <1>1, <1>2, <1>3 DEF ScreenInv, CoverInv, SelectInv, CreatedInv

\* Any link there is to follow.
Links ==
    \/ Step \/ Today \/ ShowMe
    \/ \E day \in Tapped : OpenDay(day) \/ OpenCluster(day)
    \/ \E target \in Views : SelectView(target)

\* Every link holds what is meant by it.
LEMMA LinkHolds ==
    ASSUME ScreenInv, Links
    PROVE  \E query \in Address, view \in Views, day \in Int \cup {Unset} :
             Follow(query, view, day) /\ query.as = page.as /\ Holds(query, view, day)
          /\ Faced(view, clientView)
<1>1. /\ Shown \in Views /\ Alike(Shown, page.view) /\ page.view \in Views
      /\ page.anchor \in Int /\ page.anchor \in Anchors /\ page.as \in Audiences
      /\ WeekStart \in Int /\ Faced(Shown, clientView)
  BY ShownIs, ScreenAssumption DEF ScreenInv, ScreenOK
<1>2. \A v \in Views : Alike(v, v) /\ Alike(v, page.view) = Alike(page.view, v)
  BY DEF Alike
<1>3. ASSUME NEW target \in Views, NEW date \in Anchors, NEW view \in Views, Alike(view, target),
             Faced(view, clientView), Follow(ViewQuery(target, date, page.as), view, date)
      PROVE  \E query \in Address, v \in Views, day \in Int \cup {Unset} :
               Follow(query, v, day) /\ query.as = page.as /\ Holds(query, v, day)
                 /\ Faced(v, clientView)
  <2>1. PICK query : query = ViewQuery(target, date, page.as) OBVIOUS
  <2>2. query = [view |-> target, date |-> date, as |-> page.as] BY <2>1 DEF ViewQuery
  <2>3. query \in Address BY <1>1, <2>2 DEF Address
  <2>4. date \in Int /\ date # Unset BY Apart
  <2>5. date \in Fetched(target, date, WeekStart) BY <1>1, <2>4, AnchorHeld
  <2>6. Holds(query, view, date) BY <1>3, <2>2, <2>4, <2>5 DEF Holds
  <2> QED BY <1>3, <2>1, <2>2, <2>3, <2>4, <2>6
<1>4. ASSUME NEW n \in {-1, 1}, NEW v \in Views, Alike(v, page.view),
             Follow(StepQuery(page.anchor, v, n, page.as), Shown, Beyond(n))
      PROVE  \E query \in Address, w \in Views, day \in Int \cup {Unset} :
               Follow(query, w, day) /\ query.as = page.as /\ Holds(query, w, day)
                 /\ Faced(w, clientView)
  <2>1. PICK query, day : /\ query = StepQuery(page.anchor, v, n, page.as)
                          /\ day = Beyond(n)
    OBVIOUS
  <2>2. Visible(v, page.anchor, WeekStart) = Visible(page.view, page.anchor, WeekStart)
    BY <1>4 DEF Alike, Week, Visible
  <2>3. day = LET visible == Visible(v, page.anchor, WeekStart)
              IN  IF n = 1 THEN Max(visible) + 1 ELSE Min(visible) - 1
    BY <2>1, <2>2 DEF Beyond
  <2>4. /\ query.view = v /\ query.as = page.as /\ query.date \in Int /\ day \in Int
        /\ day \in Fetched(v, query.date, WeekStart)
    BY <1>1, <2>1, <2>3, StepBeyond
  <2>5. query.date # Unset /\ day # Unset BY <2>4, Apart
  <2>6. query.date \in Anchors BY <1>4, <2>1, <2>5 DEF Follow
  <2>7. query = [view |-> v, date |-> query.date, as |-> page.as]
    BY <2>1 DEF StepQuery, ViewQuery
  <2>8. query \in Address BY <1>1, <2>6, <2>7 DEF Address
  <2>9. Alike(Shown, v) BY <1>1, <1>4 DEF Alike
  <2>10. Holds(query, Shown, day) BY <2>4, <2>5, <2>9 DEF Holds
  <2> QED BY <1>1, <1>4, <2>1, <2>4, <2>8, <2>10
<1>5. CASE Step
  <2>1. PICK n \in {-1, 1} : StepLink(n) \/ StepKey(n) BY <1>5 DEF Step
  <2>2. CASE StepLink(n) BY <1>1, <1>2, <1>4, <2>2 DEF StepLink
  <2>3. CASE StepKey(n) BY <1>1, <1>2, <1>4, <2>3 DEF StepKey
  <2> QED BY <2>1, <2>2, <2>3
<1>6. CASE Today
  <2>1. PICK query : query = TodayQuery(Shown, page.as) OBVIOUS
  <2>2. query = [view |-> Shown, date |-> Unset, as |-> page.as]
    BY <2>1 DEF TodayQuery, ViewQuery
  <2>3. query \in Address BY <1>1, <2>2 DEF Address
  <2>4. Holds(query, Shown, Unset) BY <1>1, <1>2, <2>2 DEF Holds
  <2> QED BY <1>1, <1>6, <2>1, <2>2, <2>3, <2>4 DEF Today
<1>7. CASE ShowMe
  <2>1. saved \in Notice BY <1>7 DEF ShowMe, SavedNotice, ScreenInv, ScreenOK
  <2>2. saved.date \in Anchors BY <2>1 DEF Notice
  <2> QED BY <1>1, <1>2, <1>3, <1>7, <2>2 DEF ShowMe
<1>8. ASSUME NEW day \in Tapped, OpenDay(day) \/ OpenCluster(day)
      PROVE  \E query \in Address, view \in Views, d \in Int \cup {Unset} :
               Follow(query, view, d) /\ query.as = page.as /\ Holds(query, view, d)
                 /\ Faced(view, clientView)
  <2>1. day \in Anchors BY ScreenAssumption
  <2>2. "day" \in Views /\ "agenda" \in Views BY DEF Views
  <2>3. CASE OpenDay(day)
    <3>1. Faced("day", clientView) BY DEF Faced, Week
    <3> QED BY <1>2, <1>3, <2>1, <2>2, <2>3, <3>1 DEF OpenDay, DayQuery
  <2>4. CASE OpenCluster(day)
    <3>1. Shown = "day" => ~OnWeekFetch BY <1>1 DEF OnWeekFetch, Alike, Week
    <3>2. Faced(IF Shown = "day" THEN "agenda" ELSE "day", clientView)
      BY <3>1 DEF Faced, Week
    <3> QED BY <1>2, <1>3, <2>1, <2>2, <2>4, <3>2 DEF OpenCluster
  <2> QED BY <1>8, <2>3, <2>4
<1>9. ASSUME NEW target \in Views, SelectView(target)
      PROVE  \E query \in Address, view \in Views, d \in Int \cup {Unset} :
               Follow(query, view, d) /\ query.as = page.as /\ Holds(query, view, d)
                 /\ Faced(view, clientView)
  BY <1>1, <1>2, <1>3, <1>9 DEF SelectView, Faced
<1> QED BY <1>5, <1>6, <1>7, <1>8, <1>9 DEF Links

LEMMA LinkKeeps ==
    ASSUME ScreenInv, Links
    PROVE  ScreenInv'
<1>1. PICK query \in Address, view \in Views, day \in Int \cup {Unset} :
        Follow(query, view, day) /\ query.as = page.as /\ Holds(query, view, day)
          /\ Faced(view, clientView)
  BY LinkHolds
<1>2. PICK next : next = [query |-> query, view |-> view, day |-> day, as |-> page.as,
                          face |-> clientView]
  OBVIOUS
<1>3. /\ pending' = next /\ undisturbed' = FALSE /\ overtaken' \in BOOLEAN
      /\ UNCHANGED <<server, url, page, refreshing, screen>>
  BY <1>1, <1>2 DEF Follow, Meaning
<1>4. next \in Navigation /\ Asked(next)
  BY <1>1, <1>2 DEF Navigation, Asked, ScreenInv, ScreenOK
<1>5. ScreenOK' BY <1>3, <1>4 DEF ScreenInv, ScreenOK, server, screen
<1>6. PageInv' /\ SelectInv'
  BY <1>3 DEF ScreenInv, PageInv, SelectInv, DatesShown, server, screen
<1>7. Asked(pending)' BY <1>3, <1>4 DEF Asked, Faced, OnWeekFetch
<1>8. CoverInv' BY <1>2, <1>3 DEF CoverInv
<1>9. CreatedInv' BY <1>3 DEF ScreenInv, CreatedInv, server, screen
<1> QED BY <1>5, <1>6, <1>7, <1>8, <1>9 DEF ScreenInv

LEMMA SwitchKeeps ==
    ASSUME ScreenInv, NEW audience \in Audiences, SwitchAudience(audience)
    PROVE  ScreenInv'
<1>1. PICK next : next = [query |-> [url EXCEPT !.as = audience], view |-> Shown,
                          day |-> url.date, as |-> audience, face |-> clientView]
  OBVIOUS
<1>2. /\ pending' = next /\ sealing' = [cover |-> Covers(audience)] /\ undisturbed' = FALSE
      /\ overtaken' = FALSE
      /\ UNCHANGED <<server, url, page, refreshing, clientView, selected, todayLocal, saved,
                    deleted>>
  BY <1>1 DEF SwitchAudience, Meaning
<1>3. /\ url \in Address /\ Shown \in Views /\ Alike(Shown, page.view)
      /\ Faced(Shown, clientView) /\ clientView \in Week
  BY ShownIs DEF ScreenInv, ScreenOK
<1>4. [url EXCEPT !.as = audience] \in Address /\ [url EXCEPT !.as = audience].as = audience
  BY <1>3 DEF Address
<1>5. next \in Navigation /\ Asked(next)
  <2>1. url.date \in Int \cup {Unset} BY <1>3, ScreenAssumption DEF Address
  <2> QED BY <1>1, <1>3, <1>4, <2>1 DEF Navigation, Asked
<1>6. ScreenOK'
  <2>1. [cover |-> Covers(audience)] \in Sealing BY DEF Covers, Sealing
  <2> QED BY <1>2, <1>5, <2>1 DEF ScreenInv, ScreenOK, server
<1>7. PageInv' /\ SelectInv'
  BY <1>2 DEF ScreenInv, PageInv, SelectInv, DatesShown, server
<1>8. Asked(pending)' BY <1>2, <1>5 DEF Asked, Faced, OnWeekFetch
<1>9. CoverInv'
  <2>1. sealing' \in Sealing BY <1>2 DEF Covers, Sealing
  <2> QED BY <1>1, <1>2, <2>1, UnsetAssumption DEF CoverInv
<1>10. CreatedInv' BY <1>2 DEF ScreenInv, CreatedInv, server
<1> QED BY <1>6, <1>7, <1>8, <1>9, <1>10 DEF ScreenInv

LEMMA ReportKeeps ==
    ASSUME ScreenInv, NEW kind \in {"created", "edited"}, NEW date \in Anchors,
           ReportSaved(kind, date), event' = date,
           UNCHANGED <<today, defaultView, url, page, clientView, selected, todayLocal, sealing>>
    PROVE  ScreenInv'
<1>1. ScreenOK /\ PageInv /\ SelectInv /\ CoverInv BY DEF ScreenInv
<1>2. /\ page.anchor \in Anchors /\ page.as \in Audiences /\ Shown \in Views
      /\ date \in Int /\ date # Unset /\ WeekStart \in Int
  BY <1>1, Apart, ShownIs, ScreenAssumption DEF ScreenOK
<1>3. PICK note : note = [kind |-> kind, date |-> date,
                          anchor |-> IF GoThere(kind, date) THEN date ELSE page.anchor]
  OBVIOUS
<1>4. note \in Notice /\ note # Unset BY <1>2, <1>3, UnsetAssumption DEF Notice
<1>5. PICK next : next = [query |-> ViewQuery(Shown, date, page.as), view |-> Shown,
                          day |-> date, as |-> page.as, face |-> clientView]
  OBVIOUS
<1>6. next.query = [view |-> Shown, date |-> date, as |-> page.as] BY <1>5 DEF ViewQuery
<1>7. next \in Navigation /\ next # Unset
  <2>1. next.query \in Address BY <1>2, <1>6 DEF Address
  <2>2. clientView \in Week BY <1>1 DEF ScreenOK
  <2>3. next \in Navigation BY <1>2, <1>5, <2>1, <2>2 DEF Navigation
  <2> QED BY <2>3, UnsetAssumption
<1>8. Asked(next)
  <2>1. date \in Fetched(Shown, date, WeekStart) BY <1>2, AnchorHeld
  <2>2. Holds(next.query, next.view, next.day)
    BY <1>2, <1>5, <1>6, <2>1 DEF Holds, Alike
  <2>3. Faced(Shown, clientView) BY <1>1, ShownIs
  <2> QED BY <1>5, <1>6, <2>2, <2>3 DEF Asked
<1>9. /\ saved' = note /\ deleted' = Unset /\ refreshing' = TRUE
      /\ GoThere(kind, date) => pending' = next /\ undisturbed' = TRUE /\ overtaken' = FALSE
      /\ ~GoThere(kind, date) => /\ pending' = pending /\ undisturbed' = (pending = Unset)
                                 /\ overtaken' = overtaken
  BY <1>3, <1>5 DEF ReportSaved, Meaning
<1>10. ScreenOK'
  <2>1. /\ pending' \in Navigation \cup {Unset} /\ undisturbed' \in BOOLEAN
        /\ overtaken' \in BOOLEAN
    BY <1>1, <1>7, <1>9 DEF ScreenOK
  <2> QED BY <1>1, <1>4, <1>9, <2>1 DEF ScreenOK
<1>11. PageInv' /\ SelectInv' BY <1>1 DEF PageInv, SelectInv, DatesShown
<1>12. pending' # Unset => Asked(pending)'
  <2>1. pending # Unset => Asked(pending) BY DEF ScreenInv
  <2> QED BY <1>8, <1>9, <2>1 DEF Asked, Faced, OnWeekFetch
<1>13. CoverInv' BY <1>1, <1>5, <1>9 DEF CoverInv
<1>14. CreatedInv'
  <2>1. saved'.kind = kind /\ saved'.date = date
        /\ saved'.anchor = IF GoThere(kind, date) THEN date ELSE page.anchor
    BY <1>3, <1>9
  <2>2. CASE GoThere(kind, date) BY <1>2, <1>5, <1>6, <1>7, <1>9, <2>1, <2>2 DEF CreatedInv
  <2>3. CASE ~GoThere(kind, date)
    <3>1. kind = "created" => date \in DatesShown' BY <2>3 DEF GoThere, OffPage, DatesShown
    <3> QED BY <1>9, <2>1, <2>3, <3>1 DEF CreatedInv
  <2> QED BY <2>2, <2>3
<1> QED BY <1>10, <1>11, <1>12, <1>13, <1>14 DEF ScreenInv

\* What changes neither the page nor the address nor what is on its way.
LEMMA StayKeeps ==
    ASSUME ScreenInv, ScreenOK', CreatedInv',
           UNCHANGED <<url, page, pending, sealing>>,
           selected' = selected, Alike(page.view, defaultView) => Alike(page.view, defaultView')
    PROVE  ScreenInv'
<1>1. PageInv' BY DEF ScreenInv, PageInv
<1>2. pending' # Unset => Asked(pending)' BY DEF ScreenInv, Asked, Faced, OnWeekFetch
<1>3. CoverInv' /\ SelectInv' BY DEF ScreenInv, CoverInv, SelectInv, DatesShown
<1> QED BY <1>1, <1>2, <1>3 DEF ScreenInv

LEMMA SelectKeeps ==
    ASSUME ScreenInv, NEW day \in Tapped, SelectDay(day)
    PROVE  ScreenInv'
<1>1. /\ Shown = "month" /\ day \in MonthCells(page.anchor, WeekStart) /\ selected' = day
      /\ UNCHANGED <<server, place, clientView, todayLocal, saved, deleted, sealing, undisturbed,
                     overtaken>>
  BY DEF SelectDay
<1>2. page.view = "month" /\ ScreenOK BY <1>1, ShownIs DEF ScreenInv
<1>3. SelectInv' BY <1>1, <1>2 DEF SelectInv, DatesShown, Fetched, place
<1>4. ScreenOK'
  <2>1. day \in Anchors BY ScreenAssumption
  <2> QED BY <1>1, <1>2, <2>1 DEF ScreenOK, server, place
<1>5. PageInv' /\ CoverInv' /\ CreatedInv'
  BY <1>1 DEF ScreenInv, PageInv, CoverInv, CreatedInv, DatesShown, server, place
<1>6. pending' # Unset => Asked(pending)'
  BY <1>1 DEF ScreenInv, Asked, Faced, OnWeekFetch, place
<1> QED BY <1>3, <1>4, <1>5, <1>6 DEF ScreenInv

LEMMA OthersKeep ==
    ASSUME ScreenInv,
           \/ \E target \in Views : Toggle(target)
           \/ Delete \/ Undo \/ Dismiss \/ MakeDefault \/ Midnight \/ UNCHANGED screenVars
    PROVE  ScreenInv'
<1>1. ScreenOK /\ CreatedInv BY DEF ScreenInv
<1>2. CASE \E target \in Views : Toggle(target)
  <2>1. /\ clientView' \in Week
        /\ UNCHANGED <<server, place, selected, todayLocal, saved, deleted, sealing, undisturbed,
                       overtaken>>
    BY <1>2 DEF Toggle
  <2>2. ScreenOK' BY <1>1, <2>1 DEF ScreenOK, server, place
  <2>3. CreatedInv' BY <1>1, <2>1 DEF CreatedInv, DatesShown, server, place
  <2> QED BY <2>1, <2>2, <2>3, StayKeeps DEF server, place
<1>3. CASE Delete
  <2>1. /\ event' = Unset /\ saved' = Unset /\ deleted' = event
        /\ refreshing' = TRUE /\ undisturbed' = FALSE
        /\ UNCHANGED <<today, defaultView, url, page, pending, clientView, selected, todayLocal,
                      sealing, overtaken>>
    BY <1>3 DEF Delete
  <2>2. ScreenOK' BY <1>1, <2>1 DEF ScreenOK
  <2>3. CreatedInv' BY <2>1 DEF CreatedInv
  <2> QED BY <2>1, <2>2, <2>3, StayKeeps
<1>4. CASE Undo
  <2>1. /\ deleted # Unset /\ event' = deleted /\ deleted' = Unset /\ refreshing' = TRUE
        /\ UNCHANGED <<today, defaultView, url, page, pending, clientView, selected, todayLocal,
                      saved, sealing, undisturbed, overtaken>>
    BY <1>4 DEF Undo
  <2>2. ScreenOK' BY <1>1, <2>1 DEF ScreenOK
  <2>3. CreatedInv' BY <1>1, <2>1 DEF CreatedInv
  <2> QED BY <2>1, <2>2, <2>3, StayKeeps
<1>5. CASE Dismiss
  <2>1. /\ undisturbed' = FALSE
        /\ (saved' = Unset /\ deleted' = deleted) \/ (deleted' = Unset /\ saved' = saved)
        /\ UNCHANGED <<server, place, clientView, selected, todayLocal, sealing, overtaken>>
    BY <1>5 DEF Dismiss
  <2>2. ScreenOK' BY <1>1, <2>1 DEF ScreenOK, server, place
  <2>3. CreatedInv' BY <1>1, <2>1 DEF CreatedInv, server
  <2> QED BY <2>1, <2>2, <2>3, StayKeeps DEF server, place
<1>6. CASE MakeDefault
  <2>1. /\ defaultView' = Shown /\ refreshing' = TRUE
        /\ UNCHANGED <<today, event, url, page, pending, screen, undisturbed, overtaken>>
    BY <1>6 DEF MakeDefault
  <2>2. Shown \in Views /\ Alike(page.view, Shown) BY <1>1, ShownIs DEF Alike
  <2>3. ScreenOK' BY <1>1, <2>1, <2>2 DEF ScreenOK, screen
  <2>4. CreatedInv' BY <1>1, <2>1 DEF CreatedInv, DatesShown, screen
  <2> QED BY <2>1, <2>2, <2>3, <2>4, StayKeeps DEF screen
<1>7. CASE Midnight
  <2>1. today' = Day1 + 1 /\ UNCHANGED <<defaultView, event, place, screen, undisturbed, overtaken>>
    BY <1>7 DEF Midnight
  <2>2. ScreenOK' BY <1>1, <2>1 DEF ScreenOK, place, screen
  <2>3. CreatedInv' BY <1>1, <2>1 DEF CreatedInv, DatesShown, place, screen
  <2> QED BY <2>1, <2>2, <2>3, StayKeeps DEF place, screen
<1>8. CASE UNCHANGED screenVars
  <2>1. UNCHANGED <<server, place, screen, undisturbed, overtaken>> BY <1>8 DEF screenVars
  <2>2. ScreenOK' BY <1>1, <2>1 DEF ScreenOK, server, place, screen
  <2>3. CreatedInv' BY <1>1, <2>1 DEF CreatedInv, DatesShown, server, place, screen
  <2> QED BY <2>1, <2>2, <2>3, StayKeeps DEF server, place, screen
<1> QED BY <1>2, <1>3, <1>4, <1>5, <1>6, <1>7, <1>8

LEMMA ScreenStarts == ScreenInit => ScreenInv
<1> SUFFICES ASSUME ScreenInit PROVE ScreenInv OBVIOUS
<1>1. url \in Address
  <2>1. {Unset, Day1} \subseteq Anchors \cup {Unset} BY ScreenAssumption
  <2> QED BY <2>1 DEF ScreenInit, Address
<1>2. ScreenOK
  <2>1. PICK view, anchor, here :
          /\ view = ParseView(url.view, defaultView) /\ anchor = AnchorOf(url)
          /\ here = IF event \in Fetched(view, anchor, WeekStart) THEN event ELSE Unset
    OBVIOUS
  <2>2. page = [view |-> view, anchor |-> anchor, as |-> url.as, event |-> here]
    BY <2>1 DEF ScreenInit, PageOf
  <2>3. view \in Views /\ anchor \in Anchors /\ url.as \in Audiences /\ here = Unset
    BY <1>1, <2>1, ScreenAssumption DEF ScreenInit, ParseView, AnchorOf, Address
  <2>4. page \in [view : Views, anchor : Anchors, as : Audiences, event : Anchors \cup {Unset}]
    BY <2>2, <2>3
  <2>5. today \in {Day1, Day1 + 1} /\ todayLocal \in {Day1, Day1 + 1} BY DEF ScreenInit
  <2>6. defaultView \in Views BY ScreenAssumption DEF ScreenInit
  <2>7. clientView \in Week BY DEF ScreenInit, Week
  <2> QED BY <1>1, <2>4, <2>5, <2>6, <2>7 DEF ScreenInit, ScreenOK
<1>3. PageInv BY <1>1, <1>2, Rendering DEF ScreenInit, PageInv, Alike
<1> QED BY <1>2, <1>3 DEF ScreenInit, ScreenInv, CoverInv, SelectInv, CreatedInv

LEMMA ScreenKeeps ==
    ASSUME ScreenInv, [ScreenNext]_screenVars
    PROVE  ScreenInv'
<1>1. ASSUME NEW date \in Tapped, Create(date) \/ Edit(date) PROVE ScreenInv'
  <2>1. date \in Anchors BY ScreenAssumption
  <2>2. CASE Create(date) BY <2>1, <2>2, ReportKeeps DEF Create
  <2>3. CASE Edit(date) BY <2>1, <2>3, ReportKeeps DEF Edit
  <2> QED BY <1>1, <2>2, <2>3
<1> QED BY <1>1, ArriveKeeps, RefreshKeeps, ReloadKeeps, LinkKeeps, SwitchKeeps, SelectKeeps,
           OthersKeep DEF ScreenNext, Links

LEMMA ScreenInvariant == ScreenSpec => []ScreenInv
BY ScreenStarts, ScreenKeeps, PTL DEF ScreenSpec

\* The screen's state stays well typed; in particular no navigation leaves the views
\* and audiences there are.
THEOREM ScreenTypeCorrect == ScreenSpec => []ScreenOK
BY ScreenInvariant, PTL DEF ScreenInv

\* Every control leads where it says: step, today, a day, a view, an audience, the
\* event that was just made, whatever the server learnt between click and answer.
\* Agenda and week alone may come for each other, in the two cases of KeepsFace.
THEOREM AlwaysLandsWhereAsked == ScreenSpec => LandsWhereAsked
<1>1. ASSUME ScreenInv, Arrive
      PROVE  /\ page'.as = pending.as
             /\ ShownOn(page') = pending.view \/ KeepsFace
             /\ IF pending.day = Unset THEN page'.anchor = today
                ELSE pending.day \in Fetched(page'.view, page'.anchor, WeekStart)
  <2>1. PICK n \in Navigation : n = pending /\ Asked(n) /\ page' = PageOf(n.query)
    BY <1>1 DEF ScreenInv, ScreenOK, Arrive
  <2>2. ScreenOK /\ PageInv /\ n.query \in Address BY <1>1, <2>1 DEF ScreenInv, Navigation
  <2>3. /\ page'.as = n.query.as
        /\ page'.view = IF n.query.view = Unset THEN defaultView ELSE n.query.view
        /\ page'.anchor = IF n.query.date = Unset THEN today ELSE n.query.date
    BY <2>1, <2>2, Rendering
  <2>4. /\ Alike(n.view, page'.view)
        /\ IF n.day = Unset THEN page'.anchor = today
           ELSE n.day \in Fetched(page'.view, page'.anchor, WeekStart)
    <3>1. CASE Holds(n.query, n.view, n.day)
      BY <2>3, <3>1, Apart DEF Holds, Alike
    <3>2. CASE /\ n.query = [url EXCEPT !.as = n.as]
               /\ Alike(n.view, page.view) /\ n.day = url.date
      <4>1. url \in Address /\ page.view \in Views BY <2>2 DEF ScreenOK
      <4>2. n.query.view = url.view /\ n.query.date = url.date
        BY <3>2, <4>1 DEF Address
      <4>3. Alike(page.view, page'.view) BY <2>2, <2>3, <4>2 DEF PageInv, Alike
      <4>4. Alike(n.view, page'.view) BY <3>2, <4>3 DEF Alike
      <4>5. url.date # Unset => url.date \in Int BY <4>1, ScreenAssumption DEF Address
      <4>6. url.date # Unset => url.date \in Fetched(page'.view, url.date, WeekStart)
        BY <4>5, AnchorHeld, ScreenAssumption
      <4> QED BY <2>3, <3>2, <4>2, <4>4, <4>6
    <3> QED BY <2>1, <3>1, <3>2 DEF Asked
  <2>5. ShownOn(page') = n.view \/ KeepsFace
    <3>1. CASE n.view \notin Week
      <4>1. page'.view = n.view BY <2>4, <3>1 DEF Alike
      <4> QED BY <3>1, <4>1 DEF ShownOn
    <3>2. CASE n.view \in Week
      <4>1. page'.view \in Week BY <2>4, <3>2 DEF Alike
      <4>2. ShownOn(page') = clientView BY <4>1 DEF ShownOn
      <4>3. OnWeekFetch => n.view = n.face BY <2>1, <3>2 DEF Asked, Faced
      <4> QED BY <2>1, <3>2, <4>2, <4>3 DEF KeepsFace
    <3> QED BY <3>1, <3>2
  <2> QED BY <2>1, <2>3, <2>4, <2>5 DEF Asked
<1> QED BY <1>1, ScreenInvariant, PTL DEF LandsWhereAsked, ScreenSpec

\* A created event is on the page that says so: the screen goes to it exactly when
\* the page it is on would not show it.
THEOREM CreatedAlwaysShown == ScreenSpec => []CreatedIsShown
<1>1. ScreenInv => CreatedIsShown
  BY DEF ScreenInv, CreatedInv, CreatedIsShown, Settled, SavedNotice
<1> QED BY <1>1, ScreenInvariant, PTL

\* Until the page of a narrower audience is there, the one on screen is covered.
Narrowing == pending # Unset /\ pending.as # page.as /\ pending.as \in Guests

THEOREM NarrowingAlwaysCovered ==
    ScreenSpec => [](Narrowing => sealing # Unset /\ sealing.cover)
<1>1. ScreenInv => (Narrowing => sealing # Unset /\ sealing.cover)
  BY ScreenAssumption DEF ScreenInv, CoverInv, Covers, Narrowing
<1> QED BY <1>1, ScreenInvariant, PTL

LEMMA TodayTold == ScreenInv => TodayOffered
<1> SUFFICES ASSUME ScreenInv, todayLocal = today PROVE
       OnToday <=> Visible(Shown, page.anchor, WeekStart) = Visible(Shown, today, WeekStart)
  BY DEF TodayOffered
<1>1. page.anchor \in Int /\ today \in Int /\ WeekStart \in Int
  <2>1. today \in Anchors BY ScreenAssumption DEF ScreenInv, ScreenOK
  <2>2. page.anchor \in Int BY ShownIs DEF ScreenInv
  <2>3. WeekStart \in Int BY ScreenAssumption
  <2> QED BY <2>1, <2>2, <2>3, Apart
<1> QED BY <1>1, SamePage DEF OnToday, IsShowingToday

LEMMA ListOnGrid == ScreenInv => MonthListOnGrid
<1> SUFFICES ASSUME ScreenInv, Shown = "month" PROVE MonthDay \in DatesShown
  BY DEF MonthListOnGrid
<1>1. /\ page.view = "month" /\ page.anchor \in Int /\ todayLocal \in Int /\ WeekStart \in Int
  <2>1. todayLocal \in Anchors BY ScreenAssumption DEF ScreenInv, ScreenOK
  <2>2. page.view = "month" BY DEF Shown, OnWeekFetch, ScreenInv, ScreenOK, Week
  <2>3. page.anchor \in Int BY ShownIs DEF ScreenInv
  <2>4. WeekStart \in Int BY ScreenAssumption
  <2> QED BY <2>1, <2>2, <2>3, <2>4, Apart
<1>2. DatesShown = MonthCells(page.anchor, WeekStart) BY <1>1 DEF DatesShown, Fetched
<1>3. CASE selected # Unset BY <1>3 DEF ScreenInv, SelectInv, MonthDay
<1>4. CASE selected = Unset BY <1>1, <1>2, <1>4, CellsHold DEF MonthDay
<1> QED BY <1>3, <1>4

\* What is shown of a switch goes with the page on its way.
CoverGoes == sealing # Unset /\ ~overtaken => pending # Unset /\ pending.query # url

LEMMA CoverGoesKept ==
    ASSUME ScreenInv, CoverGoes, [ScreenNext]_screenVars
    PROVE  CoverGoes'
<1>1. CASE Arrive BY <1>1 DEF Arrive, Release, CoverGoes
<1>2. CASE Refresh BY <1>2 DEF Refresh, CoverGoes
<1>3. CASE Reload BY <1>3 DEF Reload, CoverGoes
<1>4. CASE Links
  <2>1. PICK query \in Address, view \in Views, day \in Int \cup {Unset} :
          Follow(query, view, day)
    BY <1>4, LinkHolds
  <2>2. PICK next : next = [query |-> query, view |-> view, day |-> day, as |-> page.as,
                            face |-> clientView]
    OBVIOUS
  <2>3. /\ pending' = next /\ url' = url /\ sealing' = sealing
        /\ overtaken' = (sealing # Unset /\ query = url)
    BY <2>1, <2>2 DEF Follow, Meaning, screen
  <2>4. next # Unset
    <3>1. page.as \in Audiences /\ clientView \in Week BY DEF ScreenInv, ScreenOK
    <3>2. next \in Navigation BY <2>2, <3>1 DEF Navigation
    <3> QED BY <3>2, UnsetAssumption
  <2>5. next.query = query BY <2>2
  <2> QED BY <2>3, <2>4, <2>5 DEF CoverGoes
<1>6. ASSUME NEW audience \in Audiences, SwitchAudience(audience) PROVE CoverGoes'
  <2>1. PICK next : next = [query |-> [url EXCEPT !.as = audience], view |-> Shown,
                            day |-> url.date, as |-> audience, face |-> clientView]
    OBVIOUS
  <2>2. pending' = next /\ url' = url /\ audience # url.as
    BY <1>6, <2>1 DEF SwitchAudience, Switches, Meaning
  <2>3. next.query # url
    <3>1. url \in Address BY DEF ScreenInv, ScreenOK
    <3>2. next.query.as = audience BY <2>1, <3>1 DEF Address
    <3> QED BY <2>2, <3>2
  <2>4. next # Unset
    <3>1. url \in Address /\ Shown \in Views /\ clientView \in Week
      BY ShownIs DEF ScreenInv, ScreenOK
    <3>2. [url EXCEPT !.as = audience] \in Address BY <1>6, <3>1 DEF Address
    <3>3. url.date \in Int \cup {Unset} BY <3>1, Apart, ScreenAssumption DEF Address
    <3>4. next \in Navigation BY <1>6, <2>1, <3>1, <3>2, <3>3 DEF Navigation
    <3> QED BY <3>4, UnsetAssumption
  <2> QED BY <2>2, <2>3, <2>4 DEF CoverGoes
<1>7. ASSUME NEW kind, NEW date \in Anchors, ReportSaved(kind, date),
             UNCHANGED <<url, page, sealing>>
      PROVE  CoverGoes'
  <2>1. CASE ~GoThere(kind, date) BY <1>7, <2>1 DEF ReportSaved, CoverGoes
  <2>2. CASE GoThere(kind, date)
    <3>1. pending' = [query |-> ViewQuery(Shown, date, page.as), view |-> Shown,
                      day |-> date, as |-> page.as, face |-> clientView]
      BY <1>7, <2>2 DEF ReportSaved, Meaning
    <3>2. PICK query : query = ViewQuery(Shown, date, page.as) OBVIOUS
    <3>3. query = [view |-> Shown, date |-> date, as |-> page.as] BY <3>2 DEF ViewQuery
    <3>4. date # page.anchor /\ date # Unset
      <4>1. page.anchor \in DatesShown
        BY ShownIs, ScreenAssumption, AnchorHeld DEF DatesShown, ScreenInv
      <4> QED BY <2>2, <4>1, Apart DEF GoThere, OffPage
    <3>5. query # url
      <4>1. url.date \in {Unset, page.anchor} BY DEF ScreenInv, PageInv
      <4> QED BY <3>3, <3>4, <4>1
    <3>6. pending' # Unset
      <4>1. query \in Address BY <3>3, ShownIs DEF Address, ScreenInv
      <4>2. pending' \in Navigation
        BY <3>1, <3>2, <4>1, ShownIs, Apart DEF Navigation, ScreenInv, ScreenOK
      <4> QED BY <4>2, UnsetAssumption
    <3> QED BY <1>7, <3>1, <3>2, <3>5, <3>6 DEF CoverGoes
  <2> QED BY <2>1, <2>2
<1>8. ASSUME NEW date \in Tapped, Create(date) \/ Edit(date) PROVE CoverGoes'
  <2>1. date \in Anchors BY ScreenAssumption
  <2> QED BY <1>7, <1>8, <2>1 DEF Create, Edit
<1>9. CASE \/ \E target \in Views : Toggle(target)
           \/ \E day \in Tapped : SelectDay(day)
           \/ Delete \/ Undo \/ Dismiss \/ MakeDefault \/ Midnight \/ UNCHANGED screenVars
  <2>1. UNCHANGED <<sealing, pending, url, overtaken>>
    BY <1>9 DEF Toggle, SelectDay, Delete, Undo, Dismiss, MakeDefault, Midnight, screenVars,
                place, screen
  <2> QED BY <2>1 DEF CoverGoes
<1> QED BY <1>1, <1>2, <1>3, <1>4, <1>6, <1>8, <1>9 DEF ScreenNext, Links

\* What the screen offers and hides belongs to the page that is on it, however links,
\* switches, writes and midnight follow each other; a cover alone stays without a page
\* on its way, when its switch gave way to a link to the address on screen.
THEOREM ScreenAlwaysTellsTruth == ScreenSpec => []ScreenTellsTruth
<1>1. ScreenInit => CoverGoes BY DEF ScreenInit, CoverGoes
<1>2. ScreenInv /\ CoverGoes /\ [ScreenNext]_screenVars => CoverGoes' BY CoverGoesKept
<1>3. ScreenInv /\ CoverGoes => ScreenTellsTruth
  <2> SUFFICES ASSUME ScreenInv, CoverGoes PROVE CoverIsHonest
    BY TodayTold, ListOnGrid DEF ScreenTellsTruth
  <2> QED BY ScreenAssumption DEF ScreenInv, CoverInv, Covers, CoverGoes, CoverIsHonest
<1> QED BY <1>1, <1>2, <1>3, ScreenInvariant, PTL DEF ScreenSpec

=============================================================================
