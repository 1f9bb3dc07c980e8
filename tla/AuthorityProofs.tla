--------------------------- MODULE AuthorityProofs ---------------------------
(***************************************************************************)
(* Accounts implements Authority: every call of a request, a failure, a      *)
(* crash and the passing of time is a step of the promise or leaves it       *)
(* alone, for any users, sessions, tokens and identities and any number of   *)
(* requests at a time.                                                      *)
(***************************************************************************)
EXTENDS AccountsProofs

-----------------------------------------------------------------------------
(* The invariant *)

\* What a request still relies on after it was checked: the answer it holds has been
\* taken, its session is the user's, or an admin's, the account it links exists.
RelyOK(q) ==
    /\ Answering(q) => q.state \in States /\ csrf[q.state].intent = "spent"
    /\ q.kind = "googleLogin" /\ q.pos = 1 => csrf[q.state].user = NoUser
    /\ q.kind = "googleLink" => csrf[q.state].user = q.target
    /\ q.kind = "googleLink" /\ q.pos > 1 =>
          q.cookie \in Sessions /\ session[q.cookie].user = q.target
    /\ q.kind = "googleLink" /\ q.pos > 3 => user[q.target].row # "none"
    /\ q.kind = "deleteUser" /\ q.pos > 1 => session[q.cookie].admin

Relies == \A r \in Requests : RelyOK(req[r])

\* No two requests hold the same answer.
AnswersOnce ==
    \A r, o \in Requests :
        Answering(req[r]) /\ Answering(req[o]) /\ req[r].state = req[o].state => r = o

\* A state for which no link was asked names no user.
StatesOK == \A x \in States : csrf[x].intent \in {"unused", "login"} => csrf[x].user = NoUser

AInv == TInv /\ Relies /\ AnswersOnce /\ StatesOK

\* What a step makes of it.
Kept == Relies' /\ AnswersOnce' /\ StatesOK'
Allowed == [Mandate!Next]_Mandate!vars

\* What requests rely on lasts.
Lasts ==
    /\ \A s \in Sessions : Opened(s) => session'[s] = session[s]
    /\ \A x \in States : csrf[x].intent = "spent" => csrf'[x] = csrf[x]
    /\ \A u \in Users : user[u].row # "none" => user'[u].row # "none"

LEMMA RelyStays ==
    ASSUME TInv, Lasts, NEW o \in Requests, RelyOK(req[o]), req'[o] = req[o]
    PROVE  RelyOK(req[o])'
<1> DEFINE q == req[o]
<1>1. q \in Request /\ RequestOK(q)
  BY DEF TInv, RequestsOK
<1>2. Answering(q) => csrf'[q.state] = csrf[q.state]
  BY DEF RelyOK, Lasts
<1>3. q.kind = "googleLink" => Answering(q) /\ q.target \in Users
  BY <1>1 DEF Answering, RequestOK
<1>4. q.cookie \in Sessions /\ q.cookie # NoSession => session'[q.cookie] = session[q.cookie]
  BY <1>1 DEF RequestOK, Lasts
<1>5. NoSession \notin Sessions
  BY NoneOutside
<1>6. q.kind = "deleteUser" => q.cookie \in Sessions
  BY <1>1 DEF RequestOK, SessionKinds
<1>7. q.kind = "googleLogin" /\ q.pos = 1 => Answering(q)
  BY DEF Answering
<1> QED BY <1>1, <1>2, <1>3, <1>4, <1>5, <1>6, <1>7 DEF RelyOK, Lasts, Answering

LEMMA AInvInit ==
    ASSUME Init
    PROVE  AInv
<1>1. req = [r \in Requests |-> Idle] /\ csrf = [x \in States |-> [intent |-> "unused", user |-> NoUser]]
  BY DEF Init
<1>2. \A r \in Requests : req[r].kind = "idle"
  BY <1>1 DEF Idle
<1>3. Relies /\ AnswersOnce
  BY <1>2 DEF Relies, RelyOK, AnswersOnce, Answering
<1>4. StatesOK
  BY <1>1 DEF StatesOK
<1> QED BY <1>3, <1>4, TInvInit DEF AInv

LEMMA InitAllowed ==
    ASSUME Init
    PROVE  Mandate!Init
<1>1. \A r \in Requests : req[r].kind = "idle"
  BY DEF Init, Idle
<1>2. Answered = {} /\ Known = {}
  BY <1>1 DEF Answered, Known, Answering, SigningIn
<1> QED BY <1>2 DEF Init, Mandate!Init, UserInit, SessionInit, TokenInit, Unmade, Tokens

-----------------------------------------------------------------------------
(* Requests that bring the promise nothing *)

\* Request r takes up no answer and authenticates nobody.
Quiets(r) ==
    /\ Answering(req'[r]) => Answering(req[r]) /\ req'[r].state = req[r].state
    /\ SigningIn(req'[r]) => SigningIn(req[r]) /\ req'[r].user = req[r].user

\* It keeps what it has.
Holds(r) ==
    /\ Answering(req'[r]) <=> Answering(req[r])
    /\ SigningIn(req'[r]) <=> SigningIn(req[r])
    /\ req'[r].state = req[r].state /\ req'[r].user = req[r].user

LEMMA AnswersKept ==
    ASSUME AnswersOnce, NEW r \in Requests, OthersStay(r), Quiets(r)
    PROVE  AnswersOnce'
BY DEF AnswersOnce, OthersStay, Quiets

LEMMA SomeGiveUp ==
    ASSUME NEW r \in Requests, OthersStay(r), Quiets(r)
    PROVE  Answered' \subseteq Answered /\ Known' \subseteq Known
BY DEF Answered, Known, OthersStay, Quiets

LEMMA NobodyGivesUp ==
    ASSUME NEW r \in Requests, OthersStay(r), Holds(r)
    PROVE  Answered' = Answered /\ Known' = Known
BY DEF Answered, Known, OthersStay, Holds

LEMMA RelyAfter ==
    ASSUME AInv, Lasts, NEW r \in Requests, OthersStay(r), RelyOK(req[r])'
    PROVE  Relies'
BY RelyStays DEF AInv, Relies, OthersStay

\* A request goes on or ends, and nothing else happens that the promise is about.
LEMMA GivesUp ==
    ASSUME AInv, NEW r \in Requests, OthersStay(r), Quiets(r), RelyOK(req[r])',
           UNCHANGED <<user, session, csrf, token, rows>>
    PROVE  Kept /\ Allowed
<1>1. Lasts
  BY DEF Lasts
<1>2. Relies' /\ AnswersOnce' /\ StatesOK'
  BY <1>1, RelyAfter, AnswersKept DEF AInv, StatesOK
<1>3. Answered' \subseteq Answered /\ Known' \subseteq Known
  BY SomeGiveUp
<1>4. Mandate!GiveUp
  BY <1>3 DEF Mandate!GiveUp
<1> QED BY <1>2, <1>4 DEF Kept, Allowed, Mandate!Next

\* The same with rows deleted.
LEMMA Forgets ==
    ASSUME AInv, NEW r \in Requests, OthersStay(r), Holds(r), RelyOK(req[r])',
           NEW T \in SUBSET Tokens, rows' = rows \ T,
           UNCHANGED <<user, session, csrf, token>>
    PROVE  Kept /\ Allowed
<1>1. Lasts
  BY DEF Lasts
<1>2. Quiets(r)
  BY DEF Holds, Quiets
<1>3. Relies' /\ AnswersOnce' /\ StatesOK'
  BY <1>1, <1>2, RelyAfter, AnswersKept DEF AInv, StatesOK
<1>4. Answered' = Answered /\ Known' = Known
  BY NobodyGivesUp
<1>5. Mandate!Forget(T)
  BY <1>4 DEF Mandate!Forget
<1> QED BY <1>3, <1>5 DEF Kept, Allowed, Mandate!Next, Tokens

-----------------------------------------------------------------------------
(* How a request goes on *)

LEMMA EndQuiets ==
    ASSUME TInv, NEW r \in Requests, req' = End(r)
    PROVE  OthersStay(r) /\ Quiets(r) /\ RelyOK(req[r])'
<1>1. OthersStay(r) /\ req'[r].kind = "idle"
  BY EndMoves
<1> QED BY <1>1 DEF Quiets, RelyOK, Answering, SigningIn

\* Where a call is not about to open a session, or has not just done it, the place
\* within it makes no difference.
LEMMA SameCall ==
    ASSUME TInv, Lasts, NEW r \in Requests, RelyOK(req[r]), req[r].at # "list", req'[r].at # "list",
           req'[r].kind = req[r].kind, req'[r].pos = req[r].pos, req'[r].state = req[r].state,
           req'[r].user = req[r].user, req'[r].target = req[r].target, req'[r].cookie = req[r].cookie
    PROVE  Holds(r) /\ Quiets(r) /\ RelyOK(req[r])'
<1> DEFINE q == req[r]
<1>1. Holds(r)
  BY DEF Holds, Answering, SigningIn
<1>2. q \in Request /\ RequestOK(q)
  BY DEF TInv, RequestsOK
<1>3. Answering(q) => csrf'[q.state] = csrf[q.state]
  BY DEF RelyOK, Lasts
<1>4. q.kind = "googleLink" => Answering(q) /\ q.target \in Users
  BY <1>2 DEF Answering, RequestOK
<1>5. q.cookie \in Sessions /\ q.cookie # NoSession => session'[q.cookie] = session[q.cookie]
  BY <1>2 DEF RequestOK, Lasts
<1>6. q.kind = "deleteUser" => q.cookie \in Sessions
  BY <1>2 DEF RequestOK, SessionKinds
<1>7. q.kind = "googleLogin" /\ q.pos = 1 => Answering(q)
  BY DEF Answering
<1>8. RelyOK(req[r])'
  BY <1>2, <1>3, <1>4, <1>5, <1>6, <1>7, NoneOutside DEF RelyOK, Lasts, Answering
<1> QED BY <1>1, <1>8 DEF Holds, Quiets

LEMMA StepHolds ==
    ASSUME AInv, Lasts, NEW r \in Requests, NEW place, place # "list", req[r].at # "list",
           req' = Step(r, place)
    PROVE  OthersStay(r) /\ Holds(r) /\ Quiets(r) /\ RelyOK(req[r])'
<1> DEFINE q == [req[r] EXCEPT !.at = place]
<1>1. req \in [Requests -> Request] /\ req[r] \in Request
  BY DEF AInv, TInv, RequestsOK
<1>2. req'[r] = q
  BY <1>1 DEF Step
<1>3. /\ q.kind = req[r].kind /\ q.pos = req[r].pos /\ q.user = req[r].user
      /\ q.target = req[r].target /\ q.cookie = req[r].cookie /\ q.state = req[r].state
      /\ q.at = place
  BY <1>1 DEF Request
<1>4. OthersStay(r)
  BY StepMoves DEF AInv
<1>5. RelyOK(req[r])
  BY DEF AInv, Relies
<1> HIDE DEF q
<1> QED BY <1>2, <1>3, <1>4, <1>5, SameCall DEF AInv

\* At which positions the checks are made.
LEMMA Checks ==
    /\ Len(Script["login"]) = 3 /\ Len(Script["googleLogin"]) = 3
    /\ Script["login"][1] = "authenticate" /\ Script["googleLogin"][1] = "findGoogle"
    /\ Script["googleLink"][1] = "touch" /\ Script["googleLink"][3] = "loadAccount"
    /\ Script["deleteUser"][1] = "touch"
    /\ DOMAIN Script["googleLink"] = 1..4
BY DEF Script

\* A call returns that checks nothing the promise is about.
LEMMA ReturnQuiets ==
    ASSUME AInv, Lasts, NEW r \in Requests, req[r].kind \in Kinds,
           Call(r) \notin {"authenticate", "findGoogle", "touch", "loadAccount"},
           req[r].at = "list" => Call(r) = "openSession",
           req' = Return(r)
    PROVE  OthersStay(r) /\ Quiets(r) /\ RelyOK(req[r])'
<1> DEFINE k == req[r].kind
           p == req[r].pos
<1>1. req \in [Requests -> Request] /\ req[r] \in Request /\ RequestOK(req[r]) /\ RelyOK(req[r])
  BY DEF AInv, TInv, RequestsOK, Relies
<1>2. p \in DOMAIN Script[k] /\ Call(r) = Script[k][p] /\ p \in 1..5
  BY <1>1, KindsAre, Positions DEF RequestOK, Call
<1>3. /\ k \in {"googleLink", "googleLogin", "deleteUser", "login"} => p > 1
      /\ k = "googleLink" => p # 3
  BY <1>2, Checks
<1>4. CASE p = Len(Script[k])
  BY <1>4, EndQuiets DEF Return, AInv
<1>5. CASE p # Len(Script[k])
  <2> DEFINE q == [req[r] EXCEPT !.pos = @ + 1, !.at = "begin"]
  <2>1. req'[r] = q /\ OthersStay(r)
    BY <1>1, <1>5, ReturnMoves DEF Return, AInv
  <2>2. /\ q.kind = k /\ q.pos = p + 1 /\ q.user = req[r].user /\ q.target = req[r].target
        /\ q.cookie = req[r].cookie /\ q.state = req[r].state /\ q.at = "begin"
    BY <1>1 DEF Request
  <2> HIDE DEF q
  <2>3. k \in {"login", "googleLogin"} => req[r].at # "list"
    <3>1. Script[k][p] = "openSession" => p = 3
      BY <1>2, KindsAre, Positions
    <3>2. k \in {"login", "googleLogin"} => Len(Script[k]) = 3
      BY Checks
    <3> QED BY <1>2, <1>5, <3>1, <3>2
  <2>4. Quiets(r)
    BY <1>2, <1>3, <2>1, <2>2, <2>3 DEF Quiets, Answering, SigningIn
  <2>5. Answering(req[r]) => csrf'[req[r].state] = csrf[req[r].state]
    BY <1>1 DEF RelyOK, Lasts
  <2>6. k = "googleLink" => Answering(req[r]) /\ req[r].target \in Users
    BY <1>1 DEF Answering, RequestOK
  <2>7. req[r].cookie \in Sessions /\ req[r].cookie # NoSession =>
            session'[req[r].cookie] = session[req[r].cookie]
    BY <1>1 DEF RequestOK, Lasts
  <2>8. k = "deleteUser" => req[r].cookie \in Sessions
    BY <1>1 DEF RequestOK, SessionKinds
  <2>9. RelyOK(req[r])'
    BY <1>1, <1>2, <1>3, <2>1, <2>2, <2>5, <2>6, <2>7, <2>8, NoneOutside DEF RelyOK, Lasts, Answering
  <2> QED BY <2>1, <2>4, <2>9
<1> QED BY <1>4, <1>5

\* Fields of a request that the promise does not see.
LEMMA OtherFields ==
    ASSUME AInv, Lasts, NEW r \in Requests, NEW q, req' = [req EXCEPT ![r] = q],
           req[r].at # "list", q.at # "list",
           q.kind = req[r].kind, q.pos = req[r].pos, q.state = req[r].state,
           q.user = req[r].user, q.target = req[r].target, q.cookie = req[r].cookie
    PROVE  OthersStay(r) /\ Holds(r) /\ Quiets(r) /\ RelyOK(req[r])'
<1>1. req \in [Requests -> Request]
  BY DEF AInv, TInv, RequestsOK
<1>2. req'[r] = q /\ OthersStay(r)
  BY <1>1 DEF OthersStay
<1>3. RelyOK(req[r])
  BY DEF AInv, Relies
<1> QED BY <1>2, <1>3, SameCall DEF AInv

-----------------------------------------------------------------------------
(* Sessions *)

LEMMA NothingLasts ==
    ASSUME TInv, UNCHANGED <<user, session, csrf>>
    PROVE  Lasts
BY DEF Lasts

LEMMA TouchWriteAllowed ==
    ASSUME AInv, NEW r \in Requests, TouchWrite(r)
    PROVE  Kept /\ Allowed
<1> DEFINE k == req[r].kind
<1>1. At(r, "touch", "set") /\ SetKey(req[r].cookie) /\ UNCHANGED <<user, tokenVars, csrf>>
  BY DEF TouchWrite
<1>2. /\ k \in Kinds /\ RequestOK(req[r]) /\ req[r] \in Request /\ req \in [Requests -> Request]
      /\ k \in SessionKinds \cup {"googleLink"} /\ req[r].pos = 1 /\ RelyOK(req[r])
  BY <1>1, InCall, Positions DEF At, AInv, TInv, RequestsOK, Relies
<1>3. req[r].cookie \in Sessions
  BY <1>1, <1>2 DEF RequestOK, At
<1>4. UNCHANGED <<user, session, csrf, token, rows>>
  BY <1>1, StoresAre DEF SetKey
<1>5. CASE req' = End(r)
  BY <1>4, <1>5, EndQuiets, GivesUp DEF AInv
<1>6. CASE Admitted(r) /\ req' = Return(r) /\ req[r].pos # Len(Script[k])
  <2> DEFINE q == [req[r] EXCEPT !.pos = @ + 1, !.at = "begin"]
  <2>1. req'[r] = q /\ OthersStay(r)
    BY <1>2, <1>6, ReturnMoves DEF Return, AInv
  <2>2. /\ q.kind = k /\ q.pos = 2 /\ q.user = req[r].user /\ q.target = req[r].target
        /\ q.cookie = req[r].cookie /\ q.state = req[r].state /\ q.at = "begin"
    BY <1>2 DEF Request
  <2> HIDE DEF q
  <2>3. Quiets(r)
    BY <1>2, <2>1, <2>2 DEF Quiets, Answering, SigningIn, SessionKinds
  <2>4. RelyOK(req[r])'
    BY <1>2, <1>3, <1>4, <1>6, <2>1, <2>2 DEF RelyOK, Answering, Admitted, SessionKinds
  <2> QED BY <1>4, <2>1, <2>3, <2>4, GivesUp
<1>7. CASE req' = Return(r) /\ req[r].pos = Len(Script[k])
  BY <1>5, <1>7 DEF Return
<1> QED BY <1>5, <1>6, <1>7 DEF TouchWrite

LEMMA OpenSessionAllowed ==
    ASSUME AInv, NEW r \in Requests, OpenSession(r)
    PROVE  Kept /\ Allowed
<1> DEFINE s == Some(NewSessions)
           u == req[r].user
           q == [req[r] EXCEPT !.cookie = s, !.at = "list"]
<1>1. /\ At(r, "openSession", "begin") /\ NewSessions # {} /\ NewKey(s, u, user[u].admin)
      /\ req' = [req EXCEPT ![r] = q] /\ UNCHANGED <<user, tokenVars, csrf>>
  BY DEF OpenSession
<1>2. /\ req[r].kind \in {"login", "googleLogin"} /\ req[r].pos = 3 /\ req[r].at = "begin"
      /\ req[r] \in Request /\ RequestOK(req[r]) /\ req \in [Requests -> Request]
  BY <1>1, InCall, Positions DEF At, AInv, TInv, RequestsOK
<1>3. u \in Users
  BY <1>2 DEF RequestOK
<1>4. s \in Sessions /\ session[s].user = NoUser
  BY <1>1 DEF Some, NewSessions, Opened
<1>5. req'[r] = q /\ OthersStay(r)
  BY <1>1, <1>2 DEF OthersStay
<1>6. q.kind = req[r].kind /\ q.pos = 3 /\ q.at = "list"
  BY <1>2 DEF Request
<1> HIDE DEF s, q
<1>7. session' = [session EXCEPT ![s] = [user |-> u, admin |-> user[u].admin]]
  BY <1>1 DEF NewKey
<1>8. Lasts
  BY <1>1, <1>4, <1>7 DEF Lasts, Opened, AInv, TInv, SessionTypeOK
<1>9. ~Answering(req[r]) /\ ~Answering(req'[r]) /\ SigningIn(req[r]) /\ ~SigningIn(req'[r])
  BY <1>2, <1>5, <1>6 DEF Answering, SigningIn
<1>10. Quiets(r) /\ RelyOK(req[r])'
  BY <1>2, <1>5, <1>6, <1>9 DEF Quiets, RelyOK
<1>11. Kept
  BY <1>1, <1>5, <1>8, <1>10, RelyAfter, AnswersKept DEF Kept, AInv, StatesOK
<1>12. Answered' = Answered
  BY <1>5, <1>9 DEF Answered, OthersStay
<1>13. u \in Known /\ Known' \in {Known, Known \ {u}}
  <2>1. u \in Known
    BY <1>3, <1>9 DEF Known
  <2>2. \A v \in Users : v # u => (v \in Known' <=> v \in Known)
    BY <1>5, <1>9 DEF Known, OthersStay
  <2>3. Known \subseteq Users /\ Known' \subseteq Users
    BY DEF Known
  <2> QED BY <2>1, <2>2, <2>3
<1>14. Mandate!SignIn(s, u)
  BY <1>1, <1>4, <1>7, <1>12, <1>13, StoresAre DEF Mandate!SignIn
<1> QED BY <1>3, <1>4, <1>11, <1>14 DEF Allowed, Mandate!Next

LEMMA SessionAllowed ==
    ASSUME AInv, NEW r \in Requests, SessionStep(r)
    PROVE  Kept /\ Allowed
<1>1. ASSUME ~OpenSession(r)
      PROVE  UNCHANGED <<user, session, csrf, token, rows>> /\ Lasts
  BY <1>1, StoresAre DEF SessionStep, TouchRead, TouchWrite, FindSession, Unlist, DropSession, ListSession,
         FindSessions, DropSessions, DropSet, Tries, SetKey, DeleteKeys, AddMember, RemoveMember,
         DeleteSet, Lasts
<1>2. CASE TouchRead(r)
  BY <1>1, <1>2, EndQuiets, StepHolds, GivesUp DEF TouchRead, OpenSession, At, AInv
<1>3. ASSUME FindSession(r) \/ Unlist(r) \/ DropSession(r) \/ ListSession(r) \/ DropSet(r)
      PROVE  Kept /\ Allowed
  <2>1. /\ Call(r) \in {"endSession", "openSession", "endSessions"} /\ ~OpenSession(r)
        /\ req[r].at = "list" => Call(r) = "openSession" /\ req' = Return(r)
    BY <1>3 DEF FindSession, Unlist, DropSession, ListSession, DropSet, OpenSession, At
  <2>2. \/ req' = Return(r)
        \/ req' = Step(r, "unlist") \/ req' = Step(r, "delete")
    BY <1>3 DEF FindSession, Unlist, DropSession, ListSession, DropSet
  <2>3. req[r].kind \in Kinds
    BY <2>1, InCall DEF AInv
  <2>4. CASE req' = Return(r)
    BY <1>1, <2>1, <2>3, <2>4, ReturnQuiets, GivesUp
  <2>5. CASE req' # Return(r)
    BY <1>1, <2>1, <2>2, <2>5, StepHolds, GivesUp
  <2> QED BY <2>4, <2>5
<1>4. ASSUME FindSessions(r) \/ DropSessions(r)
      PROVE  Kept /\ Allowed
  <2>1. req \in [Requests -> Request] /\ req[r] \in Request
    BY DEF AInv, TInv, RequestsOK
  <2>2. req[r].at # "list" /\ ~OpenSession(r)
    BY <1>4 DEF FindSessions, DropSessions, OpenSession, At
  <2>3. CASE req' = Step(r, "deleteSet")
    BY <1>1, <2>2, <2>3, StepHolds, GivesUp
  <2>4. ASSUME NEW S, NEW place \in {"deleteKeys", "deleteSet"},
               req' = [req EXCEPT ![r].members = S, ![r].at = place]
        PROVE  Kept /\ Allowed
    <3> DEFINE q == [req[r] EXCEPT !.members = S, !.at = place]
    <3>1. req' = [req EXCEPT ![r] = q]
      BY <2>4
    <3>2. /\ q.kind = req[r].kind /\ q.pos = req[r].pos /\ q.user = req[r].user
          /\ q.target = req[r].target /\ q.cookie = req[r].cookie /\ q.state = req[r].state
          /\ q.at # "list"
      BY <2>1 DEF Request
    <3> HIDE DEF q
    <3> QED BY <1>1, <2>2, <3>1, <3>2, OtherFields, GivesUp
  <2> QED BY <1>4, <2>3, <2>4 DEF FindSessions, DropSessions
<1> QED BY <1>2, <1>3, <1>4, TouchWriteAllowed, OpenSessionAllowed DEF SessionStep

-----------------------------------------------------------------------------
(* Users *)

LEMMA BecomesKnown ==
    ASSUME NEW r \in Requests, OthersStay(r), ~SigningIn(req[r]), SigningIn(req'[r]),
           req'[r].user \in Users
    PROVE  Known' = Known \cup {req'[r].user}
BY DEF Known, OthersStay

LEMMA KnownStay ==
    ASSUME NEW r \in Requests, OthersStay(r), ~SigningIn(req[r]), ~SigningIn(req'[r])
    PROVE  Known' = Known
BY DEF Known, OthersStay

LEMMA UsesAnswer ==
    ASSUME AnswersOnce, NEW r \in Requests, OthersStay(r), Answering(req[r]), ~Answering(req'[r]),
           req[r].state \in States
    PROVE  req[r].state \in Answered /\ Answered' = Answered \ {req[r].state}
<1>1. req[r].state \in Answered
  BY DEF Answered
<1>2. \A o \in Requests \ {r} : Answering(req[o]) => req[o].state # req[r].state
  BY DEF AnswersOnce
<1>3. \A x \in States : x \in Answered' <=> x \in Answered /\ x # req[r].state
  BY <1>2 DEF Answered, OthersStay
<1>4. Answered \subseteq States /\ Answered' \subseteq States
  BY DEF Answered
<1> QED BY <1>1, <1>3, <1>4

LEMMA AnswersStay ==
    ASSUME NEW r \in Requests, OthersStay(r), ~Answering(req[r]), ~Answering(req'[r])
    PROVE  Answered' = Answered
BY DEF Answered, OthersStay

LEMMA AuthenticateAllowed ==
    ASSUME AInv, NEW r \in Requests, Authenticate(r)
    PROVE  Kept /\ Allowed
<1>1. At(r, "authenticate", "begin") /\ UNCHANGED <<user, stores, csrf>>
  BY DEF Authenticate
<1>2. UNCHANGED <<user, session, csrf, token, rows>> /\ Lasts
  BY <1>1, StoresAre DEF Lasts
<1>3. /\ req[r].kind \in {"login"} /\ req[r].pos = 1
      /\ req[r] \in Request /\ RequestOK(req[r]) /\ req \in [Requests -> Request]
  <2>1. /\ req[r].kind \in Kinds /\ req[r].pos \in DOMAIN Script[req[r].kind]
        /\ Script[req[r].kind][req[r].pos] = "authenticate"
    BY <1>1, InCall DEF At, AInv
  <2>2. \A k \in Kinds : \A p \in DOMAIN Script[k] : Script[k][p] = "authenticate" => k = "login" /\ p = 1
    BY KindsAre DEF Script
  <2> QED BY <1>1, <2>1, <2>2, InCall DEF At, AInv, TInv, RequestsOK
<1>4. CASE req' = End(r)
  BY <1>2, <1>4, EndQuiets, GivesUp DEF AInv
<1>5. CASE Found(req[r].user) /\ req' = Return(r)
  <2> DEFINE q == [req[r] EXCEPT !.pos = @ + 1, !.at = "begin"]
             u == req[r].user
  <2>1. req'[r] = q /\ OthersStay(r)
    BY ZenonT(60), <1>3, <1>5, Checks, ReturnMoves DEF Return, AInv
  <2>2. q.kind = "login" /\ q.pos = 2 /\ q.user = u /\ q.at = "begin"
    BY <1>3 DEF Request
  <2>3. u \in Users
    BY <1>3 DEF RequestOK
  <2> HIDE DEF q, u
  <2>4. ~SigningIn(req[r]) /\ SigningIn(req'[r]) /\ ~Answering(req[r]) /\ ~Answering(req'[r])
    BY <1>3, <2>1, <2>2 DEF SigningIn, Answering
  <2>5. RelyOK(req[r])'
    BY <2>1, <2>2, <2>4 DEF RelyOK
  <2>6. Kept
    BY <1>2, <2>1, <2>4, <2>5, RelyAfter DEF Kept, AInv, AnswersOnce, OthersStay, StatesOK
  <2>7. Known' = Known \cup {u} /\ Answered' = Answered
    BY <2>1, <2>2, <2>3, <2>4, BecomesKnown, AnswersStay
  <2>8. Mandate!ProveByPassword(u)
    BY <1>2, <1>5, <2>7 DEF Mandate!ProveByPassword, Mandate!Live, Found, u
  <2> QED BY <2>3, <2>6, <2>8 DEF Allowed, Mandate!Next
<1> QED BY <1>4, <1>5 DEF Authenticate

LEMMA DeleteLasts ==
    ASSUME TInv, NEW u \in Users, SoftDelete(u)
    PROVE  \A v \in Users : user[v].row # "none" => user'[v].row # "none"
<1> DEFINE row == [[user[u] EXCEPT !.row = "deleted"] EXCEPT !.admin = FALSE]
<1>1. user' = [user EXCEPT ![u] = row]
  BY DEF SoftDelete
<1>2. row.row = "deleted"
  BY DEF TInv, UserTypeOK, UserRow
<1> HIDE DEF row
<1> QED BY <1>1, <1>2 DEF TInv, UserTypeOK

LEMMA ScheduleAllowed ==
    ASSUME AInv, NEW r \in Requests, Schedule(r)
    PROVE  Kept /\ Allowed
<1> DEFINE u == req[r].target
           s == req[r].cookie
<1>1. At(r, "schedule", "begin") /\ UNCHANGED <<stores, csrf>>
  BY DEF Schedule
<1>2. /\ req[r].kind \in {"deleteMe", "deleteUser"} /\ req[r].pos = 2 /\ req[r].kind \in Kinds
      /\ req[r] \in Request /\ RequestOK(req[r]) /\ req \in [Requests -> Request] /\ RelyOK(req[r])
  BY <1>1, InCall, Positions DEF At, AInv, TInv, RequestsOK, Relies
<1>3. session' = session /\ csrf' = csrf /\ token' = token /\ rows' = rows
  BY <1>1, StoresAre
<1>4. u \in Users
  BY <1>2, TargetIsUser DEF AInv
<1>5. s \in Sessions /\ (session[s].user = u \/ session[s].admin)
  BY <1>2 DEF RequestOK, SessionKinds, RelyOK
<1>6. Call(r) = "schedule" /\ req[r].at = "begin" /\ ~Answering(req[r]) /\ ~SigningIn(req[r])
  BY <1>1, <1>2 DEF At, Answering, SigningIn
<1>7. CASE Found(u) /\ SoftDelete(u) /\ req' = Return(r)
  <2>1. Lasts
    BY <1>3, <1>4, <1>7, DeleteLasts DEF Lasts, AInv
  <2>2. OthersStay(r) /\ Quiets(r) /\ RelyOK(req[r])'
    BY <1>2, <1>6, <1>7, <2>1, ReturnQuiets
  <2>3. Kept
    BY <1>3, <2>1, <2>2, RelyAfter, AnswersKept DEF Kept, AInv, StatesOK
  <2>4. ~Answering(req'[r]) /\ ~SigningIn(req'[r])
    BY <1>6, <2>2 DEF Quiets
  <2>5. Known' = Known /\ Answered' = Answered
    BY <1>6, <2>2, <2>4, KnownStay, AnswersStay
  <2>6. Mandate!Delete(u)
    BY <1>3, <1>4, <1>5, <1>7, <2>5 DEF Mandate!Delete, Mandate!Live, Found, SoftDelete
  <2> QED BY <1>4, <2>3, <2>6 DEF Allowed, Mandate!Next
<1>8. CASE user' = user /\ req' = End(r)
  BY <1>3, <1>8, EndQuiets, GivesUp DEF AInv
<1>9. CASE user' = user /\ req' = [req EXCEPT ![r].kind = "logout", ![r].pos = 2]
  <2>1. OthersStay(r) /\ req'[r].kind = "logout"
    BY <1>2, <1>9 DEF OthersStay, Request
  <2>2. Quiets(r) /\ RelyOK(req[r])'
    BY <2>1 DEF Quiets, RelyOK, Answering, SigningIn
  <2> QED BY <1>3, <1>9, <2>1, <2>2, GivesUp
<1> QED BY <1>7, <1>8, <1>9 DEF Schedule

-----------------------------------------------------------------------------
(* Sign-in and links by Google *)

LEMMA OfferLinkAllowed ==
    ASSUME AInv, NEW r \in Requests, OfferLink(r)
    PROVE  Kept /\ Allowed
<1> DEFINE x == Some(NewStates)
           u == req[r].user
           s == req[r].cookie
<1>1. /\ At(r, "offerLink", "store") /\ NewStates # {} /\ UNCHANGED <<user, stores>>
      /\ csrf' = [csrf EXCEPT ![x] = [intent |-> "link", user |-> u]] /\ req' = End(r)
  BY DEF OfferLink
<1>2. req[r].kind = "startLink" /\ RequestOK(req[r])
  BY <1>1, InCall, Positions DEF At, AInv
<1>3. s \in Sessions /\ Opened(s) /\ u = session[s].user
  BY <1>2, NoneOutside DEF RequestOK, SessionKinds
<1>4. u \in Users /\ u # NoUser
  BY <1>3 DEF AInv, TInv, SessionTypeOK, Opened
<1>5. x \in States /\ csrf[x].intent = "unused"
  BY <1>1 DEF Some, NewStates
<1>6. OthersStay(r) /\ Quiets(r) /\ RelyOK(req[r])'
  BY <1>1, EndQuiets DEF AInv
<1>7. ~Answering(req[r]) /\ ~SigningIn(req[r])
  BY <1>2 DEF Answering, SigningIn
<1>8. session' = session /\ token' = token /\ rows' = rows
  BY <1>1, StoresAre
<1> HIDE DEF x, u
<1>9. Lasts
  BY <1>1, <1>5, <1>8 DEF Lasts, AInv, TInv, CsrfOK
<1>10. StatesOK'
  BY <1>1, <1>5 DEF StatesOK, AInv, TInv, CsrfOK
<1>11. Kept
  BY <1>6, <1>9, <1>10, RelyAfter, AnswersKept DEF Kept, AInv
<1>12. Known' = Known /\ Answered' = Answered
  BY <1>6, <1>7, KnownStay, AnswersStay DEF Quiets
<1>13. Mandate!InSession(u)
  BY <1>3 DEF Mandate!InSession
<1>14. Mandate!OfferLink(x, u)
  BY <1>1, <1>5, <1>8, <1>12, <1>13 DEF Mandate!OfferLink
<1> QED BY <1>4, <1>5, <1>11, <1>14 DEF Allowed, Mandate!Next

\* A state that is spent keeps the user it was offered to.
LEMMA Spending ==
    ASSUME TInv, StatesOK, NEW x \in States, csrf[x].intent \in {"login", "link"},
           csrf' = [csrf EXCEPT ![x].intent = "spent"]
    PROVE  /\ csrf'[x].intent = "spent" /\ csrf'[x].user = csrf[x].user
           /\ \A y \in States : csrf[y].intent = "spent" => csrf'[y] = csrf[y]
           /\ StatesOK'
<1>1. csrf \in [States -> Csrf]
  BY DEF TInv, CsrfOK
<1>2. csrf[x] \in [intent: {"unused", "login", "spent"}, user: Users \cup {NoUser}]
      \/ csrf[x] \in [intent: {"link"}, user: Users]
  BY <1>1 DEF Csrf
<1>3. csrf' = [csrf EXCEPT ![x] = [@ EXCEPT !.intent = "spent"]]
  OBVIOUS
<1>4. csrf'[x].intent = "spent" /\ csrf'[x].user = csrf[x].user
  BY <1>1, <1>2, <1>3
<1>5. \A y \in States \ {x} : csrf'[y] = csrf[y]
  BY <1>1, <1>3
<1> QED BY <1>4, <1>5 DEF StatesOK

LEMMA ConsumeAllowed ==
    ASSUME AInv, NEW r \in Requests, Consume(r)
    PROVE  Kept /\ Allowed
<1> DEFINE x == req[r].state
           k == IF csrf[x].intent = "link" THEN "googleLink" ELSE "googleLogin"
           q == [req[r] EXCEPT !.kind = k, !.target = csrf[x].user]
<1>1. At(r, "consume", "begin") /\ UNCHANGED <<user, stores>>
  BY DEF Consume
<1>2. /\ req[r].kind = "callback" /\ req[r].pos = 1 /\ RequestOK(req[r])
      /\ req[r] \in Request /\ req \in [Requests -> Request]
  BY <1>1, InCall, Positions DEF At, AInv, TInv, RequestsOK
<1>3. x \in States
  BY <1>2 DEF RequestOK
<1>4. session' = session /\ token' = token /\ rows' = rows
  BY <1>1, StoresAre
<1>5. ~Answering(req[r]) /\ ~SigningIn(req[r])
  BY <1>2 DEF Answering, SigningIn
<1>6. CASE csrf' = csrf /\ req' = End(r)
  BY <1>1, <1>4, <1>6, EndQuiets, GivesUp DEF AInv
<1>7. CASE /\ csrf[x].intent \in {"login", "link"}
           /\ csrf' = [csrf EXCEPT ![x].intent = "spent"]
           /\ req' = [req EXCEPT ![r] = q]
  <2>1. req'[r] = q /\ OthersStay(r)
    BY <1>2, <1>7 DEF OthersStay
  <2>2. q.kind = k /\ q.target = csrf[x].user /\ q.pos = 1 /\ q.state = x
    BY <1>2 DEF Request
  <2>3. /\ csrf'[x].intent = "spent" /\ csrf'[x].user = csrf[x].user /\ StatesOK'
        /\ \A y \in States : csrf[y].intent = "spent" => csrf'[y] = csrf[y]
    BY <1>3, <1>7, Spending DEF AInv
  <2>4. csrf[x].intent = "login" => csrf[x].user = NoUser
    BY <1>3 DEF AInv, StatesOK
  <2>5. Lasts
    BY <1>1, <1>4, <2>3 DEF Lasts
  <2> HIDE DEF q
  <2>6. Answering(req'[r]) /\ ~SigningIn(req'[r]) /\ req'[r].state = x
    BY <2>1, <2>2 DEF Answering, SigningIn
  <2>7. RelyOK(req[r])'
    BY <1>3, <1>7, <2>1, <2>2, <2>3, <2>4 DEF RelyOK, Answering
  <2>8. \A o \in Requests \ {r} : Answering(req[o]) => req[o].state # x
    BY <1>7 DEF AInv, Relies, RelyOK
  <2>9. AnswersOnce'
    BY <2>1, <2>6, <2>8 DEF AInv, AnswersOnce, OthersStay
  <2>10. Kept
    BY <2>1, <2>3, <2>5, <2>7, <2>9, RelyAfter DEF Kept
  <2>11. Answered' = Answered \cup {x}
    BY <1>3, <1>5, <2>1, <2>6 DEF Answered, OthersStay
  <2>12. Known' = Known
    BY <1>5, <2>1, <2>6, KnownStay
  <2>13. Mandate!Spend(x)
    BY <1>1, <1>4, <1>7, <2>11, <2>12 DEF Mandate!Spend
  <2> QED BY <1>3, <2>10, <2>13 DEF Allowed, Mandate!Next
<1>8. csrf[x].intent \in {"login", "link"} => req' = [req EXCEPT ![r] = q] /\ csrf' = [csrf EXCEPT ![x].intent = "spent"]
  BY DEF Consume
<1>9. csrf[x].intent \notin {"login", "link"} => req' = End(r) /\ csrf' = csrf
  BY DEF Consume
<1> HIDE DEF q
<1> QED BY <1>6, <1>7, <1>8, <1>9

\* A sign-in by Google has found its user, or created it.
LEMMA ProvesByGoogle ==
    ASSUME AInv, NEW r \in Requests, Call(r) = "findGoogle", NEW u \in Users, Lasts,
           req' = [req EXCEPT ![r].user = u, ![r].pos = 2] \/
           req' = [req EXCEPT ![r].user = u, ![r].pos = 2, ![r].at = "begin"],
           req[r].at # "list", UNCHANGED csrf
    PROVE  /\ Kept /\ req[r].state \in States /\ csrf[req[r].state].user = NoUser
           /\ Known' = Known \cup {u} /\ req[r].state \in Answered
           /\ Answered' = Answered \ {req[r].state} /\ req[r].google \in Googles
<1>1. /\ req[r].kind = "googleLogin" /\ req[r].pos = 1 /\ RequestOK(req[r]) /\ RelyOK(req[r])
      /\ req[r] \in Request /\ req \in [Requests -> Request]
  BY InCall, Positions DEF AInv, TInv, RequestsOK, Relies
<1>2. ~SigningIn(req[r]) /\ Answering(req[r])
  BY <1>1 DEF Answering, SigningIn
<1>3. /\ OthersStay(r) /\ req'[r].kind = "googleLogin" /\ req'[r].pos = 2 /\ req'[r].user = u
      /\ req'[r].at # "list"
  <2>1. CASE req' = [req EXCEPT ![r].user = u, ![r].pos = 2]
    BY <1>1, <2>1 DEF OthersStay, Request
  <2>2. CASE req' = [req EXCEPT ![r].user = u, ![r].pos = 2, ![r].at = "begin"]
    BY <1>1, <2>2 DEF OthersStay, Request
  <2> QED BY <2>1, <2>2
<1>4. SigningIn(req'[r]) /\ ~Answering(req'[r])
  BY <1>3 DEF Answering, SigningIn
<1>5. RelyOK(req[r])'
  BY <1>3, <1>4 DEF RelyOK
<1>6. AnswersOnce'
  BY <1>3, <1>4 DEF AInv, AnswersOnce, OthersStay
<1>7. Kept
  BY <1>3, <1>5, <1>6, RelyAfter DEF Kept, AInv, StatesOK
<1>8. req[r].state \in States /\ csrf[req[r].state].user = NoUser /\ req[r].google \in Googles
  BY <1>1, <1>2 DEF RelyOK, RequestOK
<1>9. Known' = Known \cup {u}
  BY <1>2, <1>3, <1>4, BecomesKnown
<1>10. req[r].state \in Answered /\ Answered' = Answered \ {req[r].state}
  BY <1>2, <1>3, <1>4, <1>8, UsesAnswer DEF AInv
<1> QED BY <1>7, <1>8, <1>9, <1>10

LEMMA FindGoogleAllowed ==
    ASSUME AInv, NEW r \in Requests, FindGoogle(r)
    PROVE  Kept /\ Allowed
<1>1. At(r, "findGoogle", "begin") /\ UNCHANGED <<user, stores, csrf>>
  BY DEF FindGoogle
<1>2. UNCHANGED <<user, session, csrf, token, rows>> /\ Lasts
  BY <1>1, StoresAre DEF Lasts
<1>3. CASE req' = Step(r, "create")
  BY <1>1, <1>2, <1>3, StepHolds, GivesUp DEF At
<1>4. ASSUME NEW u \in Users, HasIdentity(u, req[r].google),
             req' = [req EXCEPT ![r].user = u, ![r].pos = 2]
      PROVE  Kept /\ Allowed
  <2>1. /\ Kept /\ req[r].state \in States /\ csrf[req[r].state].user = NoUser
        /\ Known' = Known \cup {u} /\ req[r].state \in Answered
        /\ Answered' = Answered \ {req[r].state} /\ req[r].google \in Googles
    BY <1>1, <1>2, <1>4, ProvesByGoogle DEF At
  <2>2. user[u].row = "active" /\ user[u].sub # NoGoogle
    BY <1>4, <2>1, NoneOutside DEF HasIdentity, Found
  <2>3. Mandate!ProveByGoogle(u, req[r].state)
    BY <1>2, <2>1, <2>2 DEF Mandate!ProveByGoogle, Mandate!Live, Mandate!UseAnswer
  <2> QED BY <2>1, <2>3 DEF Allowed, Mandate!Next
<1> QED BY <1>3, <1>4 DEF FindGoogle

LEMMA CreateGoogleAllowed ==
    ASSUME AInv, NEW r \in Requests, CreateGoogle(r)
    PROVE  Kept /\ Allowed
<1> DEFINE g == req[r].google
<1>1. At(r, "findGoogle", "create") /\ UNCHANGED <<stores, csrf>>
  BY DEF CreateGoogle
<1>2. UNCHANGED <<session, csrf, token, rows>>
  BY <1>1, StoresAre
<1>3. CASE req' = End(r) /\ user' = user
  BY <1>2, <1>3, EndQuiets, GivesUp DEF AInv
<1>4. ASSUME NEW u \in Users, IdentityFree(u, g), CreateUser(u, g),
             req' = [req EXCEPT ![r].user = u, ![r].pos = 2, ![r].at = "begin"]
      PROVE  Kept /\ Allowed
  <2>1. Lasts
    BY <1>2, <1>4 DEF Lasts, CreateUser, AInv, TInv, UserTypeOK
  <2>2. /\ Kept /\ req[r].state \in States /\ csrf[req[r].state].user = NoUser
        /\ Known' = Known \cup {u} /\ req[r].state \in Answered
        /\ Answered' = Answered \ {req[r].state} /\ g \in Googles
    BY <1>1, <1>2, <1>4, <2>1, ProvesByGoogle DEF At
  <2>3. Mandate!Free(u, g) /\ Mandate!NewAccount(u, g)
    BY <1>4 DEF Mandate!Free, Mandate!NewAccount, IdentityFree, CreateUser
  <2>4. Mandate!JoinByGoogle(u, g, req[r].state)
    BY <1>2, <2>2, <2>3 DEF Mandate!JoinByGoogle, Mandate!UseAnswer
  <2> QED BY <2>2, <2>4 DEF Allowed, Mandate!Next
<1> QED BY <1>3, <1>4 DEF CreateGoogle

LEMMA LoadAccountAllowed ==
    ASSUME AInv, NEW r \in Requests, LoadAccount(r)
    PROVE  Kept /\ Allowed
<1>1. At(r, "loadAccount", "begin") /\ UNCHANGED <<user, stores, csrf>>
  BY DEF LoadAccount
<1>2. UNCHANGED <<user, session, csrf, token, rows>> /\ Lasts
  BY <1>1, StoresAre DEF Lasts
<1>3. /\ req[r].kind = "googleLink" /\ req[r].pos = 3 /\ RequestOK(req[r]) /\ RelyOK(req[r])
      /\ req[r] \in Request /\ req \in [Requests -> Request]
  <2>1. /\ req[r].kind = "googleLink" /\ req[r].pos \in 1..4
        /\ Script["googleLink"][req[r].pos] = "loadAccount"
    BY <1>1, InCall, Positions, Checks DEF At, AInv
  <2>2. \A p \in 1..4 : Script["googleLink"][p] = "loadAccount" => p = 3
    BY DEF Script
  <2> QED BY <2>1, <2>2 DEF AInv, TInv, RequestsOK, Relies
<1>4. CASE req' = End(r)
  BY <1>2, <1>4, EndQuiets, GivesUp DEF AInv
<1>5. CASE CanLink(req[r].target) /\ req' = Return(r) /\ req' # End(r)
  <2> DEFINE q == [req[r] EXCEPT !.pos = @ + 1, !.at = "begin"]
  <2>1. req'[r] = q /\ OthersStay(r)
    BY <1>3, <1>5, ReturnMoves DEF Return, AInv
  <2>2. /\ q.kind = "googleLink" /\ q.pos = 4 /\ q.target = req[r].target
        /\ q.cookie = req[r].cookie /\ q.state = req[r].state
    BY <1>3 DEF Request
  <2> HIDE DEF q
  <2>3. Quiets(r)
    BY <1>3, <2>1, <2>2 DEF Quiets, Answering, SigningIn
  <2>4. RelyOK(req[r])'
    BY <1>2, <1>3, <1>5, <2>1, <2>2 DEF RelyOK, Answering, CanLink, Found
  <2> QED BY <1>2, <2>1, <2>3, <2>4, GivesUp
<1> QED BY <1>4, <1>5 DEF LoadAccount

LEMMA SaveLinkAllowed ==
    ASSUME AInv, NEW r \in Requests, SaveLink(r)
    PROVE  Kept /\ Allowed
<1> DEFINE u == req[r].target
           g == req[r].google
           x == req[r].state
<1>1. At(r, "save", "begin") /\ UNCHANGED <<stores, csrf>> /\ req' = End(r)
  BY DEF SaveLink
<1>2. UNCHANGED <<session, csrf, token, rows>>
  BY <1>1, StoresAre
<1>3. OthersStay(r) /\ Quiets(r) /\ RelyOK(req[r])' /\ req'[r].kind = "idle"
  BY <1>1, EndQuiets, EndMoves DEF AInv
<1>4. req[r].kind = "googleLink" /\ req[r].pos = 4 /\ RequestOK(req[r]) /\ RelyOK(req[r])
  <2>1. /\ req[r].kind = "googleLink" /\ req[r].pos \in 1..4
        /\ Script["googleLink"][req[r].pos] = "save"
    BY <1>1, InCall, Positions, Checks DEF At, AInv
  <2>2. \A p \in 1..4 : Script["googleLink"][p] = "save" => p = 4
    BY DEF Script
  <2> QED BY <2>1, <2>2 DEF AInv, TInv, RequestsOK, Relies
<1>5. CASE user' = user
  BY <1>2, <1>3, <1>5, GivesUp
<1>6. CASE IdentityFree(u, g) /\ SaveIdentity(u, g)
  <2>1. Answering(req[r]) /\ ~Answering(req'[r]) /\ ~SigningIn(req[r]) /\ ~SigningIn(req'[r])
    BY <1>3, <1>4 DEF Answering, SigningIn
  <2>2. /\ u \in Users /\ g \in Googles /\ x \in States /\ csrf[x].user = u
        /\ user[u].row # "none" /\ req[r].cookie \in Sessions /\ session[req[r].cookie].user = u
    BY <1>4, <2>1 DEF RequestOK, RelyOK
  <2> DEFINE row == [[user[u] EXCEPT !.row = "active"] EXCEPT !.sub = g]
  <2>3. user' = [user EXCEPT ![u] = row] /\ row.row = "active"
    BY <1>6, <2>2 DEF SaveIdentity, AInv, TInv, UserTypeOK, UserRow
  <2> HIDE DEF row
  <2>4. Lasts
    BY <1>2, <2>2, <2>3 DEF Lasts, AInv, TInv, UserTypeOK
  <2>5. Kept
    BY <1>2, <1>3, <2>4, RelyAfter, AnswersKept DEF Kept, AInv, StatesOK
  <2>6. Known' = Known
    BY <1>3, <2>1, KnownStay
  <2>7. x \in Answered /\ Answered' = Answered \ {x}
    BY <1>3, <2>1, <2>2, UsesAnswer DEF AInv
  <2>8. Mandate!Free(u, g) /\ Mandate!InSession(u)
    BY <1>6, <2>2 DEF IdentityFree, Mandate!Free, Mandate!InSession
  <2>9. Mandate!Link(u, g, x)
    BY <1>2, <1>6, <2>2, <2>6, <2>7, <2>8 DEF Mandate!Link, Mandate!UseAnswer, SaveIdentity
  <2> QED BY <2>2, <2>5, <2>9 DEF Allowed, Mandate!Next
<1> QED BY <1>5, <1>6 DEF SaveLink

LEMMA UserAllowed ==
    ASSUME AInv, NEW r \in Requests, UserStep(r)
    PROVE  Kept /\ Allowed
<1>1. ASSUME CheckLink(r) \/ CheckIdentity(r)
      PROVE  Kept /\ Allowed
  <2>1. /\ Call(r) \in {"offerLink", "checkIdentity"} /\ req[r].at = "begin"
        /\ UNCHANGED <<user, stores, csrf>>
    BY <1>1 DEF CheckLink, CheckIdentity, At
  <2>2. UNCHANGED <<user, session, csrf, token, rows>> /\ Lasts
    BY <2>1, StoresAre DEF Lasts
  <2>3. req[r].kind \in Kinds
    BY <2>1, InCall DEF AInv
  <2>4. CASE req' = End(r)
    BY <2>2, <2>4, EndQuiets, GivesUp DEF AInv
  <2>5. CASE req' = Return(r)
    BY <2>1, <2>2, <2>3, <2>5, ReturnQuiets, GivesUp
  <2>6. CASE req' = Step(r, "store")
    BY <2>1, <2>2, <2>6, StepHolds, GivesUp
  <2> QED BY <1>1, <2>4, <2>5, <2>6 DEF CheckLink, CheckIdentity
<1> QED BY <1>1, AuthenticateAllowed, ScheduleAllowed, OfferLinkAllowed, ConsumeAllowed,
        FindGoogleAllowed, CreateGoogleAllowed, LoadAccountAllowed, SaveLinkAllowed DEF UserStep

-----------------------------------------------------------------------------
(* Tokens *)

\* A request about tokens holds no answer and has authenticated nobody.
LEMMA TokensQuiet ==
    ASSUME AInv, NEW r \in Requests,
           req[r].kind \in TokenKinds \cup {"authorize", "deleteMe", "deleteUser"},
           OthersStay(r), req'[r].kind = req[r].kind \/ req'[r].kind = "idle",
           req'[r].kind = req[r].kind => req'[r].pos = req[r].pos \/ req[r].pos > 1,
           req'[r].kind = req[r].kind => req'[r].cookie = req[r].cookie, session' = session
    PROVE  Quiets(r) /\ RelyOK(req[r])' /\ Known' = Known /\ Answered' = Answered
<1>1. ~Answering(req[r]) /\ ~SigningIn(req[r]) /\ ~Answering(req'[r]) /\ ~SigningIn(req'[r])
  BY DEF Answering, SigningIn, TokenKinds
<1>2. req[r] \in Request /\ RelyOK(req[r])
  BY DEF AInv, TInv, RequestsOK, Relies
<1>3. req'[r].kind = "deleteUser" /\ req'[r].pos > 1 => req'[r].cookie = req[r].cookie /\ session[req[r].cookie].admin
  BY <1>2 DEF RelyOK, TokenKinds
<1>4. req'[r].kind # "googleLink"
  BY DEF TokenKinds
<1>5. RelyOK(req[r])'
  BY <1>1, <1>3, <1>4 DEF RelyOK, Answering
<1> QED BY <1>1, <1>5, KnownStay, AnswersStay DEF Quiets

LEMMA MakeTokenAllowed ==
    ASSUME AInv, NEW r \in Requests, MakeToken(r)
    PROVE  Kept /\ Allowed
<1> DEFINE t == Some(NewTokens(r))
           u == req[r].user
           g == IF req[r].kind = "refresh" THEN token[req[r].tok].grant ELSE t
           q == [req[r] EXCEPT !.new = t, !.at = "copy"]
<1>1. /\ At(r, "create", "begin") /\ NewTokens(r) # {} /\ InsertRow(t, u, g)
      /\ req' = [req EXCEPT ![r] = q] /\ UNCHANGED <<user, sessionVars, csrf>>
  BY DEF MakeToken
<1>2. /\ req[r].kind \in {"authorize", "exchange", "refresh"} /\ RequestOK(req[r])
      /\ req[r] \in Request /\ req \in [Requests -> Request]
  <2>1. TInv /\ Call(r) = "create"
    BY <1>1 DEF At, AInv
  <2>2. /\ req[r].kind \in Kinds /\ req[r] \in Request /\ RequestOK(req[r])
        /\ req[r].pos \in DOMAIN Script[req[r].kind]
        /\ Script[req[r].kind][req[r].pos] = "create"
    BY <2>1, InCall
  <2>3. req[r].kind \in {"authorize", "exchange", "refresh"}
    <3> DEFINE k == req[r].kind
               p == req[r].pos
    <3>1. k \in Kinds /\ p \in DOMAIN Script[k] /\ Script[k][p] = "create"
      BY <2>2
    <3> HIDE DEF k, p
    <3>2. k \in {"authorize"} \cup TokenKinds /\ k # "fulfil"
      BY <3>1, Positions
    <3>3. k \in {"authorize", "exchange", "refresh"}
      BY <3>2 DEF TokenKinds
    <3> QED BY <3>3 DEF k
  <2>4. req \in [Requests -> Request]
    BY <2>1 DEF TInv, RequestsOK
  <2> QED BY <2>2, <2>3, <2>4
<1>3. /\ t \in (IF req[r].kind = "authorize" THEN Codes ELSE Pairs) /\ token[t].user = NoUser
  BY <1>1 DEF Some, NewTokens, Made
<1>4. req'[r] = q /\ OthersStay(r)
  BY <1>1, <1>2 DEF OthersStay
<1>5. q.kind = req[r].kind /\ q.pos = req[r].pos /\ q.cookie = req[r].cookie
  BY <1>2 DEF Request
<1>6. UNCHANGED <<user, session, csrf>>
  BY <1>1, StoresAre
<1> HIDE DEF t, q
<1>7. Quiets(r) /\ RelyOK(req[r])' /\ Known' = Known /\ Answered' = Answered
  BY <1>2, <1>4, <1>5, <1>6, TokensQuiet DEF TokenKinds
<1>8. Kept
  BY <1>4, <1>6, <1>7, NothingLasts, RelyAfter, AnswersKept DEF Kept, AInv, StatesOK
<1>9. Mandate!NewToken(t, u, g)
  BY <1>1, <1>3, <1>6, <1>7 DEF Mandate!NewToken, InsertRow
<1>10. CASE req[r].kind = "authorize"
  <2>1. req[r].cookie \in Sessions /\ Opened(req[r].cookie) /\ u = session[req[r].cookie].user
    BY <1>2, <1>10, NoneOutside DEF RequestOK, SessionKinds
  <2>2. u \in Users
    BY <2>1 DEF AInv, TInv, SessionTypeOK, Opened
  <2>3. Mandate!Authorize(u, t) /\ t \in Codes
    BY <1>3, <1>9, <1>10, <2>1 DEF Mandate!Authorize, Mandate!InSession
  <2> QED BY <1>8, <2>2, <2>3 DEF Allowed, Mandate!Next
<1>11. CASE req[r].kind = "exchange"
  <2>1. req[r].tok \in Codes /\ token[req[r].tok].user = u /\ u # NoUser
    BY <1>2, <1>11 DEF RequestOK, TokenKinds, Made
  <2>2. Mandate!Exchange(req[r].tok, t) /\ t \in Pairs
    BY <1>3, <1>9, <1>11, <2>1 DEF Mandate!Exchange
  <2> QED BY <1>8, <2>1, <2>2 DEF Allowed, Mandate!Next
<1>12. CASE req[r].kind = "refresh"
  <2>1. req[r].tok \in Pairs /\ token[req[r].tok].user = u /\ u # NoUser
    BY <1>2, <1>12 DEF RequestOK, TokenKinds, Made
  <2>2. Mandate!Refresh(req[r].tok, t) /\ t \in Pairs
    BY <1>3, <1>9, <1>12, <2>1 DEF Mandate!Refresh
  <2> QED BY <1>8, <2>1, <2>2 DEF Allowed, Mandate!Next
<1> QED BY <1>2, <1>10, <1>11, <1>12

\* A step within a call on tokens, which deletes at most rows.
LEMMA TokenGoesOn ==
    ASSUME AInv, NEW r \in Requests, UNCHANGED <<user, session, csrf, token>>,
           Call(r) \in Lookups \cup {"create", "purge"}, req[r].at # "list",
           \/ UNCHANGED rows /\ (req' = End(r) \/ req' = Return(r))
           \/ /\ \E place \in Places \ {"list"} : req' = Step(r, place)
              /\ \E T \in SUBSET Tokens : rows' = rows \ T
    PROVE  Kept /\ Allowed
<1>1. Lasts
  BY NothingLasts DEF AInv
<1>2. req[r].kind \in Kinds
  BY InCall DEF AInv, Lookups, Value
<1>3. Call(r) \notin {"authenticate", "findGoogle", "touch", "loadAccount"}
  BY DEF Lookups, Value
<1>4. CASE UNCHANGED rows /\ req' = End(r)
  BY <1>4, EndQuiets, GivesUp DEF AInv
<1>5. CASE UNCHANGED rows /\ req' = Return(r)
  BY <1>1, <1>2, <1>3, <1>5, ReturnQuiets, GivesUp
<1>6. ASSUME NEW place \in Places \ {"list"}, req' = Step(r, place),
             NEW T \in SUBSET Tokens, rows' = rows \ T
      PROVE  Kept /\ Allowed
  BY <1>1, <1>6, StepHolds, Forgets
<1> QED BY <1>4, <1>5, <1>6

LEMMA TokenAllowed ==
    ASSUME AInv, NEW r \in Requests, TokenStep(r)
    PROVE  Kept /\ Allowed
<1>1. ASSUME ~MakeToken(r)
      PROVE  UNCHANGED <<user, session, csrf, token>>
  BY <1>1, StoresAre DEF TokenStep, CopyFirst, CopyRefresh, CopyKey, SetCopy, GetCopy, FindRow, Reap, ReapCopies,
     ForgetCopies, DeleteCopies, DeleteKey, Tries, DeleteRow, DeleteRows, DeleteTokenCopies, FindTokens,
     PurgeRows, PurgeCopies
<1>2. ASSUME CopyFirst(r) \/ CopyRefresh(r) \/ GetCopy(r) \/ FindRow(r) \/ ReapCopies(r) \/ DeleteKey(r)
                 \/ DeleteTokenCopies(r) \/ PurgeCopies(r)
      PROVE  Kept /\ Allowed
  <2>1. rows' = rows /\ ~MakeToken(r)
    <3>1. rows' = rows
      BY <1>2, StoresAre DEF CopyFirst, CopyRefresh, CopyKey, SetCopy, GetCopy, FindRow, ReapCopies,
         ForgetCopies, DeleteCopies, DeleteKey, Tries, DeleteTokenCopies, PurgeCopies
    <3>2. ~(At(r, "create", "begin"))
      BY <1>2 DEF CopyFirst, CopyRefresh, GetCopy, FindRow, ReapCopies, DeleteKey, DeleteTokenCopies,
         PurgeCopies, LookupAt, At, Lookups, Value
    <3> QED BY <3>1, <3>2 DEF MakeToken
  <2>2. Call(r) \in Lookups \cup {"create", "purge"} /\ req[r].at # "list"
    <3>1. req[r].at \in {"copy", "copyRefresh"} => Call(r) \in Lookups \cup {"create"}
      BY DEF AInv, TInv, RequestsOK, PlaceOK
    <3> QED BY <1>2, <3>1 DEF CopyFirst, CopyRefresh, GetCopy, FindRow, ReapCopies, DeleteKey,
               DeleteTokenCopies, PurgeCopies, LookupAt, At
  <2>3. \/ req' = End(r) \/ req' = Return(r)
        \/ \E place \in Places \ {"list"} : req' = Step(r, place)
    BY <1>2 DEF CopyFirst, CopyRefresh, Copied, GetCopy, FindRow, ReapCopies, DeleteKey,
       DeleteTokenCopies, PurgeCopies, Places
  <2>4. rows' = rows \ {}
    BY <2>1
  <2> QED BY <1>1, <2>1, <2>2, <2>3, <2>4, TokenGoesOn
<1>3. ASSUME Reap(r) \/ DeleteRow(r)
      PROVE  Kept /\ Allowed
  <2>1. Call(r) \in Lookups /\ req[r].at \in {"reap", "deleteRow"} /\ rows' = rows \ {req[r].tok}
    BY <1>3 DEF Reap, DeleteRow, LookupAt, DeleteRows
  <2>2. {req[r].tok} \in SUBSET Tokens
    BY <2>1, LookupHas DEF AInv
  <2>3. \E place \in Places \ {"list"} : req' = Step(r, place)
    BY <1>3 DEF Reap, DeleteRow, Places
  <2>4. ~MakeToken(r)
    BY <2>1 DEF MakeToken, At
  <2> QED BY <1>1, <2>1, <2>2, <2>3, <2>4, TokenGoesOn
<1>4. CASE PurgeRows(r)
  <2>1. Call(r) = "purge" /\ req[r].at = "deleteRows" /\ rows' = rows \ TokensOf(req[r].target)
    BY <1>4 DEF PurgeRows, At, DeleteRows
  <2>2. TokensOf(req[r].target) \in SUBSET Tokens
    BY DEF TokensOf
  <2>3. \E place \in Places \ {"list"} : req' = Step(r, place)
    BY <1>4 DEF PurgeRows, Places
  <2>4. ~MakeToken(r)
    BY <2>1 DEF MakeToken, At
  <2> QED BY <1>1, <2>1, <2>2, <2>3, <2>4, TokenGoesOn
<1>5. CASE FindTokens(r)
  <2> DEFINE T == rows \cap TokensOf(req[r].target)
             q == [req[r] EXCEPT !.found = T, !.at = "deleteRows"]
  <2>1. /\ Call(r) = "purge" /\ req[r].at = "begin" /\ rows' = rows
        /\ req' = End(r) \/ req' = [req EXCEPT ![r] = q]
    BY <1>5, StoresAre DEF FindTokens, At
  <2>2. ~MakeToken(r)
    BY <2>1 DEF MakeToken, At
  <2>3. UNCHANGED <<user, session, csrf, token, rows>> /\ Lasts
    BY <1>1, <2>1, <2>2, NothingLasts DEF AInv
  <2>4. req[r] \in Request
    BY DEF AInv, TInv, RequestsOK
  <2>5. /\ q.kind = req[r].kind /\ q.pos = req[r].pos /\ q.user = req[r].user
        /\ q.target = req[r].target /\ q.cookie = req[r].cookie /\ q.state = req[r].state
        /\ q.at = "deleteRows"
    BY <2>4 DEF Request
  <2> HIDE DEF q
  <2>6. CASE req' = End(r)
    BY <2>3, <2>6, EndQuiets, GivesUp DEF AInv
  <2>7. CASE req' = [req EXCEPT ![r] = q]
    BY <2>1, <2>3, <2>5, <2>7, OtherFields, GivesUp
  <2> QED BY <2>1, <2>6, <2>7
<1> QED BY <1>2, <1>3, <1>4, <1>5, MakeTokenAllowed DEF TokenStep

-----------------------------------------------------------------------------
(* Arrivals, failures and time *)

LEMMA ArrivesAllowed ==
    ASSUME AInv, NEW r \in Requests, Arrives(r)
    PROVE  Kept /\ Allowed
<1>1. /\ OthersStay(r) /\ req'[r].pos = 1 /\ UNCHANGED <<user, stores, csrf>>
  BY ArrivalMoves DEF AInv
<1>2. UNCHANGED <<user, session, csrf, token, rows>>
  BY <1>1, StoresAre
<1>3. req'[r].kind \notin {"googleLogin", "googleLink"}
  BY ArrivalMoves DEF AInv, Starters
<1>4. Quiets(r) /\ RelyOK(req[r])'
  BY <1>1, <1>3 DEF Quiets, RelyOK, Answering, SigningIn
<1> QED BY <1>1, <1>2, <1>4, GivesUp

LEMMA CrashAllowed ==
    ASSUME AInv, Crash
    PROVE  Kept /\ Allowed
<1>1. \A r \in Requests : req'[r].kind = "idle"
  BY DEF Crash, Idle
<1>2. UNCHANGED <<user, session, csrf, token, rows>>
  BY StoresAre DEF Crash
<1>3. \A r \in Requests : ~Answering(req'[r]) /\ ~SigningIn(req'[r])
  BY <1>1 DEF Answering, SigningIn
<1>4. Relies' /\ AnswersOnce'
  BY <1>1, <1>3 DEF Relies, RelyOK, AnswersOnce
<1>5. Answered' = {} /\ Known' = {}
  BY <1>3 DEF Answered, Known
<1>6. Mandate!GiveUp
  BY <1>2, <1>5 DEF Mandate!GiveUp
<1> QED BY <1>2, <1>4, <1>6 DEF Kept, Allowed, Mandate!Next, AInv, StatesOK

\* A step that touches no request.
LEMMA RequestsWait ==
    ASSUME AInv, UNCHANGED req, Lasts, StatesOK'
    PROVE  Kept /\ Answered' = Answered /\ Known' = Known
<1>1. Relies'
  BY RelyStays DEF AInv, Relies
<1> QED BY <1>1 DEF Kept, AInv, AnswersOnce, Answered, Known

LEMMA TimeAllowed ==
    ASSUME AInv, TimePasses
    PROVE  Kept /\ Allowed
<1>1. req' = req /\ user' = user
  BY DEF TimePasses, SessionExpires, StateExpires, ValueExpires, Expires
<1>2. session' = session /\ token' = token /\ rows' = rows
  BY StoresAre DEF TimePasses, SessionExpires, StateExpires, ValueExpires, DeleteKeys, TimeComes
<1>3. CASE csrf' = csrf
  <2>1. Lasts /\ StatesOK'
    BY <1>1, <1>2, <1>3 DEF Lasts, AInv, StatesOK
  <2>2. Kept /\ UNCHANGED Mandate!vars
    BY <1>1, <1>2, <1>3, <2>1, RequestsWait DEF Mandate!vars
  <2> QED BY <2>2 DEF Allowed
<1>4. ASSUME NEW x \in States, StateExpires(x)
      PROVE  Kept /\ Allowed
  <2>1. csrf[x].intent \in {"login", "link"} /\ csrf' = [csrf EXCEPT ![x].intent = "spent"]
    BY <1>4 DEF StateExpires
  <2>2. Lasts /\ StatesOK'
    BY <1>1, <1>2, <2>1, Spending DEF Lasts, AInv
  <2>3. Kept /\ Answered' = Answered /\ Known' = Known
    BY <1>1, <2>2, RequestsWait
  <2>4. Mandate!Spend(x)
    BY <1>1, <1>2, <2>1, <2>3 DEF Mandate!Spend
  <2> QED BY <2>3, <2>4 DEF Allowed, Mandate!Next
<1> QED BY <1>3, <1>4 DEF TimePasses, SessionExpires, ValueExpires

LEMMA SignUpAllowed ==
    ASSUME AInv, NEW u \in Users, SignUp(u)
    PROVE  Kept /\ Allowed
<1>1. CreateUser(u, NoGoogle) /\ UNCHANGED <<stores, csrf, req>>
  BY DEF SignUp
<1>2. UNCHANGED <<session, csrf, token, rows>>
  BY <1>1, StoresAre
<1>3. Lasts /\ StatesOK'
  BY <1>1, <1>2 DEF Lasts, CreateUser, AInv, TInv, UserTypeOK, StatesOK
<1>4. Kept /\ Answered' = Answered /\ Known' = Known
  BY <1>1, <1>3, RequestsWait
<1>5. Mandate!Join(u)
  BY <1>1, <1>2, <1>4 DEF Mandate!Join, Mandate!NewAccount, CreateUser
<1> QED BY <1>4, <1>5 DEF Allowed, Mandate!Next

LEMMA OfferLoginAllowed ==
    ASSUME AInv, OfferLogin
    PROVE  Kept /\ Allowed
<1> DEFINE x == Some(NewStates)
<1>1. /\ NewStates # {} /\ csrf' = [csrf EXCEPT ![x].intent = "login"]
      /\ UNCHANGED <<user, stores, req>>
  BY DEF OfferLogin
<1>2. x \in States /\ csrf[x].intent = "unused"
  BY <1>1 DEF Some, NewStates
<1>3. UNCHANGED <<user, session, token, rows>>
  BY <1>1, StoresAre
<1> HIDE DEF x
<1>4. csrf[x] = [intent |-> "unused", user |-> NoUser]
  <2>1. csrf[x] \in Csrf /\ csrf[x].user = NoUser
    BY <1>2 DEF AInv, TInv, CsrfOK, StatesOK
  <2> QED BY <1>2, <2>1 DEF Csrf
<1>5. csrf' = [csrf EXCEPT ![x] = [intent |-> "login", user |-> NoUser]]
  <2>1. csrf' = [csrf EXCEPT ![x] = [@ EXCEPT !.intent = "login"]]
    BY <1>1
  <2>2. [csrf[x] EXCEPT !.intent = "login"] = [intent |-> "login", user |-> NoUser]
    BY <1>4
  <2> QED BY <2>1, <2>2
<1>6. Lasts /\ StatesOK'
  BY <1>2, <1>3, <1>5 DEF Lasts, AInv, TInv, CsrfOK, StatesOK
<1>7. Kept /\ Answered' = Answered /\ Known' = Known
  BY <1>1, <1>6, RequestsWait
<1>8. Mandate!OfferLogin(x)
  BY <1>2, <1>3, <1>5, <1>7 DEF Mandate!OfferLogin
<1> QED BY <1>2, <1>7, <1>8 DEF Allowed, Mandate!Next

-----------------------------------------------------------------------------
(* Accounts implements Authority *)

LEMMA AbortAllowed ==
    ASSUME AInv, NEW r \in Requests, Abort(r)
    PROVE  Kept /\ Allowed
<1>1. UNCHANGED <<user, session, csrf, token, rows>> /\ req' = End(r)
  BY StoresAre DEF Abort
<1> QED BY <1>1, EndQuiets, GivesUp DEF AInv

LEMMA StepAllowed ==
    ASSUME AInv, [Next]_vars
    PROVE  AInv' /\ Allowed
<1>1. TInv'
  BY TInvStep DEF AInv
<1>2. CASE UNCHANGED vars
  <2>1. UNCHANGED <<user, session, csrf, token, rows, req>>
    BY <1>2, VarsAre, StoresAre
  <2>2. Lasts /\ StatesOK'
    BY <2>1 DEF Lasts, AInv, StatesOK
  <2>3. Kept /\ UNCHANGED Mandate!vars
    BY <2>1, <2>2, RequestsWait DEF Mandate!vars
  <2> QED BY <1>1, <2>3 DEF AInv, Kept, Allowed
<1>3. CASE Next
  <2>1. Kept /\ Allowed
    BY <1>3, SignUpAllowed, OfferLoginAllowed, ArrivesAllowed, SessionAllowed, UserAllowed,
       TokenAllowed, AbortAllowed, CrashAllowed, TimeAllowed DEF Next
  <2> QED BY <1>1, <2>1 DEF AInv, Kept
<1> QED BY <1>2, <1>3

\* session.go:128, googleauth.go:204: a handler checks a session, an admin's role, an
\* answer or an account in one call and acts on it several calls later.  Whatever other
\* requests, failures, crashes and expiries come in between, a session is opened, an
\* identity linked, an account deleted and a token made only as Authority says.
THEOREM AccountsImplementAuthority == Spec => KeepsAuthority
<1>1. Init => AInv /\ Mandate!Init
  BY AInvInit, InitAllowed
<1>2. AInv /\ [Next]_vars => AInv' /\ [Mandate!Next]_Mandate!vars
  BY StepAllowed DEF Allowed
<1> QED BY <1>1, <1>2, PTL DEF Spec, KeepsAuthority, Mandate!Spec

=============================================================================
