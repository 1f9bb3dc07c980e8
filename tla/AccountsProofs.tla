--------------------------- MODULE AccountsProofs ---------------------------
(***************************************************************************)
(* Proofs of safety properties of Accounts, for any users, sessions, tokens  *)
(* and identities, any number of requests and any mix of them.              *)
(***************************************************************************)
EXTENDS Accounts, TLAPS

-----------------------------------------------------------------------------
(* Handlers and their calls *)

LEMMA KindsAre ==
    Kinds = {"visit", "logout", "deleteMe", "deleteUser", "login", "startLink", "callback",
             "googleLogin", "googleLink", "authorize", "exchange", "refresh", "fulfil"}
BY DEF Kinds, Script

LEMMA ScriptSequence ==
    ASSUME NEW k \in Kinds
    PROVE  Len(Script[k]) \in Nat /\ DOMAIN Script[k] = 1..Len(Script[k])
<1>1. CASE k = "visit"
  BY <1>1 DEF Script
<1>2. CASE k = "logout"
  BY <1>2 DEF Script
<1>3. CASE k = "deleteMe"
  BY <1>3 DEF Script
<1>4. CASE k = "deleteUser"
  BY <1>4 DEF Script
<1>5. CASE k = "login"
  BY <1>5 DEF Script
<1>6. CASE k = "startLink"
  BY <1>6 DEF Script
<1>7. CASE k = "callback"
  BY <1>7 DEF Script
<1>8. CASE k = "googleLogin"
  BY <1>8 DEF Script
<1>9. CASE k = "googleLink"
  BY <1>9 DEF Script
<1>10. CASE k = "authorize"
  BY <1>10 DEF Script
<1>11. CASE k = "exchange"
  BY <1>11 DEF Script
<1>12. CASE k = "refresh"
  BY <1>12 DEF Script
<1>13. CASE k = "fulfil"
  BY <1>13 DEF Script
<1> QED BY KindsAre, <1>1, <1>2, <1>3, <1>4, <1>5, <1>6, <1>7, <1>8, <1>9, <1>10, <1>11, <1>12, <1>13

LEMMA BoundsHave == Kinds \subseteq Bounds /\ {"signUp", "startLogin", "fault", "expiry"} \subseteq Bounds
BY DEF Bounds

\* Which handlers make which calls.
LEMMA Positions ==
    ASSUME NEW k \in Kinds, NEW p \in DOMAIN Script[k]
    PROVE  /\ p \in 1..5
           /\ Script[k][p] = "touch" => k \in SessionKinds \cup {"googleLink"} /\ p = 1
           /\ Script[k][p] = "openSession" => k \in {"login", "googleLogin"} /\ p = 3
           /\ Script[k][p] \in {"schedule", "endSessions", "purge"} => k \in {"deleteMe", "deleteUser"}
           /\ Script[k][p] = "schedule" => p = 2
           /\ Script[k][p] = "offerLink" => k = "startLink"
           /\ Script[k][p] = "consume" => k = "callback" /\ p = 1
           /\ Script[k][p] = "findGoogle" => k = "googleLogin" /\ p = 1
           /\ k = "googleLogin" /\ p = 1 => Script[k][p] = "findGoogle"
           /\ Script[k][p] \in {"checkIdentity", "loadAccount", "save"} => k = "googleLink"
           /\ Script[k][p] \in Lookups => k \in TokenKinds
           /\ Script[k][p] \in {"getCode", "removeCode"} => k = "exchange"
           /\ Script[k][p] = "getAccess" => k = "fulfil"
           /\ Script[k][p] = "getRefresh" => k = "refresh" /\ p = 1
           /\ Script[k][p] \in {"removeAccess", "removeRefresh"} => k = "refresh" /\ p \in {3, 4}
           /\ Script[k][p] = "create" => k \in {"authorize"} \cup TokenKinds
           /\ Script[k][p] = "create" /\ k = "refresh" => p = 2
           /\ k = "refresh" /\ p = 2 => Script[k][p] = "create"
           /\ Script[k][p] = "create" => k # "fulfil"
<1>1. CASE k = "visit"
  BY <1>1 DEF Script, SessionKinds, TokenKinds, Lookups, Value
<1>2. CASE k = "logout"
  BY <1>2 DEF Script, SessionKinds, TokenKinds, Lookups, Value
<1>3. CASE k = "deleteMe"
  BY <1>3 DEF Script, SessionKinds, TokenKinds, Lookups, Value
<1>4. CASE k = "deleteUser"
  BY <1>4 DEF Script, SessionKinds, TokenKinds, Lookups, Value
<1>5. CASE k = "login"
  BY <1>5 DEF Script, SessionKinds, TokenKinds, Lookups, Value
<1>6. CASE k = "startLink"
  BY <1>6 DEF Script, SessionKinds, TokenKinds, Lookups, Value
<1>7. CASE k = "callback"
  BY <1>7 DEF Script, SessionKinds, TokenKinds, Lookups, Value
<1>8. CASE k = "googleLogin"
  BY <1>8 DEF Script, SessionKinds, TokenKinds, Lookups, Value
<1>9. CASE k = "googleLink"
  BY <1>9 DEF Script, SessionKinds, TokenKinds, Lookups, Value
<1>10. CASE k = "authorize"
  BY <1>10 DEF Script, SessionKinds, TokenKinds, Lookups, Value
<1>11. CASE k = "exchange"
  BY <1>11 DEF Script, SessionKinds, TokenKinds, Lookups, Value
<1>12. CASE k = "refresh"
  BY <1>12 DEF Script, SessionKinds, TokenKinds, Lookups, Value
<1>13. CASE k = "fulfil"
  BY <1>13 DEF Script, SessionKinds, TokenKinds, Lookups, Value
<1> QED BY KindsAre, <1>1, <1>2, <1>3, <1>4, <1>5, <1>6, <1>7, <1>8, <1>9, <1>10, <1>11, <1>12, <1>13

-----------------------------------------------------------------------------
(* The invariant, in parts *)

\* What a request has at hand when it stands within a call.
PlaceOK(r) ==
    /\ req[r].at \in {"copy", "copyRefresh"} => Call(r) \in Lookups \cup {"create"}
    /\ req[r].at \in {"copy", "copyRefresh"} /\ Call(r) = "create" =>
          req[r].new \in Tokens /\ Made(req[r].new)
    /\ req[r].at = "copyRefresh" => Copying(r) \in Pairs
    /\ req[r].at \in {"deleteRow", "deleteKey"} => Removing(r)
    /\ req[r].at = "reap" /\ Call(r) = "getRefresh" =>
          ExpiryReached(<<"refresh", req[r].tok>>, expired)

RequestsOK ==
    /\ req \in [Requests -> Request]
    /\ \A r \in Requests : RequestOK(req[r]) /\ PlaceOK(r)

CsrfOK == csrf \in [States -> Csrf]
DueOK == due \in [Bounds -> Nat]
HistoryOK ==
    /\ disturbed \subseteq Users /\ newest \subseteq Pairs
    /\ lost \subseteq Tokens /\ stale \subseteq Tokens

TInv ==
    /\ UserTypeOK /\ SessionTypeOK /\ TokenTypeOK
    /\ CsrfOK /\ DueOK /\ HistoryOK
    /\ RequestsOK

\* What a request refers to stays as it is: sessions that were opened, tokens that
\* were made, states that were used, times that have come.
Grows ==
    /\ \A s \in Sessions : Opened(s) => session'[s] = session[s]
    /\ \A t \in Tokens : Made(t) => token'[t] = token[t]
    /\ \A x \in States : csrf[x].intent # "unused" => csrf'[x].intent # "unused"
    /\ expired \subseteq expired'

LEMMA TInvTypes == TInv => TypeOK
BY DEF TInv, TypeOK, CsrfOK, DueOK, HistoryOK, RequestsOK

LEMMA NoneOutside ==
    /\ NoUser \notin Users /\ NoToken \notin Tokens /\ NoSession \notin Sessions
    /\ NoState \notin States /\ NoGoogle \notin Googles /\ Codes \cap Pairs = {}
BY UserAssumption, TokenAssumption, SessionAssumption, RequestAssumption

-----------------------------------------------------------------------------
(* Requests that go on, return and end *)

\* A request that does not move keeps what it has.
LEMMA Stays ==
    ASSUME TInv, Grows, NEW o \in Requests, req'[o] = req[o]
    PROVE  RequestOK(req[o])' /\ PlaceOK(o)'
<1> DEFINE q == req[o]
<1>1. q \in Request /\ RequestOK(q) /\ PlaceOK(o)
  BY DEF TInv, RequestsOK
<1>2. Call(o)' = Call(o)
  BY DEF Call
<1>3. RequestOK(req[o])'
  <2>1. q.cookie # NoSession => q.cookie \in Sessions /\ session'[q.cookie] = session[q.cookie]
    BY <1>1 DEF RequestOK, Request, Grows
  <2>2. q.tok \in Tokens /\ Made(q.tok) => token'[q.tok] = token[q.tok]
    BY DEF Grows
  <2>3. q.kind \in TokenKinds => q.tok \in Tokens
    BY <1>1 DEF RequestOK, Tokens
  <2>4. q.state \in States /\ csrf[q.state].intent # "unused" => csrf'[q.state].intent # "unused"
    BY DEF Grows
  <2>5. q.kind \in SessionKinds => q.cookie # NoSession
    BY <1>1, NoneOutside DEF RequestOK
  <2> QED BY <1>1, <2>1, <2>2, <2>3, <2>4, <2>5 DEF RequestOK, Opened, Made
<1>4. PlaceOK(o)'
  <2>1. Copying(o)' = Copying(o) /\ (Removing(o)' <=> Removing(o))
    BY <1>2 DEF Copying, Removing
  <2>2. req[o].new \in Tokens /\ Made(req[o].new) => Made(req[o].new)'
    BY DEF Grows, Made
  <2>3. ASSUME req[o].at = "reap", Call(o) = "getRefresh",
               ExpiryReached(<<"refresh", req[o].tok>>, expired)
        PROVE  ExpiryReached(<<"refresh", req[o].tok>>, expired)'
    <3>1. req[o].kind = "refresh"
      BY <2>3, <1>1, Positions, KindsAre DEF Call, RequestOK, Lookups, Value
    <3>2. req[o].tok \in Pairs /\ Made(req[o].tok)
      BY <3>1, <1>1 DEF RequestOK, TokenKinds
    <3>3. token'[req[o].tok] = token[req[o].tok]
      BY <3>2 DEF Grows, Tokens
    <3> QED BY <2>3, <3>3 DEF ExpiryReached, Grows
  <2> QED BY <1>1, <1>2, <2>1, <2>2, <2>3 DEF PlaceOK
<1> QED BY <1>3, <1>4

\* One request moves to a record that is right, the others stay.
LEMMA Moves ==
    ASSUME TInv, Grows, NEW r \in Requests, NEW q \in Request,
           req' = [req EXCEPT ![r] = q],
           RequestOK(req[r])', PlaceOK(r)'
    PROVE  RequestsOK'
<1>1. req \in [Requests -> Request]
  BY DEF TInv, RequestsOK
<1>2. req' \in [Requests -> Request] /\ \A o \in Requests \ {r} : req'[o] = req[o]
  BY <1>1
<1>3. \A o \in Requests \ {r} : RequestOK(req[o])' /\ PlaceOK(o)'
  BY <1>2, Stays
<1> QED BY <1>2, <1>3 DEF RequestsOK

LEMMA Ends ==
    ASSUME TInv, Grows, NEW r \in Requests, req' = End(r)
    PROVE  RequestsOK'
<1>1. Idle \in Request
  BY DEF Idle, Request, Places
<1>2. req' = [req EXCEPT ![r] = Idle] /\ req'[r] = Idle
  BY DEF End, TInv, RequestsOK
<1>3. RequestOK(req[r])'
  BY <1>2 DEF RequestOK, Idle, SessionKinds, TokenKinds
<1>4. PlaceOK(r)'
  BY <1>2 DEF PlaceOK, Idle
<1> QED BY <1>1, <1>2, <1>3, <1>4, Moves

\* What the places within a call ask of a request, besides what it has anyway.
PlaceAsks(r, place) ==
    /\ place \in Places
    /\ place \in {"set", "unlist", "list"} => req[r].cookie \in Sessions
    /\ place = "copy" => Call(r) \in Lookups
    /\ place = "copyRefresh" => PlaceOK(r) /\ req[r].at = "copy" /\ Copying(r) \in Pairs
    /\ place \in {"deleteRow", "deleteKey"} => Removing(r)
    /\ place = "reap" /\ Call(r) = "getRefresh" => ExpiryReached(<<"refresh", req[r].tok>>, expired)

LEMMA Steps ==
    ASSUME TInv, Grows, NEW r \in Requests, NEW place,
           req[r].kind \in Kinds, PlaceAsks(r, place), req' = Step(r, place)
    PROVE  RequestsOK'
<1> DEFINE q == [req[r] EXCEPT !.at = place]
<1>1. req \in [Requests -> Request] /\ req[r] \in Request /\ RequestOK(req[r]) /\ PlaceOK(r)
  BY DEF TInv, RequestsOK
<1>2. q \in Request
  BY <1>1 DEF Request, PlaceAsks
<1>3. req' = [req EXCEPT ![r] = q] /\ req'[r] = q
  BY <1>1 DEF Step
<1> USE <1>1, <1>3
<1>4. /\ q.kind = req[r].kind /\ q.pos = req[r].pos /\ q.user = req[r].user
      /\ q.target = req[r].target /\ q.cookie = req[r].cookie /\ q.state = req[r].state
      /\ q.google = req[r].google /\ q.tok = req[r].tok /\ q.new = req[r].new /\ q.at = place
  BY DEF Request
<1> HIDE DEF q
<1>5. RequestOK(req[r])'
  <2>1. q.cookie # NoSession => q.cookie \in Sessions /\ session'[q.cookie] = session[q.cookie]
    BY <1>4 DEF RequestOK, Request, Grows
  <2>2. q.kind \in TokenKinds => q.tok \in Tokens
    BY <1>4 DEF RequestOK, Tokens
  <2>3. q.tok \in Tokens /\ Made(q.tok) => token'[q.tok] = token[q.tok]
    BY DEF Grows
  <2>4. q.state \in States /\ csrf[q.state].intent # "unused" => csrf'[q.state].intent # "unused"
    BY DEF Grows
  <2>5. q.kind \in SessionKinds => q.cookie # NoSession
    BY <1>4, NoneOutside DEF RequestOK
  <2> QED BY <1>4, <2>1, <2>2, <2>3, <2>4, <2>5, KindsAre DEF RequestOK, Opened, Made, PlaceAsks
<1>6. PlaceOK(r)'
  <2>1. Call(r)' = Call(r)
    BY <1>4 DEF Call
  <2>2. Copying(r)' = Copying(r) /\ (Removing(r)' <=> Removing(r))
    BY <1>4, <2>1 DEF Copying, Removing
  <2>3. req[r].new \in Tokens /\ Made(req[r].new) => token'[req[r].new] = token[req[r].new]
    BY DEF Grows, Made
  <2>4. ASSUME place = "reap", Call(r) = "getRefresh"
        PROVE  ExpiryReached(<<"refresh", req[r].tok>>, expired)'
    <3>1. req[r].kind = "refresh"
      BY <2>4, Positions, KindsAre DEF Call, RequestOK, Lookups, Value
    <3>2. req[r].tok \in Pairs /\ Made(req[r].tok)
      BY <3>1 DEF RequestOK, TokenKinds
    <3>3. token'[req[r].tok] = token[req[r].tok] /\ req'[r].tok = req[r].tok
      BY <3>2, <1>4 DEF Grows, Tokens
    <3> QED BY <2>4, <3>3 DEF ExpiryReached, Grows, PlaceAsks
  <2>5. "create" \notin Lookups
    BY DEF Lookups, Value
  <2>6. place = "copyRefresh" => Call(r) \in Lookups \cup {"create"}
                               /\ (Call(r) = "create" => req[r].new \in Tokens /\ Made(req[r].new))
    BY <1>4 DEF PlaceAsks, PlaceOK
  <2>7. req'[r].at = place /\ req'[r].new = req[r].new
    BY <1>4
  <2>8. req'[r].at \in {"copy", "copyRefresh"} => Call(r)' \in Lookups \cup {"create"}
    BY <2>1, <2>6, <2>7 DEF PlaceAsks
  <2>9. req'[r].at \in {"copy", "copyRefresh"} /\ Call(r)' = "create" =>
            req'[r].new \in Tokens /\ Made(req[r].new)'
    BY <2>1, <2>3, <2>5, <2>6, <2>7 DEF PlaceAsks, Made
  <2> QED BY <2>1, <2>2, <2>4, <2>7, <2>8, <2>9 DEF PlaceOK, PlaceAsks
<1> QED BY <1>2, <1>5, <1>6, Moves

LEMMA Returns ==
    ASSUME TInv, Grows, NEW r \in Requests,
           req[r].kind \in Kinds, Call(r) # "findGoogle", req' = Return(r)
    PROVE  RequestsOK'
<1>1. CASE req[r].pos = Len(Script[req[r].kind])
  BY <1>1, Ends DEF Return
<1>2. CASE req[r].pos # Len(Script[req[r].kind])
  <2> DEFINE q == [req[r] EXCEPT !.pos = @ + 1, !.at = "begin"]
  <2>1. req \in [Requests -> Request] /\ req[r] \in Request /\ RequestOK(req[r])
    BY DEF TInv, RequestsOK
  <2>2. req' = [req EXCEPT ![r] = q] /\ req'[r] = q
    BY <1>2, <2>1 DEF Return
  <2>3. q \in [kind: Kinds \cup {"idle"}, pos: {req[r].pos + 1}, at: Places,
                user: Users \cup {NoUser}, target: Users \cup {NoUser},
                cookie: Sessions \cup {NoSession}, state: States \cup {NoState},
                google: Googles \cup {NoGoogle},
                tok: Tokens \cup {NoToken}, new: Tokens \cup {NoToken},
                members: SUBSET Sessions, found: SUBSET Tokens]
    BY <2>1 DEF Request, Places
  <2>4. /\ q.kind = req[r].kind /\ q.pos = req[r].pos + 1 /\ q.user = req[r].user
        /\ q.target = req[r].target /\ q.cookie = req[r].cookie /\ q.state = req[r].state
        /\ q.google = req[r].google /\ q.tok = req[r].tok /\ q.at = "begin"
    BY <2>1 DEF Request
  <2> HIDE DEF q
  <2>5. q.pos \in DOMAIN Script[q.kind]
    <3>1. /\ Len(Script[req[r].kind]) \in Nat
          /\ DOMAIN Script[req[r].kind] = 1..Len(Script[req[r].kind])
      BY ScriptSequence
    <3>2. req[r].pos \in DOMAIN Script[req[r].kind]
      BY <2>1, KindsAre DEF RequestOK
    <3> QED BY <1>2, <2>4, <3>1, <3>2
  <2>6. q \in Request
    BY <2>3, <2>4, <2>5, Positions DEF Request
  <2>7. RequestOK(req[r])'
    <3>1. q.cookie # NoSession => q.cookie \in Sessions /\ session'[q.cookie] = session[q.cookie]
      BY <2>1, <2>4 DEF RequestOK, Request, Grows
    <3>2. q.kind \in TokenKinds => q.tok \in Tokens
      BY <2>1, <2>4 DEF RequestOK, Tokens
    <3>3. q.tok \in Tokens /\ Made(q.tok) => token'[q.tok] = token[q.tok]
      BY DEF Grows
    <3>4. q.state \in States /\ csrf[q.state].intent # "unused" => csrf'[q.state].intent # "unused"
      BY DEF Grows
    <3>5. q.kind \in SessionKinds => q.cookie # NoSession
      BY <2>1, <2>4, NoneOutside DEF RequestOK
    <3>6. q.kind = "googleLogin" => q.user \in Users
      BY <2>1, <2>4, Positions DEF RequestOK, Call
    <3>7. q.kind # "idle"
      BY <2>4, KindsAre
    <3> QED BY <2>1, <2>2, <2>4, <2>5, <3>1, <3>2, <3>3, <3>4, <3>5, <3>6, <3>7
            DEF RequestOK, Opened, Made
  <2>8. PlaceOK(r)'
    BY <2>2, <2>4 DEF PlaceOK
  <2> QED BY <2>2, <2>6, <2>7, <2>8, Moves
<1> QED BY <1>1, <1>2

-----------------------------------------------------------------------------
(* What the parts of a step leave alone *)

LEMMA StoresAre ==
    /\ UNCHANGED stores <=> UNCHANGED sessionVars /\ UNCHANGED tokenVars
    /\ UNCHANGED sessionVars <=> session' = session /\ alive' = alive /\ listed' = listed
    /\ UNCHANGED tokenVars <=> token' = token /\ rows' = rows /\ copies' = copies /\ expired' = expired
BY DEF stores, sessionVars, tokenVars

LEMMA CalmIs ==
    Calm => due' = due /\ disturbed' = disturbed /\ newest' = newest /\ lost' = lost /\ stale' = stale
BY DEF Calm, history

LEMMA FailsKeeps ==
    ASSUME TInv, NEW r \in Requests, Fails(r)
    PROVE  DueOK' /\ disturbed' \subseteq Users /\ newest' = newest /\ lost' = lost
<1>1. due \in [Bounds -> Nat] /\ "fault" \in Bounds
  BY BoundsHave DEF TInv, DueOK
<1>2. due["fault"] > 0 /\ due' = [due EXCEPT !["fault"] = @ - 1]
  BY DEF Fails
<1>3. due' \in [Bounds -> Nat]
  BY <1>1, <1>2
<1>4. disturbed' \subseteq Users
  BY DEF Fails, ActsFor, TInv, HistoryOK
<1> QED BY <1>3, <1>4 DEF Fails, DueOK

\* A step that goes on calmly or fails leaves the history in order.
LEMMA CalmOrFails ==
    ASSUME TInv, NEW r \in Requests, Calm \/ (Fails(r) /\ stale' = stale)
    PROVE  DueOK' /\ HistoryOK'
BY CalmIs, FailsKeeps DEF TInv, DueOK, HistoryOK

LEMMA SessionsKept ==
    ASSUME TInv, UNCHANGED sessionVars
    PROVE  SessionTypeOK' /\ \A s \in Sessions : session'[s] = session[s]
BY StoresAre DEF TInv, SessionTypeOK

LEMMA TokensKept ==
    ASSUME TInv, UNCHANGED tokenVars
    PROVE  TokenTypeOK' /\ (\A t \in Tokens : token'[t] = token[t]) /\ expired' = expired
BY StoresAre DEF TInv, TokenTypeOK

\* Steps that change no more than the request and, in failing, the history.
LEMMA OnlyRequests ==
    ASSUME TInv, NEW r \in Requests, UNCHANGED <<user, stores, csrf>>,
           Calm \/ (Fails(r) /\ stale' = stale)
    PROVE  Grows /\ (RequestsOK' => TInv')
<1>1. user' = user /\ csrf' = csrf /\ UNCHANGED sessionVars /\ UNCHANGED tokenVars
  BY StoresAre
<1>2. UserTypeOK' /\ CsrfOK' /\ SessionTypeOK' /\ TokenTypeOK'
  BY <1>1, SessionsKept, TokensKept DEF TInv, UserTypeOK, CsrfOK
<1>3. Grows
  BY <1>1, SessionsKept, TokensKept DEF Grows
<1> QED BY <1>2, <1>3, CalmOrFails DEF TInv

LEMMA InCall ==
    ASSUME TInv, NEW r \in Requests, Call(r) # "none"
    PROVE  /\ req[r].kind \in Kinds /\ req[r] \in Request /\ RequestOK(req[r]) /\ PlaceOK(r)
           /\ req[r].pos \in DOMAIN Script[req[r].kind]
           /\ Call(r) = Script[req[r].kind][req[r].pos]
BY KindsAre DEF TInv, RequestsOK, RequestOK, Call

-----------------------------------------------------------------------------
(* Steps of sessions *)

LEMMA TypeTouchRead ==
    ASSUME TInv, NEW r \in Requests, TouchRead(r)
    PROVE  TInv'
<1>1. At(r, "touch", "begin") /\ Calm /\ UNCHANGED <<user, stores, csrf>>
  BY DEF TouchRead
<1>2. Grows /\ (RequestsOK' => TInv')
  BY <1>1, OnlyRequests
<1>3. req[r].kind \in Kinds
  BY <1>1, InCall DEF At
<1>4. CASE req[r].cookie \in alive
  <2>1. PlaceAsks(r, "set")
    BY <1>4 DEF PlaceAsks, Places, TInv, SessionTypeOK
  <2> QED BY <1>2, <1>3, <1>4, <2>1, Steps DEF TouchRead
<1>5. CASE req[r].cookie \notin alive
  BY <1>2, <1>5, Ends DEF TouchRead
<1> QED BY <1>4, <1>5

\* Every session command keeps the types and changes no session that was opened.
LEMMA SessionCommands ==
    ASSUME TInv
    PROVE  /\ \A s \in Sessions : SetKey(s) => SessionTypeOK' /\ session' = session
           /\ \A S : DeleteKeys(S) => SessionTypeOK' /\ session' = session
           /\ \A u, s : s \in Sessions /\ AddMember(u, s) => SessionTypeOK' /\ session' = session
           /\ \A u, s : RemoveMember(u, s) => SessionTypeOK' /\ session' = session
           /\ \A u : DeleteSet(u) => SessionTypeOK' /\ session' = session
BY DEF TInv, SessionTypeOK, SetKey, DeleteKeys, AddMember, RemoveMember, DeleteSet

\* A step that gives a command to the session store, or fails, and goes on.
LEMMA SessionCommand ==
    ASSUME TInv, NEW r \in Requests, SessionTypeOK', session' = session,
           UNCHANGED <<user, tokenVars, csrf>>, Calm \/ (Fails(r) /\ stale' = stale)
    PROVE  Grows /\ (RequestsOK' => TInv')
<1>1. user' = user /\ csrf' = csrf /\ UNCHANGED tokenVars
  OBVIOUS
<1>2. UserTypeOK' /\ CsrfOK' /\ TokenTypeOK'
  BY <1>1, TokensKept DEF TInv, UserTypeOK, CsrfOK
<1>3. Grows
  BY <1>1, TokensKept DEF Grows
<1> QED BY <1>2, <1>3, CalmOrFails DEF TInv

LEMMA TypeTouchWrite ==
    ASSUME TInv, NEW r \in Requests, TouchWrite(r)
    PROVE  TInv'
<1>1. At(r, "touch", "set") /\ SetKey(req[r].cookie) /\ Calm /\ UNCHANGED <<user, tokenVars, csrf>>
  BY DEF TouchWrite
<1>2. req[r].kind \in Kinds /\ RequestOK(req[r]) /\ Call(r) # "findGoogle"
  BY <1>1, InCall DEF At
<1>3. req[r].cookie \in Sessions
  BY <1>1, <1>2 DEF RequestOK, At
<1>4. SessionTypeOK' /\ session' = session
  BY <1>1, <1>3, SessionCommands
<1>5. Grows /\ (RequestsOK' => TInv')
  BY <1>1, <1>4, SessionCommand
<1>6. req' = Return(r) \/ req' = End(r)
  BY DEF TouchWrite
<1> QED BY <1>2, <1>5, <1>6, Returns, Ends

LEMMA TypeFindSession ==
    ASSUME TInv, NEW r \in Requests, FindSession(r)
    PROVE  TInv'
<1>1. At(r, "endSession", "begin") /\ UNCHANGED <<user, stores, csrf>>
  BY DEF FindSession
<1>2. Calm \/ (Fails(r) /\ stale' = stale)
  BY DEF FindSession
<1>3. Grows /\ (RequestsOK' => TInv')
  BY <1>1, <1>2, OnlyRequests
<1>4. req[r].kind \in Kinds /\ Call(r) # "findGoogle"
  BY <1>1, InCall DEF At
<1>5. \/ req' = Return(r)
      \/ req' = Step(r, "unlist") /\ req[r].cookie \in alive
      \/ req' = Step(r, "delete")
  BY DEF FindSession
<1>6. PlaceAsks(r, "delete") /\ (req[r].cookie \in alive => PlaceAsks(r, "unlist"))
  BY DEF PlaceAsks, Places, TInv, SessionTypeOK
<1> QED BY <1>3, <1>4, <1>5, <1>6, Steps, Returns

LEMMA TypeUnlist ==
    ASSUME TInv, NEW r \in Requests, Unlist(r)
    PROVE  TInv'
<1> DEFINE s == req[r].cookie
<1>1. At(r, "endSession", "unlist") /\ user' = user /\ csrf' = csrf /\ req' = Step(r, "delete")
  BY DEF Unlist
<1>2. \/ RemoveMember(session[s].user, s) /\ UNCHANGED tokenVars /\ Calm
      \/ Fails(r) /\ UNCHANGED stores /\ stale' = stale
  BY DEF Unlist, Tries
<1>3. SessionTypeOK' /\ session' = session /\ UNCHANGED tokenVars
  BY <1>2, SessionCommands, SessionsKept, StoresAre
<1>4. Grows /\ (RequestsOK' => TInv')
  BY <1>1, <1>2, <1>3, SessionCommand
<1>5. req[r].kind \in Kinds /\ PlaceAsks(r, "delete")
  BY <1>1, InCall DEF At, PlaceAsks, Places
<1> QED BY <1>1, <1>4, <1>5, Steps

LEMMA TypeDropSession ==
    ASSUME TInv, NEW r \in Requests, DropSession(r)
    PROVE  TInv'
<1>1. At(r, "endSession", "delete") /\ user' = user /\ csrf' = csrf /\ req' = Return(r)
  BY DEF DropSession
<1>2. \/ DeleteKeys({req[r].cookie}) /\ UNCHANGED tokenVars /\ Calm
      \/ Fails(r) /\ UNCHANGED stores /\ stale' = stale
  BY DEF DropSession, Tries
<1>3. SessionTypeOK' /\ session' = session /\ UNCHANGED tokenVars
  BY <1>2, SessionCommands, SessionsKept, StoresAre
<1>4. Grows /\ (RequestsOK' => TInv')
  BY <1>1, <1>2, <1>3, SessionCommand
<1>5. req[r].kind \in Kinds /\ Call(r) # "findGoogle"
  BY <1>1, InCall DEF At
<1> QED BY <1>1, <1>4, <1>5, Returns

LEMMA TypeListSession ==
    ASSUME TInv, NEW r \in Requests, ListSession(r)
    PROVE  TInv'
<1>1. At(r, "openSession", "list") /\ user' = user /\ csrf' = csrf /\ req' = Return(r)
  BY DEF ListSession
<1>2. \/ AddMember(req[r].user, req[r].cookie) /\ UNCHANGED tokenVars /\ Calm
      \/ Fails(r) /\ UNCHANGED stores /\ stale' = stale
  BY DEF ListSession, Tries
<1>3. req[r].kind \in Kinds /\ Call(r) # "findGoogle" /\ req[r].cookie \in Sessions
  BY <1>1, InCall DEF At, RequestOK
<1>4. SessionTypeOK' /\ session' = session /\ UNCHANGED tokenVars
  BY <1>2, <1>3, SessionCommands, SessionsKept, StoresAre
<1>5. Grows /\ (RequestsOK' => TInv')
  BY <1>1, <1>2, <1>4, SessionCommand
<1> QED BY <1>1, <1>3, <1>5, Returns

LEMMA TypeDropSet ==
    ASSUME TInv, NEW r \in Requests, DropSet(r)
    PROVE  TInv'
<1>1. At(r, "endSessions", "deleteSet") /\ user' = user /\ csrf' = csrf /\ req' = Return(r)
  BY DEF DropSet
<1>2. \/ DeleteSet(req[r].target) /\ UNCHANGED tokenVars /\ Calm
      \/ Fails(r) /\ UNCHANGED stores /\ stale' = stale
  BY DEF DropSet, Tries
<1>3. SessionTypeOK' /\ session' = session /\ UNCHANGED tokenVars
  BY <1>2, SessionCommands, SessionsKept, StoresAre
<1>4. Grows /\ (RequestsOK' => TInv')
  BY <1>1, <1>2, <1>3, SessionCommand
<1>5. req[r].kind \in Kinds /\ Call(r) # "findGoogle"
  BY <1>1, InCall DEF At
<1> QED BY <1>1, <1>4, <1>5, Returns

\* A request whose members, or found tokens, and place change.
LEMMA Gathers ==
    ASSUME TInv, Grows, NEW r \in Requests, NEW S \in SUBSET Sessions, NEW T \in SUBSET Tokens,
           NEW place \in {"deleteKeys", "deleteSet", "deleteRows"}, req[r].kind \in Kinds,
           req' = [req EXCEPT ![r] = [@ EXCEPT !.members = S, !.found = T, !.at = place]]
    PROVE  RequestsOK'
<1> DEFINE q == [req[r] EXCEPT !.members = S, !.found = T, !.at = place]
<1>1. req \in [Requests -> Request] /\ req[r] \in Request /\ RequestOK(req[r])
  BY DEF TInv, RequestsOK
<1>2. q \in Request
  BY <1>1 DEF Request, Places
<1>3. req' = [req EXCEPT ![r] = q] /\ req'[r] = q
  BY <1>1
<1> USE <1>1, <1>3
<1>4. /\ q.kind = req[r].kind /\ q.pos = req[r].pos /\ q.user = req[r].user
      /\ q.target = req[r].target /\ q.cookie = req[r].cookie /\ q.state = req[r].state
      /\ q.google = req[r].google /\ q.tok = req[r].tok /\ q.at = place
  BY DEF Request
<1> HIDE DEF q
<1>5. RequestOK(req[r])'
  <2>1. q.cookie # NoSession => q.cookie \in Sessions /\ session'[q.cookie] = session[q.cookie]
    BY <1>4 DEF RequestOK, Request, Grows
  <2>2. q.kind \in TokenKinds => q.tok \in Tokens
    BY <1>4 DEF RequestOK, Tokens
  <2>3. q.tok \in Tokens /\ Made(q.tok) => token'[q.tok] = token[q.tok]
    BY DEF Grows
  <2>4. q.state \in States /\ csrf[q.state].intent # "unused" => csrf'[q.state].intent # "unused"
    BY DEF Grows
  <2>5. q.kind \in SessionKinds => q.cookie # NoSession
    BY <1>4, NoneOutside DEF RequestOK
  <2> QED BY <1>4, <2>1, <2>2, <2>3, <2>4, <2>5, KindsAre DEF RequestOK, Opened, Made
<1>6. PlaceOK(r)'
  BY <1>4 DEF PlaceOK
<1> QED BY <1>2, <1>5, <1>6, Moves

LEMMA TypeFindSessions ==
    ASSUME TInv, NEW r \in Requests, FindSessions(r)
    PROVE  TInv'
<1> DEFINE S == listed[req[r].target]
           place == IF S = {} THEN "deleteSet" ELSE "deleteKeys"
<1>1. At(r, "endSessions", "begin") /\ UNCHANGED <<user, stores, csrf>>
  BY DEF FindSessions
<1>2. Calm \/ (Fails(r) /\ stale' = stale)
  BY DEF FindSessions
<1>3. Grows /\ (RequestsOK' => TInv')
  BY <1>1, <1>2, OnlyRequests
<1>4. /\ req[r].kind \in {"deleteMe", "deleteUser"} /\ req[r].kind \in Kinds
      /\ req[r] \in Request /\ RequestOK(req[r])
  BY <1>1, InCall, Positions DEF At
<1>5. req[r].target \in Users
  <2>1. req[r].kind = "deleteMe" => req[r].target = session[req[r].cookie].user
                                    /\ req[r].cookie \in Sessions /\ Opened(req[r].cookie)
    BY <1>4, NoneOutside DEF RequestOK, SessionKinds
  <2>2. req[r].kind = "deleteMe" => req[r].target \in Users
    BY <2>1 DEF Opened, TInv, SessionTypeOK
  <2> QED BY <1>4, <2>2 DEF RequestOK
<1>6. CASE req' = [req EXCEPT ![r].members = S, ![r].at = place]
  <2>1. S \in SUBSET Sessions
    BY <1>5 DEF TInv, SessionTypeOK
  <2>2. req[r].found \in SUBSET Tokens
    BY <1>4 DEF Request
  <2>3. req' = [req EXCEPT ![r] = [@ EXCEPT !.members = S, !.found = req[r].found, !.at = place]]
    <3>1. [req[r] EXCEPT !.members = S, !.at = place]
              = [req[r] EXCEPT !.members = S, !.found = req[r].found, !.at = place]
      BY <1>4 DEF Request
    <3> QED BY <1>6, <3>1
  <2> QED BY <1>3, <1>4, <2>1, <2>2, <2>3, Gathers
<1>7. CASE req' = Step(r, "deleteSet")
  BY <1>3, <1>4, <1>7, Steps DEF PlaceAsks, Places
<1> QED BY <1>6, <1>7 DEF FindSessions

LEMMA TypeDropSessions ==
    ASSUME TInv, NEW r \in Requests, DropSessions(r)
    PROVE  TInv'
<1>1. /\ At(r, "endSessions", "deleteKeys") /\ user' = user /\ csrf' = csrf
      /\ req' = [req EXCEPT ![r].members = {}, ![r].at = "deleteSet"]
  BY DEF DropSessions
<1>2. \/ DeleteKeys(req[r].members) /\ UNCHANGED tokenVars /\ Calm
      \/ Fails(r) /\ UNCHANGED stores /\ stale' = stale
  BY DEF DropSessions, Tries
<1>3. SessionTypeOK' /\ session' = session /\ UNCHANGED tokenVars
  BY <1>2, SessionCommands, SessionsKept, StoresAre
<1>4. Grows /\ (RequestsOK' => TInv')
  BY <1>1, <1>2, <1>3, SessionCommand
<1>5. req[r].kind \in Kinds /\ req[r] \in Request
  BY <1>1, InCall DEF At
<1>6. [req[r] EXCEPT !.members = {}, !.at = "deleteSet"]
          = [req[r] EXCEPT !.members = {}, !.found = req[r].found, !.at = "deleteSet"]
  BY <1>5 DEF Request
<1>7. req' = [req EXCEPT ![r] = [@ EXCEPT !.members = {}, !.found = req[r].found, !.at = "deleteSet"]]
  BY <1>1, <1>6
<1>8. req[r].found \in SUBSET Tokens
  BY <1>5 DEF Request
<1> QED BY <1>4, <1>5, <1>7, <1>8, Gathers

\* A request that becomes another record that is right already.
LEMMA Becomes ==
    ASSUME TInv, Grows, NEW r \in Requests, NEW q \in Request, RequestOK(q),
           q.at \notin {"copy", "copyRefresh", "deleteRow", "deleteKey", "reap"},
           req' = [req EXCEPT ![r] = q]
    PROVE  RequestsOK'
<1>1. req'[r] = q
  BY DEF TInv, RequestsOK
<1>2. RequestOK(req[r])'
  <2>1. q.cookie # NoSession => q.cookie \in Sessions /\ session'[q.cookie] = session[q.cookie]
    BY DEF RequestOK, Request, Grows
  <2>2. q.kind \in TokenKinds => q.tok \in Tokens
    BY DEF RequestOK, Tokens
  <2>3. q.tok \in Tokens /\ Made(q.tok) => token'[q.tok] = token[q.tok]
    BY DEF Grows
  <2>4. q.state \in States /\ csrf[q.state].intent # "unused" => csrf'[q.state].intent # "unused"
    BY DEF Grows
  <2>5. q.kind \in SessionKinds => q.cookie # NoSession
    BY NoneOutside DEF RequestOK
  <2> QED BY <1>1, <2>1, <2>2, <2>3, <2>4, <2>5 DEF RequestOK, Opened, Made
<1>3. PlaceOK(r)'
  BY <1>1 DEF PlaceOK
<1> QED BY <1>2, <1>3, Moves

LEMMA RequestsStay ==
    ASSUME TInv, Grows, req' = req
    PROVE  RequestsOK'
<1>1. \A o \in Requests : RequestOK(req[o])' /\ PlaceOK(o)'
  BY Stays
<1> QED BY <1>1 DEF TInv, RequestsOK

LEMMA TypeOpenSession ==
    ASSUME TInv, NEW r \in Requests, OpenSession(r)
    PROVE  TInv'
<1> DEFINE s == Some(NewSessions)
           u == req[r].user
           q == [req[r] EXCEPT !.cookie = s, !.at = "list"]
<1>1. /\ At(r, "openSession", "begin") /\ NewSessions # {} /\ NewKey(s, u, user[u].admin)
      /\ req' = [req EXCEPT ![r] = q] /\ Calm /\ UNCHANGED <<user, tokenVars, csrf>>
  BY DEF OpenSession
<1>2. /\ req[r].kind \in {"login", "googleLogin"} /\ req[r].pos = 3
      /\ req[r] \in Request /\ RequestOK(req[r]) /\ Call(r) = "openSession"
  BY <1>1, InCall, Positions DEF At
<1>3. u \in Users
  BY <1>2 DEF RequestOK
<1>4. s \in Sessions /\ ~Opened(s)
  BY <1>1 DEF Some, NewSessions
<1> HIDE DEF s, u
<1>5. /\ session' = [session EXCEPT ![s] = [user |-> u, admin |-> user[u].admin]]
      /\ alive' = alive \cup {s} /\ listed' = listed
  BY <1>1 DEF NewKey
<1>6. user[u].admin \in BOOLEAN
  BY <1>3 DEF TInv, UserTypeOK, UserRow
<1>7. SessionTypeOK' /\ session'[s].user = u
  BY <1>3, <1>4, <1>5, <1>6 DEF TInv, SessionTypeOK
<1>8. UserTypeOK' /\ CsrfOK' /\ TokenTypeOK' /\ DueOK' /\ HistoryOK'
  BY <1>1, TokensKept, CalmOrFails DEF TInv, UserTypeOK, CsrfOK
<1>9. Grows
  BY <1>1, <1>4, <1>5, TokensKept DEF Grows, TInv, SessionTypeOK
<1>10. /\ q \in Request
       /\ q.kind = req[r].kind /\ q.pos = req[r].pos /\ q.user = req[r].user
       /\ q.cookie = s /\ q.state = req[r].state /\ q.google = req[r].google /\ q.at = "list"
  <2>1. "list" \in Places /\ s \in Sessions \cup {NoSession} /\ req[r] \in Request
    BY <1>2, <1>4 DEF Places
  <2>2. q \in Request
    BY <2>1 DEF Request
  <2>3. /\ q.kind = req[r].kind /\ q.pos = req[r].pos /\ q.user = req[r].user
        /\ q.cookie = s /\ q.state = req[r].state /\ q.google = req[r].google /\ q.at = "list"
    BY <2>1 DEF Request
  <2> QED BY <2>2, <2>3
<1>14. req'[r] = q /\ q.user = u
  BY <1>1, <1>10 DEF TInv, RequestsOK, u
<1> HIDE DEF q
<1>11. RequestOK(req[r])'
  <2>1. q.state \in States /\ csrf[q.state].intent # "unused" => csrf'[q.state].intent # "unused"
    BY <1>9 DEF Grows
  <2>2. session'[q.cookie].user # NoUser
    BY <1>3, <1>7, <1>10, NoneOutside
  <2>3. q.kind # "idle" /\ q.pos \in DOMAIN Script[q.kind] /\ q.pos = 3
    BY <1>1, <1>2, <1>10, InCall DEF At
  <2> QED BY <1>2, <1>3, <1>4, <1>10, <1>14, <2>1, <2>2, <2>3
          DEF RequestOK, SessionKinds, TokenKinds, Opened
<1>12. PlaceOK(r)'
  BY <1>10, <1>14 DEF PlaceOK
<1>13. RequestsOK'
  BY <1>1, <1>9, <1>10, <1>11, <1>12, Moves
<1> QED BY <1>7, <1>8, <1>13 DEF TInv

-----------------------------------------------------------------------------
(* Steps of users *)

\* Every command on the users table keeps its type.
LEMMA UserCommands ==
    ASSUME TInv, NEW u \in Users, NEW g \in Googles \cup {NoGoogle}
    PROVE  /\ CreateUser(u, g) => UserTypeOK'
           /\ SaveIdentity(u, g) => UserTypeOK'
           /\ SoftDelete(u) => UserTypeOK'
<1> USE DEF TInv, UserTypeOK, UserRow
<1>1. [row |-> "active", sub |-> g, admin |-> FALSE] \in UserRow
  OBVIOUS
<1>2. CreateUser(u, g) => UserTypeOK'
  BY <1>1 DEF CreateUser
<1>3. [[user[u] EXCEPT !.row = "active"] EXCEPT !.sub = g] \in UserRow
  OBVIOUS
<1>4. SaveIdentity(u, g) => user' = [user EXCEPT ![u] = [[@ EXCEPT !.row = "active"] EXCEPT !.sub = g]]
  BY DEF SaveIdentity
<1>5. SaveIdentity(u, g) => UserTypeOK'
  BY <1>3, <1>4
<1>6. [[user[u] EXCEPT !.row = "deleted"] EXCEPT !.admin = FALSE] \in UserRow
  OBVIOUS
<1>7. SoftDelete(u) => user' = [user EXCEPT ![u] = [[@ EXCEPT !.row = "deleted"] EXCEPT !.admin = FALSE]]
  BY DEF SoftDelete
<1>8. SoftDelete(u) => UserTypeOK'
  BY <1>6, <1>7
<1> QED BY <1>2, <1>5, <1>8

\* A step that gives a command to the users table and goes on.
LEMMA UserCommand ==
    ASSUME TInv, UserTypeOK', UNCHANGED <<stores, csrf>>, Calm
    PROVE  Grows /\ (RequestsOK' => TInv')
<1>1. csrf' = csrf /\ UNCHANGED sessionVars /\ UNCHANGED tokenVars
  BY StoresAre
<1>2. CsrfOK' /\ SessionTypeOK' /\ TokenTypeOK' /\ DueOK' /\ HistoryOK'
  BY <1>1, SessionsKept, TokensKept, CalmIs DEF TInv, CsrfOK, DueOK, HistoryOK
<1>3. Grows
  BY <1>1, SessionsKept, TokensKept DEF Grows
<1> QED BY <1>2, <1>3 DEF TInv

LEMMA TypeAuthenticate ==
    ASSUME TInv, NEW r \in Requests, Authenticate(r)
    PROVE  TInv'
<1>1. At(r, "authenticate", "begin") /\ Calm /\ UNCHANGED <<user, stores, csrf>>
  BY DEF Authenticate
<1>2. Grows /\ (RequestsOK' => TInv')
  BY <1>1, OnlyRequests
<1>3. req[r].kind \in Kinds /\ Call(r) # "findGoogle"
  BY <1>1, InCall DEF At
<1>4. req' = Return(r) \/ req' = End(r)
  BY DEF Authenticate
<1> QED BY <1>2, <1>3, <1>4, Returns, Ends

\* Whom a deletion is about.
LEMMA TargetIsUser ==
    ASSUME TInv, NEW r \in Requests, req[r].kind \in {"deleteMe", "deleteUser", "googleLink"}
    PROVE  req[r].target \in Users
<1>1. RequestOK(req[r])
  BY DEF TInv, RequestsOK
<1>2. req[r].kind = "deleteMe" => req[r].target = session[req[r].cookie].user
                                  /\ req[r].cookie \in Sessions /\ Opened(req[r].cookie)
  BY <1>1, NoneOutside DEF RequestOK, SessionKinds
<1>3. req[r].kind = "deleteMe" => req[r].target \in Users
  BY <1>2 DEF Opened, TInv, SessionTypeOK
<1> QED BY <1>1, <1>3 DEF RequestOK

LEMMA TypeSchedule ==
    ASSUME TInv, NEW r \in Requests, Schedule(r)
    PROVE  TInv'
<1> DEFINE u == req[r].target
           q == [req[r] EXCEPT !.kind = "logout", !.pos = 2]
<1>1. At(r, "schedule", "begin") /\ Calm /\ UNCHANGED <<stores, csrf>>
  BY DEF Schedule
<1>2. /\ req[r].kind \in {"deleteMe", "deleteUser"} /\ req[r].kind \in Kinds
      /\ req[r] \in Request /\ RequestOK(req[r]) /\ Call(r) # "findGoogle"
  BY <1>1, InCall, Positions DEF At
<1>3. u \in Users
  BY <1>2, TargetIsUser
<1>4. UserTypeOK'
  BY <1>3, UserCommands DEF Schedule, TInv, UserTypeOK
<1>5. Grows /\ (RequestsOK' => TInv')
  BY <1>1, <1>4, UserCommand
<1>6. CASE req' = Return(r)
  BY <1>2, <1>5, <1>6, Returns
<1>7. CASE req' = End(r)
  BY <1>5, <1>7, Ends
<1>8. CASE req[r].kind = "deleteMe" /\ req' = [req EXCEPT ![r] = q]
  <2>1. /\ q \in Request /\ q.kind = "logout" /\ q.pos = 2 /\ q.cookie = req[r].cookie
        /\ q.user = req[r].user /\ q.at = "begin"
    <3>1. "logout" \in Kinds \cup {"idle"} /\ req[r].at = "begin" /\ 2 \in 0..5
      BY <1>1, KindsAre DEF At
    <3>2. req[r] \in Request
      BY <1>2
    <3> QED BY ZenonT(60), <3>1, <3>2 DEF Request
  <2> HIDE DEF q
  <2>2. RequestOK(q)
    BY <1>2, <1>8, <2>1 DEF RequestOK, SessionKinds, TokenKinds, Script
  <2> QED BY <1>5, <1>8, <2>1, <2>2, Becomes
<1> QED BY <1>6, <1>7, <1>8 DEF Schedule

LEMMA TypeCheckLink ==
    ASSUME TInv, NEW r \in Requests, CheckLink(r)
    PROVE  TInv'
<1>1. At(r, "offerLink", "begin") /\ Calm /\ UNCHANGED <<user, stores, csrf>>
  BY DEF CheckLink
<1>2. Grows /\ (RequestsOK' => TInv')
  BY <1>1, OnlyRequests
<1>3. req[r].kind \in Kinds /\ PlaceAsks(r, "store")
  BY <1>1, InCall DEF At, PlaceAsks, Places
<1>4. req' = Step(r, "store") \/ req' = End(r)
  BY DEF CheckLink
<1> QED BY <1>2, <1>3, <1>4, Steps, Ends

\* A step that gives a state another meaning.
LEMMA StateCommand ==
    ASSUME TInv, UNCHANGED <<user, stores>>, CsrfOK', DueOK', HistoryOK',
           \A x \in States : csrf[x].intent # "unused" => csrf'[x].intent # "unused"
    PROVE  Grows /\ (RequestsOK' => TInv')
<1>1. user' = user /\ UNCHANGED sessionVars /\ UNCHANGED tokenVars
  BY StoresAre
<1>2. UserTypeOK' /\ SessionTypeOK' /\ TokenTypeOK'
  BY <1>1, SessionsKept, TokensKept DEF TInv, UserTypeOK
<1>3. Grows
  BY <1>1, SessionsKept, TokensKept DEF Grows
<1> QED BY <1>2, <1>3 DEF TInv

LEMMA TypeOfferLink ==
    ASSUME TInv, NEW r \in Requests, OfferLink(r)
    PROVE  TInv'
<1> DEFINE x == Some(NewStates)
           c == [intent |-> "link", user |-> req[r].user]
<1>1. /\ At(r, "offerLink", "store") /\ Calm /\ UNCHANGED <<user, stores>>
      /\ csrf' = [csrf EXCEPT ![x] = c] /\ req' = End(r)
  BY DEF OfferLink
<1>2. req[r].kind = "startLink" /\ RequestOK(req[r])
  BY <1>1, InCall, Positions DEF At
<1>3. req[r].cookie \in Sessions /\ req[r].user = session[req[r].cookie].user /\ Opened(req[r].cookie)
  BY <1>2, NoneOutside DEF RequestOK, SessionKinds
<1>4. req[r].user \in Users
  BY <1>3 DEF Opened, TInv, SessionTypeOK
<1>5. x \in States
  BY DEF OfferLink, Some, NewStates
<1> HIDE DEF x
<1>6. c \in Csrf
  BY <1>4 DEF Csrf
<1>7. CsrfOK' /\ \A y \in States : csrf[y].intent # "unused" => csrf'[y].intent # "unused"
  BY <1>1, <1>5, <1>6 DEF TInv, CsrfOK
<1>8. DueOK' /\ HistoryOK'
  BY <1>1, CalmOrFails
<1>9. Grows /\ (RequestsOK' => TInv')
  BY <1>1, <1>7, <1>8, StateCommand
<1> QED BY <1>1, <1>9, Ends

LEMMA MeetsUsers ==
    ASSUME NEW r, NEW q
    PROVE  Meets(r, q) \subseteq Users
BY DEF Meets, ActsFor

LEMMA TypeConsume ==
    ASSUME TInv, NEW r \in Requests, Consume(r)
    PROVE  TInv'
<1> DEFINE x == req[r].state
           link == csrf[x].intent = "link"
           kind == IF link THEN "googleLink" ELSE "googleLogin"
           q == [req[r] EXCEPT !.kind = kind, !.target = csrf[x].user]
<1>1. At(r, "consume", "begin") /\ UNCHANGED <<user, stores, due, newest, lost, stale>>
  BY DEF Consume
<1>2. /\ req[r].kind = "callback" /\ req[r].pos = 1 /\ req[r].at = "begin"
      /\ req[r] \in Request /\ RequestOK(req[r])
  BY <1>1, InCall, Positions DEF At
<1>3. x \in States /\ csrf[x].intent # "unused" /\ req[r].google \in Googles
  BY <1>2 DEF RequestOK
<1>4. CASE csrf[x].intent \in {"login", "link"}
  <2>1. /\ csrf' = [csrf EXCEPT ![x].intent = "spent"] /\ req' = [req EXCEPT ![r] = q]
        /\ disturbed' = disturbed \cup Meets(r, [req[r] EXCEPT !.target = csrf[x].user])
    BY <1>4 DEF Consume
  <2>2. csrf[x] \in Csrf
    BY <1>3 DEF TInv, CsrfOK
  <2>3. csrf[x].user \in Users \cup {NoUser} /\ (link => csrf[x].user \in Users)
    BY <1>3, <2>2 DEF Csrf
  <2>4. [csrf[x] EXCEPT !.intent = "spent"] \in Csrf
    BY <2>2 DEF Csrf
  <2>5. CsrfOK' /\ \A y \in States : csrf[y].intent # "unused" => csrf'[y].intent # "unused"
    BY <1>3, <2>1, <2>2, <2>4 DEF TInv, CsrfOK, Csrf
  <2>6. DueOK' /\ HistoryOK'
    BY <1>1, <2>1, MeetsUsers DEF TInv, DueOK, HistoryOK
  <2>7. Grows /\ (RequestsOK' => TInv')
    BY <1>1, <2>5, <2>6, StateCommand
  <2>8. kind \in Kinds \cup {"idle"} /\ kind \in {"googleLink", "googleLogin"}
    BY KindsAre
  <2> HIDE DEF x, link, kind
  <2>9. /\ q \in Request /\ q.kind = kind /\ q.pos = req[r].pos /\ q.user = req[r].user
        /\ q.target = csrf[x].user /\ q.cookie = req[r].cookie /\ q.state = req[r].state
        /\ q.google = req[r].google /\ q.at = req[r].at
    BY ZenonT(60), <1>2, <2>3, <2>8 DEF Request
  <2>10. kind = "googleLink" => csrf[x].user \in Users
    BY <2>3 DEF kind
  <2>11. x = req[r].state
    BY DEF x
  <2> HIDE DEF q
  <2>12. RequestOK(q)
    BY <1>2, <1>3, <2>8, <2>9, <2>10, <2>11 DEF RequestOK, SessionKinds, TokenKinds, Script
  <2> QED BY <1>2, <2>1, <2>7, <2>9, <2>12, Becomes DEF x
<1>5. CASE csrf[x].intent \notin {"login", "link"}
  <2>1. req' = End(r) /\ csrf' = csrf /\ disturbed' = disturbed
    BY <1>5 DEF Consume
  <2>2. CsrfOK' /\ DueOK' /\ HistoryOK'
    BY <1>1, <2>1 DEF TInv, CsrfOK, DueOK, HistoryOK
  <2>3. Grows /\ (RequestsOK' => TInv')
    BY <1>1, <2>1, <2>2, StateCommand
  <2> QED BY <2>1, <2>3, Ends
<1> QED BY <1>4, <1>5

\* Where a sign-in through Google goes on with the user it found or created.
LEMMA GoesOnFor ==
    ASSUME TInv, Grows, NEW r \in Requests, NEW u \in Users,
           req[r].kind = "googleLogin",
           req' = [req EXCEPT ![r] = [@ EXCEPT !.user = u, !.pos = 2, !.at = "begin"]]
    PROVE  RequestsOK'
<1> DEFINE q == [req[r] EXCEPT !.user = u, !.pos = 2, !.at = "begin"]
<1>1. req[r] \in Request /\ RequestOK(req[r])
  BY DEF TInv, RequestsOK
<1>2. "begin" \in Places /\ 2 \in 0..5
  BY DEF Places
<1>3. /\ q \in Request /\ q.kind = req[r].kind /\ q.pos = 2 /\ q.user = u
      /\ q.target = req[r].target /\ q.cookie = req[r].cookie /\ q.state = req[r].state
      /\ q.google = req[r].google /\ q.at = "begin"
  BY <1>1, <1>2 DEF Request
<1>4. req' = [req EXCEPT ![r] = q]
  OBVIOUS
<1> HIDE DEF q
<1>5. RequestOK(q)
  BY <1>1, <1>3 DEF RequestOK, SessionKinds, TokenKinds, Script
<1> QED BY <1>3, <1>4, <1>5, Becomes

LEMMA TypeFindGoogle ==
    ASSUME TInv, NEW r \in Requests, FindGoogle(r)
    PROVE  TInv'
<1>1. At(r, "findGoogle", "begin") /\ UNCHANGED <<user, stores, csrf>>
  BY DEF FindGoogle
<1>2. /\ req[r].kind = "googleLogin" /\ req[r].kind \in Kinds
      /\ req[r] \in Request /\ RequestOK(req[r])
  BY <1>1, InCall, Positions DEF At
<1>3. ASSUME NEW u \in Users, req' = [req EXCEPT ![r].user = u, ![r].pos = 2],
             disturbed' = disturbed \cup Meets(r, [req[r] EXCEPT !.user = u]),
             UNCHANGED <<due, newest, lost, stale>>
      PROVE  TInv'
  <2>1. DueOK' /\ HistoryOK'
    BY <1>3, MeetsUsers DEF TInv, DueOK, HistoryOK
  <2>2. CsrfOK' /\ \A x \in States : csrf'[x] = csrf[x]
    BY <1>1 DEF TInv, CsrfOK
  <2>3. Grows /\ (RequestsOK' => TInv')
    BY <1>1, <2>1, <2>2, StateCommand
  <2>4. [req[r] EXCEPT !.user = u, !.pos = 2] = [req[r] EXCEPT !.user = u, !.pos = 2, !.at = "begin"]
    BY <1>1, <1>2 DEF Request, At
  <2>5. req' = [req EXCEPT ![r] = [@ EXCEPT !.user = u, !.pos = 2, !.at = "begin"]]
    BY <1>3, <2>4
  <2> QED BY <1>2, <2>3, <2>5, GoesOnFor
<1>4. CASE req' = Step(r, "create") /\ (Calm \/ (Fails(r) /\ stale' = stale))
  <2>1. Grows /\ (RequestsOK' => TInv')
    BY <1>1, <1>4, OnlyRequests
  <2>2. PlaceAsks(r, "create")
    BY DEF PlaceAsks, Places
  <2> QED BY <1>2, <1>4, <2>1, <2>2, Steps
<1> QED BY <1>3, <1>4 DEF FindGoogle

LEMMA TypeCreateGoogle ==
    ASSUME TInv, NEW r \in Requests, CreateGoogle(r)
    PROVE  TInv'
<1>1. At(r, "findGoogle", "create") /\ UNCHANGED <<stores, csrf, due, newest, lost, stale>>
  BY DEF CreateGoogle
<1>2. req[r].kind = "googleLogin" /\ req[r] \in Request /\ RequestOK(req[r])
  BY <1>1, InCall, Positions DEF At
<1>3. req[r].google \in Googles \cup {NoGoogle}
  BY <1>2 DEF Request
<1>4. ASSUME UserTypeOK', disturbed' \subseteq Users
      PROVE  Grows /\ (RequestsOK' => TInv')
  <2>1. csrf' = csrf /\ UNCHANGED sessionVars /\ UNCHANGED tokenVars
    BY <1>1, StoresAre
  <2>2. CsrfOK' /\ SessionTypeOK' /\ TokenTypeOK'
    BY <2>1, SessionsKept, TokensKept DEF TInv, CsrfOK
  <2>3. DueOK' /\ HistoryOK'
    BY <1>1, <1>4 DEF TInv, DueOK, HistoryOK
  <2>4. Grows
    BY <2>1, SessionsKept, TokensKept DEF Grows
  <2> QED BY <1>4, <2>2, <2>3, <2>4 DEF TInv
<1>5. ASSUME NEW u \in Users, CreateUser(u, req[r].google),
             disturbed' = disturbed \cup Meets(r, [req[r] EXCEPT !.user = u]),
             req' = [req EXCEPT ![r].user = u, ![r].pos = 2, ![r].at = "begin"]
      PROVE  TInv'
  <2>1. UserTypeOK'
    BY <1>3, <1>5, UserCommands
  <2>2. disturbed' \subseteq Users
    BY <1>5, MeetsUsers DEF TInv, HistoryOK
  <2> QED BY <1>2, <1>4, <1>5, <2>1, <2>2, GoesOnFor
<1>6. CASE req' = End(r) /\ user' = user /\ disturbed' = disturbed
  <2>1. UserTypeOK' /\ disturbed' \subseteq Users
    BY <1>6 DEF TInv, UserTypeOK, HistoryOK
  <2> QED BY <1>4, <1>6, <2>1, Ends
<1> QED BY <1>5, <1>6 DEF CreateGoogle

LEMMA TypeCheckIdentity ==
    ASSUME TInv, NEW r \in Requests, CheckIdentity(r)
    PROVE  TInv'
<1>1. At(r, "checkIdentity", "begin") /\ Calm /\ UNCHANGED <<user, stores, csrf>>
  BY DEF CheckIdentity
<1>2. Grows /\ (RequestsOK' => TInv')
  BY <1>1, OnlyRequests
<1>3. req[r].kind \in Kinds /\ Call(r) # "findGoogle"
  BY <1>1, InCall DEF At
<1>4. req' = Return(r) \/ req' = End(r)
  BY DEF CheckIdentity
<1> QED BY <1>2, <1>3, <1>4, Returns, Ends

LEMMA TypeLoadAccount ==
    ASSUME TInv, NEW r \in Requests, LoadAccount(r)
    PROVE  TInv'
<1>1. At(r, "loadAccount", "begin") /\ Calm /\ UNCHANGED <<user, stores, csrf>>
  BY DEF LoadAccount
<1>2. Grows /\ (RequestsOK' => TInv')
  BY <1>1, OnlyRequests
<1>3. req[r].kind \in Kinds /\ Call(r) # "findGoogle"
  BY <1>1, InCall DEF At
<1>4. req' = Return(r) \/ req' = End(r)
  BY DEF LoadAccount
<1> QED BY <1>2, <1>3, <1>4, Returns, Ends

LEMMA TypeSaveLink ==
    ASSUME TInv, NEW r \in Requests, SaveLink(r)
    PROVE  TInv'
<1>1. At(r, "save", "begin") /\ Calm /\ UNCHANGED <<stores, csrf>> /\ req' = End(r)
  BY DEF SaveLink
<1>2. req[r].kind = "googleLink" /\ req[r] \in Request
  BY <1>1, InCall, Positions DEF At
<1>3. req[r].target \in Users /\ req[r].google \in Googles \cup {NoGoogle}
  BY <1>2, TargetIsUser DEF Request
<1>4. SaveIdentity(req[r].target, req[r].google) \/ user' = user
  BY DEF SaveLink
<1>5. UserTypeOK'
  BY <1>3, <1>4, UserCommands DEF TInv, UserTypeOK
<1>6. Grows /\ (RequestsOK' => TInv')
  BY <1>1, <1>5, UserCommand
<1> QED BY <1>1, <1>6, Ends

-----------------------------------------------------------------------------
(* Steps of tokens *)

\* Every token command keeps the types, the tokens that were made and the times
\* that have come.
LEMMA TokenCommands ==
    ASSUME TInv
    PROVE  /\ \A T : DeleteRows(T) => TokenTypeOK' /\ token' = token /\ expired' = expired
           /\ \A k \in Keys : SetCopy(k) => TokenTypeOK' /\ token' = token /\ expired' = expired
           /\ \A K : DeleteCopies(K) => TokenTypeOK' /\ token' = token /\ expired' = expired
           /\ \A k \in Keys : TimeComes(k) => TokenTypeOK' /\ token' = token /\ expired \subseteq expired'
<1> USE DEF TInv, TokenTypeOK
<1>1. \A T : DeleteRows(T) => TokenTypeOK' /\ token' = token /\ expired' = expired
  BY DEF DeleteRows
<1>2. \A k \in Keys : SetCopy(k) => TokenTypeOK' /\ token' = token /\ expired' = expired
  BY DEF SetCopy
<1>3. \A K : DeleteCopies(K) => TokenTypeOK' /\ token' = token /\ expired' = expired
  BY DEF DeleteCopies
<1>4. ASSUME NEW k \in Keys, TimeComes(k)
      PROVE  TokenTypeOK' /\ token' = token /\ expired \subseteq expired'
  <2>1. /\ token' = token /\ rows' = rows /\ expired' = expired \cup {k}
        /\ copies' = {c \in copies : HasTTL(c, expired')}
    BY <1>4 DEF TimeComes
  <2>2. copies' \subseteq copies
    BY <2>1
  <2> QED BY <2>1, <2>2
<1> QED BY <1>1, <1>2, <1>3, <1>4

\* A step that gives a command to the token store, or fails, and goes on.
LEMMA TokenCommand ==
    ASSUME TInv, TokenTypeOK', \A t \in Tokens : Made(t) => token'[t] = token[t],
           expired \subseteq expired',
           UNCHANGED <<user, sessionVars, csrf>>, DueOK', HistoryOK'
    PROVE  Grows /\ (RequestsOK' => TInv')
<1>1. user' = user /\ csrf' = csrf /\ UNCHANGED sessionVars
  OBVIOUS
<1>2. UserTypeOK' /\ CsrfOK' /\ SessionTypeOK'
  BY <1>1, SessionsKept DEF TInv, UserTypeOK, CsrfOK
<1>3. Grows
  BY <1>1, SessionsKept DEF Grows
<1> QED BY <1>2, <1>3 DEF TInv

\* What the requests that make calls of the token store have.
LEMMA TokenCalls ==
    ASSUME TInv, NEW r \in Requests, Call(r) \in Lookups \cup {"create"}
    PROVE  /\ req[r].kind \in {"authorize"} \cup TokenKinds /\ req[r].kind \in Kinds
           /\ req[r] \in Request /\ RequestOK(req[r]) /\ PlaceOK(r) /\ Call(r) # "findGoogle"
           /\ req[r].user \in Users
           /\ req[r].kind \in TokenKinds => /\ req[r].tok \in Tokens /\ Made(req[r].tok)
                                            /\ req[r].kind # "exchange" => req[r].tok \in Pairs
<1>1. Call(r) # "none" /\ Call(r) # "findGoogle"
  BY DEF Lookups, Value
<1>2. /\ req[r].kind \in {"authorize"} \cup TokenKinds /\ req[r].kind \in Kinds
      /\ req[r] \in Request /\ RequestOK(req[r]) /\ PlaceOK(r)
  BY <1>1, InCall, Positions
<1>3. req[r].kind \in TokenKinds => /\ req[r].tok \in Tokens /\ Made(req[r].tok)
                                    /\ req[r].user = token[req[r].tok].user
                                    /\ req[r].kind # "exchange" => req[r].tok \in Pairs
  BY <1>2 DEF RequestOK, Tokens
<1>4. req[r].kind \in TokenKinds => req[r].user \in Users
  BY <1>3 DEF Made, TInv, TokenTypeOK, Unmade
<1>5. req[r].kind = "authorize" => /\ req[r].cookie \in Sessions /\ Opened(req[r].cookie)
                                   /\ req[r].user = session[req[r].cookie].user
  BY <1>2, NoneOutside DEF RequestOK, SessionKinds
<1>6. req[r].kind = "authorize" => req[r].user \in Users
  BY <1>5 DEF Opened, TInv, SessionTypeOK
<1> QED BY <1>1, <1>2, <1>3, <1>4, <1>6

LEMMA LookupHas ==
    ASSUME TInv, NEW r \in Requests, Call(r) \in Lookups
    PROVE  /\ req[r].kind \in TokenKinds /\ req[r].tok \in Tokens /\ Made(req[r].tok)
           /\ LookupKey(r) \in Keys /\ Copying(r) = req[r].tok
<1>1. /\ req[r].kind \in {"authorize"} \cup TokenKinds /\ req[r].kind \in Kinds
      /\ RequestOK(req[r])
      /\ req[r].kind \in TokenKinds => /\ req[r].tok \in Tokens /\ Made(req[r].tok)
                                       /\ req[r].kind # "exchange" => req[r].tok \in Pairs
  BY TokenCalls
<1>2. req[r].kind \in TokenKinds
  BY <1>1, Positions DEF Call, RequestOK, TokenKinds
<1>3. req[r].kind = "exchange" => req[r].tok \in Codes
  BY <1>1, <1>2 DEF RequestOK
<1>4. Call(r) \in {"getCode", "removeCode"} <=> req[r].kind = "exchange"
  <2>1. Call(r) = Script[req[r].kind][req[r].pos] /\ req[r].pos \in DOMAIN Script[req[r].kind]
    BY <1>1, <1>2, KindsAre DEF Call, RequestOK, TokenKinds
  <2> QED BY <1>1, <1>2, <2>1, Positions DEF TokenKinds, Lookups, Value
<1>5. LookupKey(r) \in Keys
  BY <1>1, <1>2, <1>3, <1>4 DEF LookupKey, Keys, Value, Lookups
<1>6. Copying(r) = req[r].tok
  BY DEF Copying, Lookups, Value
<1> QED BY <1>1, <1>2, <1>5, <1>6

LEMMA TypeMakeToken ==
    ASSUME TInv, NEW r \in Requests, MakeToken(r)
    PROVE  TInv'
<1> DEFINE t == Some(NewTokens(r))
           u == req[r].user
           g == IF req[r].kind = "refresh" THEN token[req[r].tok].grant ELSE t
           q == [req[r] EXCEPT !.new = t, !.at = "copy"]
           made == [user |-> u, grant |-> g]
<1>1. /\ At(r, "create", "begin") /\ NewTokens(r) # {} /\ InsertRow(t, u, g)
      /\ newest' = {p \in newest : token[p].grant # g} \cup ({t} \cap Pairs)
      /\ req' = [req EXCEPT ![r] = q]
      /\ UNCHANGED <<user, sessionVars, csrf, due, disturbed, lost, stale>>
  BY DEF MakeToken
<1>2. /\ req[r].kind \in {"authorize"} \cup TokenKinds /\ req[r] \in Request
      /\ RequestOK(req[r]) /\ u \in Users
      /\ req[r].kind \in TokenKinds => /\ req[r].tok \in Tokens /\ Made(req[r].tok)
                                       /\ req[r].kind # "exchange" => req[r].tok \in Pairs
  BY <1>1, TokenCalls DEF At
<1>3. t \in Tokens /\ ~Made(t)
  BY <1>1 DEF Some, NewTokens, Tokens
<1>4. g \in Tokens
  <2>1. ASSUME req[r].kind = "refresh"
        PROVE  token[req[r].tok].grant \in Tokens
    <3>1. req[r].tok \in Tokens /\ Made(req[r].tok)
      BY <1>2, <2>1 DEF TokenKinds
    <3>2. token[req[r].tok] \in [user: Users, grant: Tokens]
      BY <3>1 DEF Made, TInv, TokenTypeOK, Unmade
    <3> QED BY <3>2
  <2> QED BY <1>3, <2>1
<1> HIDE DEF t, u, g
<1>5. token' = [token EXCEPT ![t] = made] /\ rows' = rows \cup {t} /\ copies' = copies /\ expired' = expired
  BY <1>1 DEF InsertRow
<1>6. made \in [user: Users, grant: Tokens]
  BY <1>2, <1>4 DEF u
<1>7. TokenTypeOK' /\ token'[t].user # NoUser /\ \A p \in Tokens : Made(p) => token'[p] = token[p]
  <2>1. token'[t] = made
    BY <1>3, <1>5 DEF TInv, TokenTypeOK
  <2>2. token'[t].user # NoUser
    BY <1>2, <2>1, NoneOutside DEF u
  <2> QED BY <1>3, <1>5, <1>6, <2>2 DEF TInv, TokenTypeOK
<1>8. DueOK' /\ HistoryOK'
  BY <1>1 DEF TInv, DueOK, HistoryOK
<1>9. Grows /\ (RequestsOK' => TInv')
  BY <1>1, <1>5, <1>7, <1>8, TokenCommand
<1>10. /\ q \in Request /\ q.kind = req[r].kind /\ q.pos = req[r].pos /\ q.user = req[r].user
       /\ q.target = req[r].target /\ q.cookie = req[r].cookie /\ q.state = req[r].state
       /\ q.google = req[r].google /\ q.tok = req[r].tok /\ q.new = t /\ q.at = "copy"
  <2>1. "copy" \in Places /\ t \in Tokens \cup {NoToken} /\ req[r] \in Request
    BY <1>2, <1>3 DEF Places
  <2>2. q \in Request
    BY <2>1 DEF Request
  <2>3. /\ q.kind = req[r].kind /\ q.pos = req[r].pos /\ q.user = req[r].user /\ q.target = req[r].target
        /\ q.cookie = req[r].cookie /\ q.state = req[r].state /\ q.google = req[r].google
        /\ q.tok = req[r].tok
    BY <2>1 DEF Request
  <2>4. q.new = t /\ q.at = "copy"
    BY <2>1 DEF Request
  <2> QED BY <2>2, <2>3, <2>4
<1>11. req'[r] = q
  BY <1>1 DEF TInv, RequestsOK
<1> HIDE DEF q
<1>12. RequestOK(req[r])'
  <2>1. q.cookie # NoSession => q.cookie \in Sessions /\ session'[q.cookie] = session[q.cookie]
    BY <1>2, <1>9, <1>10 DEF RequestOK, Request, Grows
  <2>2. q.kind \in TokenKinds => token'[q.tok] = token[q.tok]
    BY <1>2, <1>7, <1>10
  <2>3. q.state \in States /\ csrf[q.state].intent # "unused" => csrf'[q.state].intent # "unused"
    BY <1>9 DEF Grows
  <2>4. q.kind \in SessionKinds => q.cookie # NoSession
    BY <1>2, <1>10, NoneOutside DEF RequestOK
  <2>5. q.kind # "idle"
    BY <1>2, <1>10 DEF TokenKinds
  <2> QED BY <1>2, <1>10, <1>11, <2>1, <2>2, <2>3, <2>4, <2>5 DEF RequestOK, Opened, Made
<1>13. Call(r)' = "create"
  BY <1>1, <1>10, <1>11 DEF Call, At
<1>14. PlaceOK(r)'
  <2>1. "create" # "getRefresh" /\ req'[r].at = "copy" /\ req'[r].new = t
    BY <1>10, <1>11
  <2>2. req'[r].new \in Tokens /\ Made(req[r].new)'
    BY <1>3, <1>7, <2>1 DEF Made
  <2> QED BY <1>13, <2>1, <2>2 DEF PlaceOK
<1> QED BY <1>1, <1>9, <1>10, <1>12, <1>14, Moves

LEMMA TypeGetCopy ==
    ASSUME TInv, NEW r \in Requests, GetCopy(r)
    PROVE  TInv'
<1>1. LookupAt(r, "begin") /\ Calm /\ UNCHANGED <<user, stores, csrf>>
  BY DEF GetCopy
<1>2. Grows /\ (RequestsOK' => TInv')
  BY <1>1, OnlyRequests
<1>3. req[r].kind \in Kinds /\ Call(r) # "findGoogle"
  BY <1>1, TokenCalls DEF LookupAt
<1>4. req' = Step(r, "find") \/ req' = Step(r, "deleteCopies") \/ req' = Return(r)
  BY DEF GetCopy
<1>5. PlaceAsks(r, "find") /\ PlaceAsks(r, "deleteCopies")
  BY DEF PlaceAsks, Places
<1> QED BY <1>2, <1>3, <1>4, <1>5, Steps, Returns

LEMMA TypeFindRow ==
    ASSUME TInv, NEW r \in Requests, FindRow(r)
    PROVE  TInv'
<1>1. LookupAt(r, "find") /\ Calm /\ UNCHANGED <<user, stores, csrf>>
  BY DEF FindRow
<1>2. Grows /\ (RequestsOK' => TInv')
  BY <1>1, OnlyRequests
<1>3. req[r].kind \in Kinds /\ Call(r) \in Lookups
  BY <1>1, TokenCalls DEF LookupAt
<1>4. \/ Removing(r) /\ req' = Step(r, "deleteKey")
      \/ req' = End(r)
      \/ ExpiredForLookup(LookupKey(r)) /\ req' = Step(r, "reap")
      \/ req' = Step(r, "copy")
  BY DEF FindRow
<1>5. Removing(r) => PlaceAsks(r, "deleteKey")
  BY DEF PlaceAsks, Places
<1>6. ExpiredForLookup(LookupKey(r)) => PlaceAsks(r, "reap")
  BY DEF PlaceAsks, Places, ExpiredForLookup, LookupKey, Value
<1>7. PlaceAsks(r, "copy")
  BY <1>3 DEF PlaceAsks, Places
<1> QED BY <1>2, <1>3, <1>4, <1>5, <1>6, <1>7, Steps, Ends

\* What a request copies.
LEMMA CopyingHas ==
    ASSUME TInv, NEW r \in Requests, req[r].at \in {"copy", "copyRefresh"}
    PROVE  /\ Call(r) \in Lookups \cup {"create"}
           /\ Copying(r) \in Tokens /\ Made(Copying(r))
           /\ <<IF Copying(r) \in Codes THEN "code" ELSE "access", Copying(r)>> \in Keys
           /\ req[r].at = "copyRefresh" => <<"refresh", Copying(r)>> \in Keys
<1>1. PlaceOK(r)
  BY DEF TInv, RequestsOK
<1>2. Call(r) \in Lookups \cup {"create"}
  BY <1>1 DEF PlaceOK
<1>3. Copying(r) \in Tokens /\ Made(Copying(r))
  BY <1>1, <1>2, LookupHas DEF PlaceOK, Copying
<1>4. req[r].at = "copyRefresh" => Copying(r) \in Pairs
  BY <1>1 DEF PlaceOK
<1>5. <<IF Copying(r) \in Codes THEN "code" ELSE "access", Copying(r)>> \in Keys
  BY <1>3 DEF Keys, Tokens
<1> QED BY <1>2, <1>3, <1>4, <1>5 DEF Keys

LEMMA CopyKeyKeeps ==
    ASSUME TInv, NEW r \in Requests, NEW k \in Keys, CopyKey(r, k), UNCHANGED <<user, csrf>>
    PROVE  Grows /\ (RequestsOK' => TInv')
<1>1. CASE SetCopy(k) /\ UNCHANGED <<due, disturbed, newest, lost, sessionVars>>
           /\ stale' = IF k \in copies' /\ k[2] \notin rows THEN stale \cup {k[2]} ELSE stale
  <2>1. TokenTypeOK' /\ token' = token /\ expired' = expired
    BY <1>1, TokenCommands
  <2>2. k[2] \in Tokens
    BY DEF Keys, Tokens
  <2>3. DueOK' /\ HistoryOK'
    BY <1>1, <2>2 DEF TInv, DueOK, HistoryOK
  <2> QED BY <1>1, <2>1, <2>3, TokenCommand
<1>2. CASE Fails(r) /\ UNCHANGED <<stores, stale>>
  BY <1>2, OnlyRequests
<1> QED BY <1>1, <1>2 DEF CopyKey

LEMMA CopiedOK ==
    ASSUME TInv, Grows, NEW r \in Requests, Call(r) \in Lookups \cup {"create"}, req' = Copied(r)
    PROVE  RequestsOK'
<1>1. req[r].kind \in Kinds /\ Call(r) # "findGoogle"
  BY TokenCalls
<1>2. CASE Removing(r) /\ req' = Step(r, "deleteRow")
  BY <1>1, <1>2, Steps DEF PlaceAsks, Places
<1>3. CASE req' = Return(r)
  BY <1>1, <1>3, Returns
<1> QED BY <1>2, <1>3 DEF Copied

LEMMA TypeCopyFirst ==
    ASSUME TInv, NEW r \in Requests, CopyFirst(r)
    PROVE  TInv'
<1> DEFINE t == Copying(r)
           k == <<IF t \in Codes THEN "code" ELSE "access", t>>
<1>1. /\ req[r].at = "copy" /\ CopyKey(r, k) /\ UNCHANGED <<user, csrf>>
      /\ req' = IF t \in Codes THEN Copied(r) ELSE Step(r, "copyRefresh")
  BY DEF CopyFirst
<1>2. Call(r) \in Lookups \cup {"create"} /\ t \in Tokens /\ k \in Keys
  BY <1>1, CopyingHas
<1>3. Grows /\ (RequestsOK' => TInv')
  BY <1>1, <1>2, CopyKeyKeeps
<1>4. req[r].kind \in Kinds /\ PlaceOK(r)
  BY <1>2, TokenCalls
<1>5. CASE t \in Codes
  BY <1>1, <1>2, <1>3, <1>5, CopiedOK
<1>6. CASE t \notin Codes
  <2>1. PlaceAsks(r, "copyRefresh")
    BY <1>1, <1>2, <1>4, <1>6 DEF PlaceAsks, Places, Tokens
  <2> QED BY <1>1, <1>3, <1>4, <1>6, <2>1, Steps
<1> QED BY <1>5, <1>6

LEMMA TypeCopyRefresh ==
    ASSUME TInv, NEW r \in Requests, CopyRefresh(r)
    PROVE  TInv'
<1>1. /\ req[r].at = "copyRefresh" /\ CopyKey(r, <<"refresh", Copying(r)>>)
      /\ UNCHANGED <<user, csrf>> /\ req' = Copied(r)
  BY DEF CopyRefresh
<1>2. Call(r) \in Lookups \cup {"create"} /\ <<"refresh", Copying(r)>> \in Keys
  BY <1>1, CopyingHas
<1>3. Grows /\ (RequestsOK' => TInv')
  BY <1>1, <1>2, CopyKeyKeeps
<1> QED BY <1>1, <1>2, <1>3, CopiedOK

LEMMA TypeReap ==
    ASSUME TInv, NEW r \in Requests, Reap(r)
    PROVE  TInv'
<1>1. /\ LookupAt(r, "reap") /\ DeleteRows({req[r].tok}) /\ req' = Step(r, "reapCopies")
      /\ lost' = (IF Call(r) = "getAccess" THEN lost \cup {req[r].tok} ELSE lost)
      /\ UNCHANGED <<user, sessionVars, csrf, due, disturbed, newest, stale>>
  BY DEF Reap
<1>2. req[r].kind \in Kinds /\ req[r].tok \in Tokens
  BY <1>1, TokenCalls, LookupHas DEF LookupAt
<1>3. TokenTypeOK' /\ token' = token /\ expired' = expired
  BY <1>1, TokenCommands
<1>4. DueOK' /\ HistoryOK'
  BY <1>1, <1>2 DEF TInv, DueOK, HistoryOK
<1>5. Grows /\ (RequestsOK' => TInv')
  BY <1>1, <1>3, <1>4, TokenCommand
<1>6. PlaceAsks(r, "reapCopies")
  BY DEF PlaceAsks, Places
<1> QED BY <1>1, <1>2, <1>5, <1>6, Steps

LEMMA ForgetCopiesKeeps ==
    ASSUME TInv, NEW r \in Requests, NEW T \in SUBSET Tokens, ForgetCopies(r, T),
           UNCHANGED <<user, csrf>>
    PROVE  Grows /\ (RequestsOK' => TInv')
<1>1. CASE DeleteCopies({k \in Keys : k[2] \in T}) /\ stale' = stale \ T
           /\ UNCHANGED <<due, disturbed, newest, lost, sessionVars>>
  <2>1. TokenTypeOK' /\ token' = token /\ expired' = expired
    BY <1>1, TokenCommands
  <2>2. DueOK' /\ HistoryOK'
    BY <1>1 DEF TInv, DueOK, HistoryOK
  <2> QED BY <1>1, <2>1, <2>2, TokenCommand
<1>2. CASE Fails(r) /\ stale' = stale \cup T /\ UNCHANGED stores
  <2>1. TokenTypeOK' /\ token' = token /\ expired' = expired /\ UNCHANGED sessionVars
    BY <1>2, TokensKept, StoresAre
  <2>2. DueOK' /\ HistoryOK'
    BY <1>2, FailsKeeps DEF TInv, DueOK, HistoryOK
  <2> QED BY <1>2, <2>1, <2>2, TokenCommand
<1> QED BY <1>1, <1>2 DEF ForgetCopies

LEMMA TypeReapCopies ==
    ASSUME TInv, NEW r \in Requests, ReapCopies(r)
    PROVE  TInv'
<1>1. /\ LookupAt(r, "reapCopies") /\ ForgetCopies(r, {req[r].tok}) /\ UNCHANGED <<user, csrf>>
      /\ (req' = Step(r, "deleteKey") /\ Removing(r)) \/ req' = End(r)
  BY DEF ReapCopies
<1>2. req[r].kind \in Kinds /\ req[r].tok \in Tokens
  BY <1>1, TokenCalls, LookupHas DEF LookupAt
<1>3. Grows /\ (RequestsOK' => TInv')
  BY <1>1, <1>2, ForgetCopiesKeeps
<1>4. Removing(r) => PlaceAsks(r, "deleteKey")
  BY DEF PlaceAsks, Places
<1> QED BY <1>1, <1>2, <1>3, <1>4, Steps, Ends

LEMMA TypeDeleteKey ==
    ASSUME TInv, NEW r \in Requests, DeleteKey(r)
    PROVE  TInv'
<1>1. LookupAt(r, "deleteKey") /\ UNCHANGED <<user, csrf>> /\ req' = Return(r)
  BY DEF DeleteKey
<1>2. \/ DeleteCopies({LookupKey(r)}) /\ UNCHANGED sessionVars /\ Calm
      \/ Fails(r) /\ UNCHANGED stores /\ stale' = stale
  BY DEF DeleteKey, Tries
<1>3. req[r].kind \in Kinds /\ Call(r) # "findGoogle"
  BY <1>1, TokenCalls DEF LookupAt
<1>4. TokenTypeOK' /\ token' = token /\ expired' = expired /\ UNCHANGED sessionVars
  BY <1>2, TokenCommands, TokensKept, StoresAre
<1>5. DueOK' /\ HistoryOK'
  BY <1>2, CalmOrFails
<1>6. Grows /\ (RequestsOK' => TInv')
  BY <1>1, <1>4, <1>5, TokenCommand
<1> QED BY <1>1, <1>3, <1>6, Returns

LEMMA TypeDeleteRow ==
    ASSUME TInv, NEW r \in Requests, DeleteRow(r)
    PROVE  TInv'
<1>1. /\ LookupAt(r, "deleteRow") /\ DeleteRows({req[r].tok}) /\ req' = Step(r, "deleteCopies")
      /\ Calm /\ UNCHANGED <<user, sessionVars, csrf>>
  BY DEF DeleteRow
<1>2. req[r].kind \in Kinds
  BY <1>1, TokenCalls DEF LookupAt
<1>3. TokenTypeOK' /\ token' = token /\ expired' = expired
  BY <1>1, TokenCommands
<1>4. DueOK' /\ HistoryOK'
  BY <1>1, CalmOrFails
<1>5. Grows /\ (RequestsOK' => TInv')
  BY <1>1, <1>3, <1>4, TokenCommand
<1>6. PlaceAsks(r, "deleteCopies")
  BY DEF PlaceAsks, Places
<1> QED BY <1>1, <1>2, <1>5, <1>6, Steps

LEMMA TypeDeleteTokenCopies ==
    ASSUME TInv, NEW r \in Requests, DeleteTokenCopies(r)
    PROVE  TInv'
<1>1. /\ LookupAt(r, "deleteCopies") /\ ForgetCopies(r, {req[r].tok}) /\ UNCHANGED <<user, csrf>>
      /\ req' = Return(r)
  BY DEF DeleteTokenCopies
<1>2. req[r].kind \in Kinds /\ req[r].tok \in Tokens /\ Call(r) # "findGoogle"
  BY <1>1, TokenCalls, LookupHas DEF LookupAt
<1>3. Grows /\ (RequestsOK' => TInv')
  BY <1>1, <1>2, ForgetCopiesKeeps
<1> QED BY <1>1, <1>2, <1>3, Returns

LEMMA TypeFindTokens ==
    ASSUME TInv, NEW r \in Requests, FindTokens(r)
    PROVE  TInv'
<1> DEFINE T == rows \cap TokensOf(req[r].target)
<1>1. At(r, "purge", "begin") /\ Calm /\ UNCHANGED <<user, stores, csrf>>
  BY DEF FindTokens
<1>2. Grows /\ (RequestsOK' => TInv')
  BY <1>1, OnlyRequests
<1>3. req[r].kind \in Kinds /\ req[r] \in Request
  BY <1>1, InCall DEF At
<1>4. CASE req' = [req EXCEPT ![r].found = T, ![r].at = "deleteRows"]
  <2>1. T \in SUBSET Tokens
    BY DEF TInv, TokenTypeOK
  <2> HIDE DEF T
  <2>2. [req[r] EXCEPT !.found = T, !.at = "deleteRows"]
            = [req[r] EXCEPT !.members = req[r].members, !.found = T, !.at = "deleteRows"]
    BY <1>3 DEF Request
  <2>3. req' = [req EXCEPT ![r] = [@ EXCEPT !.members = req[r].members, !.found = T, !.at = "deleteRows"]]
    BY <1>4, <2>2
  <2>4. req[r].members \in SUBSET Sessions
    BY <1>3 DEF Request
  <2> QED BY <1>2, <1>3, <2>1, <2>3, <2>4, Gathers
<1>5. CASE req' = End(r)
  BY <1>2, <1>5, Ends
<1> QED BY <1>4, <1>5 DEF FindTokens

LEMMA TypePurgeRows ==
    ASSUME TInv, NEW r \in Requests, PurgeRows(r)
    PROVE  TInv'
<1> DEFINE T == TokensOf(req[r].target)
<1>1. /\ At(r, "purge", "deleteRows") /\ DeleteRows(T) /\ req' = Step(r, "deleteCopies")
      /\ lost' = lost \cup T /\ stale' = stale \cup ((T \cap rows) \ req[r].found)
      /\ UNCHANGED <<user, sessionVars, csrf, due, disturbed, newest>>
  BY DEF PurgeRows
<1>2. req[r].kind \in Kinds
  BY <1>1, InCall DEF At
<1>3. TokenTypeOK' /\ token' = token /\ expired' = expired
  BY <1>1, TokenCommands
<1>4. DueOK' /\ HistoryOK'
  BY <1>1 DEF TInv, DueOK, HistoryOK, TokensOf
<1>5. Grows /\ (RequestsOK' => TInv')
  BY <1>1, <1>3, <1>4, TokenCommand
<1>6. PlaceAsks(r, "deleteCopies")
  BY DEF PlaceAsks, Places
<1> QED BY <1>1, <1>2, <1>5, <1>6, Steps

LEMMA TypePurgeCopies ==
    ASSUME TInv, NEW r \in Requests, PurgeCopies(r)
    PROVE  TInv'
<1>1. /\ At(r, "purge", "deleteCopies") /\ ForgetCopies(r, req[r].found) /\ UNCHANGED <<user, csrf>>
      /\ req' = End(r)
  BY DEF PurgeCopies
<1>2. req[r].found \in SUBSET Tokens
  BY <1>1, InCall DEF At, Request
<1>3. Grows /\ (RequestsOK' => TInv')
  BY <1>1, <1>2, ForgetCopiesKeeps
<1> QED BY <1>1, <1>3, Ends

-----------------------------------------------------------------------------
(* Requests that arrive, requests of one command, failures and time *)

LEMMA BoundKeeps ==
    ASSUME TInv, NEW b \in Bounds, due[b] > 0, due' = [due EXCEPT ![b] = @ - 1]
    PROVE  DueOK'
BY DEF TInv, DueOK

LEMMA TypeSignUp ==
    ASSUME TInv, NEW u \in Users, SignUp(u)
    PROVE  TInv'
<1>1. /\ due["signUp"] > 0 /\ due' = [due EXCEPT !["signUp"] = @ - 1]
      /\ CreateUser(u, NoGoogle) /\ UNCHANGED <<stores, csrf, req, history>>
  BY DEF SignUp
<1>2. UserTypeOK'
  BY <1>1, UserCommands
<1>3. csrf' = csrf /\ req' = req /\ UNCHANGED sessionVars /\ UNCHANGED tokenVars
      /\ disturbed' = disturbed /\ newest' = newest /\ lost' = lost /\ stale' = stale
  BY <1>1, StoresAre DEF history
<1>4. SessionTypeOK' /\ TokenTypeOK' /\ CsrfOK' /\ HistoryOK'
  BY <1>3, SessionsKept, TokensKept DEF TInv, CsrfOK, HistoryOK
<1>5. DueOK'
  BY <1>1, BoundsHave, BoundKeeps
<1>6. Grows
  BY <1>3, SessionsKept, TokensKept DEF Grows
<1> QED BY <1>2, <1>3, <1>4, <1>5, <1>6, RequestsStay DEF TInv

LEMMA TypeOfferLogin ==
    ASSUME TInv, OfferLogin
    PROVE  TInv'
<1> DEFINE x == Some(NewStates)
<1>1. /\ due["startLogin"] > 0 /\ due' = [due EXCEPT !["startLogin"] = @ - 1]
      /\ csrf' = [csrf EXCEPT ![x].intent = "login"]
      /\ UNCHANGED <<user, stores, req, history>>
  BY DEF OfferLogin
<1>2. x \in States
  BY DEF OfferLogin, Some, NewStates
<1> HIDE DEF x
<1>3. [csrf[x] EXCEPT !.intent = "login"] \in Csrf
  <2>1. csrf[x] \in Csrf
    BY <1>2 DEF TInv, CsrfOK
  <2> QED BY <2>1 DEF Csrf
<1>4. CsrfOK' /\ \A y \in States : csrf[y].intent # "unused" => csrf'[y].intent # "unused"
  <2>1. csrf' = [csrf EXCEPT ![x] = [@ EXCEPT !.intent = "login"]]
    BY <1>1
  <2>2. [csrf[x] EXCEPT !.intent = "login"].intent = "login"
    BY <1>2 DEF TInv, CsrfOK, Csrf
  <2> QED BY <1>2, <1>3, <2>1, <2>2 DEF TInv, CsrfOK
<1>5. DueOK'
  BY <1>1, BoundsHave, BoundKeeps
<1>6. HistoryOK'
  BY <1>1 DEF history, TInv, HistoryOK
<1>7. Grows /\ (RequestsOK' => TInv')
  BY <1>1, <1>4, <1>5, <1>6, StateCommand
<1> QED BY <1>1, <1>7, RequestsStay

\* A request that starts with what its handler needs.
LEMMA TypeStart ==
    ASSUME TInv, NEW r \in Requests, NEW q \in Request, Start(r, q),
           q.kind \in Bounds, q.at = "begin", RequestOK(q)
    PROVE  TInv'
<1>1. /\ due[q.kind] > 0 /\ due' = [due EXCEPT ![q.kind] = @ - 1]
      /\ req' = [req EXCEPT ![r] = q] /\ disturbed' = disturbed \cup Meets(r, q)
      /\ UNCHANGED <<user, stores, csrf, newest, lost, stale>>
  BY DEF Start
<1>2. DueOK'
  BY <1>1, BoundKeeps
<1>3. HistoryOK'
  BY <1>1, MeetsUsers DEF TInv, HistoryOK
<1>4. CsrfOK' /\ \A x \in States : csrf'[x] = csrf[x]
  BY <1>1 DEF TInv, CsrfOK
<1>5. Grows /\ (RequestsOK' => TInv')
  BY <1>1, <1>2, <1>3, <1>4, StateCommand
<1> QED BY <1>1, <1>5, Becomes

LEMMA NewRequestIs ==
    ASSUME NEW k \in Kinds
    PROVE  /\ NewRequest(k) \in Request
           /\ NewRequest(k) = [kind |-> k, pos |-> 1, at |-> "begin", user |-> NoUser,
                               target |-> NoUser, cookie |-> NoSession, state |-> NoState,
                               google |-> NoGoogle, tok |-> NoToken, new |-> NoToken,
                               members |-> {}, found |-> {}]
           /\ 1 \in DOMAIN Script[k] /\ k \in Bounds /\ k # "idle"
<1>1. NewRequest(k) = [kind |-> k, pos |-> 1, at |-> "begin", user |-> NoUser,
                       target |-> NoUser, cookie |-> NoSession, state |-> NoState,
                       google |-> NoGoogle, tok |-> NoToken, new |-> NoToken,
                       members |-> {}, found |-> {}]
  <2>1. [Idle EXCEPT !.kind = k] = [kind |-> k, pos |-> 0, at |-> "begin", user |-> NoUser,
                       target |-> NoUser, cookie |-> NoSession, state |-> NoState,
                       google |-> NoGoogle, tok |-> NoToken, new |-> NoToken,
                       members |-> {}, found |-> {}]
    BY DEF Idle
  <2>2. NewRequest(k) = [[Idle EXCEPT !.kind = k] EXCEPT !.pos = 1]
    BY DEF NewRequest
  <2> QED BY ZenonT(60), <2>1, <2>2
<1>2. "begin" \in Places /\ 1 \in 0..5
  BY DEF Places
<1>3. NewRequest(k) \in Request
  BY <1>1, <1>2 DEF Request
<1>4. 1 \in DOMAIN Script[k] /\ k # "idle"
  BY KindsAre DEF Script
<1> QED BY <1>1, <1>3, <1>4, BoundsHave

LEMMA TypeStartBySession ==
    ASSUME TInv, NEW r \in Requests, NEW s \in Sessions,
           NEW k \in {"visit", "logout", "deleteMe", "startLink", "authorize"},
           StartBySession(r, k, s)
    PROVE  TInv'
<1> DEFINE u == session[s].user
           v == IF k = "deleteMe" THEN u ELSE NoUser
           q == [NewRequest(k) EXCEPT !.cookie = s, !.user = u, !.target = v]
<1>1. Opened(s) /\ Start(r, q)
  BY DEF StartBySession
<1>2. u \in Users
  BY <1>1 DEF Opened, TInv, SessionTypeOK
<1>3. k \in Kinds
  BY KindsAre
<1>4. NewRequest(k) \in Request /\ v \in Users \cup {NoUser}
  BY <1>2, <1>3, NewRequestIs
<1> HIDE DEF v, u
<1>5. q \in Request
  BY <1>2, <1>4 DEF Request
<1>6. /\ q.kind = k /\ q.pos = 1 /\ q.user = u /\ q.target = v /\ q.cookie = s /\ q.at = "begin"
  BY <1>3, NewRequestIs
<1>7. RequestOK(q)
  <2>1. 1 \in DOMAIN Script[k] /\ k # "idle"
    BY <1>3, NewRequestIs
  <2>2. k = "deleteMe" => v = u
    BY DEF v
  <2> HIDE DEF q
  <2> QED BY <1>1, <1>6, <2>1, <2>2 DEF RequestOK, SessionKinds, TokenKinds, u
<1>8. k \in Bounds
  BY <1>3, NewRequestIs
<1> HIDE DEF q
<1> QED BY <1>1, <1>5, <1>6, <1>7, <1>8, TypeStart

LEMMA TypeStartDeleteUser ==
    ASSUME TInv, NEW r \in Requests, NEW s \in Sessions, NEW v \in Users,
           StartDeleteUser(r, s, v)
    PROVE  TInv'
<1> DEFINE u == session[s].user
           k == "deleteUser"
           q == [NewRequest(k) EXCEPT !.cookie = s, !.user = u, !.target = v]
<1>1. Opened(s) /\ Start(r, q)
  BY DEF StartDeleteUser
<1>2. u \in Users
  BY <1>1 DEF Opened, TInv, SessionTypeOK
<1>3. k \in Kinds
  BY KindsAre
<1>4. NewRequest(k) \in Request
  BY <1>3, NewRequestIs
<1> HIDE DEF u
<1>5. q \in Request
  BY <1>2, <1>4 DEF Request
<1>6. /\ q.kind = k /\ q.pos = 1 /\ q.user = u /\ q.target = v /\ q.cookie = s /\ q.at = "begin"
  BY <1>3, NewRequestIs
<1>7. RequestOK(q)
  <2>1. 1 \in DOMAIN Script[k]
    BY <1>3, NewRequestIs
  <2> HIDE DEF q
  <2> QED BY <1>1, <1>6, <2>1 DEF RequestOK, SessionKinds, TokenKinds, u
<1>8. k \in Bounds
  BY <1>3, NewRequestIs
<1> HIDE DEF q
<1> QED BY <1>1, <1>5, <1>6, <1>7, <1>8, TypeStart

LEMMA TypeStartLogin ==
    ASSUME TInv, NEW r \in Requests, NEW u \in Users, NEW s \in Sessions \cup {NoSession},
           StartLogin(r, u, s)
    PROVE  TInv'
<1> DEFINE k == "login"
           q == [NewRequest(k) EXCEPT !.user = u, !.cookie = s]
<1>1. (s # NoSession => Opened(s)) /\ Start(r, q)
  BY DEF StartLogin
<1>2. k \in Kinds
  BY KindsAre
<1>3. NewRequest(k) \in Request
  BY <1>2, NewRequestIs
<1>4. q \in Request
  BY <1>3 DEF Request
<1>5. q.kind = k /\ q.pos = 1 /\ q.user = u /\ q.cookie = s /\ q.at = "begin"
  BY <1>2, NewRequestIs
<1>6. RequestOK(q)
  <2>1. 1 \in DOMAIN Script[k]
    BY <1>2, NewRequestIs
  <2> HIDE DEF q
  <2> QED BY <1>1, <1>5, <2>1 DEF RequestOK, SessionKinds, TokenKinds
<1>7. k \in Bounds
  BY <1>2, NewRequestIs
<1> HIDE DEF q
<1> QED BY <1>1, <1>4, <1>5, <1>6, <1>7, TypeStart

LEMMA TypeStartCallback ==
    ASSUME TInv, NEW r \in Requests, NEW x \in States, NEW g \in Googles,
           NEW s \in Sessions \cup {NoSession}, StartCallback(r, x, g, s)
    PROVE  TInv'
<1> DEFINE k == "callback"
           q == [NewRequest(k) EXCEPT !.state = x, !.google = g, !.cookie = s]
<1>1. csrf[x].intent # "unused" /\ (s # NoSession => Opened(s)) /\ Start(r, q)
  BY DEF StartCallback
<1>2. k \in Kinds
  BY KindsAre
<1>3. NewRequest(k) \in Request
  BY <1>2, NewRequestIs
<1>4. q \in Request
  BY <1>3 DEF Request
<1>5. q.kind = k /\ q.pos = 1 /\ q.state = x /\ q.google = g /\ q.cookie = s /\ q.at = "begin"
  BY <1>2, NewRequestIs
<1>6. RequestOK(q)
  <2>1. 1 \in DOMAIN Script[k]
    BY <1>2, NewRequestIs
  <2> HIDE DEF q
  <2> QED BY <1>1, <1>5, <2>1 DEF RequestOK, SessionKinds, TokenKinds
<1>7. k \in Bounds
  BY <1>2, NewRequestIs
<1> HIDE DEF q
<1> QED BY <1>1, <1>4, <1>5, <1>6, <1>7, TypeStart

LEMMA TypeStartByToken ==
    ASSUME TInv, NEW r \in Requests, NEW k \in TokenKinds,
           NEW t \in IF k = "exchange" THEN Codes ELSE Pairs, StartByToken(r, k, t)
    PROVE  TInv'
<1> DEFINE u == token[t].user
           q == [NewRequest(k) EXCEPT !.tok = t, !.user = u]
<1>1. Made(t) /\ Start(r, q) /\ t \in Tokens
  BY DEF StartByToken, Tokens
<1>2. u \in Users
  BY <1>1 DEF Made, TInv, TokenTypeOK, Unmade
<1>3. k \in Kinds
  BY KindsAre DEF TokenKinds
<1>4. NewRequest(k) \in Request
  BY <1>3, NewRequestIs
<1> HIDE DEF u
<1>5. q \in Request
  BY <1>1, <1>2, <1>4 DEF Request
<1>6. q.kind = k /\ q.pos = 1 /\ q.user = u /\ q.tok = t /\ q.cookie = NoSession /\ q.at = "begin"
  BY <1>3, NewRequestIs
<1>7. RequestOK(q)
  <2>1. 1 \in DOMAIN Script[k] /\ k # "idle"
    BY <1>3, NewRequestIs
  <2> HIDE DEF q
  <2> QED BY <1>1, <1>6, <2>1 DEF RequestOK, SessionKinds, TokenKinds, u
<1>8. k \in Bounds
  BY <1>3, NewRequestIs
<1> HIDE DEF q
<1> QED BY <1>1, <1>5, <1>6, <1>7, <1>8, TypeStart

LEMMA TypeArrives ==
    ASSUME TInv, NEW r \in Requests, Arrives(r)
    PROVE  TInv'
<1>1. ASSUME NEW c \in Codes, StartByToken(r, "exchange", c)
      PROVE  TInv'
  BY <1>1, TypeStartByToken DEF TokenKinds
<1>2. ASSUME NEW p \in Pairs, NEW k \in {"refresh", "fulfil"}, StartByToken(r, k, p)
      PROVE  TInv'
  BY <1>2, TypeStartByToken DEF TokenKinds
<1> QED BY <1>1, <1>2, TypeStartBySession, TypeStartDeleteUser, TypeStartLogin, TypeStartCallback
        DEF Arrives

LEMMA ClearingTokens ==
    ASSUME TInv, NEW r \in Requests
    PROVE  Clearing(r) \subseteq Tokens
<1>1. CASE LookupAt(r, "reapCopies") \/ LookupAt(r, "deleteCopies")
  <2>1. Clearing(r) = {req[r].tok}
    <3>1. ~At(r, "purge", "deleteCopies")
      BY <1>1 DEF LookupAt, At, Lookups, Value
    <3> QED BY <1>1, <3>1 DEF Clearing
  <2>2. req[r].tok \in Tokens
    BY <1>1, LookupHas DEF LookupAt
  <2> QED BY <2>1, <2>2
<1>2. CASE ~(LookupAt(r, "reapCopies") \/ LookupAt(r, "deleteCopies")) /\ At(r, "purge", "deleteCopies")
  <2>1. Clearing(r) = req[r].found
    BY <1>2 DEF Clearing
  <2>2. req[r].found \in SUBSET Tokens
    BY <1>2, InCall DEF At, Request
  <2> QED BY <2>1, <2>2
<1>3. CASE /\ ~(LookupAt(r, "reapCopies") \/ LookupAt(r, "deleteCopies"))
           /\ ~At(r, "purge", "deleteCopies")
  <2>1. Clearing(r) = {}
    BY <1>3 DEF Clearing
  <2> QED BY <2>1
<1> QED BY <1>1, <1>2, <1>3

LEMMA TypeAbort ==
    ASSUME TInv, NEW r \in Requests, Abort(r)
    PROVE  TInv'
<1>1. /\ Fails(r) /\ stale' = stale \cup Clearing(r) /\ req' = End(r)
      /\ UNCHANGED <<user, stores, csrf>>
  BY DEF Abort
<1>2. DueOK' /\ HistoryOK'
  BY <1>1, FailsKeeps, ClearingTokens DEF TInv, HistoryOK
<1>3. CsrfOK' /\ \A x \in States : csrf'[x] = csrf[x]
  BY <1>1 DEF TInv, CsrfOK
<1>4. Grows /\ (RequestsOK' => TInv')
  BY <1>1, <1>2, <1>3, StateCommand
<1> QED BY <1>1, <1>4, Ends

LEMMA TypeCrash ==
    ASSUME TInv, Crash
    PROVE  TInv'
<1>1. /\ due["fault"] > 0 /\ due' = [due EXCEPT !["fault"] = @ - 1]
      /\ disturbed' = disturbed \cup UNION {ActsFor(req[r]) : r \in Requests}
      /\ stale' = stale \cup UNION {Clearing(r) : r \in Requests}
      /\ req' = [r \in Requests |-> Idle]
      /\ UNCHANGED <<user, stores, csrf, newest, lost>>
  BY DEF Crash
<1>2. DueOK'
  BY <1>1, BoundsHave, BoundKeeps
<1>3. UNION {Clearing(r) : r \in Requests} \subseteq Tokens
  BY ClearingTokens
<1>4. UNION {ActsFor(req[r]) : r \in Requests} \subseteq Users
  BY DEF ActsFor
<1>5. HistoryOK'
  BY <1>1, <1>3, <1>4 DEF TInv, HistoryOK
<1>6. CsrfOK' /\ \A x \in States : csrf'[x] = csrf[x]
  BY <1>1 DEF TInv, CsrfOK
<1>7. Grows /\ (RequestsOK' => TInv')
  BY <1>1, <1>2, <1>5, <1>6, StateCommand
<1>8. Idle \in Request
  BY DEF Idle, Request, Places
<1>9. \A r \in Requests : RequestOK(req[r])' /\ PlaceOK(r)'
  BY <1>1 DEF RequestOK, PlaceOK, Idle, SessionKinds, TokenKinds
<1> QED BY <1>1, <1>7, <1>8, <1>9 DEF RequestsOK

LEMMA ExpiresKeeps ==
    ASSUME TInv, Expires
    PROVE  DueOK' /\ HistoryOK' /\ user' = user /\ req' = req
<1>1. DueOK'
  BY BoundsHave, BoundKeeps DEF Expires
<1> QED BY <1>1 DEF Expires, history, TInv, HistoryOK

LEMMA TypeTimePasses ==
    ASSUME TInv, TimePasses
    PROVE  TInv'
<1>1. ASSUME NEW s \in Sessions, SessionExpires(s)
      PROVE  TInv'
  <2>1. DeleteKeys({s}) /\ Expires /\ UNCHANGED <<tokenVars, csrf>>
    BY <1>1 DEF SessionExpires
  <2>2. SessionTypeOK' /\ session' = session
    BY <2>1, SessionCommands
  <2>3. DueOK' /\ HistoryOK' /\ user' = user /\ req' = req
    BY <2>1, ExpiresKeeps
  <2>4. UserTypeOK' /\ TokenTypeOK' /\ CsrfOK'
    BY <2>1, <2>3, TokensKept DEF TInv, UserTypeOK, CsrfOK
  <2>5. Grows
    BY <2>1, <2>2, TokensKept DEF Grows
  <2> QED BY <2>2, <2>3, <2>4, <2>5, RequestsStay DEF TInv
<1>2. ASSUME NEW x \in States, StateExpires(x)
      PROVE  TInv'
  <2>1. Expires /\ UNCHANGED stores /\ csrf' = [csrf EXCEPT ![x].intent = "spent"]
    BY <1>2 DEF StateExpires
  <2>2. DueOK' /\ HistoryOK' /\ user' = user /\ req' = req
    BY <2>1, ExpiresKeeps
  <2>3. csrf[x] \in Csrf /\ [csrf[x] EXCEPT !.intent = "spent"] \in Csrf
        /\ [csrf[x] EXCEPT !.intent = "spent"].intent = "spent"
    BY DEF TInv, CsrfOK, Csrf
  <2>4. csrf' = [csrf EXCEPT ![x] = [@ EXCEPT !.intent = "spent"]]
    BY <2>1
  <2>5. CsrfOK' /\ \A y \in States : csrf[y].intent # "unused" => csrf'[y].intent # "unused"
    BY <2>3, <2>4 DEF TInv, CsrfOK
  <2>6. Grows /\ (RequestsOK' => TInv')
    BY <2>1, <2>2, <2>5, StateCommand
  <2> QED BY <2>2, <2>6, RequestsStay
<1>3. ASSUME NEW k \in Keys, ValueExpires(k)
      PROVE  TInv'
  <2>1. TimeComes(k) /\ Expires /\ UNCHANGED <<sessionVars, csrf>>
    BY <1>3 DEF ValueExpires
  <2>2. TokenTypeOK' /\ token' = token /\ expired \subseteq expired'
    BY <2>1, TokenCommands
  <2>3. DueOK' /\ HistoryOK' /\ user' = user /\ req' = req
    BY <2>1, ExpiresKeeps
  <2>4. Grows /\ (RequestsOK' => TInv')
    BY <2>1, <2>2, <2>3, TokenCommand
  <2> QED BY <2>3, <2>4, RequestsStay
<1> QED BY <1>1, <1>2, <1>3 DEF TimePasses

-----------------------------------------------------------------------------
(* The types *)

LEMMA TInvInit ==
    ASSUME Init
    PROVE  TInv
<1>1. UserTypeOK
  BY UserAssumption DEF Init, UserInit, UserTypeOK, UserRow
<1>2. SessionTypeOK
  BY DEF Init, SessionInit, SessionTypeOK
<1>3. TokenTypeOK
  BY DEF Init, TokenInit, TokenTypeOK, Unmade
<1>4. CsrfOK
  BY DEF Init, CsrfOK, Csrf
<1>5. DueOK /\ HistoryOK
  BY RequestAssumption DEF Init, DueOK, HistoryOK
<1>6. RequestsOK
  <2>1. Idle \in Request
    BY DEF Idle, Request, Places
  <2>2. req = [r \in Requests |-> Idle]
    BY DEF Init
  <2>3. \A r \in Requests : RequestOK(req[r]) /\ PlaceOK(r)
    BY <2>2 DEF RequestOK, PlaceOK, Idle, SessionKinds, TokenKinds
  <2> QED BY <2>1, <2>2, <2>3 DEF RequestsOK
<1> QED BY <1>1, <1>2, <1>3, <1>4, <1>5, <1>6 DEF TInv

LEMMA VarsAre ==
    ASSUME UNCHANGED vars
    PROVE  UNCHANGED <<user, stores, csrf, req, due, disturbed, newest, lost, stale>>
BY DEF vars, history

LEMMA TInvStep ==
    ASSUME TInv, [Next]_vars
    PROVE  TInv'
<1>1. ASSUME NEW r \in Requests, SessionStep(r)
      PROVE  TInv'
  BY <1>1, TypeTouchRead, TypeTouchWrite, TypeFindSession, TypeUnlist, TypeDropSession,
     TypeOpenSession, TypeListSession, TypeFindSessions, TypeDropSessions, TypeDropSet
     DEF SessionStep
<1>2. ASSUME NEW r \in Requests, UserStep(r)
      PROVE  TInv'
  BY <1>2, TypeAuthenticate, TypeSchedule, TypeCheckLink, TypeOfferLink, TypeConsume,
     TypeFindGoogle, TypeCreateGoogle, TypeCheckIdentity, TypeLoadAccount, TypeSaveLink
     DEF UserStep
<1>3. ASSUME NEW r \in Requests, TokenStep(r)
      PROVE  TInv'
  BY <1>3, TypeMakeToken, TypeCopyFirst, TypeCopyRefresh, TypeGetCopy, TypeFindRow, TypeReap,
     TypeReapCopies, TypeDeleteKey, TypeDeleteRow, TypeDeleteTokenCopies, TypeFindTokens,
     TypePurgeRows, TypePurgeCopies
     DEF TokenStep
<1>4. CASE UNCHANGED vars
  <2>1. UNCHANGED <<user, stores, csrf, req, due, disturbed, newest, lost, stale>>
    BY <1>4, VarsAre
  <2>2. CsrfOK' /\ DueOK' /\ HistoryOK' /\ \A x \in States : csrf'[x] = csrf[x]
    BY <2>1 DEF TInv, CsrfOK, DueOK, HistoryOK
  <2>3. Grows /\ (RequestsOK' => TInv')
    BY <2>1, <2>2, StateCommand
  <2> QED BY <2>1, <2>3, RequestsStay
<1> QED BY <1>1, <1>2, <1>3, <1>4, TypeSignUp, TypeOfferLogin, TypeArrives, TypeAbort, TypeCrash,
        TypeTimePasses DEF Next

\* The types, and that every request has what its next call uses (RequestOK): the
\* cookie was given, the user and the token are known, the state was used; whatever
\* other requests, failures and expiries come between a handler's calls.
THEOREM AccountTypes == Spec => []TypeOK
<1>1. TInv /\ [Next]_vars => TInv'
  BY TInvStep
<1>2. Init => TInv
  BY TInvInit
<1>3. TInv => TypeOK
  BY TInvTypes
<1> QED BY <1>1, <1>2, <1>3, PTL DEF Spec

-----------------------------------------------------------------------------
(* Copies are served in time *)

CopiesMade == \A k \in copies : Made(k[2])

\* Which token a creation makes.
LEMMA MakesToken ==
    ASSUME TInv, NEW r \in Requests, MakeToken(r)
    PROVE  \E t \in Tokens, u \in Users, g \in Tokens :
              /\ ~Made(t) /\ InsertRow(t, u, g)
              /\ newest' = {p \in newest : token[p].grant # g} \cup ({t} \cap Pairs)
<1> DEFINE t == Some(NewTokens(r))
           u == req[r].user
           g == IF req[r].kind = "refresh" THEN token[req[r].tok].grant ELSE t
<1>1. /\ At(r, "create", "begin") /\ NewTokens(r) # {} /\ InsertRow(t, u, g)
      /\ newest' = {p \in newest : token[p].grant # g} \cup ({t} \cap Pairs)
  BY DEF MakeToken
<1>2. /\ u \in Users
      /\ req[r].kind \in TokenKinds => req[r].tok \in Tokens /\ Made(req[r].tok)
  BY <1>1, TokenCalls DEF At
<1>3. t \in Tokens /\ ~Made(t)
  BY <1>1 DEF Some, NewTokens, Tokens
<1>4. g \in Tokens
  <2>1. ASSUME req[r].kind = "refresh"
        PROVE  token[req[r].tok].grant \in Tokens
    <3>1. req[r].tok \in Tokens /\ Made(req[r].tok)
      BY <1>2, <2>1 DEF TokenKinds
    <3>2. token[req[r].tok] \in [user: Users, grant: Tokens]
      BY <3>1 DEF Made, TInv, TokenTypeOK, Unmade
    <3> QED BY <3>2
  <2> QED BY <1>3, <2>1
<1> HIDE DEF t, u, g
<1> QED BY <1>1, <1>2, <1>3, <1>4

\* The commands of the token store that the steps are made of.
LEMMA TokenSteps ==
    ASSUME TInv, [Next]_vars
    PROVE  \/ UNCHANGED tokenVars
           \/ \E t \in Tokens, u \in Users, g \in Tokens : ~Made(t) /\ InsertRow(t, u, g)
           \/ \E T \in SUBSET Tokens : DeleteRows(T)
           \/ \E k \in Keys : Made(k[2]) /\ SetCopy(k)
           \/ \E K \in SUBSET Keys : DeleteCopies(K)
           \/ \E k \in Keys : TimeComes(k)
<1> DEFINE Commands == \/ UNCHANGED tokenVars
                       \/ \E t \in Tokens, u \in Users, g \in Tokens : ~Made(t) /\ InsertRow(t, u, g)
                       \/ \E T \in SUBSET Tokens : DeleteRows(T)
                       \/ \E k \in Keys : Made(k[2]) /\ SetCopy(k)
                       \/ \E K \in SUBSET Keys : DeleteCopies(K)
                       \/ \E k \in Keys : TimeComes(k)
<1>1. ASSUME NEW r \in Requests, Arrives(r)
      PROVE  UNCHANGED tokenVars
  BY <1>1, StoresAre DEF Arrives, StartBySession, StartDeleteUser, StartLogin, StartCallback,
                         StartByToken, Start
<1>2. ASSUME NEW r \in Requests, SessionStep(r)
      PROVE  UNCHANGED tokenVars
  BY <1>2, StoresAre DEF SessionStep, TouchRead, TouchWrite, FindSession, Unlist, DropSession,
              OpenSession, ListSession, FindSessions, DropSessions, DropSet, Tries
<1>3. ASSUME NEW r \in Requests, UserStep(r)
      PROVE  UNCHANGED tokenVars
  BY <1>3, StoresAre DEF UserStep, Authenticate, Schedule, CheckLink, OfferLink, Consume,
              FindGoogle, CreateGoogle, CheckIdentity, LoadAccount, SaveLink
<1>4. ASSUME NEW r \in Requests, TokenStep(r)
      PROVE  Commands
  <2>1. CASE MakeToken(r)
    BY <2>1, MakesToken
  <2>2. CASE CopyFirst(r)
    BY <2>2, CopyingHas, StoresAre DEF CopyFirst, CopyKey
  <2>3. CASE CopyRefresh(r)
    BY <2>3, CopyingHas, StoresAre DEF CopyRefresh, CopyKey
  <2>4. CASE GetCopy(r) \/ FindRow(r) \/ FindTokens(r)
    BY <2>4, StoresAre DEF GetCopy, FindRow, FindTokens
  <2>5. CASE Reap(r) \/ DeleteRow(r)
    BY <2>5, LookupHas DEF Reap, DeleteRow, LookupAt
  <2>6. CASE PurgeRows(r)
    <3>1. TokensOf(req[r].target) \in SUBSET Tokens
      BY DEF TokensOf
    <3> QED BY <2>6, <3>1 DEF PurgeRows
  <2>7. ASSUME NEW T, ForgetCopies(r, T)
        PROVE  Commands
    <3>1. {k \in Keys : k[2] \in T} \in SUBSET Keys
      OBVIOUS
    <3> QED BY <2>7, <3>1, StoresAre DEF ForgetCopies
  <2>8. CASE DeleteKey(r)
    <3>1. {LookupKey(r)} \in SUBSET Keys
      BY <2>8, LookupHas DEF DeleteKey, LookupAt
    <3> QED BY <2>8, <3>1, StoresAre DEF DeleteKey, Tries
  <2> HIDE DEF Commands
  <2> QED BY <1>4, <2>1, <2>2, <2>3, <2>4, <2>5, <2>6, <2>7, <2>8
          DEF TokenStep, ReapCopies, DeleteTokenCopies, PurgeCopies
<1>5. ASSUME TimePasses
      PROVE  Commands
  BY <1>5, StoresAre DEF TimePasses, SessionExpires, StateExpires, ValueExpires
<1>6. ASSUME Crash \/ OfferLogin \/ (\E r \in Requests : Abort(r)) \/ (\E u \in Users : SignUp(u))
      PROVE  UNCHANGED tokenVars
  BY <1>6, StoresAre DEF Crash, OfferLogin, Abort, SignUp
<1>7. ASSUME UNCHANGED vars
      PROVE  UNCHANGED tokenVars
  BY <1>7, VarsAre, StoresAre
<1> QED BY <1>1, <1>2, <1>3, <1>4, <1>5, <1>6, <1>7 DEF Next

\* What is left of a value is what a lookup asks for.
LEMMA TTLIsLookup ==
    ASSUME NEW k \in Keys
    PROVE  HasTTL(k, expired) <=> ~ExpiredForLookup(k)
BY DEF HasTTL, ExpiredForLookup

LEMMA ServedStep ==
    ASSUME TInv, CopiesMade, ServedInTime, [Next]_vars
    PROVE  CopiesMade' /\ ServedInTime'
<1>1. copies \subseteq Keys /\ \A k \in Keys : k[2] \in Tokens
  BY DEF TInv, TokenTypeOK, Keys, Tokens
<1>2. CASE UNCHANGED tokenVars
  BY <1>2, StoresAre DEF CopiesMade, ServedInTime, Made, ExpiredForLookup, ExpiryReached
<1>3. ASSUME NEW t \in Tokens, NEW u \in Users, NEW g \in Tokens, ~Made(t), InsertRow(t, u, g)
      PROVE  CopiesMade' /\ ServedInTime'
  <2>1. copies' = copies /\ expired' = expired /\ \A p \in Tokens : Made(p) => token'[p] = token[p]
    BY <1>3 DEF InsertRow, TInv, TokenTypeOK
  <2>2. \A k \in copies : Made(k[2]) /\ token'[k[2]] = token[k[2]]
    BY <1>1, <2>1 DEF CopiesMade
  <2>3. \A k \in copies : Made(k[2])' /\ (ExpiredForLookup(k)' <=> ExpiredForLookup(k))
    BY <2>1, <2>2 DEF Made, ExpiredForLookup, ExpiryReached
  <2> QED BY <2>1, <2>3 DEF CopiesMade, ServedInTime
<1>4. ASSUME copies' \subseteq copies, token' = token, expired' = expired
      PROVE  CopiesMade' /\ ServedInTime'
  BY <1>4 DEF CopiesMade, ServedInTime, Made, ExpiredForLookup, ExpiryReached
<1>5. ASSUME NEW k \in Keys, Made(k[2]), SetCopy(k)
      PROVE  CopiesMade' /\ ServedInTime'
  <2>1. token' = token /\ expired' = expired
        /\ copies' = (IF HasTTL(k, expired) THEN copies \cup {k} ELSE copies)
    BY <1>5 DEF SetCopy
  <2>2. \A c \in copies' : Made(c[2]) /\ ~ExpiredForLookup(c)
    BY <1>5, <2>1, TTLIsLookup DEF CopiesMade, ServedInTime
  <2> QED BY <2>1, <2>2 DEF CopiesMade, ServedInTime, Made, ExpiredForLookup, ExpiryReached
<1>6. ASSUME NEW k \in Keys, TimeComes(k)
      PROVE  CopiesMade' /\ ServedInTime'
  <2>1. token' = token /\ copies' = {c \in copies : HasTTL(c, expired')}
    BY <1>6 DEF TimeComes
  <2>2. \A c \in copies' : c \in copies /\ HasTTL(c, expired')
    BY <2>1
  <2>3. \A c \in copies' : ~ExpiredForLookup(c)'
    BY <2>1, <2>2 DEF HasTTL, ExpiredForLookup, ExpiryReached
  <2>4. CopiesMade'
    BY <2>1, <2>2 DEF CopiesMade, Made
  <2> QED BY <2>3, <2>4 DEF ServedInTime
<1>7. ASSUME NEW T, DeleteRows(T)
      PROVE  CopiesMade' /\ ServedInTime'
  BY <1>4, <1>7 DEF DeleteRows
<1>8. ASSUME NEW K, DeleteCopies(K)
      PROVE  CopiesMade' /\ ServedInTime'
  BY <1>4, <1>8 DEF DeleteCopies
<1> QED BY <1>2, <1>3, <1>5, <1>6, <1>7, <1>8, TokenSteps

\* token_store.go:262, :145: a copy is never served after its value's time, or the
\* refresh value's, though a lookup that finds a copy does not look at the clock: what
\* the cache is told when the copy is set is what a lookup of the row would ask.
THEOREM CopiesServedInTime == Spec => []ServedInTime
<1>1. TInv /\ CopiesMade /\ ServedInTime /\ [Next]_vars => TInv' /\ CopiesMade' /\ ServedInTime'
  BY TInvStep, ServedStep
<1>2. Init => TInv /\ CopiesMade /\ ServedInTime
  BY TInvInit DEF Init, TokenInit, CopiesMade, ServedInTime
<1> QED BY <1>1, <1>2, PTL DEF Spec

-----------------------------------------------------------------------------
(* How requests move *)

LEMMA RefreshCalls ==
    ASSUME NEW p \in DOMAIN Script["refresh"]
    PROVE  /\ p \in 1..4
           /\ Script["refresh"][p] \in {"getRefresh", "create", "removeAccess", "removeRefresh"}
           /\ Script["refresh"][p] = "create" <=> p = 2
           /\ Script["refresh"][p] \in {"removeAccess", "removeRefresh"} <=> p >= 3
BY DEF Script

OthersStay(r) == \A o \in Requests \ {r} : req'[o] = req[o]

LEMMA EndMoves ==
    ASSUME TInv, NEW r \in Requests, req' = End(r)
    PROVE  OthersStay(r) /\ req'[r].kind = "idle"
BY DEF TInv, RequestsOK, End, Idle, OthersStay

LEMMA StepMoves ==
    ASSUME TInv, NEW r \in Requests, NEW place, req' = Step(r, place)
    PROVE  /\ OthersStay(r) /\ req'[r].kind = req[r].kind /\ req'[r].pos = req[r].pos
           /\ req'[r].tok = req[r].tok /\ req'[r].found = req[r].found /\ req'[r].at = place
BY DEF TInv, RequestsOK, Request, Step, OthersStay

LEMMA ReturnMoves ==
    ASSUME TInv, NEW r \in Requests, req' = Return(r)
    PROVE  /\ OthersStay(r)
           /\ \/ req'[r].kind = "idle"
              \/ /\ req'[r].kind = req[r].kind /\ req'[r].pos = req[r].pos + 1
                 /\ req'[r].tok = req[r].tok /\ req'[r].at = "begin"
<1>1. CASE req[r].pos = Len(Script[req[r].kind])
  BY <1>1, EndMoves DEF Return
<1>2. CASE req[r].pos # Len(Script[req[r].kind])
  <2> DEFINE q == [req[r] EXCEPT !.pos = @ + 1, !.at = "begin"]
  <2>1. req' = [req EXCEPT ![r] = q]
    BY <1>2 DEF Return
  <2>2. req \in [Requests -> Request]
    BY DEF TInv, RequestsOK
  <2>3. req'[r] = q /\ OthersStay(r)
    BY <2>1, <2>2 DEF OthersStay
  <2> QED BY <2>2, <2>3 DEF Request
<1> QED BY <1>1, <1>2

\* A request that is about to delete copies stands in a lookup, or in a purge.
LEMMA NotClearing ==
    ASSUME NEW r \in Requests, req[r].at \notin {"reapCopies", "deleteCopies"}
    PROVE  Clearing(r) = {}
BY DEF Clearing, LookupAt, At

LEMMA ClearingStays ==
    ASSUME NEW o \in Requests, req'[o] = req[o]
    PROVE  Clearing(o)' = Clearing(o)
BY DEF Clearing, LookupAt, At, Call

\* Calls of sessions and of users are none of a refresh, and clear nothing.
LEMMA SessionMoves ==
    ASSUME TInv, NEW r \in Requests, SessionStep(r)
    PROVE  OthersStay(r) /\ req'[r].kind # "refresh" /\ req[r].at \notin {"reapCopies", "deleteCopies"}
<1>1. /\ Call(r) \in {"touch", "endSession", "openSession", "endSessions"}
      /\ req[r].at \notin {"reapCopies", "deleteCopies"}
  BY DEF SessionStep, TouchRead, TouchWrite, FindSession, Unlist, DropSession, OpenSession,
         ListSession, FindSessions, DropSessions, DropSet, At
<1>2. req[r].kind # "refresh"
  BY <1>1, InCall, RefreshCalls
<1>3. \/ req' = End(r) \/ req' = Return(r) \/ \E place \in Places : req' = Step(r, place)
      \/ OpenSession(r) \/ FindSessions(r) \/ DropSessions(r)
  BY DEF SessionStep, TouchRead, TouchWrite, FindSession, Unlist, DropSession,
         ListSession, DropSet, Places
<1>4. CASE OpenSession(r) \/ FindSessions(r) \/ DropSessions(r)
  <2>1. req \in [Requests -> Request]
    BY DEF TInv, RequestsOK
  <2>2. OthersStay(r) /\ req'[r].kind = req[r].kind
    BY <1>4, <2>1 DEF OpenSession, FindSessions, DropSessions, Step, OthersStay, Request
  <2> QED BY <1>1, <1>2, <2>2
<1> QED BY <1>1, <1>2, <1>3, <1>4, EndMoves, ReturnMoves, StepMoves

LEMMA UserMoves ==
    ASSUME TInv, NEW r \in Requests, UserStep(r)
    PROVE  OthersStay(r) /\ req'[r].kind # "refresh" /\ req[r].at \notin {"reapCopies", "deleteCopies"}
<1>1. /\ Call(r) \in {"authenticate", "schedule", "offerLink", "consume", "findGoogle",
                      "checkIdentity", "loadAccount", "save"}
      /\ req[r].at \notin {"reapCopies", "deleteCopies"}
  BY DEF UserStep, Authenticate, Schedule, CheckLink, OfferLink, Consume, FindGoogle,
         CreateGoogle, CheckIdentity, LoadAccount, SaveLink, At
<1>2. req[r].kind # "refresh"
  BY <1>1, InCall, RefreshCalls
<1>3. \/ req' = End(r) \/ req' = Return(r) \/ \E place \in Places : req' = Step(r, place)
      \/ Schedule(r) \/ Consume(r) \/ FindGoogle(r) \/ CreateGoogle(r)
  BY DEF UserStep, Authenticate, CheckLink, OfferLink, CheckIdentity, LoadAccount, SaveLink, Places
<1>4. req \in [Requests -> Request]
  BY DEF TInv, RequestsOK
<1>5. CASE Schedule(r)
  <2>1. ASSUME req' = [req EXCEPT ![r].kind = "logout", ![r].pos = 2]
        PROVE  OthersStay(r) /\ req'[r].kind = "logout"
    BY <1>4, <2>1 DEF OthersStay, Request
  <2> QED BY <1>1, <1>2, <1>5, <2>1, EndMoves, ReturnMoves DEF Schedule
<1>6. CASE Consume(r)
  <2> DEFINE link == csrf[req[r].state].intent = "link"
             k == IF link THEN "googleLink" ELSE "googleLogin"
             q == [req[r] EXCEPT !.kind = k, !.target = csrf[req[r].state].user]
  <2>1. req' = [req EXCEPT ![r] = q] \/ req' = End(r)
    BY <1>6 DEF Consume
  <2>2. ASSUME req' = [req EXCEPT ![r] = q]
        PROVE  OthersStay(r) /\ req'[r].kind = k
    <3>1. req'[r] = q /\ OthersStay(r)
      BY <1>4, <2>2 DEF OthersStay
    <3> QED BY <1>4, <3>1 DEF Request
  <2> QED BY <1>1, <2>1, <2>2, EndMoves
<1>7. CASE FindGoogle(r)
  <2>1. ASSUME NEW u \in Users, req' = [req EXCEPT ![r].user = u, ![r].pos = 2]
        PROVE  OthersStay(r) /\ req'[r].kind = req[r].kind
    BY <1>4, <2>1 DEF OthersStay, Request
  <2> QED BY <1>1, <1>2, <1>7, <2>1, StepMoves DEF FindGoogle
<1>8. CASE CreateGoogle(r)
  <2>1. ASSUME NEW u \in Users, req' = [req EXCEPT ![r].user = u, ![r].pos = 2, ![r].at = "begin"]
        PROVE  OthersStay(r) /\ req'[r].kind = req[r].kind
    BY <1>4, <2>1 DEF OthersStay, Request
  <2> QED BY <1>1, <1>2, <1>8, <2>1, EndMoves DEF CreateGoogle
<1> QED BY <1>1, <1>2, <1>3, <1>5, <1>6, <1>7, <1>8, EndMoves, ReturnMoves, StepMoves

\* A handler that goes on after Google has answered is not what a request begins with.
Starters == Kinds \ {"googleLogin", "googleLink"}

\* A request arrives at its first call.
LEMMA ArrivalStarts ==
    ASSUME NEW r \in Requests, Arrives(r)
    PROVE  \E q : Start(r, q) /\ q.pos = 1 /\ q.at = "begin" /\ q.kind \in Starters
<1>1. \A s \in Sessions, k \in {"visit", "logout", "deleteMe", "startLink", "authorize"} :
          StartBySession(r, k, s) => \E q : Start(r, q) /\ q.pos = 1 /\ q.at = "begin" /\ q.kind \in Starters
  <2> TAKE s \in Sessions, k \in {"visit", "logout", "deleteMe", "startLink", "authorize"}
  <2> DEFINE v == IF k = "deleteMe" THEN session[s].user ELSE NoUser
             q == [NewRequest(k) EXCEPT !.cookie = s, !.user = session[s].user, !.target = v]
  <2>1. q.pos = 1 /\ q.at = "begin" /\ q.kind \in Starters
    BY KindsAre, NewRequestIs DEF Starters
  <2>2. StartBySession(r, k, s) => Start(r, q)
    BY DEF StartBySession
  <2> QED BY <2>1, <2>2
<1>2. \A s \in Sessions, v \in Users : StartDeleteUser(r, s, v) => \E q : Start(r, q) /\ q.pos = 1 /\ q.at = "begin" /\ q.kind \in Starters
  <2> TAKE s \in Sessions, v \in Users
  <2> DEFINE q == [NewRequest("deleteUser") EXCEPT !.cookie = s, !.user = session[s].user, !.target = v]
  <2>1. q.pos = 1 /\ q.at = "begin" /\ q.kind \in Starters
    BY KindsAre, NewRequestIs DEF Starters
  <2> QED BY <2>1 DEF StartDeleteUser
<1>3. \A s \in Sessions \cup {NoSession}, u \in Users :
          StartLogin(r, u, s) => \E q : Start(r, q) /\ q.pos = 1 /\ q.at = "begin" /\ q.kind \in Starters
  <2> TAKE s \in Sessions \cup {NoSession}, u \in Users
  <2> DEFINE q == [NewRequest("login") EXCEPT !.user = u, !.cookie = s]
  <2>1. q.pos = 1 /\ q.at = "begin" /\ q.kind \in Starters
    BY KindsAre, NewRequestIs DEF Starters
  <2> QED BY <2>1 DEF StartLogin
<1>4. \A s \in Sessions \cup {NoSession}, x \in States, g \in Googles :
          StartCallback(r, x, g, s) => \E q : Start(r, q) /\ q.pos = 1 /\ q.at = "begin" /\ q.kind \in Starters
  <2> TAKE s \in Sessions \cup {NoSession}, x \in States, g \in Googles
  <2> DEFINE q == [NewRequest("callback") EXCEPT !.state = x, !.google = g, !.cookie = s]
  <2>1. q.pos = 1 /\ q.at = "begin" /\ q.kind \in Starters
    BY KindsAre, NewRequestIs DEF Starters
  <2> QED BY <2>1 DEF StartCallback
<1>5. \A t \in Tokens, k \in TokenKinds : StartByToken(r, k, t) => \E q : Start(r, q) /\ q.pos = 1 /\ q.at = "begin" /\ q.kind \in Starters
  <2> TAKE t \in Tokens, k \in TokenKinds
  <2> DEFINE q == [NewRequest(k) EXCEPT !.tok = t, !.user = token[t].user]
  <2>1. q.pos = 1 /\ q.at = "begin" /\ q.kind \in Starters
    BY KindsAre, NewRequestIs DEF TokenKinds, Starters
  <2> QED BY <2>1 DEF StartByToken
<1> QED BY <1>1, <1>2, <1>3, <1>4, <1>5 DEF Arrives, TokenKinds, Tokens

LEMMA ArrivalMoves ==
    ASSUME TInv, NEW r \in Requests, Arrives(r)
    PROVE  /\ OthersStay(r) /\ req'[r].pos = 1 /\ req[r].at = "begin" /\ req'[r].kind \in Starters
           /\ UNCHANGED <<user, stores, csrf, newest, lost, stale>>
<1>1. req \in [Requests -> Request]
  BY DEF TInv, RequestsOK
<1>2. ASSUME NEW q, Start(r, q), q.pos = 1, q.kind \in Starters
      PROVE  /\ OthersStay(r) /\ req'[r].pos = 1 /\ req[r].at = "begin" /\ req'[r].kind \in Starters
             /\ UNCHANGED <<user, stores, csrf, newest, lost, stale>>
  BY <1>1, <1>2 DEF Start, OthersStay, Idle
<1> QED BY <1>2, ArrivalStarts

-----------------------------------------------------------------------------
(* The pair made last of a grant stays usable *)

\* A refresh that has made its new pair.
Done(q) ==
    /\ q.kind = "refresh"
    /\ q.pos >= 3 \/ (q.pos = 2 /\ q.at \in {"copy", "copyRefresh"})

\* The pair such a refresh replaces, and will remove, is not the last of its grant.
GrantInv ==
    /\ \A p \in newest : Made(p)
    /\ GrantKept
    /\ \A r \in Requests : Done(req[r]) => req[r].tok \notin newest

DoneKept(r) == Done(req'[r]) => Done(req[r]) /\ req'[r].tok = req[r].tok

LEMMA DoneMoves ==
    ASSUME TInv, NEW r \in Requests, req[r].kind \in Kinds,
           Call(r) \in Lookups \/ req[r].at \in {"copy", "copyRefresh"},
           req' = End(r) \/ req' = Return(r) \/ \E place \in Places : req' = Step(r, place)
    PROVE  OthersStay(r) /\ DoneKept(r)
<1>1. RequestOK(req[r]) /\ req[r] \in Request
  BY DEF TInv, RequestsOK
<1>2. ASSUME req[r].kind = "refresh"
      PROVE  req[r].pos \in 1..4 /\ (Call(r) \in Lookups => req[r].pos # 2)
  BY <1>1, <1>2, KindsAre, RefreshCalls DEF RequestOK, Call, Lookups, Value
<1>3. CASE req' = End(r)
  BY <1>3, EndMoves DEF DoneKept, Done
<1>4. CASE req' = Return(r)
  BY <1>2, <1>4, ReturnMoves DEF DoneKept, Done
<1>5. CASE \E place \in Places : req' = Step(r, place)
  BY <1>2, <1>5, StepMoves DEF DoneKept, Done
<1> QED BY <1>3, <1>4, <1>5

LEMMA TokenMoves ==
    ASSUME TInv, NEW r \in Requests, TokenStep(r), ~MakeToken(r)
    PROVE  OthersStay(r) /\ DoneKept(r)
<1>1. CASE FindTokens(r) \/ PurgeRows(r) \/ PurgeCopies(r)
  <2>1. Call(r) = "purge"
    BY <1>1 DEF FindTokens, PurgeRows, PurgeCopies, At
  <2>2. req[r].kind # "refresh"
    BY <2>1, InCall, RefreshCalls
  <2>3. req \in [Requests -> Request]
    BY DEF TInv, RequestsOK
  <2>4. ASSUME NEW T, req' = [req EXCEPT ![r].found = T, ![r].at = "deleteRows"]
        PROVE  OthersStay(r) /\ req'[r].kind = req[r].kind
    BY <2>3, <2>4 DEF OthersStay, Request
  <2>5. OthersStay(r) /\ req'[r].kind \in {"idle", req[r].kind}
    BY <1>1, <2>4, EndMoves, StepMoves DEF FindTokens, PurgeRows, PurgeCopies
  <2> QED BY <2>2, <2>5 DEF DoneKept, Done
<1>2. CASE CopyFirst(r) \/ CopyRefresh(r)
  <2>1. req[r].at \in {"copy", "copyRefresh"}
    BY <1>2 DEF CopyFirst, CopyRefresh
  <2>2. req[r].kind \in Kinds
    BY <2>1, CopyingHas, TokenCalls
  <2>3. req' = Return(r) \/ \E place \in Places : req' = Step(r, place)
    BY <1>2 DEF CopyFirst, CopyRefresh, Copied, Places
  <2> QED BY <2>1, <2>2, <2>3, DoneMoves
<1>3. CASE \/ GetCopy(r) \/ FindRow(r) \/ Reap(r) \/ ReapCopies(r)
           \/ DeleteKey(r) \/ DeleteRow(r) \/ DeleteTokenCopies(r)
  <2>1. Call(r) \in Lookups
    BY <1>3 DEF GetCopy, FindRow, Reap, ReapCopies, DeleteKey, DeleteRow, DeleteTokenCopies, LookupAt
  <2>2. req[r].kind \in Kinds
    BY <2>1, TokenCalls
  <2>3. req' = End(r) \/ req' = Return(r) \/ \E place \in Places : req' = Step(r, place)
    BY <1>3 DEF GetCopy, FindRow, Reap, ReapCopies, DeleteKey, DeleteRow, DeleteTokenCopies, Places
  <2> QED BY <2>1, <2>2, <2>3, DoneMoves
<1> QED BY <1>1, <1>2, <1>3 DEF TokenStep

\* What any step leaves of the pairs that are the last of their grants, but for the
\* steps that make a pair or delete a row.
LEMMA GrantSteps ==
    ASSUME TInv, [Next]_vars
    PROVE  \/ \E r \in Requests : MakeToken(r)
           \/ \E r \in Requests : Reap(r) \/ DeleteRow(r) \/ PurgeRows(r)
           \/ newest' = newest /\ rows' = rows /\ lost' = lost
<1>1. ASSUME NEW r \in Requests, SessionStep(r)
      PROVE  newest' = newest /\ rows' = rows /\ lost' = lost
  BY <1>1, StoresAre, CalmIs DEF SessionStep, TouchRead, TouchWrite, FindSession, Unlist,
      DropSession, OpenSession, ListSession, FindSessions, DropSessions, DropSet, Tries, Fails
<1>2. ASSUME NEW r \in Requests, UserStep(r)
      PROVE  newest' = newest /\ rows' = rows /\ lost' = lost
  BY <1>2, StoresAre, CalmIs DEF UserStep, Authenticate, Schedule, CheckLink, OfferLink, Consume,
      FindGoogle, CreateGoogle, CheckIdentity, LoadAccount, SaveLink, Fails
<1>3. ASSUME NEW r \in Requests, GetCopy(r) \/ FindRow(r) \/ FindTokens(r)
      PROVE  newest' = newest /\ rows' = rows /\ lost' = lost
  BY <1>3, StoresAre, CalmIs DEF GetCopy, FindRow, FindTokens
<1>4. ASSUME NEW r \in Requests, NEW k, CopyKey(r, k)
      PROVE  newest' = newest /\ rows' = rows /\ lost' = lost
  BY <1>4, StoresAre DEF CopyKey, SetCopy, Fails
<1>5. ASSUME NEW r \in Requests, NEW T, ForgetCopies(r, T)
      PROVE  newest' = newest /\ rows' = rows /\ lost' = lost
  BY <1>5, StoresAre DEF ForgetCopies, DeleteCopies, Fails
<1>6. ASSUME NEW r \in Requests, DeleteKey(r)
      PROVE  newest' = newest /\ rows' = rows /\ lost' = lost
  BY <1>6, StoresAre, CalmIs DEF DeleteKey, Tries, DeleteCopies, Fails
<1>7. ASSUME NEW r \in Requests, TokenStep(r)
      PROVE  \/ MakeToken(r) \/ Reap(r) \/ DeleteRow(r) \/ PurgeRows(r)
             \/ newest' = newest /\ rows' = rows /\ lost' = lost
  BY <1>3, <1>4, <1>5, <1>6, <1>7
     DEF TokenStep, CopyFirst, CopyRefresh, ReapCopies, DeleteTokenCopies, PurgeCopies
<1>8. ASSUME NEW r \in Requests, Arrives(r)
      PROVE  newest' = newest /\ rows' = rows /\ lost' = lost
  BY <1>8, ArrivalMoves, StoresAre
<1>9. ASSUME TimePasses
      PROVE  newest' = newest /\ rows' = rows /\ lost' = lost
  BY <1>9, StoresAre DEF TimePasses, SessionExpires, StateExpires, ValueExpires, TimeComes,
      Expires, history
<1>10. ASSUME Crash \/ OfferLogin \/ (\E r \in Requests : Abort(r)) \/ (\E u \in Users : SignUp(u))
       PROVE  newest' = newest /\ rows' = rows /\ lost' = lost
  BY <1>10, StoresAre DEF Crash, OfferLogin, Abort, SignUp, Fails, history
<1>11. ASSUME UNCHANGED vars
       PROVE  newest' = newest /\ rows' = rows /\ lost' = lost
  BY <1>11, VarsAre, StoresAre
<1> QED BY <1>1, <1>2, <1>7, <1>8, <1>9, <1>10, <1>11 DEF Next

\* A refresh gets as far only by making its new pair.
LEMMA DoneSteps ==
    ASSUME TInv, [Next]_vars, \A r \in Requests : ~MakeToken(r)
    PROVE  \A r \in Requests : DoneKept(r)
<1>1. ASSUME NEW r \in Requests, req'[r] = req[r]
      PROVE  DoneKept(r)
  BY <1>1 DEF DoneKept
<1>2. ASSUME NEW r \in Requests, OthersStay(r), DoneKept(r)
      PROVE  \A o \in Requests : DoneKept(o)
  BY <1>1, <1>2 DEF OthersStay
<1>3. ASSUME NEW r \in Requests,
             Arrives(r) \/ SessionStep(r) \/ UserStep(r) \/ TokenStep(r) \/ Abort(r)
      PROVE  OthersStay(r) /\ DoneKept(r)
  <2>1. CASE Arrives(r)
    BY <2>1, ArrivalMoves DEF DoneKept, Done
  <2>2. CASE SessionStep(r)
    BY <2>2, SessionMoves DEF DoneKept, Done
  <2>3. CASE UserStep(r)
    BY <2>3, UserMoves DEF DoneKept, Done
  <2>4. CASE TokenStep(r)
    BY <2>4, TokenMoves
  <2>5. CASE Abort(r)
    BY <2>5, EndMoves DEF Abort, DoneKept, Done
  <2> QED BY <1>3, <2>1, <2>2, <2>3, <2>4, <2>5
<1>4. CASE Crash
  BY <1>4 DEF Crash, DoneKept, Done, Idle
<1>5. CASE (\E u \in Users : SignUp(u)) \/ OfferLogin \/ TimePasses \/ UNCHANGED vars
  <2>1. req' = req
    BY <1>5, VarsAre DEF SignUp, OfferLogin, TimePasses, SessionExpires, StateExpires,
       ValueExpires, Expires
  <2> QED BY <1>1, <2>1
<1> QED BY <1>2, <1>3, <1>4, <1>5 DEF Next

\* Which row a lookup may delete.
LEMMA LookupSpares ==
    ASSUME TInv, GrantInv, NEW r \in Requests, Call(r) \in Lookups, req[r].tok \in newest
    PROVE  Call(r) \in {"getAccess", "getRefresh"}
<1>1. req[r].kind \in TokenKinds /\ req[r].kind \in Kinds /\ RequestOK(req[r])
  BY TokenCalls, LookupHas
<1>2. Call(r) = Script[req[r].kind][req[r].pos] /\ req[r].pos \in DOMAIN Script[req[r].kind]
  BY <1>1, KindsAre DEF Call, RequestOK, TokenKinds
<1>3. Call(r) \notin {"getCode", "removeCode"}
  <2>1. ASSUME Call(r) \in {"getCode", "removeCode"}
        PROVE  FALSE
    <3>1. req[r].kind = "exchange"
      BY <1>1, <1>2, <2>1, Positions
    <3>2. req[r].tok \in Codes
      BY <1>1, <3>1 DEF RequestOK
    <3> QED BY <3>2, NoneOutside DEF TInv, HistoryOK
  <2> QED BY <2>1
<1>4. Call(r) \notin {"removeAccess", "removeRefresh"}
  <2>1. ASSUME Call(r) \in {"removeAccess", "removeRefresh"}
        PROVE  FALSE
    <3>1. req[r].kind = "refresh" /\ req[r].pos \in {3, 4}
      BY <1>1, <1>2, <2>1, Positions
    <3> QED BY <3>1 DEF GrantInv, Done
  <2> QED BY <2>1
<1> QED BY <1>3, <1>4 DEF Lookups, Value

LEMMA GrantAfterMaking ==
    ASSUME TInv, GrantInv, NEW r \in Requests, MakeToken(r)
    PROVE  GrantInv'
<1> DEFINE t == Some(NewTokens(r))
           u == req[r].user
           g == IF req[r].kind = "refresh" THEN token[req[r].tok].grant ELSE t
           q == [req[r] EXCEPT !.new = t, !.at = "copy"]
<1>1. /\ At(r, "create", "begin") /\ NewTokens(r) # {} /\ InsertRow(t, u, g)
      /\ newest' = {p \in newest : token[p].grant # g} \cup ({t} \cap Pairs)
      /\ req' = [req EXCEPT ![r] = q] /\ lost' = lost
  BY DEF MakeToken
<1>2. /\ u \in Users /\ req[r] \in Request
      /\ req[r].kind \in TokenKinds => req[r].tok \in Tokens /\ Made(req[r].tok)
  BY <1>1, TokenCalls DEF At
<1>3. t \in Tokens /\ ~Made(t)
  BY <1>1 DEF Some, NewTokens, Tokens
<1>4. req[r].kind = "refresh" => g = token[req[r].tok].grant
  OBVIOUS
<1> HIDE DEF t, u, g
<1>5. token' = [token EXCEPT ![t] = [user |-> u, grant |-> g]] /\ rows' = rows \cup {t} /\ expired' = expired
  BY <1>1 DEF InsertRow
<1>6. /\ token'[t].user = u /\ \A p \in Tokens : Made(p) => p # t /\ token'[p] = token[p]
  BY <1>3, <1>5 DEF TInv, TokenTypeOK
<1>7. newest \subseteq Tokens /\ \A p \in newest : Made(p)
  BY DEF TInv, HistoryOK, Tokens, GrantInv
<1>8. \A p \in newest' : p = t \/ (p \in newest /\ token[p].grant # g)
  BY <1>1
<1>9. \A p \in newest' : Made(p)'
  BY <1>2, <1>6, <1>7, <1>8, NoneOutside DEF Made
<1>10. GrantKept'
  <2>1. \A p \in newest : ExpiryReached(<<"refresh", p>>, expired) => ExpiryReached(<<"refresh", p>>, expired)'
    BY <1>5, <1>6, <1>7 DEF ExpiryReached
  <2> QED BY <1>1, <1>5, <1>8, <2>1 DEF GrantKept, GrantInv
<1>11. ASSUME NEW o \in Requests, Done(req'[o])
       PROVE  req'[o].tok \notin newest'
  <2>1. CASE o = r
    <3>1. req'[r] = q /\ q.kind = req[r].kind /\ q.tok = req[r].tok
      BY <1>1, <1>2 DEF TInv, RequestsOK, Request
    <3>2. req[r].kind = "refresh"
      BY <1>11, <2>1, <3>1 DEF Done
    <3>3. req[r].tok # t /\ token[req[r].tok].grant = g
      BY <1>2, <1>4, <1>6, <3>2 DEF TokenKinds
    <3> QED BY <1>8, <2>1, <3>1, <3>3
  <2>2. CASE o # r
    <3>1. req'[o] = req[o]
      BY <1>1, <2>2 DEF TInv, RequestsOK
    <3>2. req[o].tok \notin newest
      BY <1>11, <3>1 DEF GrantInv
    <3>3. req[o].tok \in Tokens /\ Made(req[o].tok)
      BY <1>11, <3>1 DEF Done, TInv, RequestsOK, RequestOK, TokenKinds, Tokens
    <3> QED BY <1>6, <1>8, <3>1, <3>2, <3>3
  <2> QED BY <2>1, <2>2
<1> QED BY <1>9, <1>10, <1>11 DEF GrantInv

LEMMA GrantStep ==
    ASSUME TInv, GrantInv, [Next]_vars
    PROVE  GrantInv'
<1>1. CASE \E r \in Requests : MakeToken(r)
  BY <1>1, GrantAfterMaking
<1>2. CASE \A r \in Requests : ~MakeToken(r)
  <2>1. newest \subseteq Tokens /\ \A p \in newest : Made(p)
    BY DEF TInv, HistoryOK, Tokens, GrantInv
  <2>2. expired \subseteq expired' /\ \A p \in Tokens : Made(p) => token'[p] = token[p]
    BY TokenSteps, StoresAre DEF InsertRow, DeleteRows, SetCopy, DeleteCopies, TimeComes, TInv, TokenTypeOK
  <2>3. \A p \in newest : /\ Made(p)'
                          /\ ExpiryReached(<<"refresh", p>>, expired) => ExpiryReached(<<"refresh", p>>, expired)'
    BY <2>1, <2>2 DEF Made, ExpiryReached
  <2>4. newest' = newest /\ GrantKept'
    <3>1. CASE newest' = newest /\ rows' = rows /\ lost' = lost
      BY <2>3, <3>1 DEF GrantInv, GrantKept
    <3>2. ASSUME NEW r \in Requests, Reap(r)
          PROVE  newest' = newest /\ GrantKept'
      <4>1. /\ LookupAt(r, "reap") /\ rows' = rows \ {req[r].tok} /\ newest' = newest
            /\ lost' = (IF Call(r) = "getAccess" THEN lost \cup {req[r].tok} ELSE lost)
        BY <3>2 DEF Reap, DeleteRows
      <4>2. req[r].tok \in newest /\ Call(r) # "getAccess" =>
                ExpiryReached(<<"refresh", req[r].tok>>, expired)
        <5>1. PlaceOK(r)
          BY DEF TInv, RequestsOK
        <5> QED BY <4>1, <5>1, LookupSpares DEF LookupAt, PlaceOK
      <4> QED BY <2>3, <4>1, <4>2 DEF GrantInv, GrantKept
    <3>3. ASSUME NEW r \in Requests, DeleteRow(r)
          PROVE  newest' = newest /\ GrantKept'
      <4>1. LookupAt(r, "deleteRow") /\ rows' = rows \ {req[r].tok} /\ newest' = newest /\ lost' = lost
        BY <3>3, CalmIs DEF DeleteRow, DeleteRows
      <4>2. req[r].tok \notin newest
        <5>1. PlaceOK(r)
          BY DEF TInv, RequestsOK
        <5> QED BY <4>1, <5>1, LookupSpares DEF LookupAt, PlaceOK, Removing
      <4> QED BY <2>3, <4>1, <4>2 DEF GrantInv, GrantKept
    <3>4. ASSUME NEW r \in Requests, PurgeRows(r)
          PROVE  newest' = newest /\ GrantKept'
      <4>1. /\ rows' = rows \ TokensOf(req[r].target) /\ newest' = newest
            /\ lost' = lost \cup TokensOf(req[r].target)
        BY <3>4 DEF PurgeRows, DeleteRows
      <4> QED BY <2>3, <4>1 DEF GrantInv, GrantKept
    <3> QED BY <1>2, <3>1, <3>2, <3>3, <3>4, GrantSteps
  <2>5. \A r \in Requests : Done(req'[r]) => req'[r].tok \notin newest
    BY <1>2, DoneSteps DEF DoneKept, GrantInv
  <2> QED BY <2>3, <2>4, <2>5 DEF GrantInv
<1> QED BY <1>1, <1>2

\* oauth.go:358: however refreshes, their failures and crashes interleave, the pair
\* made last of a grant has its row until the grant's time has come, the user is
\* purged, or its access value is used after that value's time (token_store.go:172):
\* the pair a refresh removes is never the one made last, since the refresh made one.
THEOREM LastPairKept == Spec => []GrantKept
<1>1. TInv /\ GrantInv /\ [Next]_vars => TInv' /\ GrantInv'
  BY TInvStep, GrantStep
<1>2. Init => TInv /\ GrantInv
  <2>1. Init => TInv
    BY TInvInit
  <2>2. Init => newest = {} /\ \A r \in Requests : req[r] = Idle
    BY DEF Init
  <2> QED BY <2>1, <2>2 DEF GrantInv, GrantKept, Done, Idle
<1>3. GrantInv => GrantKept
  BY DEF GrantInv
<1> QED BY <1>1, <1>2, <1>3, PTL DEF Spec

-----------------------------------------------------------------------------
(* Copies and rows *)

\* A step of one request keeps copies accounted for when it accounts for those it
\* sets, and for those that a row, the history or the request itself accounted for.
LEMMA Accounted ==
    ASSUME CopyHasRow, NEW r \in Requests, OthersStay(r),
           \A k \in copies' : k \in copies \/ k[2] \in rows' \cup stale',
           \A k \in copies' : k[2] \in rows \cup stale \cup Clearing(r)
                                 => k[2] \in rows' \cup stale' \cup Clearing(r)'
    PROVE  CopyHasRow'
<1> SUFFICES ASSUME NEW k \in copies'
             PROVE  k[2] \in rows' \cup stale' \/ \E o \in Requests : k[2] \in Clearing(o)'
  BY DEF CopyHasRow
<1>1. CASE k \in copies /\ k[2] \in rows \cup stale \cup Clearing(r)
  BY <1>1
<1>2. CASE k \in copies /\ k[2] \notin rows \cup stale \cup Clearing(r)
  <2>1. PICK o \in Requests : k[2] \in Clearing(o)
    BY <1>2 DEF CopyHasRow
  <2>2. Clearing(o)' = Clearing(o)
    BY <1>2, <2>1, ClearingStays DEF OthersStay
  <2> QED BY <2>1, <2>2
<1> QED BY <1>1, <1>2

\* A step that changes no row, copy or history, of a request that clears nothing.
LEMMA AccountedStill ==
    ASSUME CopyHasRow, NEW r \in Requests, OthersStay(r),
           req[r].at \notin {"reapCopies", "deleteCopies"},
           copies' \subseteq copies, rows \subseteq rows', stale' = stale
    PROVE  CopyHasRow'
<1>1. Clearing(r) = {}
  BY NotClearing
<1> QED BY <1>1, Accounted

\* What a request stands to clear within a lookup.
LEMMA LookupClears ==
    ASSUME NEW r \in Requests, Call(r) \in Lookups, req[r].at \in {"reapCopies", "deleteCopies"}
    PROVE  Clearing(r) = {req[r].tok}
<1>1. ~At(r, "purge", "deleteCopies")
  BY DEF At, Lookups, Value
<1>2. LookupAt(r, "reapCopies") \/ LookupAt(r, "deleteCopies")
  BY DEF LookupAt
<1> QED BY <1>1, <1>2 DEF Clearing

LEMMA PurgeClears ==
    ASSUME NEW r \in Requests, At(r, "purge", "deleteCopies")
    PROVE  Clearing(r) = req[r].found
<1>1. ~LookupAt(r, "reapCopies") /\ ~LookupAt(r, "deleteCopies")
  BY DEF At, LookupAt, Lookups, Value
<1> QED BY <1>1 DEF Clearing

LEMMA AccountedCopying ==
    ASSUME TInv, CopyHasRow, NEW r \in Requests, NEW k \in Keys, CopyKey(r, k), OthersStay(r),
           req[r].at \in {"copy", "copyRefresh"}
    PROVE  CopyHasRow'
<1>1. Clearing(r) = {}
  BY NotClearing
<1>2. rows' = rows /\ stale \subseteq stale'
      /\ \A c \in copies' : c \in copies \/ c[2] \in rows' \cup stale'
  <2>1. CASE SetCopy(k) /\ stale' = IF k \in copies' /\ k[2] \notin rows THEN stale \cup {k[2]} ELSE stale
    BY <2>1 DEF SetCopy
  <2>2. CASE UNCHANGED <<stores, stale>>
    BY <2>2, StoresAre
  <2> QED BY <2>1, <2>2 DEF CopyKey
<1> QED BY <1>1, <1>2, Accounted

\* The row of a token is deleted by a request that deletes its copies next.
LEMMA AccountedDeleting ==
    ASSUME TInv, CopyHasRow, NEW r \in Requests, Call(r) \in Lookups,
           NEW place \in {"reapCopies", "deleteCopies"}, req' = Step(r, place),
           req[r].at \notin {"reapCopies", "deleteCopies"},
           DeleteRows({req[r].tok}), stale' = stale
    PROVE  CopyHasRow'
<1>1. /\ OthersStay(r) /\ req'[r].kind = req[r].kind /\ req'[r].pos = req[r].pos
      /\ req'[r].tok = req[r].tok /\ req'[r].at = place
  BY StepMoves
<1>2. Call(r)' = Call(r)
  BY <1>1 DEF Call
<1>3. Clearing(r)' = {req[r].tok}
  <2>1. Call(r)' \in Lookups /\ req'[r].at \in {"reapCopies", "deleteCopies"}
    BY <1>1, <1>2
  <2>2. ~At(r, "purge", "deleteCopies")'
    BY <2>1 DEF At, Lookups, Value
  <2>3. LookupAt(r, "reapCopies")' \/ LookupAt(r, "deleteCopies")'
    BY <2>1 DEF LookupAt
  <2> QED BY <1>1, <2>2, <2>3 DEF Clearing
<1>4. Clearing(r) = {}
  BY NotClearing
<1>5. rows' = rows \ {req[r].tok} /\ copies' = copies
  BY DEF DeleteRows
<1> QED BY <1>1, <1>3, <1>4, <1>5, Accounted

\* Copies are deleted by the request that was to, or counted as left by a failure.
LEMMA AccountedForgetting ==
    ASSUME TInv, CopyHasRow, NEW r \in Requests, OthersStay(r),
           ForgetCopies(r, Clearing(r))
    PROVE  CopyHasRow'
<1>1. copies \subseteq Keys
  BY DEF TInv, TokenTypeOK
<1>2. CASE /\ DeleteCopies({k \in Keys : k[2] \in Clearing(r)})
           /\ stale' = stale \ Clearing(r)
  <2>1. rows' = rows /\ copies' = copies \ {k \in Keys : k[2] \in Clearing(r)}
    BY <1>2 DEF DeleteCopies
  <2>2. \A k \in copies' : k \in copies /\ k[2] \notin Clearing(r)
    BY <1>1, <2>1
  <2> QED BY <1>2, <2>1, <2>2, Accounted
<1>3. CASE stale' = stale \cup Clearing(r) /\ UNCHANGED stores
  <2>1. rows' = rows /\ copies' = copies
    BY <1>3, StoresAre
  <2> QED BY <1>3, <2>1, Accounted
<1> QED BY <1>2, <1>3 DEF ForgetCopies

LEMMA AccountedPurging ==
    ASSUME TInv, CopyHasRow, NEW r \in Requests, PurgeRows(r)
    PROVE  CopyHasRow'
<1> DEFINE T == TokensOf(req[r].target)
<1>1. /\ Call(r) = "purge" /\ req[r].at = "deleteRows" /\ DeleteRows(T)
      /\ stale' = stale \cup ((T \cap rows) \ req[r].found) /\ req' = Step(r, "deleteCopies")
  BY DEF PurgeRows, At
<1>2. /\ OthersStay(r) /\ req'[r].kind = req[r].kind /\ req'[r].pos = req[r].pos
      /\ req'[r].found = req[r].found /\ req'[r].at = "deleteCopies"
  BY <1>1, StepMoves
<1>3. Call(r)' = "purge"
  BY <1>1, <1>2 DEF Call
<1>4. Clearing(r)' = req[r].found
  <2>1. ~LookupAt(r, "reapCopies")' /\ ~LookupAt(r, "deleteCopies")' /\ At(r, "purge", "deleteCopies")'
    BY <1>2, <1>3 DEF At, LookupAt, Lookups, Value
  <2> QED BY <1>2, <2>1 DEF Clearing
<1>5. Clearing(r) = {}
  BY <1>1, NotClearing
<1>6. rows' = rows \ T /\ copies' = copies
  BY <1>1 DEF DeleteRows
<1> HIDE DEF T
<1> QED BY <1>1, <1>2, <1>4, <1>5, <1>6, Accounted

LEMMA AccountedTokenStep ==
    ASSUME TInv, CopyHasRow, NEW r \in Requests, TokenStep(r)
    PROVE  CopyHasRow'
<1>1. CASE MakeToken(r)
  <2>1. OthersStay(r)
    BY <1>1 DEF MakeToken, OthersStay, TInv, RequestsOK
  <2>2. req[r].at = "begin" /\ copies' = copies /\ rows \subseteq rows' /\ stale' = stale
    BY <1>1 DEF MakeToken, At, InsertRow
  <2> QED BY <2>1, <2>2, AccountedStill
<1>2. CASE ~MakeToken(r)
  <2>1. OthersStay(r)
    BY <1>2, TokenMoves
  <2>2. CASE CopyFirst(r)
    BY <2>1, <2>2, CopyingHas, AccountedCopying DEF CopyFirst
  <2>3. CASE CopyRefresh(r)
    BY <2>1, <2>3, CopyingHas, AccountedCopying DEF CopyRefresh
  <2>4. CASE GetCopy(r) \/ FindRow(r) \/ FindTokens(r)
    <3>1. req[r].at \notin {"reapCopies", "deleteCopies"}
      BY <2>4 DEF GetCopy, FindRow, FindTokens, LookupAt, At
    <3>2. copies' = copies /\ rows' = rows /\ stale' = stale
      BY <2>4, StoresAre, CalmIs DEF GetCopy, FindRow, FindTokens
    <3> QED BY <2>1, <3>1, <3>2, AccountedStill
  <2>5. CASE Reap(r)
    BY <2>5, AccountedDeleting DEF Reap, LookupAt
  <2>6. CASE DeleteRow(r)
    BY <2>6, AccountedDeleting, CalmIs DEF DeleteRow, LookupAt
  <2>7. CASE ReapCopies(r) \/ DeleteTokenCopies(r)
    <3>1. Clearing(r) = {req[r].tok}
      BY <2>7, LookupClears DEF ReapCopies, DeleteTokenCopies, LookupAt
    <3> QED BY <2>1, <2>7, <3>1, AccountedForgetting DEF ReapCopies, DeleteTokenCopies
  <2>8. CASE PurgeCopies(r)
    <3>1. Clearing(r) = req[r].found
      BY <2>8, PurgeClears DEF PurgeCopies
    <3> QED BY <2>1, <2>8, <3>1, AccountedForgetting DEF PurgeCopies
  <2>9. CASE DeleteKey(r)
    <3>1. req[r].at \notin {"reapCopies", "deleteCopies"}
      BY <2>9 DEF DeleteKey, LookupAt
    <3>2. copies' \subseteq copies /\ rows' = rows /\ stale' = stale
      BY <2>9, StoresAre, CalmIs DEF DeleteKey, Tries, DeleteCopies
    <3> QED BY <2>1, <3>1, <3>2, AccountedStill
  <2>10. CASE PurgeRows(r)
    BY <2>10, AccountedPurging
  <2> QED BY <1>2, <2>2, <2>3, <2>4, <2>5, <2>6, <2>7, <2>8, <2>9, <2>10 DEF TokenStep
<1> QED BY <1>1, <1>2

LEMMA AccountedStep ==
    ASSUME TInv, CopyHasRow, [Next]_vars
    PROVE  CopyHasRow'
<1>1. ASSUME NEW r \in Requests, SessionStep(r)
      PROVE  CopyHasRow'
  <2>1. copies' = copies /\ rows' = rows /\ stale' = stale
    BY <1>1, StoresAre, CalmIs DEF SessionStep, TouchRead, TouchWrite, FindSession, Unlist,
        DropSession, OpenSession, ListSession, FindSessions, DropSessions, DropSet, Tries
  <2> QED BY <1>1, <2>1, SessionMoves, AccountedStill
<1>2. ASSUME NEW r \in Requests, UserStep(r)
      PROVE  CopyHasRow'
  <2>1. copies' = copies /\ rows' = rows /\ stale' = stale
    BY <1>2, StoresAre, CalmIs DEF UserStep, Authenticate, Schedule, CheckLink, OfferLink, Consume,
        FindGoogle, CreateGoogle, CheckIdentity, LoadAccount, SaveLink
  <2> QED BY <1>2, <2>1, UserMoves, AccountedStill
<1>3. ASSUME NEW r \in Requests, Arrives(r)
      PROVE  CopyHasRow'
  BY <1>3, ArrivalMoves, StoresAre, AccountedStill
<1>4. ASSUME NEW r \in Requests, Abort(r)
      PROVE  CopyHasRow'
  <2>1. copies' = copies /\ rows' = rows /\ stale' = stale \cup Clearing(r)
    BY <1>4, StoresAre DEF Abort
  <2>2. OthersStay(r)
    BY <1>4, EndMoves DEF Abort
  <2> QED BY <2>1, <2>2, Accounted
<1>5. CASE Crash
  <2>1. copies' = copies /\ rows' = rows /\ stale' = stale \cup UNION {Clearing(r) : r \in Requests}
    BY <1>5, StoresAre DEF Crash
  <2> QED BY <2>1 DEF CopyHasRow
<1>6. CASE (\E u \in Users : SignUp(u)) \/ OfferLogin \/ TimePasses \/ UNCHANGED vars
  <2>1. req' = req /\ rows' = rows /\ copies' \subseteq copies /\ stale' = stale
    BY <1>6, VarsAre, StoresAre DEF SignUp, OfferLogin, TimePasses, SessionExpires, StateExpires,
       ValueExpires, TimeComes, Expires, history
  <2>2. \A o \in Requests : Clearing(o)' = Clearing(o)
    BY <2>1, ClearingStays
  <2> QED BY <2>1, <2>2 DEF CopyHasRow
<1> QED BY <1>1, <1>2, <1>3, <1>4, <1>5, <1>6, AccountedTokenStep DEF Next

\* token_store.go:145, :482: a copy outlives its row only while a request is about to
\* delete it, when a failure kept it, when the lookup that made it had read the row
\* before, or when a purge deleted the row without having found it.
THEOREM CopiesAccountedFor == Spec => []CopyHasRow
<1>1. TInv /\ CopyHasRow /\ [Next]_vars => TInv' /\ CopyHasRow'
  BY TInvStep, AccountedStep
<1>2. Init => TInv /\ CopyHasRow
  BY TInvInit DEF Init, TokenInit, CopyHasRow
<1> QED BY <1>1, <1>2, PTL DEF Spec

=============================================================================
