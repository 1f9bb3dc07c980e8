------------------------- MODULE AccountsQuietProofs -------------------------
(***************************************************************************)
(* Proofs of what Accounts promises to users for whom nothing goes wrong and *)
(* nothing is done in parallel: one usable pair of each grant, an identity   *)
(* once linked kept, and nothing left by a deletion; for any number of       *)
(* users, requests and values.                                              *)
(***************************************************************************)
EXTENDS AccountsProofs

-----------------------------------------------------------------------------
(* The invariant *)

Acts(r, u) == u \in ActsFor(req[r])
Alone(u) == \A r, o \in Requests : Acts(r, u) /\ Acts(o, u) => r = o

SessionsOf(u) == {s \in alive : session[s].user = u}
RowsOf(u) == rows \cap TokensOf(u)

\* A deletion that is past the step that deletes the user's row.
Deleting(r, u) ==
    req[r].kind \in {"deleteMe", "deleteUser"} /\ req[r].target = u /\ req[r].pos >= 3

\* A request that is about to list the session s, or to delete its key.
Holds(r, s) ==
    /\ req[r].cookie = s
    /\ \/ At(r, "openSession", "list") /\ req[r].user = session[s].user
       \/ At(r, "endSession", "delete")

\* A refresh that has made its new pair and is to remove the old one.
Replaces(r, p, q) == Done(req[r]) /\ {p, q} = {req[r].tok, req[r].new}

\* What the stores keep of a user.
SessionsListed(u) == \A s \in SessionsOf(u) : s \in listed[u] \/ \E r \in Requests : Holds(r, s)
SessionsGone(u) ==
    user[u].row = "deleted" =>
        \/ listed[u] = {} /\ SessionsOf(u) = {}
        \/ \E r \in Requests : Deleting(r, u) /\ req[r].pos = 3
RowsGone(u) ==
    user[u].row = "deleted" => RowsOf(u) = {} \/ \E r \in Requests : Deleting(r, u)
NoneStale(u) == stale \cap TokensOf(u) = {}
OnePair(u) ==
    \A p, q \in RowsOf(u) \cap Pairs :
        token[p].grant = token[q].grant /\ p # q => \E r \in Requests : Replaces(r, p, q)

Kept(u) == SessionsListed(u) /\ SessionsGone(u) /\ RowsGone(u) /\ NoneStale(u) /\ OnePair(u)

\* What a request for a user knows when it has come to a call.
KnowsCall(r, u) ==
    /\ req[r].kind \in {"login", "googleLogin"} /\ req[r].pos >= 2 /\ req[r].user = u => Found(u)
    /\ req[r].kind \in {"authorize", "exchange", "refresh"} /\ req[r].pos >= 2 /\ req[r].user = u =>
          user[u].row # "deleted"
    /\ req[r].kind = "refresh" /\ req[r].at = "begin" /\ req[r].user = u =>
          /\ req[r].pos = 2 => req[r].tok \in rows
          /\ req[r].pos = 4 => \A k \in copies : k[2] # req[r].tok
    /\ req[r].kind = "googleLink" /\ req[r].pos = 4 /\ req[r].target = u => CanLink(u)

\* What it knows within a call.
KnowsPlace(r, u) ==
    /\ At(r, "touch", "set") /\ session[req[r].cookie].user = u => req[r].cookie \in listed[u]
    /\ At(r, "endSessions", "deleteKeys") /\ req[r].target = u => SessionsOf(u) \subseteq req[r].members
    /\ At(r, "endSessions", "deleteSet") /\ req[r].target = u => SessionsOf(u) = {}
    /\ req[r].at \in {"copy", "copyRefresh"} /\ req[r].user = u => Copying(r) \in rows
    /\ At(r, "purge", "deleteRows") /\ req[r].target = u => RowsOf(u) \subseteq req[r].found
    /\ At(r, "purge", "deleteCopies") /\ req[r].target = u => RowsOf(u) = {}
    /\ req[r].kind = "refresh" /\ req[r].pos >= 3 /\ req[r].user = u =>
          /\ req[r].at \in {"deleteKey", "reapCopies"} => req[r].tok \notin rows
          /\ req[r].at = "deleteCopies" /\ req[r].pos = 4 => req[r].tok \notin rows

Knows(r, u) == KnowsCall(r, u) /\ KnowsPlace(r, u)

QuietInv(u) == Alone(u) /\ Kept(u) /\ \A r \in Requests : Knows(r, u)

\* Whose tokens a request works on.
OwnTokensOnly(r) ==
    /\ req[r].at \in {"copy", "copyRefresh"} => token[Copying(r)].user = req[r].user
    /\ At(r, "purge", "deleteRows") \/ At(r, "purge", "deleteCopies") =>
          req[r].found \subseteq TokensOf(req[r].target)
    /\ LookupAt(r, "deleteCopies") => Removing(r)

\* Whose token a grant began with.
GrantsOwned ==
    \A t \in Tokens : Made(t) => Made(token[t].grant) /\ token[token[t].grant].user = token[t].user

OwnersOK ==
    /\ \A r \in Requests : OwnTokensOnly(r)
    /\ GrantsOwned
    /\ \A t \in stale : Made(t)

QInv ==
    /\ TInv /\ CopyHasRow /\ OwnersOK
    /\ \A u \in Users \ disturbed : QuietInv(u)

-----------------------------------------------------------------------------
(* Who acts for whom *)

LEMMA IdleActs == ActsFor(Idle) = {}
BY NoneOutside DEF ActsFor, Idle

\* What a request holds acts for the user it holds it of.
LEMMA HolderActs ==
    ASSUME TInv, NEW r \in Requests, NEW u \in Users
    PROVE  /\ req[r].user = u \/ req[r].target = u => Acts(r, u)
           /\ \A s \in Sessions : req[r].cookie = s /\ session[s].user = u => Acts(r, u)
           /\ At(r, "touch", "set") /\ session[req[r].cookie].user = u => Acts(r, u)
           /\ req[r].kind \in TokenKinds /\ token[req[r].tok].user = u => Acts(r, u)
           /\ Deleting(r, u) => Acts(r, u)
<1>1. req[r].user = u \/ req[r].target = u => Acts(r, u)
  BY DEF Acts, ActsFor
<1>2. \A s \in Sessions : req[r].cookie = s /\ session[s].user = u => Acts(r, u)
  BY NoneOutside DEF Acts, ActsFor
<1>3. RequestOK(req[r])
  BY DEF TInv, RequestsOK
<1>4. At(r, "touch", "set") => req[r].cookie \in Sessions
  BY <1>3 DEF RequestOK, At
<1>5. req[r].kind \in TokenKinds => req[r].user = token[req[r].tok].user
  BY <1>3 DEF RequestOK
<1> QED BY <1>1, <1>2, <1>4, <1>5 DEF Deleting

\* Sessions keep their users, tokens their users and grants.
Lasting ==
    /\ \A s \in Sessions : Opened(s) => session'[s] = session[s]
    /\ \A t \in Tokens : Made(t) => token'[t] = token[t]

\* The users of a request are those of what it is for.
LEMMA ActsStay ==
    ASSUME TInv, Lasting, NEW r \in Requests, NEW u \in Users,
           req'[r].user = req[r].user, req'[r].target = req[r].target,
           req'[r].cookie = req[r].cookie
    PROVE  Acts(r, u)' <=> Acts(r, u)
<1>1. req[r].cookie # NoSession => req[r].cookie \in Sessions /\ Opened(req[r].cookie)
  BY DEF TInv, RequestsOK, RequestOK, Request
<1>2. req[r].cookie # NoSession => session'[req[r].cookie] = session[req[r].cookie]
  BY <1>1 DEF Lasting
<1> QED BY <1>2 DEF Acts, ActsFor

\* A request that does not act for a user knows nothing of the user.
LEMMA StrangerKnows ==
    ASSUME TInv', NEW r \in Requests, NEW u \in Users, ~Acts(r, u)'
    PROVE  Knows(r, u)'
<1>1. req'[r].user # u /\ req'[r].target # u
  BY DEF Acts, ActsFor
<1>2. req'[r].cookie # NoSession => session'[req'[r].cookie].user # u
  BY DEF Acts, ActsFor
<1>3. At(r, "touch", "set")' => req'[r].cookie # NoSession
  BY NoneOutside DEF TInv, RequestsOK, RequestOK, At
<1> QED BY <1>1, <1>2, <1>3 DEF Knows, KnowsCall, KnowsPlace

\* One that is at the beginning of its first call knows nothing yet, and so does one
\* that is none.
LEMMA BeginnerKnows ==
    ASSUME NEW r \in Requests, NEW u \in Users, req'[r].pos = 1, req'[r].at = "begin"
    PROVE  Knows(r, u)'
BY DEF Knows, KnowsCall, KnowsPlace, At

LEMMA IdleKnows ==
    ASSUME NEW r \in Requests, NEW u \in Users, req'[r] = Idle
    PROVE  Knows(r, u)'
BY DEF Knows, KnowsCall, KnowsPlace, At, Idle

-----------------------------------------------------------------------------
(* How requests move *)

LEMMA EndsIdle ==
    ASSUME TInv, NEW r \in Requests, req' = End(r)
    PROVE  OthersStay(r) /\ req'[r] = Idle
BY DEF TInv, RequestsOK, End, OthersStay

LEMMA StepsTo ==
    ASSUME TInv, NEW r \in Requests, NEW place, req' = Step(r, place)
    PROVE  /\ OthersStay(r) /\ req'[r].at = place /\ Call(r)' = Call(r)
           /\ req'[r].kind = req[r].kind /\ req'[r].pos = req[r].pos
           /\ req'[r].user = req[r].user /\ req'[r].target = req[r].target
           /\ req'[r].cookie = req[r].cookie /\ req'[r].tok = req[r].tok
           /\ req'[r].new = req[r].new /\ req'[r].found = req[r].found
           /\ req'[r].members = req[r].members
<1> DEFINE q == [req[r] EXCEPT !.at = place]
<1>1. req' = [req EXCEPT ![r] = q] /\ req \in [Requests -> Request] /\ req[r] \in Request
  BY DEF Step, TInv, RequestsOK
<1>2. OthersStay(r) /\ req'[r] = q
  BY <1>1 DEF OthersStay
<1>3. /\ q.at = place /\ q.kind = req[r].kind /\ q.pos = req[r].pos
      /\ q.user = req[r].user /\ q.target = req[r].target
      /\ q.cookie = req[r].cookie /\ q.tok = req[r].tok
      /\ q.new = req[r].new /\ q.found = req[r].found /\ q.members = req[r].members
  BY <1>1 DEF Request
<1> QED BY <1>2, <1>3 DEF Call

LEMMA ReturnsTo ==
    ASSUME TInv, NEW r \in Requests, req' = Return(r)
    PROVE  /\ OthersStay(r)
           /\ \/ req'[r] = Idle /\ req[r].pos = Len(Script[req[r].kind])
              \/ /\ req'[r].at = "begin" /\ req[r].pos # Len(Script[req[r].kind])
                 /\ req'[r].kind = req[r].kind /\ req'[r].pos = req[r].pos + 1
                 /\ req'[r].user = req[r].user /\ req'[r].target = req[r].target
                 /\ req'[r].cookie = req[r].cookie /\ req'[r].tok = req[r].tok
                 /\ req'[r].new = req[r].new
<1>1. CASE req[r].pos = Len(Script[req[r].kind])
  BY <1>1, EndsIdle DEF Return
<1>2. CASE req[r].pos # Len(Script[req[r].kind])
  <2> DEFINE q == [req[r] EXCEPT !.pos = @ + 1, !.at = "begin"]
  <2>1. req' = [req EXCEPT ![r] = q] /\ req \in [Requests -> Request] /\ req[r] \in Request
    BY <1>2 DEF Return, TInv, RequestsOK
  <2>2. OthersStay(r) /\ req'[r] = q
    BY <2>1 DEF OthersStay
  <2>3. /\ q.at = "begin" /\ q.kind = req[r].kind /\ q.pos = req[r].pos + 1
        /\ q.user = req[r].user /\ q.target = req[r].target
        /\ q.cookie = req[r].cookie /\ q.tok = req[r].tok /\ q.new = req[r].new
    BY <2>1 DEF Request
  <2> QED BY <1>2, <2>2, <2>3
<1> QED BY <1>1, <1>2

-----------------------------------------------------------------------------
(* Steps that leave what is kept of a user *)

\* A step that adds nothing to what the tables and sets keep of a user, and takes
\* away no row, no place in the set of sessions and no account.
SameBut(u) ==
    /\ user'[u].row = "deleted" <=> user[u].row = "deleted"
    /\ (Found(u) => Found(u)') /\ (CanLink(u) => CanLink(u)')
    /\ listed'[u] = listed[u]
    /\ SessionsOf(u)' \subseteq SessionsOf(u)
    /\ TokensOf(u)' = TokensOf(u)
    /\ RowsOf(u)' = RowsOf(u)
    /\ stale' \cap TokensOf(u) \subseteq stale

\* Nor adds a copy.
Same(u) == SameBut(u) /\ \A k \in copies' : k[2] \in TokensOf(u) => k \in copies

\* A request goes on being what it is in Kept(u).
Serves(o, u) ==
    /\ \A s \in SessionsOf(u) : Holds(o, s) /\ s \in alive' => Holds(o, s)'
    /\ Deleting(o, u) => Deleting(o, u)'
    /\ Deleting(o, u) /\ req[o].pos = 3 => req'[o].pos = 3
    /\ \A p, q \in RowsOf(u) : Replaces(o, p, q) => Replaces(o, p, q)'

LEMMA ServesStill ==
    ASSUME TInv, Lasting, NEW o \in Requests, NEW u \in Users, req'[o] = req[o]
    PROVE  Serves(o, u)
<1>1. Call(o)' = Call(o)
  BY DEF Call
<1>2. \A s \in SessionsOf(u) : Opened(s) /\ s \in Sessions
  BY NoneOutside DEF SessionsOf, Opened, TInv, SessionTypeOK
<1>3. \A s \in SessionsOf(u) : session'[s] = session[s]
  BY <1>2 DEF Lasting
<1> QED BY <1>1, <1>3 DEF Serves, Holds, Deleting, Replaces, At

LEMMA ServesNot ==
    ASSUME TInv, NEW o \in Requests, NEW u \in Users, ~Acts(o, u)
    PROVE  Serves(o, u)
<1>1. \A s \in SessionsOf(u) : ~Holds(o, s)
  BY HolderActs DEF SessionsOf, Holds, TInv, SessionTypeOK
<1>2. ~Deleting(o, u)
  BY HolderActs
<1>3. ASSUME NEW p \in RowsOf(u), NEW q \in RowsOf(u), Replaces(o, p, q)
      PROVE  FALSE
  <2>1. token[req[o].tok].user = u /\ req[o].kind \in TokenKinds
    BY <1>3 DEF Replaces, Done, RowsOf, TokensOf, TokenKinds
  <2> QED BY <2>1, HolderActs
<1> QED BY <1>1, <1>2, <1>3 DEF Serves

LEMMA FirstCalls ==
    ASSUME NEW k \in Kinds
    PROVE  Script[k][1] \notin {"endSession", "openSession"}
BY KindsAre DEF Script

LEMMA ServesBeginner ==
    ASSUME TInv, NEW o \in Requests, NEW u \in Users, req[o].pos <= 1
    PROVE  Serves(o, u)
<1>1. req[o].pos \in 0..5
  BY DEF TInv, RequestsOK, Request
<1>2. \A s : ~Holds(o, s)
  <2>1. ASSUME Call(o) \in {"endSession", "openSession"}
        PROVE  FALSE
    <3>1. /\ req[o].kind \in Kinds /\ req[o].pos \in DOMAIN Script[req[o].kind]
          /\ Call(o) = Script[req[o].kind][req[o].pos]
      BY <2>1, InCall
    <3>2. req[o].pos = 1
      BY <1>1, <3>1, Positions
    <3> QED BY <2>1, <3>1, <3>2, FirstCalls
  <2> QED BY <2>1 DEF Holds, At
<1>3. ~Deleting(o, u) /\ ~Done(req[o])
  BY <1>1 DEF Deleting, Done
<1> QED BY <1>2, <1>3 DEF Serves, Replaces

LEMMA KeptStays ==
    ASSUME TInv, Lasting, NEW u \in Users, SameBut(u), Kept(u), \A o \in Requests : Serves(o, u)
    PROVE  Kept(u)'
<1>1. \A s \in SessionsOf(u) : s \in Sessions
  BY DEF SessionsOf, TInv, SessionTypeOK
<1>2. SessionsListed(u)'
  <2> SUFFICES ASSUME NEW s \in SessionsOf(u)'
               PROVE  s \in listed'[u] \/ \E r \in Requests : Holds(r, s)'
    BY DEF SessionsListed
  <2>1. s \in SessionsOf(u) /\ s \in alive' /\ listed'[u] = listed[u]
    BY DEF SameBut, SessionsOf
  <2> QED BY <2>1 DEF Kept, SessionsListed, Serves
<1>3. SessionsGone(u)'
  BY DEF Kept, SessionsGone, SameBut, Serves
<1>4. RowsGone(u)'
  BY DEF Kept, RowsGone, SameBut, Serves
<1>5. NoneStale(u)'
  BY DEF Kept, NoneStale, SameBut
<1>6. OnePair(u)'
  <2>1. \A p \in RowsOf(u) : token'[p] = token[p]
    BY NoneOutside DEF RowsOf, TokensOf, Lasting, Made
  <2> SUFFICES ASSUME NEW p \in RowsOf(u)' \cap Pairs, NEW q \in RowsOf(u)' \cap Pairs,
                      token'[p].grant = token'[q].grant, p # q
               PROVE  \E r \in Requests : Replaces(r, p, q)'
    BY DEF OnePair
  <2>2. p \in RowsOf(u) \cap Pairs /\ q \in RowsOf(u) \cap Pairs /\ token[p].grant = token[q].grant
    BY <2>1 DEF SameBut
  <2> QED BY <2>2 DEF Kept, OnePair, Serves
<1> QED BY <1>2, <1>3, <1>4, <1>5, <1>6 DEF Kept

\* What the request reads of tokens is of its user's.
LEMMA OwnTokens ==
    ASSUME TInv, OwnersOK, NEW r \in Requests, NEW u \in Users, req[r].user = u
    PROVE  /\ req[r].kind \in TokenKinds => req[r].tok \in TokensOf(u)
           /\ req[r].at \in {"copy", "copyRefresh"} => Copying(r) \in TokensOf(u)
<1>1. RequestOK(req[r])
  BY DEF TInv, RequestsOK
<1>2. req[r].kind \in TokenKinds => req[r].tok \in TokensOf(u)
  BY <1>1 DEF RequestOK, TokensOf, Tokens
<1>3. req[r].at \in {"copy", "copyRefresh"} => Copying(r) \in TokensOf(u)
  BY CopyingHas DEF OwnersOK, OwnTokensOnly, TokensOf
<1> QED BY <1>2, <1>3

LEMMA KnowsCallStill ==
    ASSUME TInv, OwnersOK, NEW r \in Requests, NEW u \in Users, Same(u), KnowsCall(r, u),
           req'[r].kind = req[r].kind, req'[r].pos = req[r].pos, req'[r].user = req[r].user,
           req'[r].target = req[r].target, req'[r].tok = req[r].tok,
           req'[r].at \in {req[r].at} \/ req'[r].at # "begin"
    PROVE  KnowsCall(r, u)'
<1>1. req[r].kind = "refresh" /\ req[r].user = u => req[r].tok \in TokensOf(u)
  BY OwnTokens DEF TokenKinds
<1> QED BY <1>1 DEF KnowsCall, Same, SameBut, RowsOf

LEMMA KnowsStill ==
    ASSUME TInv, Lasting, OwnersOK, NEW r \in Requests, NEW u \in Users, Same(u), Knows(r, u),
           req'[r] = req[r]
    PROVE  Knows(r, u)'
<1>1. KnowsCall(r, u)'
  BY KnowsCallStill DEF Knows
<1>2. Call(r)' = Call(r) /\ Copying(r)' = Copying(r)
  BY DEF Call, Copying
<1>3. At(r, "touch", "set") =>
          req[r].cookie \in Sessions /\ session'[req[r].cookie] = session[req[r].cookie]
  BY NoneOutside DEF TInv, RequestsOK, RequestOK, At, Lasting
<1>4. /\ req[r].kind = "refresh" /\ req[r].user = u => req[r].tok \in TokensOf(u)
      /\ req[r].at \in {"copy", "copyRefresh"} /\ req[r].user = u => Copying(r) \in TokensOf(u)
  BY OwnTokens DEF TokenKinds
<1>5. KnowsPlace(r, u)
  BY DEF Knows
<1>6. KnowsPlace(r, u)'
  BY <1>2, <1>3, <1>4, <1>5 DEF KnowsPlace, At, Same, SameBut, RowsOf
<1> QED BY <1>1, <1>6 DEF Knows

LEMMA AloneStays ==
    ASSUME NEW u \in Users, Alone(u), \A o \in Requests : Acts(o, u)' => Acts(o, u)
    PROVE  Alone(u)'
BY DEF Alone

\* A step of a request that keeps its part, and knows what it has to.
LEMMA Quietly ==
    ASSUME TInv, Lasting, OwnersOK, NEW u \in Users, QuietInv(u), Same(u),
           NEW r \in Requests, OthersStay(r), Serves(r, u), Knows(r, u)', Alone(u)'
    PROVE  QuietInv(u)'
<1>1. \A o \in Requests \ {r} : req'[o] = req[o]
  BY DEF OthersStay
<1>2. \A o \in Requests : Serves(o, u) /\ Knows(o, u)'
  BY <1>1, ServesStill, KnowsStill DEF QuietInv
<1> QED BY <1>2, KeptStays DEF QuietInv, Same

\* A step of no request.
LEMMA QuietlyStill ==
    ASSUME TInv, Lasting, OwnersOK, NEW u \in Users, QuietInv(u), Same(u), req' = req
    PROVE  QuietInv(u)'
<1>1. \A o \in Requests : Serves(o, u) /\ Knows(o, u)' /\ (Acts(o, u)' <=> Acts(o, u))
  BY ServesStill, KnowsStill, ActsStay DEF QuietInv
<1> QED BY <1>1, KeptStays, AloneStays DEF QuietInv, Same

-----------------------------------------------------------------------------
(* Steps for somebody else *)

LEMMA SessionSteps ==
    ASSUME TInv, [Next]_vars
    PROVE  session' = session \/ \E r \in Requests : OpenSession(r)
<1>1. ASSUME NEW r \in Requests, SessionStep(r)
      PROVE  session' = session \/ OpenSession(r)
  BY <1>1, StoresAre DEF SessionStep, TouchRead, TouchWrite, FindSession, Unlist, DropSession,
              ListSession, FindSessions, DropSessions, DropSet, Tries,
              SetKey, RemoveMember, DeleteKeys, AddMember, DeleteSet
<1>2. ASSUME NEW r \in Requests, Arrives(r) \/ UserStep(r)
      PROVE  session' = session
  BY <1>2, ArrivalMoves, StoresAre DEF UserStep, Authenticate, Schedule, CheckLink, OfferLink, Consume,
              FindGoogle, CreateGoogle, CheckIdentity, LoadAccount, SaveLink
<1>3. ASSUME NEW r \in Requests, TokenStep(r)
      PROVE  session' = session
  BY <1>3, StoresAre DEF TokenStep, MakeToken, CopyFirst, CopyRefresh, CopyKey, GetCopy, FindRow,
              Reap, ReapCopies, ForgetCopies, DeleteKey, Tries, DeleteRow, DeleteTokenCopies,
              FindTokens, PurgeRows, PurgeCopies
<1>4. ASSUME TimePasses
      PROVE  session' = session
  BY <1>4, StoresAre DEF TimePasses, SessionExpires, StateExpires, ValueExpires, DeleteKeys
<1>5. ASSUME Crash \/ OfferLogin \/ (\E r \in Requests : Abort(r)) \/ (\E u \in Users : SignUp(u))
      PROVE  session' = session
  BY <1>5, StoresAre DEF Crash, OfferLogin, Abort, SignUp
<1>6. ASSUME UNCHANGED vars
      PROVE  session' = session
  BY <1>6, VarsAre, StoresAre
<1> QED BY <1>1, <1>2, <1>3, <1>4, <1>5, <1>6 DEF Next

LEMMA LastingStep ==
    ASSUME TInv, [Next]_vars
    PROVE  Lasting
<1>1. \A t \in Tokens : Made(t) => token'[t] = token[t]
  BY TokenSteps, StoresAre DEF InsertRow, DeleteRows, SetCopy, DeleteCopies, TimeComes, TInv, TokenTypeOK
<1>2. ASSUME NEW r \in Requests, OpenSession(r)
      PROVE  \A s \in Sessions : Opened(s) => session'[s] = session[s]
  <2> DEFINE s == Some(NewSessions)
             u == req[r].user
  <2>1. NewSessions # {} /\ NewKey(s, u, user[u].admin)
    BY <1>2 DEF OpenSession
  <2>2. ~Opened(s)
    BY <2>1 DEF Some, NewSessions
  <2> HIDE DEF s
  <2> QED BY <2>1, <2>2 DEF NewKey, TInv, SessionTypeOK
<1>3. \A s \in Sessions : Opened(s) => session'[s] = session[s]
  BY <1>2, SessionSteps
<1> QED BY <1>1, <1>3 DEF Lasting

\* Same(u), of a step that changes only users, only sessions or only tokens.
LEMMA SameUsers ==
    ASSUME NEW u \in Users, UNCHANGED stores, stale' = stale,
           user'[u].row = "deleted" <=> user[u].row = "deleted", Found(u) => Found(u)',
           CanLink(u) => CanLink(u)'
    PROVE  Same(u)
<1>1. UNCHANGED sessionVars /\ UNCHANGED tokenVars
  BY StoresAre
<1> QED BY <1>1, StoresAre DEF Same, SameBut, SessionsOf, TokensOf, RowsOf

LEMMA SameSessions ==
    ASSUME NEW u \in Users, UNCHANGED tokenVars, user' = user, stale' = stale,
           listed'[u] = listed[u], SessionsOf(u)' \subseteq SessionsOf(u)
    PROVE  Same(u)
BY StoresAre DEF Same, SameBut, Found, CanLink, TokensOf, RowsOf

LEMMA SameTokens ==
    ASSUME NEW u \in Users, UNCHANGED sessionVars, user' = user,
           TokensOf(u)' = TokensOf(u), RowsOf(u)' = RowsOf(u),
           \A k \in copies' : k[2] \in TokensOf(u) => k \in copies,
           stale' \cap TokensOf(u) \subseteq stale
    PROVE  Same(u)
BY StoresAre DEF Same, SameBut, Found, CanLink, SessionsOf

LEMMA SameAll ==
    ASSUME NEW u \in Users, UNCHANGED <<user, stores>>, stale' \cap TokensOf(u) \subseteq stale
    PROVE  Same(u)
<1>1. UNCHANGED sessionVars /\ UNCHANGED tokenVars
  BY StoresAre
<1> QED BY <1>1, StoresAre, SameTokens DEF TokensOf, RowsOf

\* A step of a request for somebody else, before and after it.
LEMMA Strangely ==
    ASSUME TInv, TInv', Lasting, OwnersOK, NEW u \in Users, QuietInv(u), Same(u),
           NEW r \in Requests, OthersStay(r), ~Acts(r, u), ~Acts(r, u)'
    PROVE  QuietInv(u)'
<1>1. \A o \in Requests : Acts(o, u)' => Acts(o, u)
  BY ActsStay DEF OthersStay
<1>2. Alone(u)'
  BY <1>1, AloneStays DEF QuietInv
<1> QED BY <1>2, ServesNot, StrangerKnows, Quietly

\* A failure disturbs everybody whom the request acts for.
LEMMA FailsForOthers ==
    ASSUME NEW r \in Requests, NEW u \in Users \ disturbed', Fails(r)
    PROVE  ~Acts(r, u)
BY DEF Fails, Acts

\* No step makes somebody undisturbed.
LEMMA DisturbedGrows ==
    ASSUME TInv, [Next]_vars
    PROVE  disturbed \subseteq disturbed'
<1>1. ASSUME NEW r \in Requests, SessionStep(r)
      PROVE  disturbed \subseteq disturbed'
  BY <1>1, CalmIs DEF SessionStep, TouchRead, TouchWrite, FindSession, Unlist, DropSession, OpenSession,
              ListSession, FindSessions, DropSessions, DropSet, Tries, Fails
<1>2. ASSUME NEW r \in Requests, UserStep(r)
      PROVE  disturbed \subseteq disturbed'
  BY <1>2, CalmIs DEF UserStep, Authenticate, Schedule, CheckLink, OfferLink, Consume,
              FindGoogle, CreateGoogle, CheckIdentity, LoadAccount, SaveLink, Fails
<1>3. ASSUME NEW r \in Requests, TokenStep(r)
      PROVE  disturbed \subseteq disturbed'
  BY <1>3, CalmIs DEF TokenStep, MakeToken, CopyFirst, CopyRefresh, CopyKey, GetCopy, FindRow,
              Reap, ReapCopies, ForgetCopies, DeleteKey, Tries, DeleteRow, DeleteTokenCopies,
              FindTokens, PurgeRows, PurgeCopies, Fails
<1>4. ASSUME NEW r \in Requests, Arrives(r)
      PROVE  disturbed \subseteq disturbed'
  BY <1>4 DEF Arrives, StartBySession, StartDeleteUser, StartLogin, StartCallback, StartByToken, Start
<1>5. ASSUME TimePasses
      PROVE  disturbed \subseteq disturbed'
  BY <1>5 DEF TimePasses, SessionExpires, StateExpires, ValueExpires, Expires, history
<1>6. ASSUME Crash \/ OfferLogin \/ (\E r \in Requests : Abort(r)) \/ (\E u \in Users : SignUp(u))
      PROVE  disturbed \subseteq disturbed'
  BY <1>6 DEF Crash, OfferLogin, Abort, SignUp, Fails, history
<1>7. ASSUME UNCHANGED vars
      PROVE  disturbed \subseteq disturbed'
  BY <1>7, VarsAre
<1> QED BY <1>1, <1>2, <1>3, <1>4, <1>5, <1>6, <1>7 DEF Next

-----------------------------------------------------------------------------
(* Steps for the user *)

LEMMA MorePositions ==
    ASSUME NEW k \in Kinds, NEW p \in DOMAIN Script[k]
    PROVE  /\ Script[k][p] = "endSession" => k \in {"logout", "deleteMe", "login", "googleLogin"} /\ p >= 2
           /\ Script[k][p] = "endSession" /\ k = "deleteMe" => p = 4
           /\ Script[k][p] = "endSessions" => p = 3
           /\ k \in {"deleteMe", "deleteUser"} /\ p = 3 => Script[k][p] = "endSessions"
           /\ k \in {"deleteMe", "deleteUser"} /\ p = Len(Script[k]) => Script[k][p] = "purge"
           /\ Script[k][p] = "purge" => p >= 4
           /\ Script[k][p] = "authenticate" => k = "login" /\ p = 1
           /\ k = "refresh" => Len(Script[k]) = 4
           /\ k = "refresh" /\ p = 4 => Script[k][p] = "removeRefresh"
           /\ k \in {"exchange", "refresh"} /\ p = 1 => Script[k][p] \in {"getCode", "getRefresh"}
           /\ k = "authorize" /\ p = 1 => Script[k][p] = "touch"
           /\ k \in {"exchange", "authorize"} /\ Script[k][p] = "create" => p = Len(Script[k])
           /\ k = "exchange" /\ Script[k][p] = "create" => p = 3
           /\ k = "authorize" /\ Script[k][p] = "create" => p = 2
           /\ k \in {"login", "googleLogin"} /\ p = 1 => Script[k][p] \in {"authenticate", "findGoogle"}
<1>1. CASE k = "visit"
  BY <1>1 DEF Script
<1>2. CASE k = "logout"
  BY <1>2 DEF Script
<1>3. CASE k = "deleteMe"
  BY <1>3 DEF Script
<1>4. CASE k = "deleteUser"
  BY <1>4 DEF Script
<1>5. CASE k = "login"
  BY <1>5 DEF Script
<1>6. CASE k = "startLink"
  BY <1>6 DEF Script
<1>7. CASE k = "callback"
  BY <1>7 DEF Script
<1>8. CASE k = "googleLogin"
  BY <1>8 DEF Script
<1>9. CASE k = "googleLink"
  BY <1>9 DEF Script
<1>10. CASE k = "authorize"
  BY <1>10 DEF Script
<1>11. CASE k = "exchange"
  BY <1>11 DEF Script
<1>12. CASE k = "refresh"
  BY <1>12 DEF Script
<1>13. CASE k = "fulfil"
  BY <1>13 DEF Script
<1> QED BY KindsAre, <1>1, <1>2, <1>3, <1>4, <1>5, <1>6, <1>7, <1>8, <1>9, <1>10, <1>11, <1>12, <1>13

LEMMA LinkPositions ==
    /\ Script["googleLink"] = <<"touch", "checkIdentity", "loadAccount", "save">>
    /\ DOMAIN Script["googleLink"] = 1..4
BY DEF Script

\* A request that is nobody's witness.
LEMMA ServesNone ==
    ASSUME NEW r \in Requests, NEW u \in Users,
           \A s \in SessionsOf(u) : Holds(r, s) => s \notin alive',
           ~Deleting(r, u), ~Done(req[r])
    PROVE  Serves(r, u)
BY DEF Serves, Replaces

LEMMA HoldsAt ==
    ASSUME NEW r \in Requests, NEW s, Holds(r, s)
    PROVE  /\ req[r].at \in {"list", "delete"} /\ Call(r) \in {"openSession", "endSession"}
           /\ req[r].cookie = s
BY DEF Holds, At

LEMMA StepServes ==
    ASSUME TInv, NEW r \in Requests, NEW u \in Users, NEW place, req' = Step(r, place),
           req[r].at \notin {"list", "delete"}, Done(req[r]) => Done(req'[r])
    PROVE  Serves(r, u)
<1>1. \A s : ~Holds(r, s)
  BY HoldsAt
<1> QED BY <1>1, StepsTo DEF Serves, Deleting, Replaces

LEMMA StepKnows ==
    ASSUME TInv, OwnersOK, NEW r \in Requests, NEW u \in Users, NEW place, req' = Step(r, place),
           Same(u), Knows(r, u), place # "begin", KnowsPlace(r, u)'
    PROVE  Knows(r, u)'
<1>1. KnowsCall(r, u)'
  BY StepsTo, KnowsCallStill DEF Knows
<1> QED BY <1>1 DEF Knows

\* Places at which there is nothing to know.
LEMMA NoKnowledge ==
    ASSUME NEW r \in Requests, NEW u \in Users,
           Call(r)' \notin {"touch", "endSessions", "purge"},
           req'[r].at \notin {"copy", "copyRefresh"},
           req'[r].kind = "refresh" => req'[r].at \notin {"deleteKey", "reapCopies", "deleteCopies"}
    PROVE  KnowsPlace(r, u)'
BY DEF KnowsPlace, At

LEMMA BeginsKnowing ==
    ASSUME NEW r \in Requests, NEW u \in Users, req'[r].at = "begin", KnowsCall(r, u)'
    PROVE  Knows(r, u)'
BY DEF Knows, KnowsPlace, At

LEMMA NothingToKnow ==
    ASSUME NEW r \in Requests, NEW u \in Users,
           req'[r].kind \notin {"login", "googleLogin", "authorize", "exchange", "refresh"},
           req'[r].kind = "googleLink" => req'[r].pos # 4
    PROVE  KnowsCall(r, u)'
BY DEF KnowsCall

\* A request that returns from a call later than its first.
LEMMA ReturnKnows ==
    ASSUME TInv, NEW r \in Requests, NEW u \in Users, req' = Return(r), Same(u), Knows(r, u),
           req[r].pos >= 2, req[r].kind \notin {"refresh", "googleLink"}
    PROVE  Knows(r, u)'
<1>1. CASE req'[r] = Idle
  BY <1>1, IdleKnows
<1>2. CASE /\ req'[r].at = "begin" /\ req'[r].kind = req[r].kind /\ req'[r].pos = req[r].pos + 1
           /\ req'[r].user = req[r].user
  <2>1. KnowsCall(r, u)'
    BY <1>2 DEF Knows, KnowsCall, Same, SameBut
  <2> QED BY <1>2, <2>1, BeginsKnowing
<1> QED BY <1>1, <1>2, ReturnsTo

LEMMA ReturnServes ==
    ASSUME TInv, NEW r \in Requests, NEW u \in Users, req' = Return(r),
           Call(r) \notin {"none", "endSessions", "purge", "removeRefresh"},
           \A s \in SessionsOf(u) : Holds(r, s) => s \notin alive'
    PROVE  Serves(r, u)
<1>1. /\ req[r].kind \in Kinds /\ req[r].pos \in DOMAIN Script[req[r].kind]
      /\ Call(r) = Script[req[r].kind][req[r].pos]
  BY InCall
<1>2. ASSUME Deleting(r, u)
      PROVE  Deleting(r, u)' /\ req[r].pos # 3
  <2>1. req[r].pos # 3 /\ req[r].pos # Len(Script[req[r].kind])
    BY <1>1, <1>2, MorePositions DEF Deleting
  <2>2. req[r].pos \in 1..5
    BY <1>1, Positions
  <2> QED BY <1>2, <2>1, <2>2, ReturnsTo DEF Deleting
<1>3. ASSUME Done(req[r])
      PROVE  Done(req'[r]) /\ req'[r].tok = req[r].tok /\ req'[r].new = req[r].new
  <2>1. req[r].pos # Len(Script[req[r].kind]) /\ req[r].pos \in 1..4
    BY <1>1, <1>3, MorePositions, RefreshCalls DEF Done
  <2> QED BY <1>3, <2>1, ReturnsTo DEF Done
<1> QED BY <1>2, <1>3 DEF Serves, Replaces

LEMMA ActsReturn ==
    ASSUME TInv, Lasting, NEW r \in Requests, NEW u \in Users,
           req' = Return(r) \/ req' = End(r) \/ \E place : req' = Step(r, place)
    PROVE  OthersStay(r) /\ (Acts(r, u)' => Acts(r, u))
<1>1. ASSUME req'[r] = Idle
      PROVE  ~Acts(r, u)'
  BY <1>1, NoneOutside DEF Acts, ActsFor, Idle
<1>2. CASE req' = End(r)
  BY <1>1, <1>2, EndsIdle
<1>3. CASE req' = Return(r)
  BY <1>1, <1>3, ReturnsTo, ActsStay
<1>4. ASSUME NEW place, req' = Step(r, place)
      PROVE  OthersStay(r) /\ (Acts(r, u)' => Acts(r, u))
  BY <1>4, StepsTo, ActsStay
<1> QED BY <1>2, <1>3, <1>4

LEMMA AloneActs ==
    ASSUME TInv, Lasting, NEW r \in Requests, NEW u \in Users, OthersStay(r), Alone(u),
           Acts(r, u)' => Acts(r, u)
    PROVE  Alone(u)'
<1>1. \A o \in Requests : Acts(o, u)' => Acts(o, u)
  BY ActsStay DEF OthersStay
<1> QED BY <1>1, AloneStays

\* A step of the only request for the user.
LEMMA Lonely ==
    ASSUME TInv, TInv', Lasting, NEW r \in Requests, NEW u \in Users, QuietInv(u), OthersStay(r),
           Acts(r, u), Kept(u)', Knows(r, u)'
    PROVE  QuietInv(u)'
<1>1. \A o \in Requests \ {r} : ~Acts(o, u)
  BY DEF QuietInv, Alone
<1>2. \A o \in Requests \ {r} : ~Acts(o, u)'
  BY <1>1, ActsStay DEF OthersStay
<1>3. \A o \in Requests : Knows(o, u)'
  BY <1>2, StrangerKnows
<1>4. Alone(u)'
  BY <1>2 DEF Alone
<1> QED BY <1>3, <1>4 DEF QuietInv

\* The parts of Kept(u) that a step on sessions, or on tokens, leaves.
LEMMA KeptTokens ==
    ASSUME TInv, Lasting, NEW r \in Requests, NEW u \in Users, Kept(u), OthersStay(r),
           user' = user, UNCHANGED tokenVars, stale' = stale,
           Deleting(r, u) => Deleting(r, u)', ~Done(req[r])
    PROVE  RowsGone(u)' /\ NoneStale(u)' /\ OnePair(u)'
<1>1. TokensOf(u)' = TokensOf(u) /\ RowsOf(u)' = RowsOf(u) /\ token' = token
  BY StoresAre DEF TokensOf, RowsOf
<1>2. \A o \in Requests : Deleting(o, u) => Deleting(o, u)'
  BY DEF OthersStay, Deleting
<1>3. \A o \in Requests : \A p, q : Replaces(o, p, q) => Replaces(o, p, q)'
  BY DEF OthersStay, Replaces
<1>4. RowsGone(u)'
  BY <1>1, <1>2 DEF Kept, RowsGone
<1>5. NoneStale(u)'
  BY <1>1 DEF Kept, NoneStale
<1>6. OnePair(u)'
  BY <1>1, <1>3 DEF Kept, OnePair
<1> QED BY <1>4, <1>5, <1>6

LEMMA KeptSessions ==
    ASSUME TInv, Lasting, NEW r \in Requests, NEW u \in Users, Kept(u),
           user' = user, UNCHANGED sessionVars, \A o \in Requests : Serves(o, u)
    PROVE  SessionsListed(u)' /\ SessionsGone(u)'
<1>1. SessionsOf(u)' = SessionsOf(u) /\ listed' = listed /\ alive' = alive
  BY StoresAre DEF SessionsOf
<1>2. SessionsListed(u)'
  BY <1>1 DEF Kept, SessionsListed, Serves, SessionsOf
<1>3. SessionsGone(u)'
  BY <1>1 DEF Kept, SessionsGone, Serves
<1> QED BY <1>2, <1>3

-----------------------------------------------------------------------------
(* Steps on sessions *)

\* What is there before and after a step that does not disturb the user.
Undisturbed(u) ==
    /\ TInv /\ TInv' /\ Lasting /\ OwnersOK /\ CopyHasRow
    /\ u \notin disturbed' /\ QuietInv(u)

LEMMA QuietTouchRead ==
    ASSUME NEW r \in Requests, NEW u \in Users, Undisturbed(u), TouchRead(r)
    PROVE  QuietInv(u)'
<1> USE DEF Undisturbed
<1>1. /\ At(r, "touch", "begin") /\ Calm /\ UNCHANGED <<user, stores, csrf>>
      /\ (req' = Step(r, "set") /\ req[r].cookie \in alive) \/ req' = End(r)
  BY DEF TouchRead
<1>2. Same(u)
  BY <1>1, CalmIs, SameAll
<1>3. OthersStay(r) /\ Alone(u)'
  BY <1>1, ActsReturn, AloneActs DEF QuietInv
<1>4. Serves(r, u)
  <2>1. req[r].pos = 1
    BY <1>1, InCall, Positions DEF At
  <2> QED BY <2>1, ServesBeginner
<1>5. Knows(r, u)'
  <2>1. CASE req' = End(r)
    BY <2>1, EndsIdle, IdleKnows
  <2>2. CASE req' = Step(r, "set") /\ req[r].cookie \in alive
    <3>1. req'[r].at = "set" /\ req'[r].cookie = req[r].cookie /\ Call(r)' = "touch"
      BY <1>1, <2>2, StepsTo DEF At
    <3>2. session'[req[r].cookie].user = u => req[r].cookie \in listed'[u]
      <4>1. req[r].cookie \in Sessions /\ session' = session /\ listed' = listed
        BY <1>1, <2>2, StoresAre DEF TInv, SessionTypeOK
      <4>2. ASSUME session[req[r].cookie].user = u
            PROVE  req[r].cookie \in listed[u]
        <5>1. Acts(r, u)
          BY <4>1, <4>2, HolderActs
        <5>2. \A o \in Requests : ~Holds(o, req[r].cookie)
          <6>1. ASSUME NEW o \in Requests, Holds(o, req[r].cookie)
                PROVE  FALSE
            <7>1. Acts(o, u)
              BY <4>1, <4>2, <6>1, HolderActs, HoldsAt
            <7>2. o = r
              BY <5>1, <7>1 DEF QuietInv, Alone
            <7> QED BY <1>1, <6>1, <7>2, HoldsAt DEF At
          <6> QED BY <6>1
        <5> QED BY <2>2, <4>2, <5>2 DEF QuietInv, Kept, SessionsListed, SessionsOf
      <4> QED BY <4>1, <4>2
    <3>3. KnowsPlace(r, u)'
      BY <3>1, <3>2 DEF KnowsPlace, At
    <3> QED BY <1>2, <2>2, <3>3, StepKnows DEF QuietInv
  <2> QED BY <1>1, <2>1, <2>2
<1> QED BY <1>2, <1>3, <1>4, <1>5, Quietly

LEMMA QuietTouchWrite ==
    ASSUME NEW r \in Requests, NEW u \in Users, Undisturbed(u), TouchWrite(r)
    PROVE  QuietInv(u)'
<1> USE DEF Undisturbed
<1>1. /\ At(r, "touch", "set") /\ SetKey(req[r].cookie) /\ Calm /\ UNCHANGED <<user, tokenVars, csrf>>
      /\ req' = Return(r) \/ req' = End(r)
  BY DEF TouchWrite
<1>2. /\ req[r].pos = 1 /\ req[r].kind \in Kinds /\ RequestOK(req[r]) /\ req[r].cookie \in Sessions
      /\ req[r].kind \in SessionKinds \cup {"googleLink"}
  BY <1>1, InCall, Positions DEF At, RequestOK
<1>3. /\ alive' = alive \cup {req[r].cookie} /\ session' = session /\ listed' = listed
      /\ user' = user /\ stale' = stale
  BY <1>1, CalmIs DEF SetKey
<1>4. OthersStay(r) /\ Alone(u)'
  BY <1>1, ActsReturn, AloneActs DEF QuietInv
<1>5. ASSUME req[r].kind = "authorize" /\ req[r].user = u => user[u].row # "deleted"
      PROVE  Knows(r, u)'
  <2>1. req[r].kind \notin {"login", "googleLogin", "exchange", "refresh"}
    BY <1>2 DEF SessionKinds
  <2>2. ASSUME req' = Return(r), req'[r] # Idle
        PROVE  Knows(r, u)'
    <3>1. /\ req'[r].at = "begin" /\ req'[r].kind = req[r].kind /\ req'[r].user = req[r].user
          /\ req'[r].pos = 2
      BY <1>2, <2>2, ReturnsTo
    <3>2. KnowsCall(r, u)'
      BY <1>3, <1>5, <2>1, <3>1 DEF KnowsCall
    <3> QED BY <3>1, <3>2, BeginsKnowing
  <2> QED BY <1>1, <2>2, EndsIdle, IdleKnows
<1>6. CASE session[req[r].cookie].user = u
  <2>1. Acts(r, u) /\ req[r].cookie \in listed[u]
    BY <1>1, <1>2, <1>6, HolderActs DEF QuietInv, Knows, KnowsPlace
  <2>2. \A o \in Requests : Acts(o, u) => o = r
    BY <2>1 DEF QuietInv, Alone
  <2>3. \A o \in Requests : ~Deleting(o, u)
    BY <1>2, <2>2, HolderActs DEF Deleting
  <2>4. user[u].row # "deleted"
    BY <2>1, <2>3 DEF QuietInv, Kept, SessionsGone
  <2>5. SessionsListed(u)'
    <3> SUFFICES ASSUME NEW s \in SessionsOf(u)'
                 PROVE  s \in listed'[u]
      BY DEF SessionsListed
    <3>1. CASE s = req[r].cookie
      BY <1>3, <2>1, <3>1
    <3>2. CASE s # req[r].cookie
      <4>1. s \in SessionsOf(u) /\ s \in Sessions
        BY <1>3, <3>2 DEF SessionsOf, TInv, SessionTypeOK
      <4>2. ASSUME NEW o \in Requests, Holds(o, s)
            PROVE  FALSE
        <5>1. Acts(o, u)
          BY <4>1, <4>2, HolderActs, HoldsAt DEF SessionsOf
        <5> QED BY <1>1, <2>2, <4>2, <5>1, HoldsAt DEF At
      <4> QED BY <1>3, <4>1, <4>2 DEF QuietInv, Kept, SessionsListed
    <3> QED BY <3>1, <3>2
  <2>6. RowsGone(u)' /\ NoneStale(u)' /\ OnePair(u)'
    <3>1. ~Done(req[r])
      BY <1>2 DEF Done, SessionKinds
    <3> QED BY <1>1, <1>3, <1>4, <2>3, <3>1, KeptTokens DEF QuietInv
  <2>7. Kept(u)'
    BY <1>3, <2>4, <2>5, <2>6 DEF Kept, SessionsGone
  <2> QED BY <1>4, <1>5, <2>1, <2>4, <2>7, Lonely
<1>7. CASE session[req[r].cookie].user # u
  <2>1. Same(u)
    BY <1>1, <1>3, <1>7, SameSessions DEF SessionsOf
  <2>2. req[r].kind = "authorize" => req[r].user # u
    BY <1>2, <1>7 DEF RequestOK, SessionKinds
  <2> QED BY <1>2, <1>4, <1>5, <2>1, <2>2, ServesBeginner, Quietly
<1> QED BY <1>6, <1>7

LEMMA QuietFindSession ==
    ASSUME NEW r \in Requests, NEW u \in Users, Undisturbed(u), FindSession(r)
    PROVE  QuietInv(u)'
<1> USE DEF Undisturbed
<1>1. /\ At(r, "endSession", "begin") /\ UNCHANGED <<user, stores, csrf>> /\ stale' = stale
      /\ req' = Return(r) \/ req' = Step(r, "unlist") \/ req' = Step(r, "delete")
  BY CalmIs DEF FindSession
<1>2. /\ req[r].pos >= 2 /\ req[r].kind \notin {"refresh", "googleLink"} /\ Call(r) = "endSession"
  BY <1>1, InCall, MorePositions DEF At
<1>3. Same(u)
  BY <1>1, SameAll
<1>4. OthersStay(r) /\ Alone(u)'
  BY <1>1, ActsReturn, AloneActs DEF QuietInv
<1>5. CASE req' = Return(r)
  <2>1. \A s : ~Holds(r, s)
    BY <1>1, HoldsAt DEF At
  <2> QED BY <1>2, <1>3, <1>4, <1>5, <2>1, ReturnServes, ReturnKnows, Quietly DEF QuietInv
<1>6. ASSUME NEW place \in {"unlist", "delete"}, req' = Step(r, place)
      PROVE  QuietInv(u)'
  <2>1. Serves(r, u)
    BY <1>1, <1>2, <1>6, StepServes DEF At, Done
  <2>2. KnowsPlace(r, u)'
    BY <1>2, <1>6, StepsTo, NoKnowledge
  <2>3. Knows(r, u)'
    BY <1>3, <1>6, <2>2, StepKnows DEF QuietInv
  <2> QED BY <1>3, <1>4, <2>1, <2>3, Quietly
<1> QED BY <1>1, <1>5, <1>6

LEMMA QuietUnlist ==
    ASSUME NEW r \in Requests, NEW u \in Users, Undisturbed(u), Unlist(r)
    PROVE  QuietInv(u)'
<1> USE DEF Undisturbed
<1>1. /\ At(r, "endSession", "unlist") /\ req' = Step(r, "delete") /\ UNCHANGED <<user, csrf>>
  BY DEF Unlist
<1>2. /\ req[r].pos >= 2 /\ req[r].kind # "refresh" /\ Call(r) = "endSession" /\ req[r].cookie \in Sessions
      /\ req[r].kind \in {"logout", "deleteMe", "login", "googleLogin"}
      /\ req[r].kind = "deleteMe" => req[r].pos = 4
  BY <1>1, InCall, MorePositions DEF At, RequestOK
<1>3. OthersStay(r) /\ Alone(u)' /\ Serves(r, u)
  BY <1>1, <1>2, ActsReturn, AloneActs, StepServes DEF QuietInv, At, Done
<1>4. KnowsPlace(r, u)'
  BY <1>1, <1>2, StepsTo, NoKnowledge
<1>5. ASSUME Same(u)
      PROVE  QuietInv(u)'
  BY <1>1, <1>3, <1>4, <1>5, StepKnows, Quietly DEF QuietInv
<1> PICK s \in Sessions : s = req[r].cookie
  BY <1>2
<1>6. CASE Fails(r) /\ UNCHANGED <<stores, stale>>
  BY <1>1, <1>5, <1>6, SameAll
<1>7. CASE RemoveMember(session[s].user, s) /\ UNCHANGED tokenVars /\ Calm
  <2>1. /\ listed' = [listed EXCEPT ![session[s].user] = @ \ {s}] /\ session' = session /\ alive' = alive
        /\ user' = user /\ stale' = stale
    BY <1>1, <1>7, CalmIs DEF RemoveMember
  <2>2. SessionsOf(u)' = SessionsOf(u)
    BY <2>1 DEF SessionsOf
  <2>3. CASE session[s].user # u
    <3>1. listed'[u] = listed[u]
      BY <2>1, <2>3 DEF TInv, SessionTypeOK
    <3> QED BY <1>5, <1>7, <2>1, <2>2, <3>1, SameSessions
  <2>4. CASE session[s].user = u
    <3>1. Acts(r, u) /\ listed'[u] = listed[u] \ {s}
      BY <1>2, <2>1, <2>4, HolderActs DEF TInv, SessionTypeOK
    <3>2. \A o \in Requests : Acts(o, u) => o = r
      BY <3>1 DEF QuietInv, Alone
    <3>3. Holds(r, s)'
      BY <1>1, <1>2, StepsTo DEF Holds, At
    <3>4. SessionsListed(u)'
      <4> SUFFICES ASSUME NEW x \in SessionsOf(u)', x # s
                   PROVE  x \in listed'[u]
        BY <3>3 DEF SessionsListed
      <4>1. x \in SessionsOf(u) /\ x \in Sessions
        BY <2>2 DEF SessionsOf, TInv, SessionTypeOK
      <4>2. ASSUME NEW o \in Requests, Holds(o, x)
            PROVE  FALSE
        <5>1. Acts(o, u)
          BY <4>1, <4>2, HolderActs, HoldsAt DEF SessionsOf
        <5> QED BY <1>1, <3>2, <4>2, <5>1, HoldsAt DEF At
      <4> QED BY <3>1, <4>1, <4>2 DEF QuietInv, Kept, SessionsListed
    <3>5. SessionsGone(u)'
      <4>1. ASSUME NEW o \in Requests, Deleting(o, u), req[o].pos = 3
            PROVE  FALSE
        <5>1. o = r
          BY <3>2, <4>1, HolderActs
        <5> QED BY <1>2, <4>1, <5>1 DEF Deleting
      <4> QED BY <2>1, <2>2, <3>1, <4>1 DEF QuietInv, Kept, SessionsGone
    <3>6. RowsGone(u)' /\ NoneStale(u)' /\ OnePair(u)'
      <4>1. ~Done(req[r])
        BY <1>2 DEF Done
      <4> QED BY <1>3, <1>7, <2>1, <4>1, KeptTokens DEF QuietInv, Serves
    <3>7. KnowsCall(r, u)'
      BY <1>1, <1>2, <2>1, StepsTo DEF QuietInv, Knows, KnowsCall, Found
    <3> QED BY <1>3, <1>4, <3>1, <3>4, <3>5, <3>6, <3>7, Lonely DEF Kept, Knows
  <2> QED BY <2>3, <2>4
<1> QED BY <1>6, <1>7 DEF Unlist, Tries

LEMMA QuietDropSession ==
    ASSUME NEW r \in Requests, NEW u \in Users, Undisturbed(u), DropSession(r)
    PROVE  QuietInv(u)'
<1> USE DEF Undisturbed
<1>1. At(r, "endSession", "delete") /\ req' = Return(r) /\ UNCHANGED <<user, csrf>>
  BY DEF DropSession
<1>2. /\ req[r].pos >= 2 /\ req[r].kind \notin {"refresh", "googleLink"} /\ Call(r) = "endSession"
  BY <1>1, InCall, MorePositions DEF At
<1>3. OthersStay(r) /\ Alone(u)' /\ (Acts(r, u)' => Acts(r, u))
  BY <1>1, ActsReturn, AloneActs DEF QuietInv
<1>4. CASE Fails(r) /\ UNCHANGED <<stores, stale>>
  BY <1>1, <1>3, <1>4, FailsForOthers, SameAll, Strangely
<1>5. CASE DeleteKeys({req[r].cookie}) /\ UNCHANGED tokenVars /\ Calm
  <2>1. alive' = alive \ {req[r].cookie} /\ session' = session /\ listed' = listed /\ stale' = stale
    BY <1>5, CalmIs DEF DeleteKeys
  <2>2. Same(u)
    BY <1>1, <1>5, <2>1, SameSessions DEF SessionsOf
  <2>3. Serves(r, u)
    BY <1>1, <1>2, <2>1, HoldsAt, ReturnServes
  <2> QED BY <1>1, <1>2, <1>3, <2>2, <2>3, ReturnKnows, Quietly DEF QuietInv
<1> QED BY <1>4, <1>5 DEF DropSession, Tries

LEMMA QuietOpenSession ==
    ASSUME NEW r \in Requests, NEW u \in Users, Undisturbed(u), OpenSession(r)
    PROVE  QuietInv(u)'
<1> USE DEF Undisturbed
<1>1. /\ At(r, "openSession", "begin") /\ NewSessions # {}
      /\ NewKey(Some(NewSessions), req[r].user, user[req[r].user].admin)
      /\ req' = [req EXCEPT ![r].cookie = Some(NewSessions), ![r].at = "list"]
      /\ Calm /\ UNCHANGED <<user, tokenVars, csrf>>
  BY DEF OpenSession
<1>2. /\ req[r].kind \in {"login", "googleLogin"} /\ req[r].pos = 3 /\ Call(r) = "openSession"
      /\ req[r] \in Request /\ req[r].user \in Users
  BY <1>1, InCall, Positions DEF At, RequestOK
<1> PICK s \in Sessions : s = Some(NewSessions) /\ ~Opened(s)
  BY <1>1 DEF Some, NewSessions
<1>3. /\ session'[s].user = req[r].user /\ \A x \in Sessions \ {s} : session'[x] = session[x]
      /\ alive' = alive \cup {s} /\ listed' = listed /\ user' = user /\ stale' = stale
  BY <1>1, CalmIs DEF NewKey, TInv, SessionTypeOK
<1>4. /\ OthersStay(r) /\ req'[r].cookie = s /\ req'[r].at = "list" /\ req'[r].kind = req[r].kind
      /\ req'[r].pos = req[r].pos /\ req'[r].user = req[r].user /\ req'[r].target = req[r].target
      /\ req'[r].tok = req[r].tok
  <2> DEFINE q == [req[r] EXCEPT !.cookie = s, !.at = "list"]
  <2>1. req' = [req EXCEPT ![r] = q] /\ req \in [Requests -> Request]
    BY <1>1 DEF TInv, RequestsOK
  <2>2. OthersStay(r) /\ req'[r] = q
    BY <2>1 DEF OthersStay
  <2>3. /\ q.cookie = s /\ q.at = "list" /\ q.kind = req[r].kind /\ q.pos = req[r].pos
        /\ q.user = req[r].user /\ q.target = req[r].target /\ q.tok = req[r].tok
    BY <1>2 DEF Request
  <2> QED BY <2>2, <2>3
<1>5. Call(r)' = "openSession"
  BY <1>2, <1>4 DEF Call
<1>6. KnowsPlace(r, u)'
  BY <1>2, <1>4, <1>5, NoKnowledge
<1>7. ~Deleting(r, u) /\ ~Done(req[r]) /\ \A x : ~Holds(r, x)
  BY <1>1, <1>2, HoldsAt DEF Deleting, Done, At
<1>8. CASE req[r].user = u
  <2>1. Acts(r, u) /\ Found(u)
    BY <1>2, <1>8, HolderActs DEF QuietInv, Knows, KnowsCall
  <2>2. \A o \in Requests : Acts(o, u) => o = r
    BY <2>1 DEF QuietInv, Alone
  <2>3. Holds(r, s)'
    BY <1>3, <1>4, <1>5 DEF Holds, At
  <2>4. SessionsListed(u)'
    <3> SUFFICES ASSUME NEW x \in SessionsOf(u)', x # s
                 PROVE  x \in listed'[u]
      BY <2>3 DEF SessionsListed
    <3>1. x \in SessionsOf(u) /\ x \in Sessions
      BY <1>3 DEF SessionsOf, TInv, SessionTypeOK
    <3>2. ASSUME NEW o \in Requests, Holds(o, x)
          PROVE  FALSE
      <4>1. Acts(o, u)
        BY <3>1, <3>2, HolderActs, HoldsAt DEF SessionsOf
      <4> QED BY <1>7, <2>2, <3>2, <4>1
    <3> QED BY <1>3, <3>1, <3>2 DEF QuietInv, Kept, SessionsListed
  <2>5. SessionsGone(u)'
    BY <1>3, <2>1 DEF SessionsGone, Found
  <2>6. RowsGone(u)' /\ NoneStale(u)' /\ OnePair(u)'
    BY <1>1, <1>3, <1>4, <1>7, KeptTokens DEF QuietInv
  <2>7. KnowsCall(r, u)'
    BY <1>2, <1>3, <1>4, <2>1 DEF KnowsCall, Found
  <2> QED BY <1>4, <1>6, <2>1, <2>4, <2>5, <2>6, <2>7, Lonely DEF Kept, Knows
<1>9. CASE req[r].user # u
  <2>1. SessionsOf(u)' \subseteq SessionsOf(u)
    <3>1. \A x \in SessionsOf(u)' : x \in alive' /\ session'[x].user = u /\ x \in Sessions
      BY <1>3 DEF SessionsOf, TInv, SessionTypeOK
    <3> QED BY <1>3, <1>9, <3>1 DEF SessionsOf
  <2>2. Same(u)
    BY <1>1, <1>3, <2>1, SameSessions
  <2>3. Serves(r, u)
    BY <1>7, ServesNone
  <2>4. Knows(r, u)'
    BY <1>4, <1>6, <2>2, KnowsCallStill DEF QuietInv, Knows
  <2>5. Acts(r, u)' => Acts(r, u)
    BY <1>3, <1>4, <1>9 DEF Acts, ActsFor
  <2>6. Alone(u)'
    BY <1>4, <2>5, AloneActs DEF QuietInv
  <2> QED BY <1>4, <2>2, <2>3, <2>4, <2>6, Quietly
<1> QED BY <1>8, <1>9

LEMMA QuietListSession ==
    ASSUME NEW r \in Requests, NEW u \in Users, Undisturbed(u), ListSession(r)
    PROVE  QuietInv(u)'
<1> USE DEF Undisturbed
<1>1. At(r, "openSession", "list") /\ req' = Return(r) /\ UNCHANGED <<user, csrf>>
  BY DEF ListSession
<1>2. /\ req[r].kind \in {"login", "googleLogin"} /\ req[r].pos = 3 /\ Call(r) = "openSession"
      /\ req[r].user \in Users
  BY <1>1, InCall, Positions DEF At, RequestOK
<1>3. OthersStay(r) /\ Alone(u)' /\ (Acts(r, u)' => Acts(r, u))
  BY <1>1, ActsReturn, AloneActs DEF QuietInv
<1>4. CASE Fails(r) /\ UNCHANGED <<stores, stale>>
  BY <1>1, <1>3, <1>4, FailsForOthers, SameAll, Strangely
<1>5. CASE AddMember(req[r].user, req[r].cookie) /\ UNCHANGED tokenVars /\ Calm
  <2>1. /\ listed' = [listed EXCEPT ![req[r].user] = @ \cup {req[r].cookie}] /\ session' = session
        /\ alive' = alive /\ user' = user /\ stale' = stale
    BY <1>1, <1>5, CalmIs DEF AddMember
  <2>2. SessionsOf(u)' = SessionsOf(u)
    BY <2>1 DEF SessionsOf
  <2>3. CASE req[r].user # u
    <3>1. Same(u)
      BY <1>5, <2>1, <2>2, <2>3, SameSessions DEF TInv, SessionTypeOK
    <3>2. Serves(r, u)
      <4>1. \A s \in SessionsOf(u) : ~Holds(r, s)
        BY <1>1, <2>3 DEF Holds, At, SessionsOf
      <4> QED BY <1>2, <4>1, ServesNone DEF Deleting, Done
    <3> QED BY <1>1, <1>2, <1>3, <3>1, <3>2, ReturnKnows, Quietly DEF QuietInv
  <2>4. CASE req[r].user = u
    <3>1. Acts(r, u) /\ Found(u) /\ listed'[u] = listed[u] \cup {req[r].cookie}
      BY <1>2, <2>1, <2>4, HolderActs DEF QuietInv, Knows, KnowsCall, TInv, SessionTypeOK
    <3>2. \A o \in Requests : Acts(o, u) => o = r
      BY <3>1 DEF QuietInv, Alone
    <3>3. SessionsListed(u)'
      <4> SUFFICES ASSUME NEW x \in SessionsOf(u)'
                   PROVE  x \in listed'[u]
        BY DEF SessionsListed
      <4>1. x \in SessionsOf(u) /\ x \in Sessions
        BY <2>2 DEF SessionsOf, TInv, SessionTypeOK
      <4>2. ASSUME NEW o \in Requests, Holds(o, x)
            PROVE  x = req[r].cookie
        <5>1. Acts(o, u)
          BY <4>1, <4>2, HolderActs, HoldsAt DEF SessionsOf
        <5> QED BY <3>2, <4>2, <5>1, HoldsAt
      <4> QED BY <3>1, <4>1, <4>2 DEF QuietInv, Kept, SessionsListed
    <3>4. SessionsGone(u)'
      BY <2>1, <3>1 DEF SessionsGone, Found
    <3>5. RowsGone(u)' /\ NoneStale(u)' /\ OnePair(u)'
      BY <1>2, <1>3, <1>5, <2>1, KeptTokens DEF QuietInv, Deleting, Done
    <3>6. Knows(r, u)'
      <4>1. CASE req'[r] = Idle
        BY <4>1, IdleKnows
      <4>2. CASE /\ req'[r].at = "begin" /\ req'[r].kind = req[r].kind /\ req'[r].user = req[r].user
        <5>1. KnowsCall(r, u)'
          BY <1>2, <2>1, <3>1, <4>2 DEF KnowsCall, Found
        <5> QED BY <4>2, <5>1, BeginsKnowing
      <4> QED BY <1>1, <4>1, <4>2, ReturnsTo
    <3> QED BY <1>3, <3>1, <3>3, <3>4, <3>5, <3>6, Lonely DEF Kept
  <2> QED BY <2>3, <2>4
<1> QED BY <1>4, <1>5 DEF ListSession, Tries

\* A deletion that goes on in the call in which it ends the sessions.
LEMMA QuietGathering ==
    ASSUME NEW r \in Requests, NEW u \in Users, Undisturbed(u), Same(u),
           Call(r) = "endSessions", req[r].at \in {"begin", "deleteKeys"},
           NEW S, NEW place \in {"deleteKeys", "deleteSet"},
           req' = [req EXCEPT ![r].members = S, ![r].at = place],
           req[r].target = u => IF place = "deleteKeys" THEN SessionsOf(u)' \subseteq S ELSE SessionsOf(u)' = {}
    PROVE  QuietInv(u)'
<1> USE DEF Undisturbed
<1>1. req[r].kind \in {"deleteMe", "deleteUser"} /\ req[r] \in Request
  BY InCall, Positions
<1>2. /\ OthersStay(r) /\ req'[r].members = S /\ req'[r].at = place
      /\ req'[r].kind = req[r].kind /\ req'[r].pos = req[r].pos /\ req'[r].user = req[r].user
      /\ req'[r].target = req[r].target /\ req'[r].cookie = req[r].cookie /\ req'[r].tok = req[r].tok
  <2> DEFINE q == [req[r] EXCEPT !.members = S, !.at = place]
  <2>1. req' = [req EXCEPT ![r] = q] /\ req \in [Requests -> Request]
    BY DEF TInv, RequestsOK
  <2>2. OthersStay(r) /\ req'[r] = q
    BY <2>1 DEF OthersStay
  <2>3. /\ q.members = S /\ q.at = place
        /\ q.kind = req[r].kind /\ q.pos = req[r].pos /\ q.user = req[r].user
        /\ q.target = req[r].target /\ q.cookie = req[r].cookie /\ q.tok = req[r].tok
    BY <1>1 DEF Request
  <2> QED BY <2>2, <2>3
<1>3. Call(r)' = "endSessions"
  BY <1>2 DEF Call
<1>4. Alone(u)'
  BY <1>2, ActsStay, AloneActs DEF QuietInv
<1>5. Serves(r, u)
  <2>1. (\A s : ~Holds(r, s)) /\ ~Done(req[r])
    BY <1>1, HoldsAt DEF Done
  <2> QED BY <1>2, <2>1 DEF Serves, Deleting, Replaces
<1>6. KnowsPlace(r, u)'
  BY <1>1, <1>2, <1>3 DEF KnowsPlace, At
<1>7. KnowsCall(r, u)'
  BY <1>1, <1>2, NothingToKnow
<1> QED BY <1>2, <1>4, <1>5, <1>6, <1>7, Quietly DEF Knows

LEMMA QuietFindSessions ==
    ASSUME NEW r \in Requests, NEW u \in Users, Undisturbed(u), FindSessions(r)
    PROVE  QuietInv(u)'
<1> USE DEF Undisturbed
<1> DEFINE S == listed[req[r].target]
<1>1. At(r, "endSessions", "begin") /\ UNCHANGED <<user, stores, csrf>> /\ stale' = stale
  BY CalmIs DEF FindSessions
<1>2. Same(u)
  BY <1>1, SameAll
<1>3. CASE req' = Step(r, "deleteSet") /\ Fails(r)
  <2>1. OthersStay(r) /\ (Acts(r, u)' => Acts(r, u))
    BY <1>3, ActsReturn
  <2> QED BY <1>2, <1>3, <2>1, FailsForOthers, Strangely
<1>4. CASE req' = [req EXCEPT ![r].members = S, ![r].at = IF S = {} THEN "deleteSet" ELSE "deleteKeys"]
  <2>1. SessionsOf(u)' = SessionsOf(u)
    BY <1>1, StoresAre DEF SessionsOf
  <2>2. ASSUME req[r].target = u
        PROVE  SessionsOf(u) \subseteq S
    <3> SUFFICES ASSUME NEW x \in SessionsOf(u), NEW o \in Requests, Holds(o, x)
                 PROVE  FALSE
      BY <2>2 DEF QuietInv, Kept, SessionsListed
    <3>1. Acts(r, u) /\ Acts(o, u)
      BY <2>2, HolderActs, HoldsAt DEF SessionsOf, TInv, SessionTypeOK
    <3>2. o = r
      BY <3>1 DEF QuietInv, Alone
    <3> QED BY <1>1, <3>2, HoldsAt DEF At
  <2>3. PICK T : T = S
    OBVIOUS
  <2>4. CASE S = {}
    <3>1. req' = [req EXCEPT ![r].members = T, ![r].at = "deleteSet"]
      BY <1>4, <2>3, <2>4
    <3>2. req[r].target = u => SessionsOf(u)' = {}
      BY <2>1, <2>2, <2>4
    <3> HIDE DEF S
    <3> QED BY <1>1, <1>2, <3>1, <3>2, QuietGathering DEF At
  <2>5. CASE S # {}
    <3>1. req' = [req EXCEPT ![r].members = T, ![r].at = "deleteKeys"]
      BY <1>4, <2>3, <2>5
    <3>2. req[r].target = u => SessionsOf(u)' \subseteq T
      BY <2>1, <2>2, <2>3
    <3> HIDE DEF S
    <3> QED BY <1>1, <1>2, <3>1, <3>2, QuietGathering DEF At
  <2> QED BY <2>4, <2>5
<1> QED BY <1>3, <1>4 DEF FindSessions

LEMMA QuietDropSessions ==
    ASSUME NEW r \in Requests, NEW u \in Users, Undisturbed(u), DropSessions(r)
    PROVE  QuietInv(u)'
<1> USE DEF Undisturbed
<1>1. /\ At(r, "endSessions", "deleteKeys") /\ UNCHANGED <<user, csrf>>
      /\ req' = [req EXCEPT ![r].members = {}, ![r].at = "deleteSet"]
  BY DEF DropSessions
<1>2. CASE Fails(r) /\ UNCHANGED <<stores, stale>>
  <2>1. Same(u) /\ ~Acts(r, u)
    BY <1>1, <1>2, SameAll, FailsForOthers
  <2>2. req[r].target # u
    BY <2>1, HolderActs
  <2> QED BY <1>1, <2>1, <2>2, QuietGathering DEF At
<1>3. CASE DeleteKeys(req[r].members) /\ UNCHANGED tokenVars /\ Calm
  <2>1. alive' = alive \ req[r].members /\ session' = session /\ listed' = listed /\ stale' = stale
    BY <1>3, CalmIs DEF DeleteKeys
  <2>2. Same(u)
    BY <1>1, <1>3, <2>1, SameSessions DEF SessionsOf
  <2>3. req[r].target = u => SessionsOf(u) \subseteq req[r].members
    BY <1>1 DEF QuietInv, Knows, KnowsPlace
  <2>4. req[r].target = u => SessionsOf(u)' = {}
    BY <2>1, <2>3 DEF SessionsOf
  <2> QED BY <1>1, <2>2, <2>4, QuietGathering DEF At
<1> QED BY <1>2, <1>3 DEF DropSessions, Tries

LEMMA QuietDropSet ==
    ASSUME NEW r \in Requests, NEW u \in Users, Undisturbed(u), DropSet(r)
    PROVE  QuietInv(u)'
<1> USE DEF Undisturbed
<1>1. At(r, "endSessions", "deleteSet") /\ req' = Return(r) /\ UNCHANGED <<user, csrf>>
  BY DEF DropSet
<1>2. /\ req[r].kind \in {"deleteMe", "deleteUser"} /\ req[r].kind \in Kinds /\ req[r].pos = 3
      /\ req[r].target \in Users /\ req[r].pos # Len(Script[req[r].kind])
  <2>1. /\ req[r].kind \in {"deleteMe", "deleteUser"} /\ req[r].kind \in Kinds /\ req[r].pos = 3
    BY <1>1, InCall, Positions, MorePositions DEF At
  <2>2. req[r].target \in Users
    BY <2>1, TargetIsUser
  <2>3. Len(Script[req[r].kind]) \in {4, 5}
    BY <2>1 DEF Script
  <2> QED BY <2>1, <2>2, <2>3
<1>3. OthersStay(r) /\ Alone(u)' /\ (Acts(r, u)' => Acts(r, u))
  BY <1>1, ActsReturn, AloneActs DEF QuietInv
<1>4. CASE Fails(r) /\ UNCHANGED <<stores, stale>>
  BY <1>1, <1>3, <1>4, FailsForOthers, SameAll, Strangely
<1>5. CASE DeleteSet(req[r].target) /\ UNCHANGED tokenVars /\ Calm
  <2>1. /\ listed' = [listed EXCEPT ![req[r].target] = {}] /\ session' = session
        /\ alive' = alive /\ user' = user /\ stale' = stale
    BY <1>1, <1>5, CalmIs DEF DeleteSet
  <2>2. SessionsOf(u)' = SessionsOf(u)
    BY <2>1 DEF SessionsOf
  <2>3. /\ req'[r].at = "begin" /\ req'[r].kind = req[r].kind /\ req'[r].pos = 4
        /\ req'[r].target = req[r].target
    <3>1. /\ req'[r].at = "begin" /\ req'[r].kind = req[r].kind /\ req'[r].pos = req[r].pos + 1
          /\ req'[r].target = req[r].target
      BY <1>1, <1>2, ReturnsTo
    <3> QED BY <1>2, <3>1
  <2>4. Knows(r, u)'
    BY <1>2, <2>3, NothingToKnow, BeginsKnowing
  <2>5. CASE req[r].target # u
    <3>1. Same(u)
      BY <1>5, <2>1, <2>2, <2>5, SameSessions DEF TInv, SessionTypeOK
    <3>2. Serves(r, u)
      BY <1>1, <1>2, <2>5, HoldsAt, ServesNone DEF Deleting, Done, At
    <3> QED BY <1>3, <2>4, <3>1, <3>2, Quietly
  <2>6. CASE req[r].target = u
    <3>1. Acts(r, u) /\ listed'[u] = {} /\ SessionsOf(u)' = {}
      BY <1>1, <2>1, <2>2, <2>6, HolderActs DEF QuietInv, Knows, KnowsPlace, TInv, SessionTypeOK
    <3>2. SessionsListed(u)' /\ SessionsGone(u)'
      BY <3>1 DEF SessionsListed, SessionsGone
    <3>3. RowsGone(u)' /\ NoneStale(u)' /\ OnePair(u)'
      <4>1. Deleting(r, u)' /\ ~Done(req[r])
        BY <1>2, <2>3, <2>6 DEF Deleting, Done
      <4> QED BY <1>3, <1>5, <2>1, <4>1, KeptTokens DEF QuietInv
    <3> QED BY <1>3, <2>4, <3>1, <3>2, <3>3, Lonely DEF Kept
  <2> QED BY <2>5, <2>6
<1> QED BY <1>4, <1>5 DEF DropSet, Tries

LEMMA QuietSessionStep ==
    ASSUME NEW r \in Requests, NEW u \in Users, Undisturbed(u), SessionStep(r)
    PROVE  QuietInv(u)'
BY QuietTouchRead, QuietTouchWrite, QuietFindSession, QuietUnlist, QuietDropSession,
   QuietOpenSession, QuietListSession, QuietFindSessions, QuietDropSessions, QuietDropSet
   DEF SessionStep

-----------------------------------------------------------------------------
(* Steps on users *)

\* A request goes on, keeping its part.
LEMMA QuietGoesOn ==
    ASSUME NEW r \in Requests, NEW u \in Users, Undisturbed(u), Same(u), Serves(r, u), Knows(r, u)',
           req' = Return(r) \/ req' = End(r) \/ \E place : req' = Step(r, place)
    PROVE  QuietInv(u)'
<1>1. OthersStay(r) /\ Alone(u)'
  BY ActsReturn, AloneActs DEF Undisturbed, QuietInv
<1> QED BY <1>1, Quietly DEF Undisturbed

LEMMA QuietEnd ==
    ASSUME NEW r \in Requests, NEW u \in Users, Undisturbed(u), Same(u), req' = End(r),
           Call(r) \notin {"openSession", "endSession"}, ~Deleting(r, u), ~Done(req[r])
    PROVE  QuietInv(u)'
<1>1. Serves(r, u)
  BY HoldsAt, ServesNone
<1>2. Knows(r, u)'
  BY EndsIdle, IdleKnows DEF Undisturbed
<1> QED BY <1>1, <1>2, QuietGoesOn

\* A request becomes one for the user, who has no other.
LEMMA Enters ==
    ASSUME TInv, Lasting, NEW r \in Requests, NEW u \in Users, NEW q, OthersStay(r), req'[r] = q,
           session' = session, u \notin Meets(r, q), Alone(u)
    PROVE  Alone(u)'
<1>1. Acts(r, u)' => u \in ActsFor(q)
  BY DEF Acts, ActsFor
<1>2. \A o \in Requests \ {r} : Acts(o, u)' => Acts(o, u)
  BY ActsStay DEF OthersStay
<1>3. CASE Acts(r, u)'
  <2>1. \A o \in Requests \ {r} : ~Acts(o, u)
    BY <1>1, <1>3 DEF Meets, Acts
  <2> QED BY <1>2, <2>1 DEF Alone
<1>4. CASE ~Acts(r, u)'
  <2>1. \A o \in Requests : Acts(o, u)' => Acts(o, u)
    BY <1>2, <1>4
  <2> QED BY <2>1, AloneStays
<1> QED BY <1>3, <1>4

\* What a step on users leaves of a user's sessions and tokens.
LEMMA StoresKept ==
    ASSUME TInv, Lasting, NEW r \in Requests, NEW u \in Users, Kept(u), OthersStay(r),
           UNCHANGED stores, stale' = stale,
           Call(r) \notin {"openSession", "endSession"}, ~Done(req[r])
    PROVE  SessionsListed(u)' /\ NoneStale(u)' /\ OnePair(u)'
<1>1. /\ TokensOf(u)' = TokensOf(u) /\ RowsOf(u)' = RowsOf(u) /\ token' = token
      /\ SessionsOf(u)' = SessionsOf(u) /\ listed' = listed /\ session' = session
  BY StoresAre DEF TokensOf, RowsOf, SessionsOf
<1>2. \A o \in Requests : \A s : Holds(o, s) => Holds(o, s)'
  BY <1>1, HoldsAt DEF OthersStay, Holds, At, Call
<1>3. \A o \in Requests : \A p, q : Replaces(o, p, q) => Replaces(o, p, q)'
  BY DEF OthersStay, Replaces
<1>4. SessionsListed(u)'
  BY <1>1, <1>2 DEF Kept, SessionsListed
<1>5. NoneStale(u)'
  BY <1>1 DEF Kept, NoneStale
<1>6. OnePair(u)'
  BY <1>1, <1>3 DEF Kept, OnePair
<1> QED BY <1>4, <1>5, <1>6

LEMMA QuietAuthenticate ==
    ASSUME NEW r \in Requests, NEW u \in Users, Undisturbed(u), Authenticate(r)
    PROVE  QuietInv(u)'
<1> USE DEF Undisturbed
<1>1. /\ At(r, "authenticate", "begin") /\ Calm /\ UNCHANGED <<user, stores, csrf>>
      /\ (req' = Return(r) /\ Found(req[r].user)) \/ req' = End(r)
  BY DEF Authenticate
<1>2. req[r].kind = "login" /\ req[r].pos = 1
  BY <1>1, InCall, MorePositions DEF At
<1>3. Same(u) /\ Serves(r, u)
  BY <1>1, <1>2, CalmIs, SameAll, ServesBeginner
<1>4. Knows(r, u)'
  <2>1. CASE req'[r] = Idle
    BY <2>1, IdleKnows
  <2>2. CASE /\ Found(req[r].user) /\ req'[r].at = "begin" /\ req'[r].kind = req[r].kind
             /\ req'[r].user = req[r].user
    <3>1. KnowsCall(r, u)'
      BY <1>1, <1>2, <2>2 DEF KnowsCall, Found
    <3> QED BY <2>2, <3>1, BeginsKnowing
  <2> QED BY <1>1, <2>1, <2>2, EndsIdle, ReturnsTo
<1> QED BY <1>1, <1>3, <1>4, QuietGoesOn

LEMMA QuietSchedule ==
    ASSUME NEW r \in Requests, NEW u \in Users, Undisturbed(u), Schedule(r)
    PROVE  QuietInv(u)'
<1> USE DEF Undisturbed
<1>1. At(r, "schedule", "begin") /\ Calm /\ UNCHANGED <<stores, csrf>> /\ stale' = stale
  BY CalmIs DEF Schedule
<1>2. /\ req[r].kind \in {"deleteMe", "deleteUser"} /\ req[r].kind \in Kinds /\ req[r].pos = 2
      /\ req[r] \in Request /\ req[r].target \in Users /\ req[r].at = "begin"
      /\ Call(r) \notin {"openSession", "endSession"} /\ ~Deleting(r, u) /\ ~Done(req[r])
  BY <1>1, InCall, Positions, TargetIsUser DEF At, Deleting, Done
<1>3. CASE Found(req[r].target) /\ SoftDelete(req[r].target) /\ req' = Return(r)
  <2>1. req[r].pos # Len(Script[req[r].kind])
    <3>1. Len(Script[req[r].kind]) \in {4, 5}
      BY <1>2 DEF Script
    <3> QED BY <1>2, <3>1
  <2>2. /\ OthersStay(r) /\ req'[r].at = "begin" /\ req'[r].kind = req[r].kind
        /\ req'[r].pos = req[r].pos + 1 /\ req'[r].target = req[r].target
    BY <1>3, <2>1, ReturnsTo
  <2>3. Knows(r, u)'
    BY <1>2, <2>2, NothingToKnow, BeginsKnowing
  <2>4. CASE req[r].target # u
    <3>1. user'[u] = user[u]
      BY <1>2, <1>3, <2>4 DEF SoftDelete, TInv, UserTypeOK
    <3>2. Same(u)
      BY <1>1, <3>1, SameUsers DEF Found, CanLink
    <3>3. Serves(r, u)
      BY <1>2, HoldsAt, ServesNone
    <3> QED BY <1>3, <2>3, <3>2, <3>3, QuietGoesOn
  <2>5. CASE req[r].target = u
    <3>1. Acts(r, u) /\ Deleting(r, u)' /\ req'[r].pos = 3
      BY <1>2, <2>2, <2>5, HolderActs DEF Deleting
    <3>2. SessionsListed(u)' /\ NoneStale(u)' /\ OnePair(u)'
      BY <1>1, <1>2, <2>2, StoresKept DEF QuietInv
    <3>3. Kept(u)'
      BY <3>1, <3>2 DEF Kept, SessionsGone, RowsGone
    <3> QED BY <2>2, <2>3, <3>1, <3>3, Lonely
  <2> QED BY <2>4, <2>5
<1>4. CASE user' = user
  <2>1. Same(u)
    BY <1>1, <1>4, SameAll
  <2>2. CASE req' = End(r)
    BY <1>2, <2>1, <2>2, QuietEnd
  <2>3. CASE req' = [req EXCEPT ![r].kind = "logout", ![r].pos = 2]
    <3> DEFINE q == [req[r] EXCEPT !.kind = "logout", !.pos = 2]
    <3>1. OthersStay(r) /\ req'[r] = q
      BY <2>3 DEF OthersStay, TInv, RequestsOK
    <3>2. /\ q.kind = "logout" /\ q.at = "begin" /\ q.user = req[r].user
          /\ q.target = req[r].target /\ q.cookie = req[r].cookie
      BY <1>2 DEF Request
    <3>3. Knows(r, u)' /\ Serves(r, u)
      BY <1>2, <3>1, <3>2, NothingToKnow, BeginsKnowing, HoldsAt, ServesNone
    <3>4. Alone(u)'
      BY <3>1, <3>2, ActsStay, AloneActs DEF QuietInv
    <3> QED BY <2>1, <3>1, <3>3, <3>4, Quietly
  <2> QED BY <1>1, <1>4, <2>2, <2>3, <1>3 DEF Schedule
<1> QED BY <1>3, <1>4 DEF Schedule

\* The calls of linking: the last of them before the save finds an account to link.
LEMMA QuietLinking ==
    ASSUME NEW r \in Requests, NEW u \in Users, Undisturbed(u), UNCHANGED <<user, stores>>, Calm,
           Call(r) \in {"offerLink", "checkIdentity", "loadAccount"},
           req' = Return(r) \/ req' = End(r) \/ req' = Step(r, "store"),
           Call(r) = "loadAccount" => CanLink(req[r].target) \/ req' = End(r)
    PROVE  QuietInv(u)'
<1> USE DEF Undisturbed
<1>1. /\ req[r].kind \in {"startLink", "googleLink"}
      /\ req[r].kind = "googleLink" /\ req[r].pos = 3 => Call(r) = "loadAccount"
      /\ req[r].kind = "googleLink" => req[r].pos \in {2, 3}
  BY InCall, Positions, LinkPositions
<1>2. Same(u)
  BY CalmIs, SameAll
<1>3. Serves(r, u)
  BY <1>1, HoldsAt, ServesNone DEF Deleting, Done
<1>4. Knows(r, u)'
  <2>1. CASE req'[r] = Idle
    BY <2>1, IdleKnows
  <2>2. CASE /\ req' = Return(r) /\ req'[r].at = "begin" /\ req'[r].kind = req[r].kind
             /\ req'[r].pos = req[r].pos + 1 /\ req'[r].target = req[r].target
    <3>1. req'[r].kind = "googleLink" /\ req'[r].pos = 4 /\ req'[r].target = u => CanLink(u)'
      BY <1>1, <2>2, EndsIdle DEF CanLink, Found, Idle
    <3>2. KnowsCall(r, u)'
      BY <1>1, <2>2, <3>1 DEF KnowsCall
    <3> QED BY <2>2, <3>2, BeginsKnowing
  <2>3. CASE req' = Step(r, "store")
    BY <1>1, <2>3, StepsTo, NothingToKnow, NoKnowledge DEF Knows
  <2> QED BY <2>1, <2>2, <2>3, EndsIdle, ReturnsTo
<1> QED BY <1>2, <1>3, <1>4, QuietGoesOn

LEMMA QuietConsume ==
    ASSUME NEW r \in Requests, NEW u \in Users, Undisturbed(u), Consume(r)
    PROVE  QuietInv(u)'
<1> USE DEF Undisturbed
<1>1. At(r, "consume", "begin") /\ UNCHANGED <<user, stores>> /\ stale' = stale
  BY DEF Consume
<1>2. req[r].kind = "callback" /\ req[r].pos = 1 /\ req[r].at = "begin" /\ req[r] \in Request
  BY <1>1, InCall, Positions DEF At
<1>3. Same(u) /\ Serves(r, u)
  BY <1>1, <1>2, SameAll, ServesBeginner
<1>4. CASE req' = End(r)
  BY <1>3, <1>4, EndsIdle, IdleKnows, QuietGoesOn
<1>5. ASSUME NEW k, NEW v, req' = [req EXCEPT ![r].kind = k, ![r].target = v],
             disturbed' = disturbed \cup Meets(r, [req[r] EXCEPT !.target = v])
      PROVE  QuietInv(u)'
  <2> DEFINE q == [req[r] EXCEPT !.kind = k, !.target = v]
             p == [req[r] EXCEPT !.target = v]
  <2>1. OthersStay(r) /\ req'[r] = q
    BY <1>5 DEF OthersStay, TInv, RequestsOK
  <2>2. /\ q.pos = 1 /\ q.at = "begin"
        /\ q.user = p.user /\ q.target = p.target /\ q.cookie = p.cookie
    BY <1>2 DEF Request
  <2>3. Meets(r, q) = Meets(r, p)
    BY <2>2 DEF Meets, ActsFor
  <2>4. u \notin Meets(r, q) /\ session' = session
    BY <1>1, <1>5, <2>3, StoresAre
  <2> HIDE DEF q, p
  <2>5. Knows(r, u)' /\ Alone(u)'
    BY <2>1, <2>2, <2>4, BeginnerKnows, Enters DEF QuietInv
  <2> QED BY <1>3, <2>1, <2>5, Quietly
<1> QED BY <1>4, <1>5 DEF Consume

\* A sign-in with Google goes on with the user whom it found or created.
LEMMA QuietSignsIn ==
    ASSUME NEW r \in Requests, NEW u \in Users, Undisturbed(u), Same(u), NEW v \in Users,
           req[r].kind = "googleLogin", req[r].pos = 1, UNCHANGED stores, Found(v)',
           OthersStay(r), req'[r] = [req[r] EXCEPT !.user = v, !.pos = 2, !.at = "begin"],
           disturbed' = disturbed \cup Meets(r, [req[r] EXCEPT !.user = v])
    PROVE  QuietInv(u)'
<1> USE DEF Undisturbed
<1> DEFINE q == [req[r] EXCEPT !.user = v, !.pos = 2, !.at = "begin"]
           p == [req[r] EXCEPT !.user = v]
<1>1. req[r] \in Request
  BY DEF TInv, RequestsOK
<1>2. /\ q.pos = 2 /\ q.at = "begin" /\ q.kind = "googleLogin" /\ q.user = v
      /\ q.user = p.user /\ q.target = p.target /\ q.cookie = p.cookie
  BY <1>1 DEF Request
<1>3. Meets(r, q) = Meets(r, p)
  BY <1>2 DEF Meets, ActsFor
<1>4. u \notin Meets(r, q) /\ session' = session /\ req'[r] = q
  BY <1>3, StoresAre
<1> HIDE DEF q, p
<1>5. KnowsCall(r, u)'
  BY <1>2, <1>4 DEF KnowsCall
<1>6. Knows(r, u)' /\ Alone(u)' /\ Serves(r, u)
  BY <1>2, <1>4, <1>5, BeginsKnowing, Enters, ServesBeginner DEF QuietInv
<1> QED BY <1>6, Quietly

LEMMA QuietFindGoogle ==
    ASSUME NEW r \in Requests, NEW u \in Users, Undisturbed(u), FindGoogle(r)
    PROVE  QuietInv(u)'
<1> USE DEF Undisturbed
<1>1. At(r, "findGoogle", "begin") /\ UNCHANGED <<user, stores>> /\ stale' = stale
  BY CalmIs DEF FindGoogle
<1>2. req[r].kind = "googleLogin" /\ req[r].pos = 1 /\ req[r].at = "begin" /\ req[r] \in Request
  BY <1>1, InCall, Positions DEF At
<1>3. Same(u) /\ Serves(r, u)
  BY <1>1, <1>2, SameAll, ServesBeginner
<1>4. ASSUME NEW v \in Users, HasIdentity(v, req[r].google),
             req' = [req EXCEPT ![r].user = v, ![r].pos = 2],
             disturbed' = disturbed \cup Meets(r, [req[r] EXCEPT !.user = v])
      PROVE  QuietInv(u)'
  <2> DEFINE q == [req[r] EXCEPT !.user = v, !.pos = 2]
  <2>1. OthersStay(r) /\ req'[r] = q
    BY <1>4 DEF OthersStay, TInv, RequestsOK
  <2>2. q = [req[r] EXCEPT !.user = v, !.pos = 2, !.at = "begin"]
    BY <1>2 DEF Request
  <2>3. Found(v)' /\ UNCHANGED stores
    BY <1>1, <1>4 DEF HasIdentity, Found
  <2> QED BY <1>2, <1>3, <1>4, <2>1, <2>2, <2>3, QuietSignsIn
<1>5. CASE req' = Step(r, "create")
  <2>1. KnowsPlace(r, u)'
    BY <1>1, <1>2, <1>5, StepsTo, NoKnowledge DEF At
  <2>2. Knows(r, u)'
    BY <1>3, <1>5, <2>1, StepKnows DEF QuietInv
  <2> QED BY <1>3, <1>5, <2>2, QuietGoesOn
<1> QED BY <1>4, <1>5 DEF FindGoogle

LEMMA QuietCreateGoogle ==
    ASSUME NEW r \in Requests, NEW u \in Users, Undisturbed(u), CreateGoogle(r)
    PROVE  QuietInv(u)'
<1> USE DEF Undisturbed
<1>1. At(r, "findGoogle", "create") /\ UNCHANGED stores /\ stale' = stale
  BY DEF CreateGoogle
<1>2. req[r].kind = "googleLogin" /\ req[r].pos = 1 /\ req[r] \in Request /\ Call(r) = "findGoogle"
  BY <1>1, InCall, Positions DEF At
<1>3. ASSUME NEW v \in Users, CreateUser(v, req[r].google),
             req' = [req EXCEPT ![r].user = v, ![r].pos = 2, ![r].at = "begin"],
             disturbed' = disturbed \cup Meets(r, [req[r] EXCEPT !.user = v])
      PROVE  QuietInv(u)'
  <2> DEFINE q == [req[r] EXCEPT !.user = v, !.pos = 2, !.at = "begin"]
  <2>1. OthersStay(r) /\ req'[r] = q
    BY <1>3 DEF OthersStay, TInv, RequestsOK
  <2>2. user'[v].row = "active" /\ user[v].row = "none" /\ \A x \in Users \ {v} : user'[x] = user[x]
    BY <1>3 DEF CreateUser, TInv, UserTypeOK
  <2>3. Same(u) /\ Found(v)'
    BY <1>1, <2>2, SameUsers DEF Found, CanLink
  <2> QED BY <1>1, <1>2, <1>3, <2>1, <2>3, QuietSignsIn
<1>4. CASE req' = End(r) /\ user' = user
  <2>1. Same(u)
    BY <1>1, <1>4, SameAll
  <2> QED BY <1>2, <1>4, <2>1, QuietEnd DEF Deleting, Done
<1> QED BY <1>3, <1>4 DEF CreateGoogle

\* An account that is deleted comes back, and with it what is kept of it is in order.
LEMMA QuietSaveLink ==
    ASSUME NEW r \in Requests, NEW u \in Users, Undisturbed(u), SaveLink(r)
    PROVE  QuietInv(u)'
<1> USE DEF Undisturbed
<1>1. /\ At(r, "save", "begin") /\ UNCHANGED stores /\ stale' = stale /\ req' = End(r)
      /\ SaveIdentity(req[r].target, req[r].google) \/ user' = user
  BY CalmIs DEF SaveLink
<1>2. /\ req[r].kind = "googleLink" /\ req[r].target \in Users
      /\ Call(r) \notin {"openSession", "endSession"} /\ ~Deleting(r, u) /\ ~Done(req[r])
  BY <1>1, InCall, Positions, TargetIsUser DEF At, Deleting, Done
<1>3. OthersStay(r) /\ Knows(r, u)'
  BY <1>1, EndsIdle, IdleKnows
<1>4. user'[u] = user[u] \/ (req[r].target = u /\ user'[u].row = "active")
  BY <1>1, <1>2 DEF SaveIdentity, TInv, UserTypeOK, UserRow
<1>5. CASE user'[u] = user[u]
  <2>1. Same(u)
    BY <1>1, <1>5, SameUsers DEF Found, CanLink
  <2> QED BY <1>1, <1>2, <2>1, QuietEnd
<1>6. CASE req[r].target = u /\ user'[u].row = "active"
  <2>1. Acts(r, u)
    BY <1>6, HolderActs
  <2>2. SessionsListed(u)' /\ NoneStale(u)' /\ OnePair(u)'
    BY <1>1, <1>2, <1>3, StoresKept DEF QuietInv
  <2>3. Kept(u)'
    BY <1>6, <2>2 DEF Kept, SessionsGone, RowsGone
  <2> QED BY <1>3, <2>1, <2>3, Lonely
<1> QED BY <1>4, <1>5, <1>6

LEMMA QuietUserStep ==
    ASSUME NEW r \in Requests, NEW u \in Users, Undisturbed(u), UserStep(r)
    PROVE  QuietInv(u)'
<1>1. CASE CheckLink(r) \/ OfferLink(r) \/ CheckIdentity(r) \/ LoadAccount(r)
  <2>1. /\ Call(r) \in {"offerLink", "checkIdentity", "loadAccount"} /\ UNCHANGED <<user, stores>> /\ Calm
        /\ req' = Return(r) \/ req' = End(r) \/ req' = Step(r, "store")
        /\ Call(r) = "loadAccount" => CanLink(req[r].target) \/ req' = End(r)
    BY <1>1 DEF CheckLink, OfferLink, CheckIdentity, LoadAccount, At
  <2> QED BY <2>1, QuietLinking
<1> QED BY <1>1, QuietAuthenticate, QuietSchedule, QuietConsume, QuietFindGoogle, QuietCreateGoogle,
           QuietSaveLink DEF UserStep

-----------------------------------------------------------------------------
(* Arrivals, failures and time *)

LEMMA QuietArrives ==
    ASSUME NEW r \in Requests, NEW u \in Users, Undisturbed(u), Arrives(r)
    PROVE  QuietInv(u)'
<1> USE DEF Undisturbed
<1> PICK q : Start(r, q) /\ q.pos = 1 /\ q.at = "begin"
  BY ArrivalStarts
<1>1. /\ req[r] = Idle /\ req' = [req EXCEPT ![r] = q] /\ u \notin Meets(r, q)
      /\ UNCHANGED <<user, stores>> /\ stale' = stale
  BY DEF Start
<1>2. OthersStay(r) /\ req'[r] = q
  BY <1>1 DEF OthersStay, TInv, RequestsOK
<1>3. Same(u) /\ session' = session
  BY <1>1, SameAll, StoresAre
<1>4. Serves(r, u) /\ Knows(r, u)'
  <2>1. req[r].pos = 0
    BY <1>1 DEF Idle
  <2> QED BY <1>2, <2>1, ServesBeginner, BeginnerKnows
<1>5. Alone(u)'
  BY <1>1, <1>2, <1>3, Enters DEF QuietInv
<1> QED BY <1>2, <1>3, <1>4, <1>5, Quietly

\* A request that is about to delete copies of a user's tokens acts for the user.
LEMMA ClearingActs ==
    ASSUME TInv, OwnersOK, NEW r \in Requests, NEW t \in Clearing(r)
    PROVE  /\ t \in Tokens /\ Made(t)
           /\ \A u \in Users : t \in TokensOf(u) => Acts(r, u)
<1>1. req[r].at \in {"reapCopies", "deleteCopies"}
  BY NotClearing
<1>2. CASE Call(r) \in Lookups
  <2>1. /\ t = req[r].tok /\ req[r].kind \in TokenKinds /\ req[r].tok \in Tokens /\ Made(req[r].tok)
    BY <1>1, <1>2, LookupClears, LookupHas
  <2> QED BY <2>1, HolderActs DEF TokensOf
<1>3. CASE At(r, "purge", "deleteCopies")
  <2>1. t \in TokensOf(req[r].target)
    BY <1>3, PurgeClears DEF OwnersOK, OwnTokensOnly
  <2>2. req[r].target \in Users
    BY <1>3, InCall, Positions, TargetIsUser DEF At
  <2> QED BY <2>1, <2>2, NoneOutside, HolderActs DEF TokensOf, Made
<1> QED BY <1>2, <1>3 DEF Clearing, LookupAt

LEMMA QuietAbort ==
    ASSUME NEW r \in Requests, NEW u \in Users, Undisturbed(u), Abort(r)
    PROVE  QuietInv(u)'
<1> USE DEF Undisturbed
<1>1. /\ Fails(r) /\ stale' = stale \cup Clearing(r) /\ req' = End(r) /\ UNCHANGED <<user, stores>>
  BY DEF Abort
<1>2. ~Acts(r, u)
  BY <1>1, FailsForOthers
<1>3. Same(u)
  BY <1>1, <1>2, ClearingActs, SameAll
<1>4. OthersStay(r) /\ ~Acts(r, u)'
  BY <1>1, <1>2, ActsReturn
<1> QED BY <1>2, <1>3, <1>4, Strangely

LEMMA QuietCrash ==
    ASSUME NEW u \in Users, Undisturbed(u), Crash
    PROVE  QuietInv(u)'
<1> USE DEF Undisturbed
<1>1. /\ disturbed' = disturbed \cup UNION {ActsFor(req[r]) : r \in Requests}
      /\ stale' = stale \cup UNION {Clearing(r) : r \in Requests}
      /\ req' = [r \in Requests |-> Idle] /\ UNCHANGED <<user, stores>>
  BY DEF Crash
<1>2. \A o \in Requests : ~Acts(o, u)
  BY <1>1 DEF Acts
<1>3. Same(u)
  <2>1. \A o \in Requests : \A t \in Clearing(o) : t \notin TokensOf(u)
    BY <1>2, ClearingActs
  <2> QED BY <1>1, <2>1, SameAll
<1>4. Kept(u)'
  <2>1. \A o \in Requests : Serves(o, u)
    BY <1>2, ServesNot
  <2> QED BY <1>3, <2>1, KeptStays DEF QuietInv, Same
<1>5. \A o \in Requests : req'[o] = Idle
  BY <1>1
<1>6. \A o \in Requests : Knows(o, u)' /\ ~Acts(o, u)'
  BY <1>5, IdleKnows, NoneOutside DEF Acts, ActsFor, Idle
<1> QED BY <1>4, <1>6 DEF QuietInv, Alone

LEMMA QuietElse ==
    ASSUME NEW u \in Users, Undisturbed(u),
           (\E v \in Users : SignUp(v)) \/ OfferLogin \/ TimePasses \/ UNCHANGED vars
    PROVE  QuietInv(u)'
<1> USE DEF Undisturbed
<1>1. req' = req /\ stale' = stale
  BY VarsAre DEF SignUp, OfferLogin, TimePasses, SessionExpires, StateExpires, ValueExpires, Expires,
                 history
<1>2. ASSUME NEW v \in Users, SignUp(v)
      PROVE  Same(u)
  <2>1. /\ user'[v].row = "active" /\ user[v].row = "none" /\ \A x \in Users \ {v} : user'[x] = user[x]
        /\ UNCHANGED stores
    BY <1>2 DEF SignUp, CreateUser, TInv, UserTypeOK
  <2> QED BY <1>1, <2>1, SameUsers DEF Found, CanLink
<1>3. ASSUME UNCHANGED <<user, stores>>
      PROVE  Same(u)
  BY <1>1, <1>3, SameAll
<1>4. ASSUME NEW s \in Sessions, SessionExpires(s)
      PROVE  Same(u)
  <2>1. /\ alive' = alive \ {s} /\ session' = session /\ listed' = listed
        /\ UNCHANGED tokenVars /\ user' = user
    BY <1>4 DEF SessionExpires, DeleteKeys, Expires
  <2> QED BY <1>1, <2>1, SameSessions DEF SessionsOf
<1>5. ASSUME NEW k \in Keys, ValueExpires(k)
      PROVE  Same(u)
  <2>1. /\ copies' \subseteq copies /\ token' = token /\ rows' = rows
        /\ UNCHANGED sessionVars /\ user' = user
    BY <1>5 DEF ValueExpires, TimeComes, Expires
  <2> QED BY <1>1, <2>1, SameTokens DEF TokensOf, RowsOf
<1>6. OfferLogin \/ (\E x \in States : StateExpires(x)) \/ UNCHANGED vars => UNCHANGED <<user, stores>>
  BY VarsAre DEF OfferLogin, StateExpires, Expires
<1> QED BY <1>1, <1>2, <1>3, <1>4, <1>5, <1>6, QuietlyStill DEF TimePasses

-----------------------------------------------------------------------------
(* Steps on tokens *)

\* What a request that makes a call of the token store is no witness of.
LEMMA TokenServes ==
    ASSUME TInv, NEW r \in Requests, Call(r) \in Lookups \cup {"create"}, NEW u \in Users
    PROVE  /\ ~Deleting(r, u) /\ \A s : ~Holds(r, s)
           /\ \A p, q \in RowsOf(u) : Replaces(r, p, q) =>
                 req[r].user = u /\ req[r].tok \in rows /\ req[r].pos >= 2
<1>1. req[r].kind \in {"authorize"} \cup TokenKinds /\ RequestOK(req[r])
  BY TokenCalls
<1>2. ~Deleting(r, u)
  BY <1>1 DEF Deleting, TokenKinds
<1>3. \A s : ~Holds(r, s)
  BY HoldsAt DEF Lookups, Value
<1>4. ASSUME NEW p \in RowsOf(u), NEW q \in RowsOf(u), Replaces(r, p, q)
      PROVE  req[r].user = u /\ req[r].tok \in rows /\ req[r].pos >= 2
  <2>1. req[r].tok \in RowsOf(u) /\ req[r].kind = "refresh"
    BY <1>4 DEF Replaces, Done
  <2>2. req[r].user = token[req[r].tok].user
    BY <1>1, <2>1 DEF RequestOK, TokenKinds
  <2>3. req[r].pos \in 0..5
    BY DEF TInv, RequestsOK, Request
  <2> QED BY <1>4, <2>1, <2>2, <2>3 DEF RowsOf, TokensOf, Replaces, Done
<1> QED BY <1>2, <1>3, <1>4

\* Its steps for another user.
LEMMA QuietForOthers ==
    ASSUME NEW r \in Requests, NEW u \in Users, Undisturbed(u), Same(u),
           Call(r) \in Lookups \cup {"create"}, req[r].user # u,
           \/ req' = Return(r) \/ req' = End(r)
           \/ \E place \in {"find", "reap", "copy", "copyRefresh", "reapCopies",
                            "deleteKey", "deleteRow", "deleteCopies"} : req' = Step(r, place)
    PROVE  QuietInv(u)'
<1> USE DEF Undisturbed
<1>1. Serves(r, u) /\ req[r].kind # "googleLink"
  BY TokenServes, TokenCalls DEF Serves, TokenKinds
<1>2. Knows(r, u)'
  <2>1. CASE req'[r] = Idle
    BY <2>1, IdleKnows
  <2>2. CASE req'[r].at = "begin" /\ req'[r].user = req[r].user /\ req'[r].kind = req[r].kind
    <3>1. KnowsCall(r, u)'
      BY <1>1, <2>2 DEF KnowsCall
    <3> QED BY <2>2, <3>1, BeginsKnowing
  <2>3. ASSUME NEW place \in {"find", "reap", "copy", "copyRefresh", "reapCopies",
                              "deleteKey", "deleteRow", "deleteCopies"},
               req' = Step(r, place)
        PROVE  Knows(r, u)'
    <3>1. /\ req'[r].user # u /\ req'[r].at = place /\ req'[r].kind = req[r].kind
          /\ Call(r)' \notin {"touch", "endSessions", "purge"}
      BY <2>3, StepsTo DEF Lookups, Value
    <3>2. KnowsCall(r, u)' /\ KnowsPlace(r, u)'
      BY <1>1, <3>1 DEF KnowsCall, KnowsPlace, At
    <3> QED BY <3>2 DEF Knows
  <2> QED BY <2>1, <2>2, <2>3, EndsIdle, ReturnsTo
<1> QED BY <1>1, <1>2, QuietGoesOn

\* What is kept of a user whose rows do not grow.
LEMMA KeptShrinks ==
    ASSUME TInv, Lasting, NEW u \in Users, Kept(u), UNCHANGED <<user, sessionVars>>,
           token' = token, rows' \subseteq rows, stale' \cap TokensOf(u) \subseteq stale,
           \A o \in Requests : Serves(o, u)
    PROVE  Kept(u)'
<1>1. /\ SessionsOf(u)' = SessionsOf(u) /\ listed' = listed /\ alive' = alive /\ user' = user
      /\ TokensOf(u)' = TokensOf(u) /\ RowsOf(u)' \subseteq RowsOf(u)
  BY StoresAre DEF SessionsOf, TokensOf, RowsOf
<1>2. SessionsListed(u)'
  BY <1>1 DEF Kept, SessionsListed, Serves, SessionsOf
<1>3. SessionsGone(u)'
  BY <1>1 DEF Kept, SessionsGone, Serves
<1>4. RowsGone(u)'
  BY <1>1 DEF Kept, RowsGone, Serves
<1>5. NoneStale(u)'
  BY <1>1 DEF Kept, NoneStale
<1>6. OnePair(u)'
  BY <1>1 DEF Kept, OnePair, Serves
<1> QED BY <1>2, <1>3, <1>4, <1>5, <1>6 DEF Kept

\* A token with a row is one of a user who is not deleted, when a request uses it.
LEMMA RowMeansUser ==
    ASSUME TInv, NEW r \in Requests, NEW u \in Users, QuietInv(u), req[r].user = u,
           Call(r) \in Lookups \cup {"create"}, RowsOf(u) # {}
    PROVE  user[u].row # "deleted"
<1>1. Acts(r, u) /\ ~Deleting(r, u)
  BY HolderActs, TokenServes
<1>2. \A o \in Requests : ~Deleting(o, u)
  BY <1>1, HolderActs DEF QuietInv, Alone
<1> QED BY <1>2 DEF QuietInv, Kept, RowsGone

\* A copy of a token means a row, when no request is about to delete the copy.
LEMMA CopyMeansRow ==
    ASSUME TInv, CopyHasRow, OwnersOK, NEW u \in Users, QuietInv(u),
           NEW k \in copies, k[2] \in TokensOf(u),
           NEW r \in Requests, Acts(r, u), req[r].at \notin {"reapCopies", "deleteCopies"}
    PROVE  k[2] \in rows
<1>1. \A o \in Requests : k[2] \notin Clearing(o)
  <2>1. Clearing(r) = {}
    BY NotClearing
  <2>2. \A o \in Requests \ {r} : ~Acts(o, u)
    BY DEF QuietInv, Alone
  <2> QED BY <2>1, <2>2, ClearingActs
<1>2. k[2] \notin stale
  BY DEF QuietInv, Kept, NoneStale
<1> QED BY <1>1, <1>2 DEF CopyHasRow

\* A request for the user returns from a lookup, or from making a token.
LEMMA TokenReturnKnows ==
    ASSUME TInv, NEW r \in Requests, NEW u \in Users, req' = Return(r), Knows(r, u), user' = user,
           Call(r) \in Lookups \cup {"create"},
           req[r].pos = 1 => user[u].row # "deleted" /\ req[r].tok \in rows',
           req[r].pos = 3 /\ req[r].kind = "refresh" => \A k \in copies' : k[2] # req[r].tok
    PROVE  Knows(r, u)'
<1>1. /\ req[r].kind \in {"authorize"} \cup TokenKinds /\ req[r].kind \in Kinds
      /\ req[r].pos \in 1..5
  BY TokenCalls, InCall, Positions DEF Lookups, Value
<1>2. CASE req'[r] = Idle
  BY <1>2, IdleKnows
<1>3. CASE /\ req'[r].at = "begin" /\ req'[r].kind = req[r].kind /\ req'[r].pos = req[r].pos + 1
           /\ req'[r].user = req[r].user /\ req'[r].tok = req[r].tok
  <2>1. req[r].pos = 1 \/ req[r].pos >= 2
    BY <1>1
  <2>2. KnowsCall(r, u)'
    BY <1>1, <1>3, <2>1 DEF Knows, KnowsCall, TokenKinds
  <2> QED BY <1>3, <2>2, BeginsKnowing
<1> QED BY <1>2, <1>3, ReturnsTo

LEMMA TokenStepServes ==
    ASSUME TInv, NEW r \in Requests, NEW u \in Users, NEW place, req' = Step(r, place),
           Call(r) \in Lookups \cup {"create"},
           Call(r) = "create" => place \in {"copy", "copyRefresh"}
    PROVE  Serves(r, u)
<1>1. /\ Call(r) \in Lookups \cup {"create"} /\ req[r].pos \in DOMAIN Script[req[r].kind]
      /\ req[r].kind \in Kinds /\ Call(r) = Script[req[r].kind][req[r].pos]
  BY InCall DEF Lookups, Value
<1>2. Done(req[r]) => Done(req'[r])
  <2>1. Call(r) \in Lookups /\ req[r].kind = "refresh" => req[r].pos # 2
    BY <1>1, RefreshCalls DEF Lookups, Value
  <2>2. req[r].pos \in 1..5
    BY <1>1, Positions
  <2> QED BY <2>1, <2>2, StepsTo DEF Done
<1> QED BY <1>1, <1>2, TokenServes, StepsTo DEF Serves, Replaces

LEMMA TokenReturnServes ==
    ASSUME TInv, NEW r \in Requests, NEW u \in Users, req' = Return(r),
           Call(r) \in Lookups \cup {"create"},
           Call(r) = "removeRefresh" => req[r].user # u \/ req[r].tok \notin rows
    PROVE  Serves(r, u)
<1>1. CASE Call(r) = "removeRefresh"
  BY <1>1, TokenServes DEF Serves
<1>2. CASE Call(r) # "removeRefresh"
  BY <1>2, TokenServes, ReturnServes DEF Lookups, Value
<1> QED BY <1>1, <1>2

\* What a request in a call of the token store has to know within it.
LEMMA TokenKnows ==
    ASSUME TInv, NEW r \in Requests, NEW u \in Users, NEW place, req' = Step(r, place),
           Call(r) \in Lookups \cup {"create"}, place # "begin", Knows(r, u), user' = user,
           place \in {"copy", "copyRefresh"} => Copying(r) \in rows',
           req[r].pos >= 3 /\ req[r].kind = "refresh" =>
               /\ place \in {"deleteKey", "reapCopies"} => req[r].tok \notin rows'
               /\ place = "deleteCopies" /\ req[r].pos = 4 => req[r].tok \notin rows'
    PROVE  Knows(r, u)'
<1>1. /\ req'[r].kind = req[r].kind /\ req'[r].pos = req[r].pos /\ req'[r].at = place
      /\ req'[r].user = req[r].user /\ req'[r].tok = req[r].tok /\ Call(r)' = Call(r)
      /\ Copying(r)' = Copying(r) /\ req[r].kind # "googleLink"
  BY StepsTo, TokenCalls DEF Copying, TokenKinds
<1>2. KnowsCall(r, u)'
  BY <1>1 DEF Knows, KnowsCall, Found
<1>3. Call(r)' \notin {"touch", "endSessions", "purge"}
  BY <1>1 DEF Lookups, Value
<1>4. KnowsPlace(r, u)'
  BY <1>1, <1>3 DEF KnowsPlace, At
<1> QED BY <1>2, <1>4 DEF Knows

\* The calls and positions of a request that looks a token up.
LEMMA LookupPositions ==
    ASSUME TInv, NEW r \in Requests, Call(r) \in Lookups
    PROVE  /\ req[r].pos \in 1..5
           /\ req[r].kind = "refresh" /\ req[r].pos >= 3 => Removing(r)
           /\ Removing(r) => req[r].pos >= 2
           /\ Call(r) = "removeAccess" => req[r].kind = "refresh" /\ req[r].pos \in {3, 4}
           /\ Call(r) = "removeRefresh" <=> req[r].kind = "refresh" /\ req[r].pos = 4
           /\ ~Removing(r) => ~Done(req[r])
<1>1. /\ req[r].pos \in DOMAIN Script[req[r].kind] /\ req[r].kind \in Kinds
      /\ Call(r) = Script[req[r].kind][req[r].pos]
  BY InCall DEF Lookups, Value
<1>2. req[r].pos \in 1..5
  BY <1>1, Positions
<1>3. req[r].kind = "refresh" /\ req[r].pos >= 3 => Removing(r)
  BY <1>1, RefreshCalls DEF Removing
<1>4. Removing(r) => req[r].pos >= 2
  <2>1. req[r].pos = 1 => Call(r) \notin {"removeCode", "removeAccess", "removeRefresh"}
    BY <1>1, KindsAre DEF Script
  <2> QED BY <1>2, <2>1 DEF Removing
<1>5. Call(r) \in {"removeAccess", "removeRefresh"} => req[r].kind = "refresh" /\ req[r].pos \in {3, 4}
  BY <1>1, Positions
<1>6. Call(r) = "removeRefresh" <=> req[r].kind = "refresh" /\ req[r].pos = 4
  BY <1>1, <1>5 DEF Script
<1>7. ~Removing(r) => ~Done(req[r])
  <2>1. req[r].kind = "refresh" => req[r].pos # 2
    BY <1>1, RefreshCalls DEF Lookups, Value
  <2> QED BY <1>2, <1>3, <2>1 DEF Done
<1> QED BY <1>2, <1>3, <1>4, <1>5, <1>6, <1>7

LEMMA QuietGetCopy ==
    ASSUME NEW r \in Requests, NEW u \in Users, Undisturbed(u), GetCopy(r)
    PROVE  QuietInv(u)'
<1> USE DEF Undisturbed
<1>1. /\ Call(r) \in Lookups /\ req[r].at = "begin" /\ Calm /\ UNCHANGED <<user, stores>>
      /\ \/ req' = Step(r, "find")
         \/ LookupKey(r) \in copies /\ Removing(r) /\ req' = Step(r, "deleteCopies")
         \/ LookupKey(r) \in copies /\ ~Removing(r) /\ req' = Return(r)
  BY DEF GetCopy, LookupAt
<1>2. Same(u) /\ user' = user /\ rows' = rows
  BY <1>1, CalmIs, SameAll, StoresAre
<1>3. CASE req[r].user # u
  BY <1>1, <1>2, <1>3, QuietForOthers
<1>4. CASE req[r].user = u
  <2>1. Acts(r, u) /\ req[r].tok \in TokensOf(u) /\ Knows(r, u)
    BY <1>1, <1>4, HolderActs, LookupHas, OwnTokens DEF QuietInv
  <2>2. LookupKey(r)[2] = req[r].tok
    BY DEF LookupKey
  <2>3. CASE req' = Step(r, "find")
    <3>1. Knows(r, u)'
      BY <1>1, <1>2, <2>1, <2>3, TokenKnows
    <3>2. Serves(r, u)
      BY <1>1, <2>3, TokenStepServes DEF Lookups, Value
    <3> QED BY <1>2, <2>3, <3>1, <3>2, QuietGoesOn
  <2>4. CASE LookupKey(r) \in copies /\ req' = Step(r, "deleteCopies")
    <3>1. ~(req[r].kind = "refresh" /\ req[r].pos = 4)
      BY <1>1, <1>4, <2>1, <2>2, <2>4 DEF Knows, KnowsCall
    <3>2. Knows(r, u)'
      BY <1>1, <1>2, <2>1, <2>4, <3>1, TokenKnows
    <3>3. Serves(r, u)
      BY <1>1, <2>4, TokenStepServes DEF Lookups, Value
    <3> QED BY <1>2, <2>4, <3>2, <3>3, QuietGoesOn
  <2>5. CASE LookupKey(r) \in copies /\ ~Removing(r) /\ req' = Return(r)
    <3>1. req[r].tok \in rows
      BY <1>1, <2>1, <2>2, <2>5, CopyMeansRow
    <3>2. user[u].row # "deleted"
      BY <1>1, <1>4, <2>1, <3>1, RowMeansUser DEF RowsOf
    <3>3. ~(req[r].pos = 3 /\ req[r].kind = "refresh") /\ Call(r) # "removeRefresh"
      BY <1>1, <2>5, LookupPositions DEF Removing
    <3>4. Knows(r, u)' /\ Serves(r, u)
      BY <1>1, <1>2, <2>1, <2>5, <3>1, <3>2, <3>3, TokenReturnKnows, TokenReturnServes
    <3> QED BY <1>2, <2>5, <3>4, QuietGoesOn
  <2> QED BY <1>1, <2>3, <2>4, <2>5
<1> QED BY <1>3, <1>4

LEMMA QuietFindRow ==
    ASSUME NEW r \in Requests, NEW u \in Users, Undisturbed(u), FindRow(r)
    PROVE  QuietInv(u)'
<1> USE DEF Undisturbed
<1>1. /\ Call(r) \in Lookups /\ Calm /\ UNCHANGED <<user, stores>>
      /\ \/ req[r].tok \notin rows /\ Removing(r) /\ req' = Step(r, "deleteKey")
         \/ ~Removing(r) /\ req' = End(r)
         \/ req[r].tok \in rows /\ req' = Step(r, "reap")
         \/ req[r].tok \in rows /\ req' = Step(r, "copy")
  BY DEF FindRow, LookupAt
<1>2. Same(u) /\ user' = user /\ rows' = rows
  BY <1>1, CalmIs, SameAll, StoresAre
<1>3. CASE req[r].user # u
  BY <1>1, <1>2, <1>3, QuietForOthers
<1>4. CASE req[r].user = u
  <2>1. Knows(r, u) /\ Copying(r) = req[r].tok
    BY <1>1, LookupHas DEF QuietInv
  <2>2. CASE ~Removing(r) /\ req' = End(r)
    BY <1>1, <1>2, <2>2, LookupPositions, TokenServes, QuietEnd DEF Lookups, Value
  <2>3. ASSUME NEW place \in {"deleteKey", "reap", "copy"}, req' = Step(r, place),
               place = "deleteKey" => req[r].tok \notin rows,
               place # "deleteKey" => req[r].tok \in rows
        PROVE  QuietInv(u)'
    <3>1. Knows(r, u)'
      BY <1>1, <1>2, <2>1, <2>3, TokenKnows
    <3>2. Serves(r, u)
      BY <1>1, <2>3, TokenStepServes DEF Lookups, Value
    <3> QED BY <1>2, <2>3, <3>1, <3>2, QuietGoesOn
  <2> QED BY <1>1, <2>2, <2>3
<1> QED BY <1>3, <1>4

\* A request copies a token that has its row.
LEMMA QuietCopying ==
    ASSUME NEW r \in Requests, NEW u \in Users, Undisturbed(u),
           req[r].at \in {"copy", "copyRefresh"}, NEW k \in Keys, k[2] = Copying(r), CopyKey(r, k),
           user' = user, req' = Copied(r) \/ req' = Step(r, "copyRefresh")
    PROVE  QuietInv(u)'
<1> USE DEF Undisturbed
<1>1. /\ Call(r) \in Lookups \cup {"create"} /\ Copying(r) \in Tokens
      /\ token[Copying(r)].user = req[r].user
  BY CopyingHas DEF OwnersOK, OwnTokensOnly
<1>2. \/ Call(r) \in Lookups /\ Removing(r) /\ req' = Step(r, "deleteRow")
      \/ ~Removing(r) /\ req' = Return(r)
      \/ req' = Step(r, "copyRefresh")
  BY DEF Copied, Removing, Lookups, Value
<1>3. OthersStay(r) /\ (Acts(r, u)' => Acts(r, u))
  BY <1>2, ActsReturn
<1>4. CASE Fails(r) /\ UNCHANGED <<stores, stale>>
  BY <1>3, <1>4, FailsForOthers, SameAll, Strangely
<1>5. CASE /\ SetCopy(k) /\ UNCHANGED sessionVars
           /\ stale' = IF k \in copies' /\ k[2] \notin rows THEN stale \cup {k[2]} ELSE stale
  <2>1. copies' \subseteq copies \cup {k} /\ token' = token /\ rows' = rows
    BY <1>5 DEF SetCopy
  <2>2. CASE req[r].user # u
    <3>1. k[2] \notin TokensOf(u)
      BY <1>1, <2>2 DEF TokensOf
    <3>2. Same(u)
      BY <1>5, <2>1, <3>1, SameTokens DEF TokensOf, RowsOf
    <3> QED BY <1>1, <1>2, <2>2, <3>2, QuietForOthers
  <2>3. CASE req[r].user = u
    <3>1. Acts(r, u) /\ Knows(r, u) /\ Copying(r) \in rows
      BY <2>3, HolderActs DEF QuietInv, Knows, KnowsPlace
    <3>2. stale' = stale
      BY <1>5, <3>1
    <3>3. Serves(r, u)
      <4>1. CASE Call(r) \in Lookups /\ req' = Step(r, "deleteRow")
        BY <4>1, TokenStepServes DEF Lookups, Value
      <4>2. CASE req' = Step(r, "copyRefresh")
        BY <1>1, <4>2, TokenStepServes DEF Lookups, Value
      <4>3. CASE ~Removing(r) /\ req' = Return(r)
        BY <1>1, <4>3, TokenReturnServes DEF Removing
      <4> QED BY <1>2, <4>1, <4>2, <4>3
    <3>4. Kept(u)'
      <4>1. \A o \in Requests : Serves(o, u)
        BY <1>3, <3>3, ServesStill DEF OthersStay
      <4> QED BY <1>5, <2>1, <3>2, <4>1, KeptShrinks DEF QuietInv
    <3>5. Knows(r, u)'
      <4>1. CASE Removing(r) /\ req' = Step(r, "deleteRow")
        BY <1>1, <3>1, <4>1, TokenKnows
      <4>2. CASE req' = Step(r, "copyRefresh")
        BY <1>1, <2>1, <3>1, <4>2, TokenKnows
      <4>3. CASE ~Removing(r) /\ req' = Return(r)
        <5>1. req[r].pos = 1 => user[u].row # "deleted" /\ req[r].tok \in rows'
          <6>1. req[r].pos = 1 => Call(r) # "create"
            BY InCall, MorePositions, Positions DEF TokenKinds
          <6>2. Call(r) # "create" => Copying(r) = req[r].tok
            BY DEF Copying
          <6>3. Copying(r) \in RowsOf(u)
            BY <1>1, <2>3, <3>1 DEF RowsOf, TokensOf
          <6>4. user[u].row # "deleted"
            BY <1>1, <2>3, <6>3, RowMeansUser
          <6> QED BY <2>1, <3>1, <6>1, <6>2, <6>4
        <5>2. ~(req[r].pos = 3 /\ req[r].kind = "refresh")
          BY <1>1, <4>3, InCall, RefreshCalls DEF Removing, Lookups, Value
        <5> QED BY <1>1, <3>1, <4>3, <5>1, <5>2, TokenReturnKnows
      <4> QED BY <1>2, <4>1, <4>2, <4>3
    <3> QED BY <1>3, <3>1, <3>4, <3>5, Lonely
  <2> QED BY <2>2, <2>3
<1> QED BY <1>4, <1>5 DEF CopyKey

LEMMA QuietCopies ==
    ASSUME NEW r \in Requests, NEW u \in Users, Undisturbed(u), CopyFirst(r) \/ CopyRefresh(r)
    PROVE  QuietInv(u)'
<1> PICK t : t = Copying(r)
  OBVIOUS
<1>1. CASE CopyFirst(r)
  <2> PICK k : k = <<IF t \in Codes THEN "code" ELSE "access", t>>
    OBVIOUS
  <2>1. k \in Keys /\ k[2] = Copying(r)
    BY <1>1, CopyingHas DEF CopyFirst, Undisturbed
  <2> QED BY <1>1, <2>1, QuietCopying DEF CopyFirst
<1>2. CASE CopyRefresh(r)
  <2> PICK k : k = <<"refresh", t>>
    OBVIOUS
  <2>1. k \in Keys /\ k[2] = Copying(r)
    BY <1>2, CopyingHas DEF CopyRefresh, Undisturbed
  <2> QED BY <1>2, <2>1, QuietCopying DEF CopyRefresh
<1> QED BY <1>1, <1>2

-----------------------------------------------------------------------------
(* A token is made *)

LEMMA Making ==
    ASSUME TInv, NEW r \in Requests, MakeToken(r)
    PROVE  \E t \in Tokens, g \in Tokens :
              /\ ~Made(t)
              /\ t \in IF req[r].kind = "authorize" THEN Codes ELSE Pairs
              /\ g = IF req[r].kind = "refresh" THEN token[req[r].tok].grant ELSE t
              /\ token' = [token EXCEPT ![t] = [user |-> req[r].user, grant |-> g]]
              /\ rows' = rows \cup {t} /\ copies' = copies
              /\ UNCHANGED <<user, sessionVars, disturbed, stale>>
              /\ OthersStay(r) /\ req'[r].new = t /\ req'[r].at = "copy"
              /\ req'[r].kind = req[r].kind /\ req'[r].pos = req[r].pos
              /\ req'[r].user = req[r].user /\ req'[r].target = req[r].target
              /\ req'[r].cookie = req[r].cookie /\ req'[r].tok = req[r].tok
<1> DEFINE t == Some(NewTokens(r))
           g == IF req[r].kind = "refresh" THEN token[req[r].tok].grant ELSE t
           q == [req[r] EXCEPT !.new = t, !.at = "copy"]
<1>1. /\ At(r, "create", "begin") /\ NewTokens(r) # {} /\ InsertRow(t, req[r].user, g)
      /\ req' = [req EXCEPT ![r] = q]
      /\ UNCHANGED <<user, sessionVars, disturbed, stale>>
  BY DEF MakeToken
<1>2. /\ req[r] \in Request /\ req \in [Requests -> Request]
      /\ req[r].kind \in TokenKinds => req[r].tok \in Tokens /\ Made(req[r].tok)
  BY <1>1, TokenCalls DEF At, TInv, RequestsOK
<1>3. /\ ~Made(t)
      /\ t \in IF req[r].kind = "authorize" THEN Codes ELSE Pairs
  BY <1>1 DEF Some, NewTokens
<1>4. g = IF req[r].kind = "refresh" THEN token[req[r].tok].grant ELSE t
  OBVIOUS
<1>5. t \in Tokens
  BY <1>3 DEF Tokens
<1>6. g \in Tokens
  <2>1. ASSUME req[r].kind = "refresh"
        PROVE  token[req[r].tok].grant \in Tokens
    <3>1. req[r].tok \in Tokens /\ Made(req[r].tok)
      BY <1>2, <2>1 DEF TokenKinds
    <3>2. token[req[r].tok] \in [user: Users, grant: Tokens]
      BY <3>1 DEF Made, TInv, TokenTypeOK, Unmade
    <3> QED BY <3>2
  <2> QED BY <1>5, <2>1
<1> HIDE DEF t, g
<1>7. /\ q.new = t /\ q.at = "copy" /\ q.kind = req[r].kind /\ q.pos = req[r].pos
      /\ q.user = req[r].user /\ q.target = req[r].target
      /\ q.cookie = req[r].cookie /\ q.tok = req[r].tok
  BY <1>2 DEF Request
<1>8. req'[r] = q /\ OthersStay(r)
  BY <1>1, <1>2 DEF OthersStay
<1> HIDE DEF q
<1> QED BY <1>1, <1>3, <1>4, <1>5, <1>6, <1>7, <1>8 DEF InsertRow

\* The call in which a token is made is not a handler's first.
LEMMA MakingAt ==
    ASSUME TInv, NEW r \in Requests, At(r, "create", "begin")
    PROVE  /\ req[r].kind \in {"authorize", "exchange", "refresh"} /\ req[r].pos >= 2
           /\ req[r].kind = "refresh" => req[r].pos = 2
           /\ Call(r) = "create" /\ ~Done(req[r])
           /\ req[r].kind = "refresh" => req[r].tok \in Pairs
<1>1. /\ req[r].kind \in Kinds /\ req[r].pos \in DOMAIN Script[req[r].kind]
      /\ "create" = Script[req[r].kind][req[r].pos]
  BY InCall DEF At
<1>2. req[r].kind \in {"authorize", "exchange", "refresh"}
  BY <1>1, Positions DEF TokenKinds
<1>3. req[r].kind = "refresh" => req[r].pos = 2
  BY <1>1, Positions
<1>4. req[r].pos >= 2
  BY <1>1, <1>2, <1>3, MorePositions
<1>5. req[r].kind = "refresh" => req[r].tok \in Pairs
  BY TokenCalls DEF At, TokenKinds
<1> QED BY <1>2, <1>3, <1>4, <1>5 DEF At, Done

\* No refresh of the user's has made its pair when another request acts for the user.
LEMMA NoneReplaces ==
    ASSUME TInv, NEW r \in Requests, NEW u \in Users, Alone(u), Acts(r, u), ~Done(req[r])
    PROVE  \A o \in Requests : \A p, q \in RowsOf(u) : ~Replaces(o, p, q)
<1> SUFFICES ASSUME NEW o \in Requests, NEW p \in RowsOf(u), NEW q \in RowsOf(u), Replaces(o, p, q)
             PROVE  FALSE
  OBVIOUS
<1>1. token[req[o].tok].user = u /\ req[o].kind \in TokenKinds
  BY DEF Replaces, Done, RowsOf, TokensOf, TokenKinds
<1>2. Acts(o, u)
  BY <1>1, HolderActs
<1> QED BY <1>2 DEF Alone, Replaces

LEMMA QuietMakeToken ==
    ASSUME NEW r \in Requests, NEW u \in Users, Undisturbed(u), MakeToken(r)
    PROVE  QuietInv(u)'
<1> USE DEF Undisturbed
<1>1. At(r, "create", "begin")
  BY DEF MakeToken
<1>2. /\ req[r].kind \in {"authorize", "exchange", "refresh"} /\ req[r].pos >= 2
      /\ req[r].kind = "refresh" => req[r].pos = 2 /\ req[r].tok \in Pairs
      /\ Call(r) = "create" /\ ~Done(req[r]) /\ req[r].at = "begin"
  BY <1>1, MakingAt DEF At
<1> PICK t \in Tokens, g \in Tokens :
              /\ ~Made(t)
              /\ t \in IF req[r].kind = "authorize" THEN Codes ELSE Pairs
              /\ g = IF req[r].kind = "refresh" THEN token[req[r].tok].grant ELSE t
              /\ token' = [token EXCEPT ![t] = [user |-> req[r].user, grant |-> g]]
              /\ rows' = rows \cup {t} /\ copies' = copies
              /\ UNCHANGED <<user, sessionVars, disturbed, stale>>
              /\ OthersStay(r) /\ req'[r].new = t /\ req'[r].at = "copy"
              /\ req'[r].kind = req[r].kind /\ req'[r].pos = req[r].pos
              /\ req'[r].user = req[r].user /\ req'[r].target = req[r].target
              /\ req'[r].cookie = req[r].cookie /\ req'[r].tok = req[r].tok
  BY Making
<1>3. Serves(r, u)
  BY <1>2, TokenServes, ServesNone
<1>4. token'[t] = [user |-> req[r].user, grant |-> g] /\ \A x \in Tokens \ {t} : token'[x] = token[x]
  BY DEF TInv, TokenTypeOK
<1>5. t \notin TokensOf(u) /\ t \notin stale
  BY NoneOutside DEF TokensOf, Made, OwnersOK
<1>6. Call(r)' = "create" /\ req'[r].kind # "googleLink"
  BY <1>2, TokenCalls DEF Call, TokenKinds
<1>7. CASE req[r].user # u
  <2>1. TokensOf(u)' = TokensOf(u)
    BY <1>4, <1>5, <1>7 DEF TokensOf
  <2>2. Same(u)
    BY <1>5, <2>1, SameTokens DEF RowsOf
  <2>3. Knows(r, u)'
    BY <1>6, <1>7 DEF Knows, KnowsCall, KnowsPlace, At
  <2>4. Alone(u)'
    BY ActsStay, AloneActs DEF QuietInv
  <2> QED BY <1>3, <2>2, <2>3, <2>4, Quietly
<1>8. CASE req[r].user = u
  <2>1. Acts(r, u) /\ Knows(r, u) /\ Kept(u) /\ Alone(u)
    BY <1>8, HolderActs DEF QuietInv
  <2>2. user[u].row # "deleted"
    BY <1>2, <1>8, <2>1 DEF Knows, KnowsCall
  <2>3. TokensOf(u)' = TokensOf(u) \cup {t} /\ RowsOf(u)' = RowsOf(u) \cup {t}
    <3>1. TokensOf(u)' = TokensOf(u) \cup {t}
      BY <1>4, <1>8 DEF TokensOf
    <3> QED BY <1>5, <3>1 DEF RowsOf
  <2>4. SessionsListed(u)' /\ SessionsGone(u)'
    <3>1. \A o \in Requests : Serves(o, u)
      BY <1>3, ServesStill DEF OthersStay
    <3> QED BY <2>1, <3>1, KeptSessions
  <2>5. RowsGone(u)' /\ NoneStale(u)'
    BY <1>5, <2>1, <2>2, <2>3 DEF RowsGone, NoneStale, Kept
  <2>6. \A p, q \in RowsOf(u) \cap Pairs : token[p].grant = token[q].grant => p = q
    BY <1>2, <2>1, NoneReplaces DEF Kept, OnePair
  <2>7. ASSUME NEW x \in RowsOf(u) \cap Pairs, token[x].grant = g
        PROVE  req[r].kind = "refresh" /\ x = req[r].tok
    <3>1. Made(x) /\ x \in Tokens
      BY NoneOutside DEF RowsOf, TokensOf, Made
    <3>2. g # t
      BY <2>7, <3>1 DEF OwnersOK, GrantsOwned
    <3>3. req[r].kind = "refresh" /\ g = token[req[r].tok].grant
      BY <3>2
    <3>4. req[r].tok \in RowsOf(u) \cap Pairs
      <4>1. req[r].tok \in TokensOf(u)
        BY <1>8, <3>3, OwnTokens DEF TokenKinds
      <4> QED BY <1>2, <1>8, <2>1, <3>3, <4>1 DEF Knows, KnowsCall, RowsOf
    <3> QED BY <2>6, <2>7, <3>3, <3>4
  <2>8. OnePair(u)'
    <3> SUFFICES ASSUME NEW p \in RowsOf(u)' \cap Pairs, NEW q \in RowsOf(u)' \cap Pairs,
                        token'[p].grant = token'[q].grant, p # q
                 PROVE  Replaces(r, p, q)'
      BY DEF OnePair
    <3>1. \A x \in RowsOf(u) : x # t /\ token'[x] = token[x]
      BY <1>4, <1>5 DEF RowsOf, TokensOf
    <3>2. p = t \/ q = t
      BY <2>3, <2>6, <3>1
    <3>3. PICK x \in RowsOf(u) \cap Pairs : {p, q} = {x, t} /\ token[x].grant = g
      BY <1>4, <2>3, <3>1, <3>2
    <3>4. req[r].kind = "refresh" /\ x = req[r].tok
      BY <2>7, <3>3
    <3> QED BY <1>2, <3>3, <3>4 DEF Replaces, Done
  <2>9. Kept(u)'
    BY <2>4, <2>5, <2>8 DEF Kept
  <2>10. Knows(r, u)'
    <3>1. KnowsCall(r, u)'
      BY <1>2, <2>2 DEF KnowsCall
    <3>2. Copying(r)' = t /\ t \in rows'
      BY <1>6 DEF Copying
    <3>3. KnowsPlace(r, u)'
      BY <1>6, <3>2 DEF KnowsPlace, At
    <3> QED BY <3>1, <3>3 DEF Knows
  <2> QED BY <2>1, <2>9, <2>10, Lonely
<1> QED BY <1>7, <1>8

-----------------------------------------------------------------------------
(* Rows and copies are deleted *)

\* A request for the user deletes rows or copies.
LEMMA OwnDeletion ==
    ASSUME NEW r \in Requests, NEW u \in Users, Undisturbed(u), OthersStay(r), req[r].user = u,
           UNCHANGED <<user, sessionVars>>, token' = token, rows' \subseteq rows,
           stale' \subseteq stale, Serves(r, u), Knows(r, u)'
    PROVE  QuietInv(u)'
<1> USE DEF Undisturbed
<1>1. Acts(r, u) /\ Kept(u)
  BY HolderActs DEF QuietInv
<1>2. \A o \in Requests : Serves(o, u)
  BY ServesStill DEF OthersStay
<1>3. Kept(u)'
  BY <1>1, <1>2, KeptShrinks
<1> QED BY <1>1, <1>3, Lonely

\* A token looked up is its user's.
LEMMA LookedUp ==
    ASSUME TInv, NEW r \in Requests, Call(r) \in Lookups
    PROVE  /\ req[r].user = token[req[r].tok].user /\ req[r].tok \in Tokens
           /\ req[r].kind \in TokenKinds
           /\ \A u \in Users : req[r].tok \in TokensOf(u) <=> req[r].user = u
<1>1. req[r].kind \in TokenKinds /\ req[r].tok \in Tokens /\ RequestOK(req[r])
  BY LookupHas DEF TInv, RequestsOK
<1> QED BY <1>1 DEF RequestOK, TokensOf

LEMMA QuietDeletesRow ==
    ASSUME NEW r \in Requests, NEW u \in Users, Undisturbed(u), Reap(r) \/ DeleteRow(r)
    PROVE  QuietInv(u)'
<1> USE DEF Undisturbed
<1>1. /\ Call(r) \in Lookups /\ DeleteRows({req[r].tok}) /\ UNCHANGED <<user, sessionVars>> /\ stale' = stale
      /\ req' = Step(r, "reapCopies") \/ req' = Step(r, "deleteCopies")
  BY CalmIs DEF Reap, DeleteRow, LookupAt
<1>2. rows' = rows \ {req[r].tok} /\ token' = token /\ copies' = copies
  BY <1>1 DEF DeleteRows
<1>3. CASE req[r].user # u
  <2>1. req[r].tok \notin TokensOf(u)
    BY <1>1, <1>3, LookedUp
  <2>2. TokensOf(u)' = TokensOf(u) /\ RowsOf(u)' = RowsOf(u)
    BY <1>2, <2>1 DEF TokensOf, RowsOf
  <2>3. Same(u)
    BY <1>1, <1>2, <2>2, SameTokens
  <2> QED BY <1>1, <1>3, <2>3, QuietForOthers
<1>4. CASE req[r].user = u
  <2>1. ASSUME NEW place \in {"reapCopies", "deleteCopies"}, req' = Step(r, place)
        PROVE  QuietInv(u)'
    <3>1. Serves(r, u)
      BY <1>1, <2>1, TokenStepServes DEF Lookups, Value
    <3>2. Knows(r, u)'
      BY <1>1, <1>2, <2>1, TokenKnows DEF QuietInv
    <3>3. OthersStay(r)
      BY <2>1, StepsTo
    <3> QED BY <1>1, <1>2, <1>4, <3>1, <3>2, <3>3, OwnDeletion
  <2> QED BY <1>1, <2>1
<1> QED BY <1>3, <1>4

\* Copies are deleted, or a failure leaves them, of a token looked up.
LEMMA QuietDeletesCopies ==
    ASSUME NEW r \in Requests, NEW u \in Users, Undisturbed(u), Call(r) \in Lookups, user' = user,
           \/ /\ UNCHANGED sessionVars /\ token' = token /\ rows' = rows
              /\ copies' \subseteq copies /\ stale' \subseteq stale
              /\ req[r].user = u => Serves(r, u) /\ Knows(r, u)'
           \/ Fails(r) /\ UNCHANGED stores /\ stale' \subseteq stale \cup {req[r].tok},
           req' = Return(r) \/ req' = End(r) \/ req' = Step(r, "deleteKey")
    PROVE  QuietInv(u)'
<1> USE DEF Undisturbed
<1>1. OthersStay(r) /\ (Acts(r, u)' => Acts(r, u))
  BY ActsReturn
<1>2. CASE Fails(r) /\ UNCHANGED stores /\ stale' \subseteq stale \cup {req[r].tok}
  <2>1. ~Acts(r, u)
    BY <1>2, FailsForOthers
  <2>2. req[r].tok \notin TokensOf(u)
    BY <2>1, LookedUp, HolderActs
  <2>3. Same(u)
    BY <1>2, <2>2, SameAll
  <2> QED BY <1>1, <2>1, <2>3, Strangely
<1>3. CASE /\ UNCHANGED sessionVars /\ token' = token /\ rows' = rows
           /\ copies' \subseteq copies /\ stale' \subseteq stale
           /\ req[r].user = u => Serves(r, u) /\ Knows(r, u)'
  <2>1. CASE req[r].user = u
    BY <1>1, <1>3, <2>1, OwnDeletion
  <2>2. CASE req[r].user # u
    <3>1. Same(u)
      BY <1>3, SameTokens DEF TokensOf, RowsOf
    <3> QED BY <2>2, <3>1, QuietForOthers
  <2> QED BY <2>1, <2>2
<1> QED BY <1>2, <1>3

LEMMA QuietReapCopies ==
    ASSUME NEW r \in Requests, NEW u \in Users, Undisturbed(u), ReapCopies(r)
    PROVE  QuietInv(u)'
<1> USE DEF Undisturbed
<1>1. /\ Call(r) \in Lookups /\ req[r].at = "reapCopies" /\ ForgetCopies(r, {req[r].tok}) /\ user' = user
      /\ \/ Removing(r) /\ req' = Step(r, "deleteKey")
         \/ ~Removing(r) /\ req' = End(r)
  BY DEF ReapCopies, LookupAt
<1>2. ASSUME rows' = rows, req[r].user = u
      PROVE  Serves(r, u) /\ Knows(r, u)'
  <2>1. CASE req' = Step(r, "deleteKey")
    <3>1. Serves(r, u)
      BY <1>1, <2>1, TokenStepServes DEF Lookups, Value
    <3>2. Knows(r, u)
      BY DEF QuietInv
    <3>3. req[r].kind = "refresh" /\ req[r].pos >= 3 => req[r].tok \notin rows'
      BY <1>1, <1>2, <3>2 DEF Knows, KnowsPlace
    <3>4. Knows(r, u)'
      BY <1>1, <2>1, <3>2, <3>3, TokenKnows
    <3> QED BY <3>1, <3>4
  <2>2. CASE ~Removing(r) /\ req' = End(r)
    <3>1. Serves(r, u)
      BY <1>1, <2>2, LookupPositions, TokenServes, ServesNone
    <3> QED BY <2>2, <3>1, EndsIdle, IdleKnows
  <2> QED BY <1>1, <2>1, <2>2
<1>3. \/ /\ UNCHANGED sessionVars /\ token' = token /\ rows' = rows
         /\ copies' \subseteq copies /\ stale' \subseteq stale
      \/ Fails(r) /\ UNCHANGED stores /\ stale' \subseteq stale \cup {req[r].tok}
  BY <1>1 DEF ForgetCopies, DeleteCopies
<1> QED BY <1>1, <1>2, <1>3, QuietDeletesCopies

LEMMA QuietDeleteKey ==
    ASSUME NEW r \in Requests, NEW u \in Users, Undisturbed(u), DeleteKey(r)
    PROVE  QuietInv(u)'
<1> USE DEF Undisturbed
<1>1. /\ Call(r) \in Lookups /\ req[r].at = "deleteKey" /\ user' = user /\ req' = Return(r)
      /\ Tries(r, DeleteCopies({LookupKey(r)}) /\ UNCHANGED sessionVars)
  BY DEF DeleteKey, LookupAt
<1>2. Removing(r)
  BY <1>1 DEF TInv, RequestsOK, PlaceOK
<1>3. ASSUME rows' = rows, copies' \subseteq copies, req[r].user = u
      PROVE  Serves(r, u) /\ Knows(r, u)'
  <2>1. Acts(r, u) /\ Knows(r, u) /\ req[r].tok \in TokensOf(u)
    BY <1>1, <1>3, HolderActs, LookedUp DEF QuietInv
  <2>2. req[r].kind = "refresh" /\ req[r].pos >= 3 => req[r].tok \notin rows
    BY <1>1, <1>3, <2>1 DEF Knows, KnowsPlace
  <2>3. req[r].kind = "refresh" /\ req[r].pos >= 3 => \A k \in copies : k[2] # req[r].tok
    BY <1>1, <2>1, <2>2, CopyMeansRow
  <2>4. Call(r) = "removeRefresh" => req[r].tok \notin rows
    BY <1>1, <2>2, LookupPositions
  <2>5. Serves(r, u)
    BY <1>1, <2>4, TokenReturnServes
  <2>6. req[r].pos # 1
    BY <1>1, <1>2, LookupPositions
  <2>7. Knows(r, u)'
    BY <1>1, <1>3, <2>1, <2>3, <2>6, TokenReturnKnows
  <2> QED BY <2>5, <2>7
<1>4. \/ /\ UNCHANGED sessionVars /\ token' = token /\ rows' = rows
         /\ copies' \subseteq copies /\ stale' \subseteq stale
      \/ Fails(r) /\ UNCHANGED stores /\ stale' \subseteq stale \cup {req[r].tok}
  BY <1>1, CalmIs DEF Tries, DeleteCopies
<1> QED BY <1>1, <1>3, <1>4, QuietDeletesCopies

LEMMA QuietDeleteTokenCopies ==
    ASSUME NEW r \in Requests, NEW u \in Users, Undisturbed(u), DeleteTokenCopies(r)
    PROVE  QuietInv(u)'
<1> USE DEF Undisturbed
<1>1. /\ Call(r) \in Lookups /\ req[r].at = "deleteCopies" /\ user' = user /\ req' = Return(r)
      /\ ForgetCopies(r, {req[r].tok})
  BY DEF DeleteTokenCopies, LookupAt
<1>2. Removing(r)
  BY <1>1 DEF OwnersOK, OwnTokensOnly, LookupAt
<1>3. ASSUME rows' = rows, \A k \in copies' : k[2] # req[r].tok, req[r].user = u
      PROVE  Serves(r, u) /\ Knows(r, u)'
  <2>1. Knows(r, u)
    BY DEF QuietInv
  <2>2. Call(r) = "removeRefresh" => req[r].tok \notin rows
    <3>1. Call(r) = "removeRefresh" => req[r].kind = "refresh" /\ req[r].pos = 4
      BY <1>1, LookupPositions
    <3> QED BY <1>1, <1>3, <2>1, <3>1 DEF Knows, KnowsPlace
  <2>3. Serves(r, u)
    BY <1>1, <2>2, TokenReturnServes
  <2>4. req[r].pos # 1
    BY <1>1, <1>2, LookupPositions
  <2>5. Knows(r, u)'
    BY <1>1, <1>3, <2>1, <2>4, TokenReturnKnows
  <2> QED BY <2>3, <2>5
<1>4. copies \subseteq Keys
  BY DEF TInv, TokenTypeOK
<1>5. \/ /\ UNCHANGED sessionVars /\ token' = token /\ rows' = rows
         /\ copies' \subseteq copies /\ stale' \subseteq stale
         /\ \A k \in copies' : k[2] # req[r].tok
      \/ Fails(r) /\ UNCHANGED stores /\ stale' \subseteq stale \cup {req[r].tok}
  BY <1>1, <1>4 DEF ForgetCopies, DeleteCopies
<1> QED BY <1>1, <1>3, <1>5, QuietDeletesCopies

-----------------------------------------------------------------------------
(* The tokens of a user are purged *)

LEMMA PurgesAs ==
    ASSUME TInv, NEW r \in Requests, Call(r) = "purge"
    PROVE  /\ req[r].kind \in {"deleteMe", "deleteUser"} /\ req[r].pos >= 4
           /\ req[r].target \in Users /\ Acts(r, req[r].target)
           /\ \A s : ~Holds(r, s)
           /\ ~Done(req[r])
<1>1. /\ req[r].kind \in {"deleteMe", "deleteUser"} /\ req[r].pos >= 4
  BY InCall, Positions, MorePositions
<1>2. req[r].target \in Users
  BY <1>1, TargetIsUser
<1>3. \A s : ~Holds(r, s)
  BY HoldsAt
<1> QED BY <1>1, <1>2, <1>3, HolderActs DEF Done

\* Its steps for another user.
LEMMA PurgesForOthers ==
    ASSUME NEW r \in Requests, NEW u \in Users, Undisturbed(u), Same(u), Call(r) = "purge",
           req[r].target # u, OthersStay(r), Acts(r, u)' => Acts(r, u),
           \/ req'[r] = Idle
           \/ /\ req'[r].kind = req[r].kind /\ req'[r].target = req[r].target
              /\ Call(r)' = "purge" /\ req'[r].at \in {"deleteRows", "deleteCopies"}
    PROVE  QuietInv(u)'
<1> USE DEF Undisturbed
<1>1. Serves(r, u)
  BY PurgesAs, ServesNone DEF Deleting
<1>2. Alone(u)'
  BY AloneActs DEF QuietInv
<1>3. CASE req'[r] = Idle
  BY <1>1, <1>2, <1>3, IdleKnows, Quietly
<1>4. CASE /\ req'[r].kind = req[r].kind /\ req'[r].target = req[r].target
           /\ Call(r)' = "purge" /\ req'[r].at \in {"deleteRows", "deleteCopies"}
  <2>1. req'[r].kind \in {"deleteMe", "deleteUser"}
    BY <1>4, PurgesAs
  <2>2. KnowsCall(r, u)' /\ KnowsPlace(r, u)'
    BY <1>4, <2>1, NothingToKnow DEF KnowsPlace, At
  <2>3. Knows(r, u)'
    BY <2>2 DEF Knows
  <2> QED BY <1>1, <1>2, <2>3, Quietly
<1> QED BY <1>3, <1>4

\* It ends for its own, who has no row left.
LEMMA PurgeEnds ==
    ASSUME NEW r \in Requests, NEW u \in Users, Undisturbed(u), Call(r) = "purge",
           req[r].target = u, RowsOf(u) = {}, req' = End(r),
           UNCHANGED <<user, sessionVars>>, token' = token, rows' = rows, stale' \subseteq stale
    PROVE  QuietInv(u)'
<1> USE DEF Undisturbed
<1>1. Acts(r, u) /\ req[r].pos >= 4 /\ Kept(u) /\ \A o \in Requests : Acts(o, u) => o = r
  BY PurgesAs DEF QuietInv, Alone
<1>2. /\ SessionsOf(u)' = SessionsOf(u) /\ TokensOf(u)' = TokensOf(u) /\ RowsOf(u)' = {}
      /\ listed' = listed
  BY StoresAre DEF SessionsOf, TokensOf, RowsOf
<1>3. SessionsListed(u)'
  <2>1. ASSUME NEW s \in SessionsOf(u), NEW o \in Requests, Holds(o, s)
        PROVE  FALSE
    <3>1. Acts(o, u)
      BY <2>1, HolderActs, HoldsAt DEF SessionsOf, TInv, SessionTypeOK
    <3> QED BY <1>1, <2>1, <3>1, PurgesAs
  <2> QED BY <1>1, <1>2, <2>1 DEF Kept, SessionsListed
<1>4. SessionsGone(u)'
  <2>1. ASSUME NEW o \in Requests, Deleting(o, u), req[o].pos = 3
        PROVE  FALSE
    BY <1>1, <2>1, HolderActs
  <2> QED BY <1>1, <1>2, <2>1 DEF Kept, SessionsGone
<1>5. RowsGone(u)' /\ NoneStale(u)' /\ OnePair(u)'
  BY <1>1, <1>2 DEF RowsGone, OnePair, NoneStale, Kept
<1>6. Kept(u)'
  BY <1>3, <1>4, <1>5 DEF Kept
<1>7. OthersStay(r) /\ Knows(r, u)'
  BY EndsIdle, IdleKnows
<1> QED BY <1>1, <1>6, <1>7, Lonely

LEMMA FindsTokens ==
    ASSUME TInv, NEW r \in Requests, NEW T,
           req' = [req EXCEPT ![r].found = T, ![r].at = "deleteRows"]
    PROVE  /\ OthersStay(r) /\ req'[r].found = T /\ req'[r].at = "deleteRows" /\ Call(r)' = Call(r)
           /\ req'[r].kind = req[r].kind /\ req'[r].pos = req[r].pos
           /\ req'[r].user = req[r].user /\ req'[r].target = req[r].target
           /\ req'[r].cookie = req[r].cookie
<1> DEFINE q == [req[r] EXCEPT !.found = T, !.at = "deleteRows"]
<1>1. req' = [req EXCEPT ![r] = q] /\ req \in [Requests -> Request] /\ req[r] \in Request
  BY DEF TInv, RequestsOK
<1>2. OthersStay(r) /\ req'[r] = q
  BY <1>1 DEF OthersStay
<1>3. /\ q.found = T /\ q.at = "deleteRows" /\ q.kind = req[r].kind /\ q.pos = req[r].pos
      /\ q.user = req[r].user /\ q.target = req[r].target /\ q.cookie = req[r].cookie
  BY <1>1 DEF Request
<1> HIDE DEF q
<1>4. Call(r)' = Call(r)
  BY <1>2, <1>3 DEF Call
<1> QED BY <1>2, <1>3, <1>4

LEMMA QuietFindTokens ==
    ASSUME NEW r \in Requests, NEW u \in Users, Undisturbed(u), FindTokens(r)
    PROVE  QuietInv(u)'
<1> USE DEF Undisturbed
<1> PICK T : T = rows \cap TokensOf(req[r].target)
  OBVIOUS
<1>1. /\ Call(r) = "purge" /\ req[r].at = "begin" /\ UNCHANGED <<user, stores>> /\ stale' = stale
      /\ \/ T = {} /\ req' = End(r)
         \/ req' = [req EXCEPT ![r].found = T, ![r].at = "deleteRows"]
  BY CalmIs DEF FindTokens, At
<1>2. Same(u) /\ UNCHANGED sessionVars /\ token' = token /\ rows' = rows
  BY <1>1, SameAll, StoresAre
<1>3. CASE T = {} /\ req' = End(r)
  <2>1. req[r].target = u => RowsOf(u) = {}
    BY <1>3 DEF RowsOf
  <2>2. OthersStay(r) /\ (Acts(r, u)' => Acts(r, u)) /\ req'[r] = Idle
    BY <1>3, ActsReturn, EndsIdle
  <2>3. CASE req[r].target = u
    BY <1>1, <1>2, <1>3, <2>1, <2>3, PurgeEnds
  <2>4. CASE req[r].target # u
    BY <1>1, <1>2, <2>2, <2>4, PurgesForOthers
  <2> QED BY <2>3, <2>4
<1>4. CASE req' = [req EXCEPT ![r].found = T, ![r].at = "deleteRows"]
  <2>1. /\ OthersStay(r) /\ req'[r].found = T /\ req'[r].at = "deleteRows" /\ Call(r)' = "purge"
        /\ req'[r].kind = req[r].kind /\ req'[r].pos = req[r].pos
        /\ req'[r].user = req[r].user /\ req'[r].target = req[r].target
        /\ req'[r].cookie = req[r].cookie
    BY <1>1, <1>4, FindsTokens
  <2>2. Acts(r, u)' => Acts(r, u)
    BY <2>1, ActsStay
  <2>3. CASE req[r].target # u
    BY <1>1, <1>2, <2>1, <2>2, <2>3, PurgesForOthers
  <2>4. CASE req[r].target = u
    <3>1. Serves(r, u)
      BY <1>1, <2>1, PurgesAs DEF Serves, Replaces, Deleting
    <3>2. KnowsCall(r, u)'
      BY <1>1, <2>1, PurgesAs, NothingToKnow
    <3>3. RowsOf(u)' = T
      BY <1>2, <2>4 DEF RowsOf, TokensOf
    <3>4. KnowsPlace(r, u)'
      BY <1>1, <2>1, <3>3, PurgesAs DEF KnowsPlace, At
    <3>5. Knows(r, u)' /\ Alone(u)'
      BY <2>1, <2>2, <3>2, <3>4, AloneActs DEF Knows, QuietInv
    <3> QED BY <1>2, <2>1, <3>1, <3>5, Quietly
  <2> QED BY <2>3, <2>4
<1> QED BY <1>1, <1>3, <1>4

LEMMA QuietPurgeRows ==
    ASSUME NEW r \in Requests, NEW u \in Users, Undisturbed(u), PurgeRows(r)
    PROVE  QuietInv(u)'
<1> USE DEF Undisturbed
<1> PICK T : T = TokensOf(req[r].target)
  OBVIOUS
<1>1. /\ Call(r) = "purge" /\ req[r].at = "deleteRows" /\ UNCHANGED <<user, sessionVars>>
      /\ rows' = rows \ T /\ token' = token /\ copies' = copies
      /\ stale' = stale \cup ((T \cap rows) \ req[r].found) /\ req' = Step(r, "deleteCopies")
  BY DEF PurgeRows, At, DeleteRows
<1>2. /\ OthersStay(r) /\ Call(r)' = "purge" /\ req'[r].at = "deleteCopies"
      /\ req'[r].kind = req[r].kind /\ req'[r].target = req[r].target
      /\ (Acts(r, u)' => Acts(r, u))
  BY <1>1, StepsTo, ActsReturn
<1>3. TokensOf(u)' = TokensOf(u)
  BY <1>1 DEF TokensOf
<1>4. CASE req[r].target # u
  <2>1. T \cap TokensOf(u) = {}
    BY <1>4 DEF TokensOf
  <2>2. Same(u)
    BY <1>1, <1>3, <2>1, SameTokens DEF RowsOf
  <2> QED BY <1>1, <1>2, <1>4, <2>2, PurgesForOthers
<1>5. CASE req[r].target = u
  <2>1. Acts(r, u) /\ Kept(u) /\ RowsOf(u) \subseteq req[r].found
    BY <1>1, <1>5, PurgesAs DEF QuietInv, Knows, KnowsPlace, At
  <2>2. stale' = stale /\ RowsOf(u)' = {}
    BY <1>1, <1>3, <1>5, <2>1 DEF RowsOf
  <2>3. \A o \in Requests : Serves(o, u)
    <3>1. Serves(r, u)
      BY <1>1, PurgesAs, StepServes
    <3> QED BY <1>2, <3>1, ServesStill DEF OthersStay
  <2>4. Kept(u)'
    BY <1>1, <2>1, <2>2, <2>3, KeptShrinks
  <2>5. KnowsCall(r, u)'
    BY <1>1, <1>2, PurgesAs, NothingToKnow
  <2>6. KnowsPlace(r, u)'
    BY <1>1, <1>2, <2>2, PurgesAs DEF KnowsPlace, At
  <2>7. Knows(r, u)'
    BY <2>5, <2>6 DEF Knows
  <2> QED BY <1>2, <2>1, <2>4, <2>7, Lonely
<1> QED BY <1>4, <1>5

LEMMA QuietPurgeCopies ==
    ASSUME NEW r \in Requests, NEW u \in Users, Undisturbed(u), PurgeCopies(r)
    PROVE  QuietInv(u)'
<1> USE DEF Undisturbed
<1>1. /\ Call(r) = "purge" /\ At(r, "purge", "deleteCopies") /\ ForgetCopies(r, req[r].found)
      /\ user' = user /\ req' = End(r)
  BY DEF PurgeCopies, At
<1>2. OthersStay(r) /\ (Acts(r, u)' => Acts(r, u)) /\ req'[r] = Idle
  BY <1>1, ActsReturn, EndsIdle
<1>3. CASE Fails(r) /\ stale' = stale \cup req[r].found /\ UNCHANGED stores
  <2>1. ~Acts(r, u)
    BY <1>3, FailsForOthers
  <2>2. req[r].found \subseteq TokensOf(req[r].target) /\ req[r].target # u
    BY <1>1, <2>1, HolderActs DEF OwnersOK, OwnTokensOnly
  <2>3. Same(u)
    BY <1>1, <1>3, <2>2, SameAll DEF TokensOf
  <2> QED BY <1>2, <2>1, <2>3, Strangely
<1>4. CASE /\ UNCHANGED sessionVars /\ token' = token /\ rows' = rows
           /\ copies' \subseteq copies /\ stale' \subseteq stale
  <2>1. CASE req[r].target # u
    <3>1. Same(u)
      BY <1>1, <1>4, SameTokens DEF TokensOf, RowsOf
    <3> QED BY <1>1, <1>2, <2>1, <3>1, PurgesForOthers
  <2>2. CASE req[r].target = u
    <3>1. RowsOf(u) = {}
      BY <1>1, <2>2 DEF QuietInv, Knows, KnowsPlace
    <3> QED BY <1>1, <1>4, <2>2, <3>1, PurgeEnds
  <2> QED BY <2>1, <2>2
<1> QED BY <1>1, <1>3, <1>4 DEF ForgetCopies, DeleteCopies

LEMMA QuietTokenStep ==
    ASSUME NEW r \in Requests, NEW u \in Users, Undisturbed(u), TokenStep(r)
    PROVE  QuietInv(u)'
BY QuietMakeToken, QuietCopies, QuietGetCopy, QuietFindRow, QuietDeletesRow, QuietReapCopies,
   QuietDeleteKey, QuietDeleteTokenCopies, QuietFindTokens, QuietPurgeRows, QuietPurgeCopies
   DEF TokenStep

-----------------------------------------------------------------------------
(* Whose tokens requests work on *)

Working == {"copy", "copyRefresh", "deleteRows", "deleteCopies"}

LEMMA OwnNothing ==
    ASSUME NEW r \in Requests, req'[r].at \notin Working
    PROVE  OwnTokensOnly(r)'
BY DEF OwnTokensOnly, At, LookupAt, Working

LEMMA MadeLasts ==
    ASSUME TInv, Lasting
    PROVE  /\ \A t \in Tokens : Made(t) => token'[t] = token[t] /\ Made(t)'
           /\ \A u \in Users : TokensOf(u) \subseteq TokensOf(u)'
           /\ \A u \in Users : \A t \in TokensOf(u) : t \in Tokens /\ Made(t)
BY NoneOutside DEF Lasting, Made, TokensOf

LEMMA OwnStays ==
    ASSUME TInv, Lasting, NEW o \in Requests, OwnTokensOnly(o), req'[o] = req[o]
    PROVE  OwnTokensOnly(o)'
<1>1. Call(o)' = Call(o) /\ Copying(o)' = Copying(o) /\ (Removing(o)' <=> Removing(o))
  BY DEF Call, Copying, Removing
<1>2. req[o].at \in {"copy", "copyRefresh"} => token'[Copying(o)] = token[Copying(o)]
  BY CopyingHas, MadeLasts
<1>3. Call(o) = "purge" => \A t \in TokensOf(req[o].target) : t \in TokensOf(req[o].target)'
  <2>1. ASSUME Call(o) = "purge", NEW t \in TokensOf(req[o].target)
        PROVE  t \in Tokens /\ token'[t] = token[t] /\ token[t].user = req[o].target
    BY <2>1, PurgesAs, MadeLasts DEF TokensOf
  <2> QED BY <2>1 DEF TokensOf
<1> QED BY <1>1, <1>2, <1>3 DEF OwnTokensOnly, At, LookupAt

LEMMA OwnersBy ==
    ASSUME TInv, Lasting, OwnersOK, NEW r \in Requests, OthersStay(r), OwnTokensOnly(r)',
           token' = token \/ GrantsOwned', \A t \in stale' : t \in stale \/ Made(t)'
    PROVE  OwnersOK'
<1>1. \A o \in Requests : OwnTokensOnly(o)'
  BY OwnStays DEF OthersStay, OwnersOK
<1>2. GrantsOwned'
  BY DEF OwnersOK, GrantsOwned, Made
<1>3. \A t \in stale' : Made(t)'
  BY MadeLasts DEF OwnersOK, TInv, HistoryOK
<1> QED BY <1>1, <1>2, <1>3 DEF OwnersOK

LEMMA ReturnsNowhere ==
    ASSUME TInv, NEW r \in Requests, req' = Return(r) \/ req' = End(r)
    PROVE  OthersStay(r) /\ req'[r].at = "begin"
BY ReturnsTo, EndsIdle DEF Idle

\* Steps in a lookup.
LEMMA LookupOwns ==
    ASSUME TInv, Lasting, OwnersOK, NEW r \in Requests, Call(r) \in Lookups, token' = token,
           stale' \subseteq stale \cup {req[r].tok},
           \/ req' = Return(r) \/ req' = End(r)
           \/ \E place \in {"find", "reap", "copy", "reapCopies", "deleteKey"} : req' = Step(r, place)
           \/ Removing(r) /\ req' = Step(r, "deleteCopies")
    PROVE  OwnersOK'
<1>1. \A t \in stale' : t \in stale \/ Made(t)'
  BY LookupHas, MadeLasts
<1>2. CASE req' = Return(r) \/ req' = End(r)
  BY <1>1, <1>2, ReturnsNowhere, OwnNothing, OwnersBy DEF Working
<1>3. ASSUME NEW place \in {"find", "reap", "copy", "reapCopies", "deleteKey", "deleteCopies"},
             req' = Step(r, place), place = "deleteCopies" => Removing(r)
      PROVE  OwnersOK'
  <2>1. /\ OthersStay(r) /\ req'[r].at = place /\ Call(r)' = Call(r)
        /\ req'[r].user = req[r].user /\ req'[r].tok = req[r].tok
    BY <1>3, StepsTo
  <2>2. Copying(r)' = req[r].tok /\ token'[req[r].tok].user = req'[r].user
    BY <2>1, LookedUp DEF Copying, Lookups, Value
  <2>3. Call(r)' # "purge"
    BY <2>1 DEF Lookups, Value
  <2>4. place = "deleteCopies" => Removing(r)'
    BY <1>3, <2>1 DEF Removing
  <2>5. OwnTokensOnly(r)'
    BY <2>1, <2>2, <2>3, <2>4 DEF OwnTokensOnly, At, LookupAt
  <2> QED BY <1>1, <2>1, <2>5, OwnersBy
<1> QED BY <1>2, <1>3

LEMMA OwnersMakeToken ==
    ASSUME TInv, Lasting, OwnersOK, NEW r \in Requests, MakeToken(r)
    PROVE  OwnersOK'
<1>1. At(r, "create", "begin")
  BY DEF MakeToken
<1>2. /\ req[r].kind \in {"authorize", "exchange", "refresh"} /\ Call(r) = "create"
      /\ req[r].user \in Users
      /\ req[r].kind = "refresh" =>
            /\ req[r].tok \in Tokens /\ Made(req[r].tok) /\ req[r].user = token[req[r].tok].user
  BY <1>1, MakingAt, TokenCalls DEF At, TokenKinds, RequestOK
<1> PICK t \in Tokens, g \in Tokens :
              /\ ~Made(t)
              /\ t \in IF req[r].kind = "authorize" THEN Codes ELSE Pairs
              /\ g = IF req[r].kind = "refresh" THEN token[req[r].tok].grant ELSE t
              /\ token' = [token EXCEPT ![t] = [user |-> req[r].user, grant |-> g]]
              /\ rows' = rows \cup {t} /\ copies' = copies
              /\ UNCHANGED <<user, sessionVars, disturbed, stale>>
              /\ OthersStay(r) /\ req'[r].new = t /\ req'[r].at = "copy"
              /\ req'[r].kind = req[r].kind /\ req'[r].pos = req[r].pos
              /\ req'[r].user = req[r].user /\ req'[r].target = req[r].target
              /\ req'[r].cookie = req[r].cookie /\ req'[r].tok = req[r].tok
  BY Making
<1>3. token'[t] = [user |-> req[r].user, grant |-> g] /\ \A x \in Tokens \ {t} : token'[x] = token[x]
  BY DEF TInv, TokenTypeOK
<1>4. Made(g)' /\ token'[g].user = req[r].user
  <2>1. CASE req[r].kind = "refresh"
    <3>1. Made(g) /\ token[g].user = req[r].user
      BY <1>2, <2>1 DEF OwnersOK, GrantsOwned
    <3> QED BY <3>1, MadeLasts
  <2>2. CASE req[r].kind # "refresh"
    BY <1>2, <1>3, <2>2, NoneOutside DEF Made
  <2> QED BY <2>1, <2>2
<1>5. GrantsOwned'
  <2> SUFFICES ASSUME NEW x \in Tokens, Made(x)'
               PROVE  Made(token[x].grant)' /\ token'[token'[x].grant].user = token'[x].user
    BY DEF GrantsOwned
  <2>1. CASE x = t
    BY <1>3, <1>4, <2>1 DEF Made
  <2>2. CASE x # t
    <3>1. token'[x] = token[x] /\ Made(x)
      BY <1>3, <2>2 DEF Made
    <3>2. Made(token[x].grant) /\ token[token[x].grant].user = token[x].user
      BY <3>1 DEF OwnersOK, GrantsOwned
    <3>3. token[x].grant \in Tokens
      BY <3>1 DEF Made, TInv, TokenTypeOK, Unmade
    <3>4. token'[token[x].grant] = token[token[x].grant]
      BY <3>2, <3>3, MadeLasts
    <3> QED BY <3>1, <3>2, <3>4 DEF Made
  <2> QED BY <2>1, <2>2
<1>6. OwnTokensOnly(r)'
  <2>1. Call(r)' = "create"
    BY <1>2 DEF Call
  <2>2. Copying(r)' = t
    BY <2>1 DEF Copying
  <2> QED BY <1>3, <2>1, <2>2 DEF OwnTokensOnly, At, LookupAt
<1> QED BY <1>5, <1>6, OwnersBy

LEMMA OwnersCopying ==
    ASSUME TInv, Lasting, OwnersOK, NEW r \in Requests, req[r].at \in {"copy", "copyRefresh"},
           NEW k \in Keys, k[2] = Copying(r), CopyKey(r, k),
           req' = Copied(r) \/ req' = Step(r, "copyRefresh")
    PROVE  OwnersOK'
<1>1. /\ Call(r) \in Lookups \cup {"create"} /\ Copying(r) \in Tokens /\ Made(Copying(r))
      /\ token[Copying(r)].user = req[r].user
  BY CopyingHas DEF OwnersOK, OwnTokensOnly
<1>2. token' = token /\ \A t \in stale' : t \in stale \/ Made(t)'
  <2>1. token' = token /\ stale' \subseteq stale \cup {Copying(r)}
    BY StoresAre DEF CopyKey, SetCopy
  <2> QED BY <1>1, <2>1, MadeLasts
<1>3. CASE req' = Return(r)
  BY <1>2, <1>3, ReturnsNowhere, OwnNothing, OwnersBy DEF Working
<1>4. CASE req' = Step(r, "deleteRow")
  <2>1. req'[r].at \notin Working /\ OthersStay(r)
    BY <1>4, StepsTo DEF Working
  <2> QED BY <1>2, <2>1, OwnNothing, OwnersBy
<1>5. CASE req' = Step(r, "copyRefresh")
  <2>1. /\ OthersStay(r) /\ req'[r].at = "copyRefresh" /\ Call(r)' = Call(r)
        /\ req'[r].user = req[r].user /\ Copying(r)' = Copying(r)
    BY <1>5, StepsTo DEF Copying
  <2>2. OwnTokensOnly(r)'
    BY <1>1, <1>2, <2>1 DEF OwnTokensOnly, At, LookupAt
  <2> QED BY <1>2, <2>1, <2>2, OwnersBy
<1> QED BY <1>3, <1>4, <1>5 DEF Copied

LEMMA OwnersPurging ==
    ASSUME TInv, Lasting, OwnersOK, NEW r \in Requests,
           FindTokens(r) \/ PurgeRows(r) \/ PurgeCopies(r)
    PROVE  OwnersOK'
<1> PICK T : T = TokensOf(req[r].target)
  OBVIOUS
<1>1. Call(r) = "purge"
  BY DEF FindTokens, PurgeRows, PurgeCopies, At
<1>2. req[r].target \in Users /\ \A t \in T : Made(t)'
  BY <1>1, PurgesAs, MadeLasts
<1>3. CASE FindTokens(r)
  <2>1. /\ token' = token /\ stale' = stale
        /\ req' = End(r) \/ req' = [req EXCEPT ![r].found = rows \cap T, ![r].at = "deleteRows"]
    BY <1>3, StoresAre, CalmIs DEF FindTokens
  <2>2. ASSUME NEW F, F = rows \cap T, req' = [req EXCEPT ![r].found = F, ![r].at = "deleteRows"]
        PROVE  OwnersOK'
    <3>1. /\ OthersStay(r) /\ req'[r].found = F /\ req'[r].at = "deleteRows" /\ Call(r)' = "purge"
          /\ req'[r].target = req[r].target
      BY <1>1, <2>2, FindsTokens
    <3>2. F \subseteq TokensOf(req[r].target)'
      BY <2>1, <2>2, <3>1 DEF TokensOf
    <3>3. OwnTokensOnly(r)'
      BY <3>1, <3>2 DEF OwnTokensOnly, At, LookupAt, Lookups, Value
    <3> QED BY <2>1, <3>1, <3>3, OwnersBy
  <2> QED BY <2>1, <2>2, ReturnsNowhere, OwnNothing, OwnersBy DEF Working
<1>4. CASE PurgeRows(r)
  <2>1. /\ token' = token /\ stale' \subseteq stale \cup T /\ req' = Step(r, "deleteCopies")
        /\ At(r, "purge", "deleteRows")
    BY <1>4 DEF PurgeRows, DeleteRows
  <2>2. /\ OthersStay(r) /\ req'[r].found = req[r].found /\ req'[r].at = "deleteCopies"
        /\ Call(r)' = "purge" /\ req'[r].target = req[r].target
    BY <1>1, <2>1, StepsTo
  <2>3. req[r].found \subseteq T
    BY <2>1 DEF OwnersOK, OwnTokensOnly
  <2>4. T = TokensOf(req[r].target)'
    BY <2>1, <2>2 DEF TokensOf
  <2>5. OwnTokensOnly(r)'
    BY <2>2, <2>3, <2>4 DEF OwnTokensOnly, At, LookupAt, Lookups, Value
  <2> QED BY <1>2, <2>1, <2>2, <2>5, OwnersBy
<1>5. CASE PurgeCopies(r)
  <2>1. /\ token' = token /\ stale' \subseteq stale \cup req[r].found /\ req' = End(r)
        /\ At(r, "purge", "deleteCopies")
    BY <1>5, StoresAre DEF PurgeCopies, ForgetCopies, DeleteCopies
  <2>2. req[r].found \subseteq T
    BY <2>1 DEF OwnersOK, OwnTokensOnly
  <2>3. \A t \in stale' : t \in stale \/ Made(t)'
    BY <1>2, <2>1, <2>2
  <2> QED BY <2>1, <2>3, ReturnsNowhere, OwnNothing, OwnersBy DEF Working
<1> QED BY <1>3, <1>4, <1>5

LEMMA OwnersTokenStep ==
    ASSUME TInv, Lasting, OwnersOK, NEW r \in Requests, TokenStep(r)
    PROVE  OwnersOK'
<1>1. CASE CopyFirst(r)
  <2> PICK k : k = <<IF Copying(r) \in Codes THEN "code" ELSE "access", Copying(r)>>
    OBVIOUS
  <2>1. k \in Keys /\ k[2] = Copying(r)
    BY <1>1, CopyingHas DEF CopyFirst
  <2> QED BY <1>1, <2>1, OwnersCopying DEF CopyFirst
<1>2. CASE CopyRefresh(r)
  <2> PICK k : k = <<"refresh", Copying(r)>>
    OBVIOUS
  <2>1. k \in Keys /\ k[2] = Copying(r)
    BY <1>2, CopyingHas DEF CopyRefresh
  <2> QED BY <1>2, <2>1, OwnersCopying DEF CopyRefresh
<1>3. CASE GetCopy(r) \/ FindRow(r)
  <2>1. /\ Call(r) \in Lookups /\ token' = token /\ stale' = stale
        /\ \/ req' = Return(r) \/ req' = End(r)
           \/ req' = Step(r, "find") \/ req' = Step(r, "deleteKey")
           \/ req' = Step(r, "reap") \/ req' = Step(r, "copy")
           \/ Removing(r) /\ req' = Step(r, "deleteCopies")
    BY <1>3, StoresAre, CalmIs DEF GetCopy, FindRow, LookupAt
  <2> QED BY <2>1, LookupOwns
<1>4. CASE Reap(r) \/ DeleteRow(r)
  <2>1. /\ Call(r) \in Lookups /\ token' = token /\ stale' = stale
        /\ \/ req' = Step(r, "reapCopies")
           \/ req[r].at = "deleteRow" /\ req' = Step(r, "deleteCopies")
    BY <1>4, CalmIs DEF Reap, DeleteRow, LookupAt, DeleteRows
  <2>2. req[r].at = "deleteRow" => Removing(r)
    BY DEF TInv, RequestsOK, PlaceOK
  <2> QED BY <2>1, <2>2, LookupOwns
<1>5. CASE ReapCopies(r) \/ DeleteKey(r) \/ DeleteTokenCopies(r)
  <2>1. ASSUME ForgetCopies(r, {req[r].tok})
        PROVE  token' = token /\ stale' \subseteq stale \cup {req[r].tok}
    BY <2>1, StoresAre DEF ForgetCopies, DeleteCopies
  <2>2. ASSUME Tries(r, DeleteCopies({LookupKey(r)}) /\ UNCHANGED sessionVars)
        PROVE  token' = token /\ stale' = stale
    BY <2>2, StoresAre, CalmIs DEF Tries, DeleteCopies
  <2>3. /\ Call(r) \in Lookups /\ token' = token /\ stale' \subseteq stale \cup {req[r].tok}
        /\ req' = Return(r) \/ req' = End(r) \/ req' = Step(r, "deleteKey")
    BY <1>5, <2>1, <2>2 DEF ReapCopies, DeleteKey, DeleteTokenCopies, LookupAt
  <2> QED BY <2>3, LookupOwns
<1> QED BY <1>1, <1>2, <1>3, <1>4, <1>5, OwnersMakeToken, OwnersPurging DEF TokenStep

LEMMA OwnersSessionStep ==
    ASSUME TInv, Lasting, OwnersOK, NEW r \in Requests, SessionStep(r)
    PROVE  OwnersOK'
<1>1. OthersStay(r)
  BY SessionMoves
<1>2. token' = token /\ stale' = stale
  BY StoresAre, CalmIs DEF SessionStep, TouchRead, TouchWrite, FindSession, Unlist,
      DropSession, OpenSession, ListSession, FindSessions, DropSessions, DropSet, Tries
<1>3. \/ req' = Return(r) \/ req' = End(r)
      \/ \E place \in {"set", "unlist", "delete", "deleteSet"} : req' = Step(r, place)
      \/ OpenSession(r) \/ FindSessions(r) \/ DropSessions(r)
  BY DEF SessionStep, TouchRead, TouchWrite, FindSession, Unlist, DropSession, ListSession, DropSet
<1>4. CASE OpenSession(r) \/ FindSessions(r) \/ DropSessions(r)
  <2>1. req \in [Requests -> Request]
    BY DEF TInv, RequestsOK
  <2>2. req'[r].at \in {"list", "deleteSet", "deleteKeys"}
    BY <1>4, <2>1 DEF OpenSession, FindSessions, DropSessions, Step, Request
  <2> QED BY <1>1, <1>2, <2>2, OwnNothing, OwnersBy DEF Working
<1>5. CASE req' = Return(r) \/ req' = End(r)
  BY <1>1, <1>2, <1>5, ReturnsNowhere, OwnNothing, OwnersBy DEF Working
<1>6. ASSUME NEW place \in {"set", "unlist", "delete", "deleteSet"}, req' = Step(r, place)
      PROVE  OwnersOK'
  <2>1. req'[r].at \notin Working
    BY <1>6, StepsTo DEF Working
  <2> QED BY <1>1, <1>2, <2>1, OwnNothing, OwnersBy
<1> QED BY <1>3, <1>4, <1>5, <1>6

LEMMA OwnersUserStep ==
    ASSUME TInv, Lasting, OwnersOK, NEW r \in Requests, UserStep(r)
    PROVE  OwnersOK'
<1>1. OthersStay(r)
  BY UserMoves
<1>2. token' = token /\ stale' = stale
  BY StoresAre, CalmIs DEF UserStep, Authenticate, Schedule, CheckLink, OfferLink, Consume, FindGoogle,
      CreateGoogle, CheckIdentity, LoadAccount, SaveLink
<1>3. \/ req' = Return(r) \/ req' = End(r) \/ req' = Step(r, "store") \/ req' = Step(r, "create")
      \/ Schedule(r) \/ Consume(r) \/ FindGoogle(r) \/ CreateGoogle(r)
  BY DEF UserStep, Authenticate, CheckLink, OfferLink, CheckIdentity, LoadAccount, SaveLink
<1>4. req \in [Requests -> Request] /\ req[r] \in Request
  BY DEF TInv, RequestsOK
<1>5. ASSUME req'[r].at \notin Working
      PROVE  OwnersOK'
  BY <1>1, <1>2, <1>5, OwnNothing, OwnersBy
<1>6. ASSUME req' = Return(r) \/ req' = End(r) \/ req' = Step(r, "store") \/ req' = Step(r, "create")
      PROVE  OwnersOK'
  <2>1. req'[r].at \in {"begin", "store", "create"}
    BY <1>6, ReturnsNowhere, StepsTo
  <2> QED BY <1>5, <2>1 DEF Working
<1>7. CASE Schedule(r)
  <2>1. ASSUME req' = [req EXCEPT ![r].kind = "logout", ![r].pos = 2]
        PROVE  req'[r].at = req[r].at
    BY <1>4, <2>1 DEF Request
  <2>2. req[r].at = "begin"
    BY <1>7 DEF Schedule, At
  <2>3. \/ req' = Return(r) \/ req' = End(r)
        \/ req' = [req EXCEPT ![r].kind = "logout", ![r].pos = 2]
    BY <1>7 DEF Schedule
  <2> QED BY <1>5, <1>6, <2>1, <2>2, <2>3 DEF Working
<1>8. CASE Consume(r)
  <2> DEFINE k == IF csrf[req[r].state].intent = "link" THEN "googleLink" ELSE "googleLogin"
             q == [req[r] EXCEPT !.kind = k, !.target = csrf[req[r].state].user]
  <2>1. (req' = [req EXCEPT ![r] = q] \/ req' = End(r)) /\ req[r].at = "begin"
    BY <1>8 DEF Consume, At
  <2>2. ASSUME req' = [req EXCEPT ![r] = q]
        PROVE  req'[r].at = req[r].at
    <3>1. req'[r] = q
      BY <1>4, <2>2
    <3> QED BY <1>4, <3>1 DEF Request
  <2> QED BY <1>5, <1>6, <2>1, <2>2 DEF Working
<1>9. CASE FindGoogle(r)
  <2>1. ASSUME NEW u \in Users, req' = [req EXCEPT ![r].user = u, ![r].pos = 2]
        PROVE  req'[r].at = req[r].at
    BY <1>4, <2>1 DEF Request
  <2>2. req[r].at = "begin"
    BY <1>9 DEF FindGoogle, At
  <2>3. \/ \E u \in Users : req' = [req EXCEPT ![r].user = u, ![r].pos = 2]
        \/ req' = Step(r, "create")
    BY <1>9 DEF FindGoogle
  <2> QED BY <1>5, <1>6, <2>1, <2>2, <2>3 DEF Working
<1>10. CASE CreateGoogle(r)
  <2>1. ASSUME NEW u \in Users, req' = [req EXCEPT ![r].user = u, ![r].pos = 2, ![r].at = "begin"]
        PROVE  req'[r].at = "begin"
    BY <1>4, <2>1 DEF Request
  <2> QED BY <1>5, <1>6, <1>10, <2>1 DEF CreateGoogle, Working
<1> QED BY <1>3, <1>6, <1>7, <1>8, <1>9, <1>10

LEMMA OwnersStep ==
    ASSUME TInv, OwnersOK, [Next]_vars
    PROVE  OwnersOK'
<1> Lasting
  BY LastingStep
<1>1. ASSUME NEW r \in Requests, Arrives(r)
      PROVE  OwnersOK'
  <2> PICK q : Start(r, q) /\ q.pos = 1 /\ q.at = "begin"
    BY <1>1, ArrivalStarts
  <2>1. req'[r].at = "begin"
    BY DEF Start, TInv, RequestsOK
  <2> QED BY <1>1, <2>1, ArrivalMoves, StoresAre, OwnNothing, OwnersBy DEF Working
<1>2. ASSUME NEW r \in Requests, Abort(r)
      PROVE  OwnersOK'
  <2>1. token' = token /\ stale' = stale \cup Clearing(r) /\ req' = End(r)
    BY <1>2, StoresAre DEF Abort
  <2>2. \A t \in stale' : t \in stale \/ Made(t)'
    BY <2>1, ClearingActs, MadeLasts
  <2> QED BY <2>1, <2>2, ReturnsNowhere, OwnNothing, OwnersBy DEF Working
<1>3. CASE Crash
  <2>1. /\ token' = token /\ stale' = stale \cup UNION {Clearing(r) : r \in Requests}
        /\ \A o \in Requests : req'[o] = Idle
    BY <1>3, StoresAre DEF Crash
  <2>2. \A o \in Requests : OwnTokensOnly(o)'
    BY <2>1, OwnNothing DEF Idle, Working
  <2>3. GrantsOwned'
    BY <2>1 DEF OwnersOK, GrantsOwned, Made
  <2>4. \A o \in Requests : \A t \in Clearing(o) : Made(t)
    BY ClearingActs
  <2>5. \A t \in stale' : Made(t)'
    BY <2>1, <2>4 DEF OwnersOK, Made
  <2> QED BY <2>2, <2>3, <2>5 DEF OwnersOK
<1>4. CASE (\E u \in Users : SignUp(u)) \/ OfferLogin \/ TimePasses \/ UNCHANGED vars
  <2>1. req' = req /\ token' = token /\ stale' = stale
    BY <1>4, VarsAre, StoresAre DEF SignUp, OfferLogin, TimePasses, SessionExpires, StateExpires,
       ValueExpires, TimeComes, Expires, history
  <2>2. \A o \in Requests : OwnTokensOnly(o)'
    BY <2>1, OwnStays DEF OwnersOK
  <2>3. GrantsOwned' /\ \A t \in stale' : Made(t)'
    BY <2>1 DEF OwnersOK, GrantsOwned, Made
  <2> QED BY <2>2, <2>3 DEF OwnersOK
<1> QED BY <1>1, <1>2, <1>3, <1>4, OwnersSessionStep, OwnersUserStep, OwnersTokenStep DEF Next

-----------------------------------------------------------------------------
(* The theorems *)

LEMMA QuietStep ==
    ASSUME NEW u \in Users, Undisturbed(u), [Next]_vars
    PROVE  QuietInv(u)'
<1>1. CASE \E r \in Requests : Arrives(r) \/ SessionStep(r) \/ UserStep(r) \/ TokenStep(r) \/ Abort(r)
  BY <1>1, QuietArrives, QuietSessionStep, QuietUserStep, QuietTokenStep, QuietAbort
<1>2. CASE (\E v \in Users : SignUp(v)) \/ OfferLogin \/ TimePasses \/ UNCHANGED vars
  BY <1>2, QuietElse
<1> QED BY <1>1, <1>2, QuietCrash DEF Next

LEMMA QInvStep ==
    ASSUME QInv, [Next]_vars
    PROVE  QInv'
<1>1. TInv /\ TInv' /\ Lasting /\ CopyHasRow /\ CopyHasRow' /\ OwnersOK /\ OwnersOK'
  BY TInvStep, LastingStep, AccountedStep, OwnersStep DEF QInv
<1>2. ASSUME NEW u \in Users \ disturbed'
      PROVE  QuietInv(u)'
  <2>1. u \in Users \ disturbed
    BY <1>1, DisturbedGrows
  <2>2. Undisturbed(u)
    BY <1>1, <2>1 DEF Undisturbed, QInv
  <2> QED BY <2>2, QuietStep
<1> QED BY <1>1, <1>2 DEF QInv

LEMMA QInvInit ==
    ASSUME Init
    PROVE  QInv
<1>1. /\ \A o \in Requests : req[o] = Idle
      /\ alive = {} /\ rows = {} /\ copies = {} /\ stale = {} /\ listed = [u \in Users |-> {}]
      /\ \A t \in Tokens : token[t] = Unmade
      /\ \A u \in Users : user[u].row # "deleted"
  BY DEF Init, UserInit, SessionInit, TokenInit
<1>2. TInv /\ CopyHasRow
  BY <1>1, TInvInit DEF CopyHasRow
<1>3. OwnersOK
  <2>1. \A o \in Requests : OwnTokensOnly(o)
    BY <1>1 DEF OwnTokensOnly, At, LookupAt, Idle
  <2>2. GrantsOwned
    BY <1>1 DEF GrantsOwned, Made, Unmade
  <2> QED BY <1>1, <2>1, <2>2 DEF OwnersOK
<1>4. ASSUME NEW u \in Users
      PROVE  QuietInv(u)
  <2>1. \A o \in Requests : Knows(o, u) /\ ~Acts(o, u)
    <3>1. \A o \in Requests : ~Acts(o, u)
      BY <1>1, IdleActs DEF Acts
    <3>2. \A o \in Requests : Knows(o, u)
      BY <1>1 DEF Knows, KnowsCall, KnowsPlace, At, Idle
    <3> QED BY <3>1, <3>2
  <2>2. Kept(u)
    BY <1>1 DEF Kept, SessionsListed, SessionsGone, RowsGone, NoneStale, OnePair, SessionsOf, RowsOf
  <2> QED BY <2>1, <2>2 DEF QuietInv, Alone
<1> QED BY <1>2, <1>3, <1>4 DEF QInv

\* For a user for whom nothing happens.
LEMMA QuietMeans ==
    ASSUME QInv, NEW u \in Users, Quiet(u)
    PROVE  /\ Kept(u)
           /\ \A o \in Requests : ~Deleting(o, u)
           /\ \A o \in Requests : \A p, q \in RowsOf(u) : ~Replaces(o, p, q)
           /\ \A t \in TokensOf(u) : Usable(t) => t \in rows
<1>1. QuietInv(u) /\ TInv /\ OwnersOK /\ CopyHasRow /\ \A o \in Requests : ~Acts(o, u)
  BY DEF Quiet, QInv, Acts
<1>2. \A o \in Requests : ~Deleting(o, u)
  BY <1>1, HolderActs
<1>3. ASSUME NEW o \in Requests, NEW p \in RowsOf(u), NEW q \in RowsOf(u), Replaces(o, p, q)
      PROVE  FALSE
  <2>1. token[req[o].tok].user = u /\ req[o].kind \in TokenKinds
    BY <1>3 DEF Replaces, Done, RowsOf, TokensOf, TokenKinds
  <2> QED BY <1>1, <2>1, HolderActs
<1>4. ASSUME NEW t \in TokensOf(u), Usable(t), t \notin rows
      PROVE  FALSE
  <2>1. PICK k \in copies : k[2] = t
    BY <1>4 DEF Usable
  <2>2. t \notin stale
    BY <1>1 DEF QuietInv, Kept, NoneStale
  <2>3. \A o \in Requests : t \notin Clearing(o)
    BY <1>1, ClearingActs
  <2> QED BY <1>1, <1>4, <2>1, <2>2, <2>3 DEF CopyHasRow
<1> QED BY <1>1, <1>2, <1>3, <1>4 DEF QuietInv

LEMMA QuietLeavesNothing == QInv => DeletionLeavesNothing
<1> SUFFICES ASSUME QInv, NEW u \in Users, user[u].row = "deleted", Quiet(u)
             PROVE  /\ listed[u] = {}
                    /\ \A s \in alive : session[s].user # u
                    /\ \A t \in TokensOf(u) : ~Usable(t)
  BY DEF DeletionLeavesNothing
<1>1. listed[u] = {} /\ SessionsOf(u) = {}
  BY QuietMeans DEF Kept, SessionsGone
<1>2. RowsOf(u) = {}
  BY QuietMeans DEF Kept, RowsGone
<1>3. \A t \in TokensOf(u) : ~Usable(t)
  BY <1>2, QuietMeans DEF RowsOf
<1> QED BY <1>1, <1>3 DEF SessionsOf

LEMMA QuietHasOnePair == QInv => OnePairPerGrant
<1> SUFFICES ASSUME QInv, NEW p \in Pairs, NEW q \in Pairs,
                    Made(p), Quiet(token[p].user), Usable(p),
                    Made(q), Quiet(token[q].user), Usable(q),
                    token[p].grant = token[q].grant, p # q
             PROVE  FALSE
  BY DEF OnePairPerGrant
<1>1. p \in Tokens /\ q \in Tokens /\ TInv /\ GrantsOwned
  BY DEF Tokens, QInv, OwnersOK
<1>2. token[p].user = token[q].user
  BY <1>1 DEF GrantsOwned
<1> PICK u : u = token[p].user
  OBVIOUS
<1>3. u \in Users /\ p \in TokensOf(u) /\ q \in TokensOf(u)
  BY <1>1, <1>2 DEF TokensOf, Made, TInv, TokenTypeOK, Unmade
<1>4. p \in RowsOf(u) /\ q \in RowsOf(u)
  BY <1>3, QuietMeans DEF RowsOf
<1> QED BY <1>3, <1>4, QuietMeans DEF Kept, OnePair

\* The commands of the users table that the steps are made of, and who gives them.
LEMMA UserSteps ==
    ASSUME TInv, [Next]_vars
    PROVE  \/ user' = user
           \/ \E u \in Users : SoftDelete(u) \/ \E g \in Googles \cup {NoGoogle} : CreateUser(u, g)
           \/ \E r \in Requests :
                 At(r, "save", "begin") /\ SaveIdentity(req[r].target, req[r].google)
<1>1. ASSUME NEW r \in Requests, UserStep(r), user' # user
      PROVE  \/ \E u \in Users : SoftDelete(u) \/ \E g \in Googles \cup {NoGoogle} : CreateUser(u, g)
             \/ At(r, "save", "begin") /\ SaveIdentity(req[r].target, req[r].google)
  <2>1. CASE Schedule(r)
    <3>1. req[r].kind \in {"deleteMe", "deleteUser"}
      BY <2>1, InCall, Positions DEF Schedule, At
    <3> QED BY <1>1, <2>1, <3>1, TargetIsUser DEF Schedule
  <2>2. CASE CreateGoogle(r)
    <3>1. req[r].google \in Googles \cup {NoGoogle}
      BY DEF TInv, RequestsOK, Request
    <3> QED BY <1>1, <2>2, <3>1 DEF CreateGoogle
  <2>3. CASE SaveLink(r)
    BY <1>1, <2>3 DEF SaveLink
  <2> QED BY <1>1, <2>1, <2>2, <2>3
          DEF UserStep, Authenticate, CheckLink, OfferLink, Consume, FindGoogle, CheckIdentity, LoadAccount
<1>2. ASSUME NEW r \in Requests, Arrives(r)
      PROVE  user' = user
  BY <1>2, ArrivalStarts DEF Start
<1>3. ASSUME NEW r \in Requests, SessionStep(r)
      PROVE  user' = user
  BY <1>3 DEF SessionStep, TouchRead, TouchWrite, FindSession, Unlist, DropSession, OpenSession,
              ListSession, FindSessions, DropSessions, DropSet
<1>4. ASSUME NEW r \in Requests, TokenStep(r)
      PROVE  user' = user
  BY <1>4 DEF TokenStep, MakeToken, CopyFirst, CopyRefresh, GetCopy, FindRow, Reap, ReapCopies,
              DeleteKey, DeleteRow, DeleteTokenCopies, FindTokens, PurgeRows, PurgeCopies
<1>5. ASSUME TimePasses
      PROVE  user' = user
  BY <1>5 DEF TimePasses, SessionExpires, StateExpires, ValueExpires, Expires
<1>6. ASSUME Crash \/ OfferLogin \/ (\E r \in Requests : Abort(r))
      PROVE  user' = user
  BY <1>6 DEF Crash, OfferLogin, Abort
<1>7. ASSUME UNCHANGED vars
      PROVE  user' = user
  BY <1>7, VarsAre
<1>8. ASSUME NEW u \in Users, SignUp(u)
      PROVE  CreateUser(u, NoGoogle)
  BY <1>8 DEF SignUp
<1> QED BY <1>1, <1>2, <1>3, <1>4, <1>5, <1>6, <1>7, <1>8 DEF Next

\* A user who is not there is not linked.
UnusedUnlinked == \A u \in Users : user[u].row = "none" => user[u].sub = NoGoogle

\* A save is of an account that was found unlinked: for a user without overlapping
\* requests it still is.
LEMMA LinkStep ==
    ASSUME QInv, UnusedUnlinked, [Next]_vars
    PROVE  /\ UnusedUnlinked'
           /\ \A u \in Users : user[u].sub # NoGoogle /\ u \notin disturbed'
                                 => user'[u].sub = user[u].sub
<1>1. TInv /\ user \in [Users -> UserRow] /\ disturbed \subseteq disturbed'
  BY DisturbedGrows DEF QInv, TInv, UserTypeOK
<1>2. CASE user' = user
  BY <1>2 DEF UnusedUnlinked
<1>3. ASSUME NEW v \in Users, NEW g \in Googles \cup {NoGoogle}, CreateUser(v, g)
      PROVE  /\ UnusedUnlinked'
             /\ \A u \in Users : user[u].sub # NoGoogle => user'[u].sub = user[u].sub
  BY <1>1, <1>3 DEF CreateUser, UnusedUnlinked
<1>4. ASSUME NEW v \in Users, SoftDelete(v)
      PROVE  /\ UnusedUnlinked'
             /\ \A u \in Users : user'[u].sub = user[u].sub
  <2>1. /\ \A u \in Users \ {v} : user'[u] = user[u]
        /\ user'[v].row = "deleted" /\ user'[v].sub = user[v].sub
    BY <1>1, <1>4 DEF SoftDelete, UserRow
  <2> QED BY <2>1 DEF UnusedUnlinked
<1>5. ASSUME NEW r \in Requests, At(r, "save", "begin"), SaveIdentity(req[r].target, req[r].google)
      PROVE  /\ UnusedUnlinked'
             /\ \A u \in Users : user[u].sub # NoGoogle /\ u \notin disturbed'
                                   => user'[u].sub = user[u].sub
  <2> DEFINE v == req[r].target
  <2>1. req[r].kind = "googleLink" /\ req[r].pos = 4 /\ v \in Users
    BY <1>1, <1>5, InCall, Positions, LinkPositions, TargetIsUser DEF At
  <2>2. (\A u \in Users \ {v} : user'[u] = user[u]) /\ user'[v].row = "active"
    BY <1>1, <1>5, <2>1 DEF SaveIdentity, UserRow
  <2>3. v \notin disturbed' => user[v].sub = NoGoogle
    BY <1>1, <2>1 DEF QInv, QuietInv, Knows, KnowsCall, CanLink
  <2> QED BY <2>1, <2>2, <2>3 DEF UnusedUnlinked
<1> QED BY <1>1, <1>2, <1>3, <1>4, <1>5, UserSteps

\* oauth.go:314, admin.go:92: whatever a user did before, one request after another,
\* and whatever happens to others meanwhile, the deletion of the user leaves no session
\* and no token by which to act for the user.
THEOREM DeletionIsComplete == Spec => []DeletionLeavesNothing
<1>1. Init => QInv
  BY QInvInit
<1>2. QInv /\ [Next]_vars => QInv'
  BY QInvStep
<1>3. QInv => DeletionLeavesNothing
  BY QuietLeavesNothing
<1> QED BY <1>1, <1>2, <1>3, PTL DEF Spec

\* token_store.go:121: requests one after another leave one usable pair of a grant,
\* though a removal after a cache hit leaves the row to the removal that follows.
THEOREM GrantHasOnePair == Spec => []OnePairPerGrant
<1>1. Init => QInv
  BY QInvInit
<1>2. QInv /\ [Next]_vars => QInv'
  BY QInvStep
<1>3. QInv => OnePairPerGrant
  BY QuietHasOnePair
<1> QED BY <1>1, <1>2, <1>3, PTL DEF Spec

\* googleauth.go:225: whatever redirects were offered when the account had no identity,
\* and however many callbacks come for others meanwhile, a linked identity is neither
\* replaced nor taken away while the user's requests do not overlap.
THEOREM IdentityIsKept == Spec => LinkIsKept
<1>1. Init => QInv /\ UnusedUnlinked
  BY QInvInit DEF Init, UserInit, UnusedUnlinked
<1>2. QInv /\ UnusedUnlinked /\ [Next]_vars => QInv' /\ UnusedUnlinked'
  BY QInvStep, LinkStep
<1>3. QInv /\ UnusedUnlinked /\ [Next]_vars =>
          [\A u \in Users : user[u].sub # NoGoogle /\ u \notin disturbed'
                => user'[u].sub = user[u].sub]_vars
  BY LinkStep
<1> QED BY <1>1, <1>2, <1>3, PTL DEF Spec, LinkIsKept

=============================================================================
