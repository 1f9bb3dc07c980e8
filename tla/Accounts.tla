------------------------------ MODULE Accounts ------------------------------
(***************************************************************************)
(* Accounts: sign-up and sign-in by password (internal/oauth) or through     *)
(* Google (internal/googleauth), sessions, the OAuth grants by which Google   *)
(* reaches a user's devices, and the deletion of an account with everything   *)
(* that lets somebody act for it.                                            *)
(*                                                                         *)
(* A request is a goroutine.  Its handler makes calls one after another      *)
(* (Script), a call one command of the database or of Valkey after another,  *)
(* and each command is a step: other requests, the passing of time and       *)
(* failures come in between.  No handler holds a lock or checks again.       *)
(*                                                                         *)
(* Valkey commands whose error the code drops may fail and the call goes on  *)
(* (Tries); any other failure ends the request (Abort).  The times at which   *)
(* sessions, states and tokens end are choices.                             *)
(***************************************************************************)
EXTENDS SessionStore, TokenStore, Naturals, Sequences

CONSTANTS
    Requests,   \* requests in flight at a time
    States,     \* state parameters of a redirect to Google, used once
    NoState,
    Mixes       \* bound: how many requests of each kind, failures and
                \* expiries a behaviour has

\* The calls a handler makes (touch: RequireSession or SessionFromRequest).
Script == [
    visit       |-> <<"touch">>,
    logout      |-> <<"touch", "endSession">>,
    deleteMe    |-> <<"touch", "schedule", "endSessions", "endSession", "purge">>,
    deleteUser  |-> <<"touch", "schedule", "endSessions", "purge">>,
    login       |-> <<"authenticate", "endSession", "openSession">>,
    startLink   |-> <<"touch", "offerLink">>,
    callback    |-> <<"consume">>,
    googleLogin |-> <<"findGoogle", "endSession", "openSession">>,
    googleLink  |-> <<"touch", "checkIdentity", "loadAccount", "save">>,
    authorize   |-> <<"touch", "create">>,
    exchange    |-> <<"getCode", "removeCode", "create">>,
    refresh     |-> <<"getRefresh", "create", "removeAccess", "removeRefresh">>,
    fulfil      |-> <<"getAccess">>]

Kinds == DOMAIN Script
SessionKinds == {"visit", "logout", "deleteMe", "deleteUser", "startLink", "authorize"}
TokenKinds == {"exchange", "refresh", "fulfil"}
Bounds == Kinds \cup {"signUp", "startLogin", "fault", "expiry"}

ASSUME RequestAssumption ==
    /\ NoState \notin States
    /\ Mixes \subseteq [Bounds -> Nat]

VARIABLES
    csrf,       \* google_csrf:*: what a state is for
    req,        \* the requests
    due,        \* bound: what is still to come of the mix
    disturbed,  \* history: the users for whom two requests were in flight at
                \* once, or for whom a request failed
    newest,     \* history: the pairs made last of their grants
    lost,       \* history: tokens purged, or reaped because an expired access
                \* value was used
    stale       \* history: tokens copied when they had no row any more, purged
                \* without having been found, or whose copies a failure left

history == <<disturbed, newest, lost, stale>>
stores  == <<sessionVars, tokenVars>>
vars    == <<user, stores, csrf, req, due, history>>

-----------------------------------------------------------------------------
(* Requests *)

Idle == [kind |-> "idle", pos |-> 0, at |-> "begin", user |-> NoUser, target |-> NoUser,
         cookie |-> NoSession, state |-> NoState, google |-> NoGoogle,
         tok |-> NoToken, new |-> NoToken, members |-> {}, found |-> {}]

Places == {"begin", "set", "unlist", "delete", "list", "deleteKeys", "deleteSet", "create",
           "store", "find", "copy", "copyRefresh", "reap", "reapCopies", "deleteKey",
           "deleteRow", "deleteCopies", "deleteRows"}

Request == [kind: Kinds \cup {"idle"}, pos: 0..5, at: Places,
            user: Users \cup {NoUser}, target: Users \cup {NoUser},
            cookie: Sessions \cup {NoSession}, state: States \cup {NoState},
            google: Googles \cup {NoGoogle},
            tok: Tokens \cup {NoToken}, new: Tokens \cup {NoToken},
            members: SUBSET Sessions, found: SUBSET Tokens]

Csrf == [intent: {"unused", "login", "spent"}, user: Users \cup {NoUser}]
        \cup [intent: {"link"}, user: Users]

Call(r) == IF req[r].kind \in Kinds THEN Script[req[r].kind][req[r].pos] ELSE "none"
At(r, call, place) == Call(r) = call /\ req[r].at = place

Step(r, place) == [req EXCEPT ![r].at = place]
End(r) == [req EXCEPT ![r] = Idle]
Return(r) ==
    IF req[r].pos = Len(Script[req[r].kind])
    THEN End(r)
    ELSE [req EXCEPT ![r].pos = @ + 1, ![r].at = "begin"]

\* The users a request acts for: by session, by password or token, as target.
ActsFor(q) == {u \in Users : \/ u \in {q.user, q.target}
                             \/ q.cookie # NoSession /\ session[q.cookie].user = u}
Meets(r, q) == {u \in ActsFor(q) : \E o \in Requests \ {r} : u \in ActsFor(req[o])}

Calm == UNCHANGED <<due, history>>

\* A value made at random: which of the unused ones is all the same.
Some(unused) == CHOOSE x \in unused : TRUE

Fails(r) ==
    /\ due["fault"] > 0
    /\ due' = [due EXCEPT !["fault"] = @ - 1]
    /\ disturbed' = disturbed \cup ActsFor(req[r])
    /\ UNCHANGED <<newest, lost>>

\* A Valkey command whose error is dropped.
Tries(r, command) ==
    \/ command /\ Calm
    \/ Fails(r) /\ UNCHANGED <<stores, stale>>

Start(r, q) ==
    /\ req[r] = Idle /\ due[q.kind] > 0
    /\ req' = [req EXCEPT ![r] = q]
    /\ due' = [due EXCEPT ![q.kind] = @ - 1]
    /\ disturbed' = disturbed \cup Meets(r, q)
    /\ UNCHANGED <<user, stores, csrf, newest, lost, stale>>

NewRequest(kind) == [Idle EXCEPT !.kind = kind, !.pos = 1]

\* A browser sends a cookie it was once given.
StartBySession(r, kind, s) ==
    /\ Opened(s)
    /\ Start(r, [NewRequest(kind) EXCEPT
                    !.cookie = s, !.user = session[s].user,
                    !.target = IF kind = "deleteMe" THEN session[s].user ELSE NoUser])

\* An admin deletes another user; for the admin's own account the calls are
\* those of deleteMe.
StartDeleteUser(r, s, u) ==
    /\ Opened(s) /\ u # session[s].user
    /\ Start(r, [NewRequest("deleteUser") EXCEPT
                    !.cookie = s, !.user = session[s].user, !.target = u])

StartLogin(r, u, s) ==
    /\ s # NoSession => Opened(s)
    /\ Start(r, [NewRequest("login") EXCEPT !.user = u, !.cookie = s])

StartCallback(r, x, g, s) ==
    /\ csrf[x].intent # "unused"
    /\ s # NoSession => Opened(s)
    /\ Start(r, [NewRequest("callback") EXCEPT !.state = x, !.google = g, !.cookie = s])

\* The OAuth client sends a value it was once given.
StartByToken(r, kind, t) ==
    /\ Made(t)
    /\ Start(r, [NewRequest(kind) EXCEPT !.tok = t, !.user = token[t].user])

-----------------------------------------------------------------------------
(* Requests of one command *)

SignUp(u) ==
    /\ due["signUp"] > 0
    /\ due' = [due EXCEPT !["signUp"] = @ - 1]
    /\ CreateUser(u, NoGoogle)
    /\ UNCHANGED <<stores, csrf, req, history>>

NewStates == {x \in States : csrf[x].intent = "unused"}

OfferLogin ==
    /\ due["startLogin"] > 0
    /\ due' = [due EXCEPT !["startLogin"] = @ - 1]
    /\ NewStates # {}
    /\ csrf' = [csrf EXCEPT ![Some(NewStates)].intent = "login"]
    /\ UNCHANGED <<user, stores, req, history>>

-----------------------------------------------------------------------------
(* Sessions *)

TouchRead(r) ==
    /\ At(r, "touch", "begin")
    /\ req' = IF req[r].cookie \in alive THEN Step(r, "set") ELSE End(r)
    /\ Calm /\ UNCHANGED <<user, stores, csrf>>

AdmittedWithoutRole(r) ==
    req[r].kind = "googleLink" => session[req[r].cookie].user = req[r].target

\* RequireAdmin, and the comparison of the link callback.
Admitted(r) ==
    /\ req[r].kind = "deleteUser" => session[req[r].cookie].admin
    /\ req[r].kind = "googleLink" => session[req[r].cookie].user = req[r].target

TouchWrite(r) ==
    /\ At(r, "touch", "set")
    /\ SetKey(req[r].cookie)
    /\ req' = IF Admitted(r) THEN Return(r) ELSE End(r)
    /\ Calm /\ UNCHANGED <<user, tokenVars, csrf>>

\* DeleteSession: a session that cannot be read is only deleted.
FindSession(r) ==
    LET s == req[r].cookie IN
    /\ At(r, "endSession", "begin")
    /\ \/ /\ req' = IF s = NoSession THEN Return(r)
                    ELSE Step(r, IF s \in alive THEN "unlist" ELSE "delete")
          /\ Calm
       \/ s # NoSession /\ req' = Step(r, "delete") /\ Fails(r) /\ UNCHANGED stale
    /\ UNCHANGED <<user, stores, csrf>>

Unlist(r) ==
    LET s == req[r].cookie IN
    /\ At(r, "endSession", "unlist")
    /\ Tries(r, RemoveMember(session[s].user, s) /\ UNCHANGED tokenVars)
    /\ req' = Step(r, "delete")
    /\ UNCHANGED <<user, csrf>>

DropSession(r) ==
    /\ At(r, "endSession", "delete")
    /\ Tries(r, DeleteKeys({req[r].cookie}) /\ UNCHANGED tokenVars)
    /\ req' = Return(r)
    /\ UNCHANGED <<user, csrf>>

NewSessions == {s \in Sessions : ~Opened(s)}

\* CreateSession; the membership in admin_users is read with it.
OpenSession(r) ==
    /\ At(r, "openSession", "begin")
    /\ NewSessions # {}
    /\ NewKey(Some(NewSessions), req[r].user, user[req[r].user].admin)
    /\ req' = [req EXCEPT ![r].cookie = Some(NewSessions), ![r].at = "list"]
    /\ Calm /\ UNCHANGED <<user, tokenVars, csrf>>

ListSession(r) ==
    /\ At(r, "openSession", "list")
    /\ Tries(r, AddMember(req[r].user, req[r].cookie) /\ UNCHANGED tokenVars)
    /\ req' = Return(r)
    /\ UNCHANGED <<user, csrf>>

\* DeleteSessionsForUser: without an answer to SMEMBERS only the set goes.
FindSessions(r) ==
    LET S == listed[req[r].target] IN
    /\ At(r, "endSessions", "begin")
    /\ \/ /\ req' = [req EXCEPT ![r].members = S,
                                ![r].at = IF S = {} THEN "deleteSet" ELSE "deleteKeys"]
          /\ Calm
       \/ req' = Step(r, "deleteSet") /\ Fails(r) /\ UNCHANGED stale
    /\ UNCHANGED <<user, stores, csrf>>

DropFirstSession(r) ==
    /\ At(r, "endSessions", "deleteKeys")
    /\ Tries(r, DeleteKeys({Some(req[r].members)}) /\ UNCHANGED tokenVars)
    /\ req' = [req EXCEPT ![r].members = {}, ![r].at = "deleteSet"]
    /\ UNCHANGED <<user, csrf>>

DropSessions(r) ==
    /\ At(r, "endSessions", "deleteKeys")
    /\ Tries(r, DeleteKeys(req[r].members) /\ UNCHANGED tokenVars)
    /\ req' = [req EXCEPT ![r].members = {}, ![r].at = "deleteSet"]
    /\ UNCHANGED <<user, csrf>>

DropSet(r) ==
    /\ At(r, "endSessions", "deleteSet")
    /\ Tries(r, DeleteSet(req[r].target) /\ UNCHANGED tokenVars)
    /\ req' = Return(r)
    /\ UNCHANGED <<user, csrf>>

-----------------------------------------------------------------------------
(* Users *)

Authenticate(r) ==
    /\ At(r, "authenticate", "begin")
    /\ req' = IF Found(req[r].user) THEN Return(r) ELSE End(r)
    /\ Calm /\ UNCHANGED <<user, stores, csrf>>

\* ScheduleUserDeletion; a user who is gone already only loses the session.
Schedule(r) ==
    /\ At(r, "schedule", "begin")
    /\ IF Found(req[r].target)
       THEN SoftDelete(req[r].target) /\ req' = Return(r)
       ELSE /\ req' = IF req[r].kind = "deleteMe"
                      THEN [req EXCEPT ![r].kind = "logout", ![r].pos = 2]
                      ELSE End(r)
            /\ UNCHANGED user
    /\ Calm /\ UNCHANGED <<stores, csrf>>

CanLink(u) == Found(u) /\ user[u].sub = NoGoogle

CheckLink(r) ==
    /\ At(r, "offerLink", "begin")
    /\ req' = IF CanLink(req[r].user) THEN Step(r, "store") ELSE End(r)
    /\ Calm /\ UNCHANGED <<user, stores, csrf>>

OfferLink(r) ==
    /\ At(r, "offerLink", "store")
    /\ NewStates # {}
    /\ csrf' = [csrf EXCEPT ![Some(NewStates)] = [intent |-> "link", user |-> req[r].user]]
    /\ req' = End(r)
    /\ Calm /\ UNCHANGED <<user, stores>>

\* GETDEL of the state, then the exchange with Google: what the callback goes on
\* with depends on the state's intent.
Consume(r) ==
    LET x == req[r].state
        link == csrf[x].intent = "link"
    IN  /\ At(r, "consume", "begin")
        /\ IF csrf[x].intent \in {"login", "link"}
           THEN /\ csrf' = [csrf EXCEPT ![x].intent = "spent"]
                /\ req' = [req EXCEPT ![r].kind = IF link THEN "googleLink" ELSE "googleLogin",
                                      ![r].target = csrf[x].user]
                /\ disturbed' = disturbed \cup
                                   Meets(r, [req[r] EXCEPT !.target = csrf[x].user])
           ELSE req' = End(r) /\ UNCHANGED <<csrf, disturbed>>
        /\ UNCHANGED <<user, stores, due, newest, lost, stale>>

\* findOrCreateGoogleUser: a query that fails finds nobody.
FindGoogle(r) ==
    /\ At(r, "findGoogle", "begin")
    /\ \/ \E u \in Users :
             /\ HasIdentity(u, req[r].google)
             /\ req' = [req EXCEPT ![r].user = u, ![r].pos = 2]
             /\ disturbed' = disturbed \cup Meets(r, [req[r] EXCEPT !.user = u])
             /\ UNCHANGED <<due, newest, lost, stale>>
       \/ /\ \A u \in Users : ~HasIdentity(u, req[r].google)
          /\ req' = Step(r, "create") /\ Calm
       \/ req' = Step(r, "create") /\ Fails(r) /\ UNCHANGED stale
    /\ UNCHANGED <<user, stores, csrf>>

CreateGoogleUnread(r) ==
    /\ At(r, "findGoogle", "create")
    /\ \/ \E u \in Users :
             /\ IdentityFree(u, req[r].google)
             /\ CreateUser(u, req[r].google)
             /\ disturbed' = disturbed \cup Meets(r, [req[r] EXCEPT !.user = u])
             /\ req' = [req EXCEPT ![r].pos = 2, ![r].at = "begin"]
       \/ /\ \A u \in Users : user[u].row = "none" => ~IdentityFree(u, req[r].google)
          /\ req' = End(r) /\ UNCHANGED <<user, disturbed>>
    /\ UNCHANGED <<stores, csrf, due, newest, lost, stale>>

CreateGoogle(r) ==
    /\ At(r, "findGoogle", "create")
    /\ \/ \E u \in Users :
             /\ IdentityFree(u, req[r].google)
             /\ CreateUser(u, req[r].google)
             /\ disturbed' = disturbed \cup Meets(r, [req[r] EXCEPT !.user = u])
             /\ req' = [req EXCEPT ![r].user = u, ![r].pos = 2, ![r].at = "begin"]
       \/ /\ \A u \in Users : user[u].row = "none" => ~IdentityFree(u, req[r].google)
          /\ req' = End(r) /\ UNCHANGED <<user, disturbed>>
    /\ UNCHANGED <<stores, csrf, due, newest, lost, stale>>

CheckIdentity(r) ==
    /\ At(r, "checkIdentity", "begin")
    /\ req' = IF \E u \in Users : HasIdentity(u, req[r].google) THEN End(r) ELSE Return(r)
    /\ Calm /\ UNCHANGED <<user, stores, csrf>>

LoadAnyAccount(r) ==
    /\ At(r, "loadAccount", "begin")
    /\ req' = IF Found(req[r].target) THEN Return(r) ELSE End(r)
    /\ Calm /\ UNCHANGED <<user, stores, csrf>>

LoadAccount(r) ==
    /\ At(r, "loadAccount", "begin")
    /\ req' = IF CanLink(req[r].target) THEN Return(r) ELSE End(r)
    /\ Calm /\ UNCHANGED <<user, stores, csrf>>

SaveLink(r) ==
    LET u == req[r].target IN
    /\ At(r, "save", "begin")
    /\ IF IdentityFree(u, req[r].google) THEN SaveIdentity(u, req[r].google) ELSE UNCHANGED user
    /\ req' = End(r)
    /\ Calm /\ UNCHANGED <<stores, csrf>>

-----------------------------------------------------------------------------
(* Tokens *)

Value == [getCode   |-> "code",   removeCode    |-> "code",
          getAccess |-> "access", removeAccess  |-> "access",
          getRefresh |-> "refresh", removeRefresh |-> "refresh"]
Lookups == DOMAIN Value
Removing(r) == Call(r) \in {"removeCode", "removeAccess", "removeRefresh"}

LookupAt(r, place) == Call(r) \in Lookups /\ req[r].at = place
LookupKey(r) == <<Value[Call(r)], req[r].tok>>

NewTokens(r) == {t \in IF req[r].kind = "authorize" THEN Codes ELSE Pairs : ~Made(t)}

\* Create: the grant of a refreshed token is that of the token it replaces.
MakeToken(r) ==
    /\ At(r, "create", "begin")
    /\ NewTokens(r) # {}
    /\ LET t == Some(NewTokens(r))
           g == IF req[r].kind = "refresh" THEN token[req[r].tok].grant ELSE t
       IN  /\ InsertRow(t, req[r].user, g)
           /\ newest' = {p \in newest : token[p].grant # g} \cup ({t} \cap Pairs)
           /\ req' = [req EXCEPT ![r].new = t, ![r].at = "copy"]
    /\ UNCHANGED <<user, sessionVars, csrf, due, disturbed, lost, stale>>

\* getByLookup
GetCopy(r) ==
    /\ LookupAt(r, "begin")
    /\ req' = IF LookupKey(r) \notin copies THEN Step(r, "find")
              ELSE IF Removing(r) THEN Step(r, "deleteCopies") ELSE Return(r)
    /\ Calm /\ UNCHANGED <<user, stores, csrf>>

FindRow(r) ==
    /\ LookupAt(r, "find")
    /\ req' = IF req[r].tok \notin rows THEN (IF Removing(r) THEN Step(r, "deleteKey") ELSE End(r))
              ELSE Step(r, IF ExpiredForLookup(LookupKey(r)) THEN "reap" ELSE "copy")
    /\ Calm /\ UNCHANGED <<user, stores, csrf>>

\* cacheToken, value by value, for a token created or found
Copying(r) == IF Call(r) = "create" THEN req[r].new ELSE req[r].tok
Copied(r) == IF Removing(r) THEN Step(r, "deleteRow") ELSE Return(r)

CopyKey(r, k) ==
    \/ /\ SetCopy(k)
       /\ stale' = IF k \in copies' /\ k[2] \notin rows THEN stale \cup {k[2]} ELSE stale
       /\ UNCHANGED <<due, disturbed, newest, lost, sessionVars>>
    \/ Fails(r) /\ UNCHANGED <<stores, stale>>

CopyFirst(r) ==
    LET t == Copying(r) IN
    /\ req[r].at = "copy"
    /\ CopyKey(r, <<IF t \in Codes THEN "code" ELSE "access", t>>)
    /\ req' = IF t \in Codes THEN Copied(r) ELSE Step(r, "copyRefresh")
    /\ UNCHANGED <<user, csrf>>

CopyRefresh(r) ==
    /\ req[r].at = "copyRefresh"
    /\ CopyKey(r, <<"refresh", Copying(r)>>)
    /\ req' = Copied(r)
    /\ UNCHANGED <<user, csrf>>

\* deleteCacheKeys
ForgetAccessCopies(r, T) ==
    \/ /\ DeleteCopies({k \in Keys : k[2] \in T /\ k[1] # "refresh"})
       /\ stale' = stale \ T
       /\ UNCHANGED <<due, disturbed, newest, lost, sessionVars>>
    \/ Fails(r) /\ stale' = stale \cup T /\ UNCHANGED stores

ForgetCopies(r, T) ==
    \/ /\ DeleteCopies({k \in Keys : k[2] \in T})
       /\ stale' = stale \ T
       /\ UNCHANGED <<due, disturbed, newest, lost, sessionVars>>
    \/ Fails(r) /\ stale' = stale \cup T /\ UNCHANGED stores

\* The row of a token found expired goes, whichever of its values was asked for.
Reap(r) ==
    /\ LookupAt(r, "reap")
    /\ DeleteRows({req[r].tok})
    /\ lost' = IF Call(r) = "getAccess" THEN lost \cup {req[r].tok} ELSE lost
    /\ req' = Step(r, "reapCopies")
    /\ UNCHANGED <<user, sessionVars, csrf, due, disturbed, newest, stale>>

ReapCopies(r) ==
    /\ LookupAt(r, "reapCopies")
    /\ ForgetCopies(r, {req[r].tok})
    /\ req' = IF Removing(r) THEN Step(r, "deleteKey") ELSE End(r)
    /\ UNCHANGED <<user, csrf>>

\* removeByLookup: of nothing found the key, of a row found the row, of a token
\* found the copies.
DeleteKey(r) ==
    /\ LookupAt(r, "deleteKey")
    /\ Tries(r, DeleteCopies({LookupKey(r)}) /\ UNCHANGED sessionVars)
    /\ req' = Return(r)
    /\ UNCHANGED <<user, csrf>>

DeleteRow(r) ==
    /\ LookupAt(r, "deleteRow")
    /\ DeleteRows({req[r].tok})
    /\ req' = Step(r, "deleteCopies")
    /\ Calm /\ UNCHANGED <<user, sessionVars, csrf>>

DeleteTokenCopies(r) ==
    /\ LookupAt(r, "deleteCopies")
    /\ ForgetCopies(r, {req[r].tok})
    /\ req' = Return(r)
    /\ UNCHANGED <<user, csrf>>

\* PurgeTokensForUser
FindTokens(r) ==
    LET T == rows \cap TokensOf(req[r].target) IN
    /\ At(r, "purge", "begin")
    /\ req' = IF T = {} THEN End(r) ELSE [req EXCEPT ![r].found = T, ![r].at = "deleteRows"]
    /\ Calm /\ UNCHANGED <<user, stores, csrf>>

PurgeRows(r) ==
    LET T == TokensOf(req[r].target) IN
    /\ At(r, "purge", "deleteRows")
    /\ DeleteRows(T)
    /\ lost' = lost \cup T
    /\ stale' = stale \cup ((T \cap rows) \ req[r].found)
    /\ req' = Step(r, "deleteCopies")
    /\ UNCHANGED <<user, sessionVars, csrf, due, disturbed, newest>>

PurgeRowsOnly(r) ==
    /\ At(r, "purge", "deleteCopies")
    /\ req' = End(r)
    /\ Calm /\ UNCHANGED <<user, stores, csrf>>

PurgeCopies(r) ==
    /\ At(r, "purge", "deleteCopies")
    /\ ForgetCopies(r, req[r].found)
    /\ req' = End(r)
    /\ UNCHANGED <<user, csrf>>

-----------------------------------------------------------------------------
(* Failures and time *)

\* The tokens whose copies a request is about to delete, their row being gone.
Clearing(r) ==
    CASE LookupAt(r, "reapCopies") \/ LookupAt(r, "deleteCopies") -> {req[r].tok}
      [] At(r, "purge", "deleteCopies") -> req[r].found
      [] OTHER -> {}

\* A request ends with an error: a query failed, a value was refused.
Abort(r) ==
    /\ req[r] # Idle
    /\ Fails(r)
    /\ stale' = stale \cup Clearing(r)
    /\ req' = End(r)
    /\ UNCHANGED <<user, stores, csrf>>

\* The process ends and starts again; rows and keys stay.
Crash ==
    /\ \E r \in Requests : req[r] # Idle
    /\ due["fault"] > 0
    /\ due' = [due EXCEPT !["fault"] = @ - 1]
    /\ disturbed' = disturbed \cup UNION {ActsFor(req[r]) : r \in Requests}
    /\ stale' = stale \cup UNION {Clearing(r) : r \in Requests}
    /\ req' = [r \in Requests |-> Idle]
    /\ UNCHANGED <<user, stores, csrf, newest, lost>>

Expires ==
    /\ due["expiry"] > 0
    /\ due' = [due EXCEPT !["expiry"] = @ - 1]
    /\ UNCHANGED <<user, req, history>>

SessionExpires(s) == s \in alive /\ DeleteKeys({s}) /\ Expires /\ UNCHANGED <<tokenVars, csrf>>

StateExpires(x) ==
    /\ csrf[x].intent \in {"login", "link"}
    /\ csrf' = [csrf EXCEPT ![x].intent = "spent"]
    /\ Expires /\ UNCHANGED stores

ValueExpires(k) == TimeComes(k) /\ Expires /\ UNCHANGED <<sessionVars, csrf>>

-----------------------------------------------------------------------------

Init ==
    /\ UserInit /\ SessionInit /\ TokenInit
    /\ csrf = [x \in States |-> [intent |-> "unused", user |-> NoUser]]
    /\ req = [r \in Requests |-> Idle]
    /\ due \in Mixes
    /\ disturbed = {} /\ newest = {} /\ lost = {} /\ stale = {}

Arrives(r) ==
    \/ \E s \in Sessions :
          \/ \E kind \in {"visit", "logout", "deleteMe", "startLink", "authorize"} :
                StartBySession(r, kind, s)
          \/ \E u \in Users : StartDeleteUser(r, s, u)
    \/ \E s \in Sessions \cup {NoSession} :
          \/ \E u \in Users : StartLogin(r, u, s)
          \/ \E x \in States, g \in Googles : StartCallback(r, x, g, s)
    \/ \E c \in Codes : StartByToken(r, "exchange", c)
    \/ \E p \in Pairs, kind \in {"refresh", "fulfil"} : StartByToken(r, kind, p)

SessionStep(r) ==
    \/ TouchRead(r) \/ TouchWrite(r)
    \/ FindSession(r) \/ Unlist(r) \/ DropSession(r)
    \/ OpenSession(r) \/ ListSession(r)
    \/ FindSessions(r) \/ DropSessions(r) \/ DropSet(r)

UserStep(r) ==
    \/ Authenticate(r) \/ Schedule(r)
    \/ CheckLink(r) \/ OfferLink(r)
    \/ Consume(r) \/ FindGoogle(r) \/ CreateGoogle(r)
    \/ CheckIdentity(r) \/ LoadAccount(r) \/ SaveLink(r)

TokenStep(r) ==
    \/ MakeToken(r) \/ CopyFirst(r) \/ CopyRefresh(r)
    \/ GetCopy(r) \/ FindRow(r) \/ Reap(r) \/ ReapCopies(r)
    \/ DeleteKey(r) \/ DeleteRow(r) \/ DeleteTokenCopies(r)
    \/ FindTokens(r) \/ PurgeRows(r) \/ PurgeCopies(r)

TimePasses ==
    \/ \E s \in Sessions : SessionExpires(s)
    \/ \E x \in States : StateExpires(x)
    \/ \E k \in Keys : ValueExpires(k)

Next ==
    \/ \E u \in Users : SignUp(u)
    \/ OfferLogin
    \/ \E r \in Requests : Arrives(r) \/ SessionStep(r) \/ UserStep(r) \/ TokenStep(r) \/ Abort(r)
    \/ Crash
    \/ TimePasses

Spec == Init /\ [][Next]_vars

-----------------------------------------------------------------------------
(* Properties *)

\* What a request has read by the time its handler has come to a call.
RequestOK(q) ==
    /\ IF q.kind = "idle" THEN q = Idle ELSE q.pos \in DOMAIN Script[q.kind]
    /\ q.cookie # NoSession => Opened(q.cookie)
    /\ q.kind \in SessionKinds => q.cookie \in Sessions /\ q.user = session[q.cookie].user
    /\ q.kind = "deleteMe" => q.target = q.user
    /\ q.kind = "deleteUser" => q.target \in Users
    /\ q.kind = "login" => q.user \in Users
    /\ q.kind = "googleLogin" => q.pos = 1 \/ q.user \in Users
    /\ q.kind = "googleLink" => q.target \in Users
    /\ q.kind \in {"callback", "googleLogin", "googleLink"} =>
          q.state \in States /\ csrf[q.state].intent # "unused" /\ q.google \in Googles
    /\ q.kind \in TokenKinds =>
          /\ q.tok \in IF q.kind = "exchange" THEN Codes ELSE Pairs
          /\ Made(q.tok) /\ q.user = token[q.tok].user
    /\ q.at \in {"set", "unlist", "list"} => q.cookie \in Sessions

\* The types, and that every request has what its next call uses.
TypeOK ==
    /\ UserTypeOK /\ SessionTypeOK /\ TokenTypeOK
    /\ csrf \in [States -> Csrf]
    /\ req \in [Requests -> Request]
    /\ \A r \in Requests : RequestOK(req[r])
    /\ due \in [Bounds -> Nat]
    /\ disturbed \subseteq Users /\ newest \subseteq Pairs
    /\ lost \subseteq Tokens /\ stale \subseteq Tokens

\* token_store.go:262 and :145: a copy is never served after the value's time, or
\* the refresh value's, although the lookup does not look at the clock when it
\* finds one: the time to live given with each copy is enough.
ServedInTime == \A k \in copies : ~ExpiredForLookup(k)

\* token_store.go:145, :482: a copy outlives its row only while a request is about
\* to delete it, when a failure kept it, when the lookup that made it had read the
\* row before, or when a purge deleted the row without having found it.
CopyHasRow ==
    \A k \in copies : \/ k[2] \in rows \cup stale
                      \/ \E r \in Requests : k[2] \in Clearing(r)

\* oauth.go:358: however refreshes, their failures and crashes interleave, the pair
\* made last of a grant has its row until the grant's time has come, the user is
\* purged, or its access value is used after that value's time (token_store.go:172).
GrantKept ==
    \A p \in newest : p \in rows \cup lost \/ ExpiryReached(<<"refresh", p>>, expired)

\* Nothing happens for the user, and nothing went wrong or in parallel for the user.
Quiet(u) == u \notin disturbed /\ \A r \in Requests : u \notin ActsFor(req[r])

Usable(t) == t \in rows \/ \E k \in copies : k[2] = t

\* token_store.go:121: requests one after another leave one usable pair of a grant,
\* though a removal after a cache hit leaves the row to the removal that follows.
OnePairPerGrant ==
    \A p, q \in {p \in Pairs : Made(p) /\ Quiet(token[p].user) /\ Usable(p)} :
        token[p].grant = token[q].grant => p = q

\* oauth.go:314, admin.go:92: whatever a user did before, one request after another,
\* the deletion leaves no session and no token by which to act for the user.
DeletionLeavesNothing ==
    \A u \in Users :
        user[u].row = "deleted" /\ Quiet(u) =>
            /\ listed[u] = {}
            /\ \A s \in alive : session[s].user # u
            /\ \A t \in TokensOf(u) : ~Usable(t)

\* googleauth.go:225: a Google identity once linked is neither replaced nor taken
\* away, its user deleted or not, by the callbacks of redirects that were offered when
\* the account had none (:159).  Only of two requests for a user at once may the one
\* save what the other could not know.
LinkIsKept ==
    [][\A u \in Users : user[u].sub # NoGoogle /\ u \notin disturbed'
          => user'[u].sub = user[u].sub]_vars

\* A request that holds an answer of Google, and one that has authenticated a user
\* and has yet to open the session.
Answering(q) == q.kind = "googleLink" \/ (q.kind = "googleLogin" /\ q.pos = 1)
SigningIn(q) == q.kind \in {"login", "googleLogin"} /\ q.pos > 1 /\ q.at # "list"

Answered == {x \in States : \E r \in Requests : Answering(req[r]) /\ req[r].state = x}
Known == {u \in Users : \E r \in Requests : SigningIn(req[r]) /\ req[r].user = u}

Mandate == INSTANCE Authority WITH
    account <- user, state <- csrf, answered <- Answered, known <- Known

\* session.go:128, googleauth.go:204: what a handler relied on several calls
\* ago still carries what it does now: whatever comes in between, sessions, links,
\* deletions and tokens come about as Authority says, and in no other way.
KeepsAuthority == Mandate!Spec

\* privacy-policy.html:44: "When you delete your account, we remove your account":
\* a deleted account stays deleted.
DeletionIsKept ==
    [][\A u \in Users : user[u].row = "deleted" => user'[u].row = "deleted"]_vars

=============================================================================
