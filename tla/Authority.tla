------------------------------ MODULE Authority ------------------------------
(***************************************************************************)
(* What the backend promises about who may act for whom, however the        *)
(* promise is kept: a session is opened for a user who was live when he     *)
(* proved who he is, by password or by one answer of Google; an identity at *)
(* Google is linked in a session of the user who asked for it, once for an   *)
(* answer; an account is deleted in a session of its user or of an admin;    *)
(* tokens begin with a code made in a session of their user, stay that       *)
(* user's, and have a row only from their creation on.                      *)
(* When authority ends is not said here: see DeletionLeavesNothing.          *)
(***************************************************************************)
CONSTANTS
    Users, NoUser, Registered, Admins,
    Googles, NoGoogle,
    Sessions,
    States,
    Codes, Pairs, NoToken

VARIABLES
    account,    \* row, identity at Google and membership in admin_users
    known,      \* the users who have proved who they are and have no session for it yet
    session,    \* whose a session is, and whether it is an admin's
    state,      \* what a state of a redirect to Google was offered for
    answered,   \* states whose answer is still to be used
    token,      \* whose a token is and of which grant
    rows        \* the tokens that have a row

vars == <<account, known, session, state, answered, token, rows>>

Init ==
    /\ account = [u \in Users |-> [row   |-> IF u \in Registered THEN "active" ELSE "none",
                                   sub   |-> NoGoogle,
                                   admin |-> u \in Admins]]
    /\ known = {}
    /\ session = [s \in Sessions |-> [user |-> NoUser, admin |-> FALSE]]
    /\ state = [x \in States |-> [intent |-> "unused", user |-> NoUser]]
    /\ answered = {}
    /\ token = [t \in Codes \cup Pairs |-> [user |-> NoUser, grant |-> NoToken]]
    /\ rows = {}

Live(u) == account[u].row = "active"
InSession(u) == \E s \in Sessions : session[s].user = u
Free(u, g) == \A v \in Users \ {u} : account[v].row # "none" => account[v].sub # g

UseAnswer(x, u) ==
    /\ x \in answered /\ state[x].user = u
    /\ answered' = answered \ {x}

NewAccount(u, g) ==
    /\ account[u].row = "none"
    /\ account' = [account EXCEPT ![u] = [row |-> "active", sub |-> g, admin |-> FALSE]]

Join(u) ==
    /\ NewAccount(u, NoGoogle)
    /\ UNCHANGED <<known, session, state, answered, token, rows>>

JoinByGoogle(u, g, x) ==
    /\ Free(u, g) /\ NewAccount(u, g)
    /\ UseAnswer(x, NoUser)
    /\ known' = known \cup {u}
    /\ UNCHANGED <<session, state, token, rows>>

ProveByPassword(u) ==
    /\ Live(u)
    /\ known' = known \cup {u}
    /\ UNCHANGED <<account, session, state, answered, token, rows>>

ProveByGoogle(u, x) ==
    /\ Live(u) /\ account[u].sub # NoGoogle
    /\ UseAnswer(x, NoUser)
    /\ known' = known \cup {u}
    /\ UNCHANGED <<account, session, state, token, rows>>

\* The user may have proved who he is more than once.
SignIn(s, u) ==
    /\ u \in known /\ known' \in {known, known \ {u}}
    /\ session[s].user = NoUser
    /\ session' = [session EXCEPT ![s] = [user |-> u, admin |-> account[u].admin]]
    /\ UNCHANGED <<account, state, answered, token, rows>>

OfferLogin(x) ==
    /\ state[x].intent = "unused"
    /\ state' = [state EXCEPT ![x] = [intent |-> "login", user |-> NoUser]]
    /\ UNCHANGED <<account, known, session, answered, token, rows>>

OfferLink(x, u) ==
    /\ state[x].intent = "unused" /\ InSession(u)
    /\ state' = [state EXCEPT ![x] = [intent |-> "link", user |-> u]]
    /\ UNCHANGED <<account, known, session, answered, token, rows>>

\* The state is answered, or its time comes.
Spend(x) ==
    /\ state[x].intent \in {"login", "link"}
    /\ state' = [state EXCEPT ![x].intent = "spent"]
    /\ answered' \in {answered, answered \cup {x}}
    /\ UNCHANGED <<account, known, session, token, rows>>

\* Linking also brings back an account that was deleted meanwhile.
Link(u, g, x) ==
    /\ account[u].row # "none" /\ InSession(u) /\ Free(u, g)
    /\ account' = [account EXCEPT ![u].row = "active", ![u].sub = g]
    /\ UseAnswer(x, u)
    /\ UNCHANGED <<known, session, state, token, rows>>

Delete(u) ==
    /\ Live(u)
    /\ \E s \in Sessions : session[s].user = u \/ session[s].admin
    /\ account' = [account EXCEPT ![u].row = "deleted", ![u].admin = FALSE]
    /\ UNCHANGED <<known, session, state, answered, token, rows>>

NewToken(t, u, g) ==
    /\ token[t].user = NoUser
    /\ token' = [token EXCEPT ![t] = [user |-> u, grant |-> g]]
    /\ rows' = rows \cup {t}
    /\ UNCHANGED <<account, known, session, state, answered>>

Authorize(u, c) == InSession(u) /\ NewToken(c, u, c)
Exchange(c, p) == token[c].user # NoUser /\ NewToken(p, token[c].user, p)
Refresh(q, p) == token[q].user # NoUser /\ NewToken(p, token[q].user, token[q].grant)

Forget(T) ==
    /\ rows' = rows \ T
    /\ UNCHANGED <<account, known, session, state, answered, token>>

\* Requests end before they have done what they came for.
GiveUp ==
    /\ known' \in SUBSET known
    /\ answered' \in SUBSET answered
    /\ UNCHANGED <<account, session, state, token, rows>>

Next ==
    \/ \E u \in Users :
          \/ Join(u) \/ ProveByPassword(u) \/ Delete(u)
          \/ \E s \in Sessions : SignIn(s, u)
          \/ \E c \in Codes : Authorize(u, c)
          \/ \E x \in States : \/ ProveByGoogle(u, x) \/ OfferLink(x, u)
                               \/ \E g \in Googles : JoinByGoogle(u, g, x) \/ Link(u, g, x)
    \/ \E x \in States : OfferLogin(x) \/ Spend(x)
    \/ \E p \in Pairs : \/ \E c \in Codes : Exchange(c, p)
                        \/ \E q \in Pairs : Refresh(q, p)
    \/ \E T \in SUBSET (Codes \cup Pairs) : Forget(T)
    \/ GiveUp

Spec == Init /\ [][Next]_vars
=============================================================================
