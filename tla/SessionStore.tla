---------------------------- MODULE SessionStore ----------------------------
(***************************************************************************)
(* Sessions (internal/state/session.go): a Valkey key for each session,     *)
(* which holds whose it is and whether it is an admin's, and for each user   *)
(* the set of the keys of the user's sessions, by which all of them are      *)
(* found when the user is deleted.  Key and set are written one after the    *)
(* other; this module has the data and the single commands, Accounts the     *)
(* calls made of them.                                                      *)
(***************************************************************************)
EXTENDS UserTable

CONSTANTS
    Sessions,   \* session tokens, used once
    NoSession

ASSUME SessionAssumption == NoSession \notin Sessions

VARIABLES
    session,    \* what a session's key was set to; NoUser until it is opened
    alive,      \* session:*: the keys that are there
    listed      \* user_sessions:*: the set of a user

sessionVars == <<session, alive, listed>>

SessionTypeOK ==
    /\ session \in [Sessions -> [user: Users \cup {NoUser}, admin: BOOLEAN]]
    /\ alive \subseteq Sessions
    /\ listed \in [Users -> SUBSET Sessions]

SessionInit ==
    /\ session = [s \in Sessions |-> [user |-> NoUser, admin |-> FALSE]]
    /\ alive = {}
    /\ listed = [u \in Users |-> {}]

Opened(s) == session[s].user # NoUser

NewKey(s, u, admin) ==
    /\ session' = [session EXCEPT ![s] = [user |-> u, admin |-> admin]]
    /\ alive' = alive \cup {s}
    /\ UNCHANGED listed

SetKey(s) ==
    /\ alive' = alive \cup {s}
    /\ UNCHANGED <<session, listed>>

DeleteKeys(S) ==
    /\ alive' = alive \ S
    /\ UNCHANGED <<session, listed>>

AddMember(u, s) ==
    /\ listed' = [listed EXCEPT ![u] = @ \cup {s}]
    /\ UNCHANGED <<session, alive>>

RemoveMember(u, s) ==
    /\ listed' = [listed EXCEPT ![u] = @ \ {s}]
    /\ UNCHANGED <<session, alive>>

DeleteSet(u) ==
    /\ listed' = [listed EXCEPT ![u] = {}]
    /\ UNCHANGED <<session, alive>>

=============================================================================
