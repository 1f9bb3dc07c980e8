----------------------------- MODULE HomeAccess -----------------------------
(***************************************************************************)
(* What the backend promises about a home and its access at the broker,     *)
(* however the promise is kept: access comes and goes while the home lives, *)
(* a deletion that was asked for stays asked for, the home is deleted only  *)
(* with its access gone, and from then on neither comes back.               *)
(***************************************************************************)
CONSTANTS
    Homes,
    Grants      \* what a home may have at the broker

VARIABLES
    phase,      \* none, live or deleted
    granted,    \* what the home has at the broker
    ending      \* the homes whose deletion is on its way

vars == <<phase, granted, ending>>

Init ==
    /\ phase = [h \in Homes |-> "none"]
    /\ granted = [h \in Homes |-> {}]
    /\ ending = {}

Create(h) ==
    /\ phase[h] = "none"
    /\ phase' = [phase EXCEPT ![h] = "live"]
    /\ UNCHANGED <<granted, ending>>

\* Granting and revoking both fail half-way, and a retry starts from there.
ChangeAccess(h) ==
    /\ phase[h] = "live"
    /\ \E g \in SUBSET Grants : granted' = [granted EXCEPT ![h] = g]
    /\ UNCHANGED <<phase, ending>>

\* Deleting a user asks for the deletion of several homes at once; the request
\* may come late, for a home that is deleted already.
AskToDelete(H) ==
    /\ \A h \in H : phase[h] # "none"
    /\ ending' = ending \cup H
    /\ UNCHANGED <<phase, granted>>

\* A request that came in the meantime is still on its way afterwards.
Delete(h) ==
    /\ h \in ending
    /\ phase[h] = "live"
    /\ granted[h] = {}
    /\ phase' = [phase EXCEPT ![h] = "deleted"]
    /\ ending' \in {ending, ending \ {h}}
    /\ UNCHANGED granted

\* The late request for a deleted home finds nothing to do.
Settle(h) ==
    /\ phase[h] = "deleted"
    /\ ending' = ending \ {h}
    /\ UNCHANGED <<phase, granted>>

Next ==
    \/ \E h \in Homes : Create(h) \/ ChangeAccess(h) \/ Delete(h) \/ Settle(h)
    \/ \E H \in SUBSET Homes : AskToDelete(H)

Spec == Init /\ [][Next]_vars
=============================================================================
