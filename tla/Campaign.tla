------------------------------ MODULE Campaign ------------------------------
(***************************************************************************)
(* What the backend promises about staged rollouts, however the promise is  *)
(* kept: a rollout has one target and one division into batches of its      *)
(* percentage for good, its commands name that target and go out batch      *)
(* after batch, no device comes back to waiting, and what is recorded of a  *)
(* device is true: a command for it was published, or it has run the        *)
(* target.  A device runs nothing but what a command brought it.            *)
(***************************************************************************)
EXTENDS Naturals, FiniteSets

CONSTANTS
    Rollouts, Devices,
    Versions, NoVersion,
    Factory,        \* what the devices run at first
    NoCommand,
    Percentages,    \* how much of a rollout one batch may be
    Asked           \* the devices whose owners may ask for a command

VARIABLES
    target,     \* the version of a rollout, once it is launched
    share,      \* how much of a rollout one batch of it is
    batch,      \* the number of a device's batch, 0 for none
    state,      \* what is recorded of a device in a rollout
    order,      \* the command the broker keeps for a device
    told,       \* the commands ever published, and for which device
    ran         \* the versions a device has run

vars == <<target, share, batch, state, order, told, ran>>

Recorded == {"sent", "updated", "cancelled"}

Init ==
    /\ target = [r \in Rollouts |-> NoVersion]
    /\ share = [r \in Rollouts |-> 0]
    /\ batch = [r \in Rollouts |-> [d \in Devices |-> 0]]
    /\ state = [r \in Rollouts |-> [d \in Devices |-> "none"]]
    /\ order = [d \in Devices |-> NoCommand]
    /\ told = {}
    /\ ran = [d \in Devices |-> {Factory}]

\* The least number of devices that is percentage or more of n.
IsShare(size, n, percentage) ==
    /\ size * 100 >= n * percentage
    /\ (size - 1) * 100 < n * percentage

\* Batches 1, 2, ... of E: none is larger than size, and all before one are full.
Divided(E, f, size) ==
    /\ \A d \in Devices : f[d] > 0 <=> d \in E
    /\ \A d \in E :
          /\ Cardinality({e \in E : f[e] < f[d]}) = (f[d] - 1) * size
          /\ Cardinality({e \in E : f[e] = f[d]}) <= size

Launch(r) ==
    /\ target[r] = NoVersion
    /\ \E v \in Versions : target' = [target EXCEPT ![r] = v]
    /\ \E E \in SUBSET Devices, percentage \in Percentages : \E f \in [Devices -> 0..Cardinality(E)] :
          /\ E # {}
          /\ \E size \in 1..Cardinality(E) :
                IsShare(size, Cardinality(E), percentage) /\ Divided(E, f, size)
          /\ share' = [share EXCEPT ![r] = percentage]
          /\ batch' = [batch EXCEPT ![r] = f]
          /\ state' = [state EXCEPT ![r] =
                          [d \in Devices |-> IF d \in E THEN "pending" ELSE "none"]]
    /\ UNCHANGED <<order, told, ran>>

Publish(d, c) ==
    /\ order' = [order EXCEPT ![d] = c]
    /\ told' = told \cup {<<d, c>>}
    /\ UNCHANGED <<target, share, batch, state, ran>>

\* A command of a rollout goes out when no device of an earlier batch waits.
Order(r, d) ==
    /\ state[r][d] # "none"
    /\ \A e \in Devices : state[r][e] = "pending" => batch[r][d] <= batch[r][e]
    /\ \E image \in Versions :
          Publish(d, [version |-> target[r], image |-> image, by |-> r])

\* A command that belongs to no rollout.
Ask(d) ==
    /\ d \in Asked
    /\ \E v \in Versions : Publish(d, [version |-> v, image |-> v, by |-> 0])

Clear(d) ==
    /\ order' = [order EXCEPT ![d] = NoCommand]
    /\ UNCHANGED <<target, share, batch, state, told, ran>>

Commanded(d, r) == \E t \in told : t[1] = d /\ t[2].by = r

Record(r, d, s) ==
    /\ state[r][d] # "none"
    /\ s = "sent" => Commanded(d, r) \/ Commanded(d, 0)
    /\ s = "updated" => target[r] \in ran[d]
    /\ state' = [state EXCEPT ![r][d] = s]
    /\ UNCHANGED <<target, share, batch, order, told, ran>>

Flash(d) ==
    /\ \E t \in told : t[1] = d /\ ran' = [ran EXCEPT ![d] = @ \cup {t[2].image}]
    /\ UNCHANGED <<target, share, batch, state, order, told>>

Next ==
    \/ \E r \in Rollouts : Launch(r)
    \/ \E d \in Devices : Ask(d) \/ Clear(d) \/ Flash(d)
    \/ \E r \in Rollouts, d \in Devices : Order(r, d) \/ \E s \in Recorded : Record(r, d, s)

Spec == Init /\ [][Next]_vars
=============================================================================
