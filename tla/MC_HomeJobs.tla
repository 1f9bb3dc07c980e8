---------------------------- MODULE MC_HomeJobs ----------------------------
(* Finite instances of HomeJobs: one user who owns every home. *)
EXTENDS HomeJobs, TLC

CONSTANTS u1

MCUsers == {u1}
MCOwner == [h \in Homes |-> u1]

Symmetry == Permutations(Homes) \cup Permutations(Devices)
=============================================================================
