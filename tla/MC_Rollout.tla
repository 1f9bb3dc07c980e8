---------------------------- MODULE MC_Rollout ----------------------------
(* Finite instances of Rollout. *)
EXTENDS Rollout, TLC

Symmetry == Permutations(Devices)
=============================================================================
