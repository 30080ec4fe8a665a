---------------------------- MODULE MCInteractions ----------------------------
(* Interactions on two jobs of two branches, or on one of each. *)
EXTENDS Interactions, TLC

CONSTANTS j1, j2, here, there

AnyJobAnyBranch == Permutations(Jobs) \cup Permutations(Branches)
=============================================================================
