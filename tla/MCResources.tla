---------------------------- MODULE MCResources ----------------------------
(* Instances of Resources for TLC. *)
EXTENDS Resources, TLC

Symmetry ==
    Permutations(Tenants) \cup Permutations(Creations) \cup Permutations(Removals)
=============================================================================
