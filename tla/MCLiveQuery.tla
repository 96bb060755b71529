---------------------------- MODULE MCLiveQuery ----------------------------
(***************************************************************************)
(* LiveQuery for TLC: model values and their symmetries.                   *)
(***************************************************************************)
EXTENDS LiveQuery, TLC

Symmetry ==
    Permutations(Versions) \cup Permutations(Callers) \cup
    Permutations(Instances) \cup Permutations(Calls)

=============================================================================
