----------------------- MODULE MCClientSubscriptions -----------------------
(***************************************************************************)
(* ClientSubscriptions for TLC: model values and their symmetries.         *)
(***************************************************************************)
EXTENDS ClientSubscriptions, TLC

Symmetry == Permutations(Callers) \cup Permutations(Versions)

=============================================================================
