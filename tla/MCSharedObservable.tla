------------------------- MODULE MCSharedObservable -------------------------
(***************************************************************************)
(* SharedObservable for TLC: model values and their symmetries.            *)
(***************************************************************************)
EXTENDS SharedObservable, TLC

Symmetry ==
    Permutations(Clients) \cup Permutations(Listeners) \cup
    Permutations(Versions) \cup Permutations(Instances) \cup
    Permutations(Calls)

=============================================================================
