-------------------------- MODULE MCNavigationLoop --------------------------
(* NavigationLoop for TLC. *)
EXTENDS NavigationLoop, TLC

CONSTANTS p1, p2, c1, c2, o1, o2

\* Pages, candidates and obstructions that no constant tells apart may be swapped.
Interchangeable ==
  Permutations(Ambiguous) \cup Permutations(Pages \ Ambiguous) \cup Permutations(Candidates \ FormControls) \cup Permutations(Obstructions)
=============================================================================
