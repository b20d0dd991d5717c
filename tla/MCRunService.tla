---------------------------- MODULE MCRunService ----------------------------
(* RunService for TLC: runs are interchangeable.                           *)
EXTENDS RunService, TLC
Symmetry == Permutations(Runs)
=============================================================================
