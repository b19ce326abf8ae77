-------------------------- MODULE MCUserInputStore --------------------------
(* Instances of UserInputStore for TLC: interchangeable processes and      *)
(* contents.                                                               *)
EXTENDS UserInputStore, TLC

(* What the last operation returned has no effect on what follows: states  *)
(* that differ in it only are visited once, their steps all checked.       *)
WithoutReports == state

Interchangeable == Permutations(Procs) \cup Permutations(Contents)
=============================================================================
