---------------------------- MODULE MCStressCases ----------------------------
(* Instances of StressCases for TLC: interchangeable saves and loads. *)
EXTENDS StressCases, TLC

Interchangeable == Permutations(Writers) \cup Permutations(Readers)
=============================================================================
