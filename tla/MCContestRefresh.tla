--------------------------- MODULE MCContestRefresh ---------------------------
(* A refresh or repair and another one after it, retried or following.     *)
EXTENDS ContestRefresh, TLC

Symmetry == Permutations(Ops)
=============================================================================
