------------------------- MODULE MCUserInputEditor -------------------------
(***************************************************************************)
(* The editor on two rows and three contents.  The two contents that are   *)
(* not the empty one play the same part.                                   *)
(***************************************************************************)
EXTENDS UserInputEditor, TLC

CONSTANTS x, y

Contents == Permutations({x, y})
=============================================================================
