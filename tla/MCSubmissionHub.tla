--------------------------- MODULE MCSubmissionHub ---------------------------
(* Instances of SubmissionHub for TLC. *)
EXTENDS SubmissionHub, TLC
=============================================================================
