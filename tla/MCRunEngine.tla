------------------------------ MODULE MCRunEngine ------------------------------
(* Instances of RunEngine for TLC. *)
EXTENDS RunEngine

CONSTANTS p1, p2

MCProblems == {p1, p2}
MCCpp == {p1}
MCRunIds == 1..MaxRunId
MCRevisions == 0..MaxRevision

(* A sample run of p1 that is shown as active is decided, while runs of p2 *)
(* may preempt it (run_scheduler.rs queues it again), and leaving ends.    *)
RunOfP1AndShutdownComplete == RunAndShutdownComplete(p1)

===============================================================================
