------------------------------ MODULE SampleDuty ------------------------------
(***************************************************************************)
(* What the run scheduler promises about sample runs, without its queues.  *)
(*                                                                         *)
(* Every problem has at most one sample run that is still owed to the user *)
(* (0 when none is).  A duty ends in exactly two ways: a newer request of  *)
(* the same problem replaces it, or the run is executed to its end.  An    *)
(* execution may be interrupted any number of times; that never ends the   *)
(* duty.  User-input and stress requests are one-shot and create no duty.  *)
(***************************************************************************)
EXTENDS Naturals

CONSTANTS
    Problems,   \* the problems of one contest
    RunIds,     \* the run identifiers a client may use
    None        \* no problem

VARIABLES
    duty,       \* for each problem, the sample run owed to the user, or 0
    seen,       \* for each problem, the newest accepted run identifier
    executing   \* the problem whose duty is being executed, or None

vars == <<duty, seen, executing>>

Init ==
    /\ duty = [p \in Problems |-> 0]
    /\ seen = [p \in Problems |-> 0]
    /\ executing = None

(* A newer request of p replaces whatever was owed for p. *)
Arrive(p, id, kept) ==
    /\ id > seen[p]
    /\ seen' = [seen EXCEPT ![p] = id]
    /\ duty' = [duty EXCEPT ![p] = IF kept THEN id ELSE 0]
    /\ executing' = IF executing = p THEN None ELSE executing

Start(p) ==
    /\ executing = None
    /\ duty[p] # 0
    /\ executing' = p
    /\ UNCHANGED <<duty, seen>>

(* Preemption: the execution stops, the duty stays. *)
Interrupt ==
    /\ executing # None
    /\ executing' = None
    /\ UNCHANGED <<duty, seen>>

Discharge(p) ==
    /\ executing = p
    /\ executing' = None
    /\ duty' = [duty EXCEPT ![p] = 0]
    /\ UNCHANGED seen

Next ==
    \/ \E p \in Problems, id \in RunIds, kept \in BOOLEAN : Arrive(p, id, kept)
    \/ \E p \in Problems : Start(p) \/ Discharge(p)
    \/ Interrupt

Spec == Init /\ [][Next]_vars

===============================================================================
