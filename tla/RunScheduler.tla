----------------------------- MODULE RunScheduler -----------------------------
(***************************************************************************)
(* The logical run scheduler of `atc watch` (commands/run_scheduler.rs).   *)
(*                                                                         *)
(* One attempt may be active; the newest request of the user is the        *)
(* foreground; sample runs that were preempted wait in a FIFO queue.       *)
(* User-input and stress requests are never queued again.  The struct is   *)
(* owned by the worker thread.  Only the start gates are shared: the UI    *)
(* thread advances them when a source file disappears (tui/message.rs).    *)
(***************************************************************************)
EXTENDS Naturals, Sequences, SequencesExt

CONSTANTS
    Problems,   \* the problem indices of one contest
    RunIds,     \* the run identifiers that occur
    Revisions,  \* the source revisions that occur
    None        \* Option::None

Kinds == {"Samples", "UserInput", "Stress"}
LogicalStates == {"Latest", "Obsolete", "Cancelled"}

(* A RunRequest.  The revision is the one in a user-input snapshot; the    *)
(* other kinds carry none and have 0.                                      *)
Request ==
    {r \in [runId : RunIds, problem : Problems, kind : Kinds, revision : Revisions] :
        r.kind # "UserInput" => r.revision = 0}
ActiveRequest == [request : Request, state : LogicalStates, cancelRequested : BOOLEAN]
RetiredActive == [request : Request, isLatest : BOOLEAN, requeueEligible : BOOLEAN]

ASSUME RunIdsAssumption == RunIds \subseteq Nat \ {0}
ASSUME RevisionsAssumption == Revisions \subseteq Nat /\ 0 \in Revisions
ASSUME NoneAssumption ==
    None \notin Problems \cup Request \cup ActiveRequest \cup RetiredActive

VARIABLES
    active,       \* the ActiveRequest, or None
    foreground,   \* the newest Request, or None
    pending,      \* the queue of preempted Requests
    latestSeen,   \* for each problem, the newest accepted run, 0 when absent
    retired,      \* for each problem, user input older than this is retired
    retiring,     \* the RetiredActive the worker holds between retire_active
                  \* and requeue_retired, or None
    gate          \* for each problem, the UserInputRunStartGate

queueVars == <<foreground, pending, latestSeen, retired>>
vars == <<active, foreground, pending, latestSeen, retired, retiring, gate>>

Init ==
    /\ active = None
    /\ foreground = None
    /\ pending = <<>>
    /\ latestSeen = [p \in Problems |-> 0]
    /\ retired = [p \in Problems |-> 0]
    /\ retiring = None
    /\ gate = [p \in Problems |-> 0]

-------------------------------------------------------------------------------
(* Queries and queue helpers. *)

Newest(a, b) == IF a < b THEN b ELSE a

UserInputRetired(r) ==
    /\ r.kind = "UserInput"
    /\ r.revision < gate[r.problem] \/ r.revision < retired[r.problem]

Stale(r) == UserInputRetired(r) \/ r.runId <= latestSeen[r.problem]

PreservedOnPreemption(r) == r.kind = "Samples"

IsStress(r, p, id) == r.problem = p /\ r.runId = id /\ r.kind = "Stress"

HasLogicalRequest(p) ==
    \/ foreground # None /\ foreground.problem = p
    \/ \E i \in DOMAIN pending : pending[i].problem = p

(* The queue without its first request of problem p. *)
RemoveProblem(queue, p) ==
    IF \E i \in DOMAIN queue : queue[i].problem = p
    THEN RemoveAt(queue, CHOOSE i \in DOMAIN queue :
                            /\ queue[i].problem = p
                            /\ \A j \in 1..(i - 1) : queue[j].problem # p)
    ELSE queue

PushPendingLatest(queue, r) == Append(RemoveProblem(queue, r.problem), r)

(* Mutant: only the foreground is ever started. *)
MutantForgetsQueue == IF foreground = None THEN <<>> ELSE <<foreground>>

(* The order in which start_next takes requests. *)
StartOrder == (IF foreground = None THEN <<>> ELSE <<foreground>>) \o pending

-------------------------------------------------------------------------------
(* The operations of the scheduler. *)

(* request_arrived asks the worker to cancel the attempt unless it did so  *)
(* before; evaluated before the request is accepted.                       *)
CancelsActive == active # None /\ ~active.cancelRequested

(* Mutant: the displaced foreground is overwritten instead of queued. *)
MutantDropsForeground(r) == RemoveProblem(pending, r.problem)

(* The queue after r: without its problem, with a displaced sample run. *)
QueueWith(r) ==
    LET rest == RemoveProblem(pending, r.problem)
        displaced == /\ foreground # None
                     /\ foreground.problem # r.problem
                     /\ PreservedOnPreemption(foreground)
    IN IF displaced THEN PushPendingLatest(rest, foreground) ELSE rest

(* Mutant: the superseded attempt is cancelled but stays Latest. *)
MutantKeepsLatest(r) == [active EXCEPT !.cancelRequested = TRUE]

(* The active request after r: cancelled, and obsolete in r's problem. *)
ActiveAfter(r) ==
    [active EXCEPT
        !.state = IF active.request.problem = r.problem THEN "Obsolete" ELSE @,
        !.cancelRequested = TRUE]

AcceptRequest(r) ==
    /\ ~Stale(r)
    /\ latestSeen' = [latestSeen EXCEPT ![r.problem] = r.runId]
    /\ pending' = QueueWith(r)
    /\ active' = IF active = None THEN None ELSE ActiveAfter(r)
    /\ foreground' = r
    /\ UNCHANGED <<retired, retiring>>

RequestArrived(r) ==
    \/ AcceptRequest(r)
    \/ Stale(r) /\ UNCHANGED <<active, queueVars, retiring>>

(* The revision before which user input of p is retired never goes back. *)
RetiredRevision(p, revision) == Newest(retired[p], revision)

RetireUserInputRuns(p, revision) ==
    LET minimum == RetiredRevision(p, revision)
        Matches(r) == r.problem = p /\ r.kind = "UserInput" /\ r.revision < minimum
        Keep(r) == ~Matches(r)
    IN /\ retired' = [retired EXCEPT ![p] = minimum]
       /\ foreground' = IF foreground # None /\ Matches(foreground)
                        THEN None ELSE foreground
       /\ pending' = IF \E i \in DOMAIN pending : Matches(pending[i])
                     THEN SelectSeq(pending, Keep) ELSE pending
       /\ UNCHANGED <<active, latestSeen, retiring>>

CancelsActiveStress(p, id) ==
    /\ ~(foreground # None /\ IsStress(foreground, p, id))
    /\ ~\E i \in DOMAIN pending : IsStress(pending[i], p, id)
    /\ active # None
    /\ IsStress(active.request, p, id)

CancelStress(p, id) ==
    /\ UNCHANGED <<latestSeen, retired, retiring>>
    /\ \/ /\ foreground # None /\ IsStress(foreground, p, id)
          /\ foreground' = None
          /\ UNCHANGED <<active, pending>>
       \/ /\ ~(foreground # None /\ IsStress(foreground, p, id))
          /\ \E i \in DOMAIN pending :
                /\ IsStress(pending[i], p, id)
                /\ \A j \in 1..(i - 1) : ~IsStress(pending[j], p, id)
                /\ pending' = RemoveAt(pending, i)
          /\ UNCHANGED <<active, foreground>>
       \/ /\ CancelsActiveStress(p, id)
          /\ active' = [active EXCEPT !.state = "Cancelled", !.cancelRequested = TRUE]
          /\ UNCHANGED <<foreground, pending>>
       \/ /\ ~(foreground # None /\ IsStress(foreground, p, id))
          /\ ~\E i \in DOMAIN pending : IsStress(pending[i], p, id)
          /\ ~CancelsActiveStress(p, id)
          /\ UNCHANGED <<active, foreground, pending>>

Startable(i) == i \in DOMAIN StartOrder /\ ~UserInputRetired(StartOrder[i])

(* Requests whose user input was retired meanwhile are skipped and lost. *)
StartNext ==
    /\ active = None
    /\ foreground' = None
    /\ \/ \E i \in DOMAIN StartOrder :
            /\ Startable(i)
            /\ \A j \in 1..(i - 1) : ~Startable(j)
            /\ active' = [request |-> StartOrder[i], state |-> "Latest",
                          cancelRequested |-> FALSE]
            /\ pending' = SubSeq(StartOrder, i + 1, Len(StartOrder))
       \/ /\ \A i \in DOMAIN StartOrder : ~Startable(i)
          /\ pending' = <<>>
          /\ UNCHANGED active
    /\ UNCHANGED <<latestSeen, retired, retiring>>

ActiveIsLatest ==
    /\ active.state = "Latest"
    /\ latestSeen[active.request.problem] = active.request.runId
    /\ ~HasLogicalRequest(active.request.problem)

ActiveIsEligible == ActiveIsLatest /\ PreservedOnPreemption(active.request)

RetireActive ==
    /\ active # None
    /\ active' = None
    /\ retiring' = [request |-> active.request,
                    isLatest |-> ActiveIsLatest,
                    requeueEligible |-> ActiveIsEligible]
    /\ UNCHANGED queueVars

(* The test requeue_retired makes once more before it queues the request. *)
RequeueAllowed ==
    /\ retiring.requeueEligible
    /\ latestSeen[retiring.request.problem] = retiring.request.runId
    /\ ~HasLogicalRequest(retiring.request.problem)

RequeueRetired ==
    /\ retiring # None
    /\ pending' = IF RequeueAllowed THEN Append(pending, retiring.request) ELSE pending
    /\ retiring' = None
    /\ UNCHANGED <<active, foreground, latestSeen, retired>>

(* The attempt reached its own end, so the retired request is let go. *)
DropRetired ==
    /\ retiring # None
    /\ retiring' = None
    /\ UNCHANGED <<active, queueVars>>

(* Mutant: the gate rises to the removed source's revision, not past it. *)
MutantStopsShort(p, revision) ==
    gate' = [gate EXCEPT ![p] = Newest(@, revision - 1)]

(* UserInputRunStartGate::retire_before, called by the UI thread. *)
RetireBefore(p, revision) ==
    gate' = [gate EXCEPT ![p] = Newest(@, revision)]

-------------------------------------------------------------------------------
(* The scheduler under any client: requests in any order, stale ones too.  *)

ClientRequest(r) == retiring = None /\ RequestArrived(r) /\ UNCHANGED gate
ClientRetire(p, v) == retiring = None /\ RetireUserInputRuns(p, v) /\ UNCHANGED gate
ClientCancel(p, id) == retiring = None /\ CancelStress(p, id) /\ UNCHANGED gate
WorkerStart == retiring = None /\ StartNext /\ UNCHANGED gate
WorkerRetire == retiring = None /\ RetireActive /\ UNCHANGED gate
WorkerRequeue == RequeueRetired /\ UNCHANGED gate
WorkerDrop == DropRetired /\ UNCHANGED gate
UiRetireBefore(p, v) == RetireBefore(p, v) /\ UNCHANGED <<active, queueVars, retiring>>

Next ==
    \/ \E r \in Request : ClientRequest(r)
    \/ \E p \in Problems, v \in Revisions : ClientRetire(p, v) \/ UiRetireBefore(p, v)
    \/ \E p \in Problems, id \in RunIds : ClientCancel(p, id)
    \/ WorkerStart \/ WorkerRetire \/ WorkerRequeue \/ WorkerDrop

Spec == Init /\ [][Next]_vars

-------------------------------------------------------------------------------
(* Correctness. *)

(* Every variable holds a value of its Rust type. *)
TypeOK ==
    /\ active \in ActiveRequest \cup {None}
    /\ foreground \in Request \cup {None}
    /\ pending \in Seq(Request)
    /\ latestSeen \in [Problems -> RunIds \cup {0}]
    /\ retired \in [Problems -> Revisions]
    /\ retiring \in RetiredActive \cup {None}
    /\ gate \in [Problems -> Revisions]

(* invariants_hold, the assertion after every operation: the foreground,   *)
(* the queue and a Latest attempt are of pairwise different problems and    *)
(* each is the newest request of its problem; an Obsolete attempt has a     *)
(* newer request, a Cancelled one is a stress run.                          *)
QueuedAreNewest ==
    /\ foreground # None => latestSeen[foreground.problem] = foreground.runId
    /\ \A i \in DOMAIN pending :
          /\ latestSeen[pending[i].problem] = pending[i].runId
          /\ foreground # None => pending[i].problem # foreground.problem
          /\ \A j \in DOMAIN pending : pending[i].problem = pending[j].problem => i = j

ActiveAgrees ==
    active # None =>
        LET p == active.request.problem
            id == active.request.runId
        IN /\ active.state = "Latest" => latestSeen[p] = id /\ ~HasLogicalRequest(p)
           /\ active.state = "Obsolete" => id < latestSeen[p]
           /\ active.state = "Cancelled" =>
                 active.request.kind = "Stress" /\ id <= latestSeen[p]

InvariantsHold == QueuedAreNewest /\ ActiveAgrees

(* Only sample runs wait in the queue, so the retirement of user input and *)
(* the cancellation of stress runs never have to search it in vain.        *)
PendingOnlySamples == \A i \in DOMAIN pending : pending[i].kind = "Samples"

(* What retire_active found eligible, requeue_retired never refuses: the   *)
(* preempted run is not lost between the two calls.                        *)
EligibleIsRequeued ==
    retiring # None /\ retiring.requeueEligible => RequeueAllowed

(* An attempt starts only for the newest request of its problem and never  *)
(* for user input that was retired before (the debug_assert of start_next).*)
StartsNewest ==
    [][active = None /\ active' # None =>
         /\ active'.request.runId = latestSeen[active'.request.problem]
         /\ active'.state = "Latest"
         /\ ~UserInputRetired(active'.request)]_vars

(* The scheduler implements SampleDuty: the owed runs are the sample runs  *)
(* that are foreground, queued, active as Latest or being retired as such. *)
Logical ==
    (IF foreground = None THEN {} ELSE {foreground})
        \cup {pending[i] : i \in DOMAIN pending}
        \cup (IF active # None /\ active.state = "Latest" THEN {active.request} ELSE {})
        \cup (IF retiring # None /\ retiring.isLatest THEN {retiring.request} ELSE {})

OwedRun(p) ==
    LET owed == {r \in Logical : r.problem = p /\ r.kind = "Samples"}
    IN IF owed = {} THEN 0 ELSE (CHOOSE r \in owed : TRUE).runId

ExecutedDuty ==
    IF active # None /\ active.state = "Latest" /\ active.request.kind = "Samples"
    THEN active.request.problem
    ELSE IF retiring # None /\ retiring.requeueEligible
         THEN retiring.request.problem ELSE None

Duty == INSTANCE SampleDuty WITH
    duty <- [p \in Problems |-> OwedRun(p)],
    seen <- latestSeen,
    executing <- ExecutedDuty

(* A sample run the scheduler accepted is never lost: it stays owed until  *)
(* a newer request of its problem arrives or it was executed to its end.   *)
KeepsSampleDuty == Duty!Spec

===============================================================================
