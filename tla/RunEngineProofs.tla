---------------------------- MODULE RunEngineProofs ----------------------------
(***************************************************************************)
(* Proofs about the run scheduler and about the engine that drives it, for *)
(* any set of problems, run identifiers and revisions.                     *)
(*                                                                         *)
(* Part I, the scheduler alone, under any client.  One inductive           *)
(* invariant, IInv, carries every safety property: the invariants_hold     *)
(* assertion of the code alone is not inductive, because the worker takes  *)
(* the active request out of the scheduler before it hands it back         *)
(* (RetiringAgrees), and because a request that was displaced stays unique *)
(* only as sample runs alone are queued.  For the refinement of SampleDuty *)
(* the run owed for a problem is always the newest one of that problem.    *)
(*                                                                         *)
(* Part II, the engine: session loop, command and message channel, worker  *)
(* and attempt thread.  Its inductive invariant is EngineAlways: IInv, the *)
(* worker's place in its loop and what it holds there (WorkerInv), and,    *)
(* while the session runs, what the screen, the channels and the scheduler *)
(* have to do with one another (RunningInv).  Every step is first reduced  *)
(* to its effect on sets: the requests under way (Commanded, Queued, Held) *)
(* and the messages not yet read (Said); each part of the invariant is     *)
(* then shown from the effect alone, in a lemma of its own.                *)
(***************************************************************************)
EXTENDS RunEngine, SequenceTheorems, FiniteSetTheorems, TLAPS

-------------------------------------------------------------------------------
(* Part I: the scheduler.                                                  *)

(* No two requests of the queue are of the same problem. *)
DistinctProblems(queue) ==
    \A i, j \in DOMAIN queue : queue[i].problem = queue[j].problem => i = j

(* The retired request is in nobody else's hands, and an eligible one is a *)
(* sample run that is still the newest request of its problem.             *)
RetiringAgrees ==
    retiring # None =>
        /\ active = None
        /\ retiring.requeueEligible =>
              /\ latestSeen[retiring.request.problem] = retiring.request.runId
              /\ ~HasLogicalRequest(retiring.request.problem)
              /\ retiring.request.kind = "Samples"

IInv == TypeOK /\ InvariantsHold /\ PendingOnlySamples /\ RetiringAgrees

-------------------------------------------------------------------------------
(* Lemmas about queues. *)

(* The sequence without one of its elements keeps the others in order. *)
LEMMA RemoveAtElements ==
    ASSUME NEW S, NEW s \in Seq(S), NEW i \in DOMAIN s
    PROVE /\ RemoveAt(s, i) \in Seq(S)
          /\ Len(RemoveAt(s, i)) = Len(s) - 1
          /\ \A k \in 1..(Len(s) - 1) :
                RemoveAt(s, i)[k] = IF k < i THEN s[k] ELSE s[k + 1]
<1> DEFINE left == SubSeq(s, 1, i - 1)
           right == SubSeq(s, i + 1, Len(s))
<1>1. i \in 1..Len(s) /\ Len(s) \in Nat
  OBVIOUS
<1>2. left \in Seq(S) /\ Len(left) = i - 1 /\ \A k \in 1..(i - 1) : left[k] = s[k]
  BY <1>1
<1>3. /\ right \in Seq(S) /\ Len(right) = Len(s) - i
      /\ \A k \in 1..(Len(s) - i) : right[k] = s[k + i]
  BY <1>1
<1>4. /\ left \o right \in Seq(S) /\ Len(left \o right) = Len(s) - 1
      /\ \A k \in 1..(Len(s) - 1) :
            (left \o right)[k] = IF k < i THEN s[k] ELSE s[k + 1]
  <2> HIDE DEF left, right
  <2> QED BY <1>1, <1>2, <1>3, ConcatProperties
<1> QED BY <1>4 DEF RemoveAt

(* remove_pending_problem on a queue of distinct problems leaves the       *)
(* requests of the other problems, and nothing else.                       *)
LEMMA RemoveProblemElements ==
    ASSUME NEW queue \in Seq(Request), NEW p, DistinctProblems(queue)
    PROVE LET rest == RemoveProblem(queue, p)
          IN /\ rest \in Seq(Request)
             /\ DistinctProblems(rest)
             /\ \A k \in DOMAIN rest :
                   rest[k].problem # p /\ \E i \in DOMAIN queue : rest[k] = queue[i]
<1>1. CASE ~\E i \in DOMAIN queue : queue[i].problem = p
  BY <1>1 DEF RemoveProblem
<1>2. CASE \E i \in DOMAIN queue : queue[i].problem = p
  <2> DEFINE First(i) == /\ queue[i].problem = p
                         /\ \A j \in 1..(i - 1) : queue[j].problem # p
             at == CHOOSE i \in DOMAIN queue : First(i)
             rest == RemoveAt(queue, at)
  <2>1. \E i \in DOMAIN queue : First(i)
    BY <1>2 DEF DistinctProblems
  <2>2. at \in DOMAIN queue /\ First(at)
    BY <2>1
  <2>3. RemoveProblem(queue, p) = rest
    BY <1>2 DEF RemoveProblem
  <2> HIDE DEF at
  <2>4. /\ rest \in Seq(Request) /\ Len(rest) = Len(queue) - 1
        /\ \A k \in 1..(Len(queue) - 1) :
              rest[k] = IF k < at THEN queue[k] ELSE queue[k + 1]
    BY <2>2, RemoveAtElements
  <2> HIDE DEF rest
  <2>5. DOMAIN rest = 1..(Len(queue) - 1) /\ at \in 1..Len(queue) /\ Len(queue) \in Nat
    BY <2>2, <2>4
  <2>6. \A k \in DOMAIN rest :
           rest[k].problem # p /\ \E i \in DOMAIN queue : rest[k] = queue[i]
    BY <2>2, <2>4, <2>5 DEF DistinctProblems
  <2>7. DistinctProblems(rest)
    <3> SUFFICES ASSUME NEW k \in DOMAIN rest, NEW l \in DOMAIN rest, rest[k].problem = rest[l].problem
                 PROVE k = l
      BY DEF DistinctProblems
    <3> DEFINE from(j) == IF j < at THEN j ELSE j + 1
    <3>1. /\ from(k) \in DOMAIN queue /\ rest[k] = queue[from(k)]
          /\ from(l) \in DOMAIN queue /\ rest[l] = queue[from(l)]
      BY <2>4, <2>5
    <3>2. from(k) = from(l) => k = l
      BY <2>5
    <3> HIDE DEF from
    <3> QED BY <3>1, <3>2 DEF DistinctProblems
  <2> QED BY <2>3, <2>4, <2>6, <2>7
<1> QED BY <1>1, <1>2

(* The fields of a request. *)
LEMMA RequestFields ==
    ASSUME NEW r \in Request
    PROVE /\ r.problem \in Problems /\ r.kind \in Kinds /\ r.revision \in Revisions
          /\ r.runId \in RunIds /\ r.runId \in Nat
BY RunIdsAssumption DEF Request

(* Run identifiers are numbers, so they can be compared. *)
LEMMA LatestSeenIsNat ==
    ASSUME TypeOK, NEW p \in Problems
    PROVE latestSeen[p] \in RunIds \cup {0} /\ latestSeen[p] \in Nat
<1>1. latestSeen[p] \in RunIds \cup {0}
  BY DEF TypeOK
<1>2. RunIds \cup {0} \subseteq Nat
  BY RunIdsAssumption
<1> QED BY <1>1, <1>2

(* The active request was accepted, so its problem has seen no older one. *)
LEMMA ActiveFields ==
    ASSUME IInv, active # None
    PROVE /\ active \in ActiveRequest /\ active.request \in Request
          /\ active.state \in LogicalStates
          /\ active.request.runId <= latestSeen[active.request.problem]
<1>1. /\ active \in ActiveRequest /\ active.request \in Request
      /\ active.state \in LogicalStates
  BY DEF IInv, TypeOK, ActiveRequest
<1>2. /\ active.request.runId \in Nat /\ active.request.problem \in Problems
      /\ latestSeen[active.request.problem] \in Nat
  BY <1>1, RequestFields, LatestSeenIsNat DEF IInv
<1>3. CASE active.state = "Latest"
  BY <1>1, <1>2, <1>3 DEF IInv, InvariantsHold, ActiveAgrees
<1>4. CASE active.state = "Obsolete"
  BY <1>1, <1>2, <1>4 DEF IInv, InvariantsHold, ActiveAgrees
<1>5. CASE active.state = "Cancelled"
  BY <1>1, <1>2, <1>5 DEF IInv, InvariantsHold, ActiveAgrees
<1> QED BY <1>1, <1>3, <1>4, <1>5 DEF LogicalStates

(* The queue that AcceptRequest leaves: sample runs, each the newest of    *)
(* its problem, no two of one problem and none of the request's.           *)
LEMMA QueueWithElements ==
    ASSUME IInv, NEW r \in Request
    PROVE LET queue == QueueWith(r)
          IN /\ queue \in Seq(Request)
             /\ DistinctProblems(queue)
             /\ \A k \in DOMAIN queue :
                   /\ queue[k].problem # r.problem
                   /\ latestSeen[queue[k].problem] = queue[k].runId
                   /\ queue[k].kind = "Samples"
<1> DEFINE rest == RemoveProblem(pending, r.problem)
           push == RemoveProblem(rest, foreground.problem)
           Good(queue) == \A k \in DOMAIN queue :
                             /\ queue[k].problem # r.problem
                             /\ latestSeen[queue[k].problem] = queue[k].runId
                             /\ queue[k].kind = "Samples"
<1>1. pending \in Seq(Request) /\ DistinctProblems(pending)
  BY DEF IInv, TypeOK, InvariantsHold, QueuedAreNewest, DistinctProblems
<1>2. /\ rest \in Seq(Request) /\ DistinctProblems(rest)
      /\ \A k \in DOMAIN rest :
            rest[k].problem # r.problem /\ \E i \in DOMAIN pending : rest[k] = pending[i]
  BY <1>1, RemoveProblemElements
<1>3. Good(rest)
  BY <1>2 DEF IInv, InvariantsHold, QueuedAreNewest, PendingOnlySamples
<1> DEFINE displaced == /\ foreground # None
                        /\ foreground.problem # r.problem
                        /\ PreservedOnPreemption(foreground)
<1>4. CASE ~displaced
  <2>1. QueueWith(r) = rest
    BY <1>4 DEF QueueWith
  <2> QED BY <2>1, <1>2, <1>3
<1>5. CASE displaced
  <2> HIDE DEF rest
  <2>1. QueueWith(r) = Append(push, foreground)
    BY <1>5 DEF QueueWith, PushPendingLatest, rest
  <2>2. /\ push \in Seq(Request) /\ DistinctProblems(push)
        /\ \A k \in DOMAIN push :
              /\ push[k].problem # foreground.problem
              /\ \E i \in DOMAIN rest : push[k] = rest[i]
    BY <1>2, RemoveProblemElements
  <2> HIDE DEF push
  <2>3. foreground \in Request /\ latestSeen[foreground.problem] = foreground.runId
    BY <1>5 DEF IInv, TypeOK, InvariantsHold, QueuedAreNewest
  <2>4. Good(push)
    BY <2>2, <1>3
  <2>5. /\ Append(push, foreground) \in Seq(Request)
        /\ DOMAIN Append(push, foreground) = 1..(Len(push) + 1)
        /\ DOMAIN push = 1..Len(push) /\ Len(push) \in Nat
        /\ \A k \in 1..Len(push) : Append(push, foreground)[k] = push[k]
        /\ Append(push, foreground)[Len(push) + 1] = foreground
    BY <2>2, <2>3
  <2>6. DistinctProblems(Append(push, foreground))
    BY <2>2, <2>5 DEF DistinctProblems
  <2>7. Good(Append(push, foreground))
    BY <2>3, <2>4, <2>5, <1>5 DEF PreservedOnPreemption
  <2> QED BY <2>1, <2>5, <2>6, <2>7
<1> QED BY <1>4, <1>5

(* Every request of that queue was queued or foreground before. *)
LEMMA QueueWithComesFrom ==
    ASSUME IInv, NEW r \in Request, NEW k \in DOMAIN QueueWith(r)
    PROVE \/ \E i \in DOMAIN pending : QueueWith(r)[k] = pending[i]
          \/ foreground # None /\ QueueWith(r)[k] = foreground
<1> DEFINE rest == RemoveProblem(pending, r.problem)
           push == RemoveProblem(rest, foreground.problem)
<1>1. pending \in Seq(Request) /\ DistinctProblems(pending)
  BY DEF IInv, TypeOK, InvariantsHold, QueuedAreNewest, DistinctProblems
<1>2. /\ rest \in Seq(Request) /\ DistinctProblems(rest)
      /\ \A j \in DOMAIN rest : \E i \in DOMAIN pending : rest[j] = pending[i]
  BY <1>1, RemoveProblemElements
<1>3. CASE QueueWith(r) = rest
  BY <1>2, <1>3
<1>4. CASE QueueWith(r) = Append(push, foreground) /\ foreground # None
  <2> HIDE DEF rest
  <2>1. /\ push \in Seq(Request)
        /\ \A j \in DOMAIN push : \E i \in DOMAIN rest : push[j] = rest[i]
    BY <1>2, RemoveProblemElements
  <2> HIDE DEF push
  <2>2. CASE k \in DOMAIN push
    BY <1>2, <1>4, <2>1, <2>2
  <2>3. CASE k = Len(push) + 1
    BY <1>4, <2>1, <2>3
  <2> QED BY <1>4, <2>1, <2>2, <2>3
<1> QED BY <1>3, <1>4 DEF QueueWith, PushPendingLatest

-------------------------------------------------------------------------------
(* The initial state and the steps. *)

LEMMA InitIInv == Init => IInv
<1> SUFFICES ASSUME Init PROVE IInv
  OBVIOUS
<1>1. TypeOK
  BY RevisionsAssumption DEF Init, TypeOK
<1> QED BY <1>1 DEF Init, IInv, InvariantsHold, QueuedAreNewest, ActiveAgrees,
                    PendingOnlySamples, RetiringAgrees

(* None is no request, active request or retired one. *)
LEMMA NoneIsNoRequest ==
    /\ None \notin Request /\ None \notin ActiveRequest /\ None \notin RetiredActive
BY NoneAssumption

(* A step that leaves the active request alone and gives its problem no    *)
(* new request keeps what is known about it.                               *)
LEMMA ActiveAgreesKept ==
    ASSUME ActiveAgrees, UNCHANGED <<active, latestSeen>>,
           \A q : HasLogicalRequest(q)' => HasLogicalRequest(q)
    PROVE ActiveAgrees'
BY DEF ActiveAgrees

LEMMA AcceptKeepsIInv ==
    ASSUME IInv, NEW r \in Request, retiring = None, AcceptRequest(r), UNCHANGED gate
    PROVE IInv'
<1> USE NoneIsNoRequest
<1> DEFINE queue == QueueWith(r)
<1>1. /\ queue \in Seq(Request)
      /\ DistinctProblems(queue)
      /\ \A k \in DOMAIN queue :
            /\ queue[k].problem # r.problem
            /\ latestSeen[queue[k].problem] = queue[k].runId
            /\ queue[k].kind = "Samples"
  BY QueueWithElements
<1>2. pending' = queue /\ foreground' = r /\ UNCHANGED <<retired, retiring, gate>>
  BY DEF AcceptRequest
<1> HIDE DEF queue
<1>3. /\ r.problem \in Problems /\ r.runId \in RunIds /\ r.runId \in Nat
      /\ \A k \in DOMAIN queue : queue[k] \in Request /\ queue[k].problem \in Problems
  <2>1. \A k \in DOMAIN queue : queue[k] \in Request
    BY <1>1
  <2> QED BY <2>1, RequestFields
<1>4. /\ latestSeen' = [latestSeen EXCEPT ![r.problem] = r.runId]
      /\ latestSeen \in [Problems -> RunIds \cup {0}]
      /\ latestSeen'[r.problem] = r.runId
      /\ \A p \in Problems : p # r.problem => latestSeen'[p] = latestSeen[p]
      /\ latestSeen[r.problem] < r.runId /\ latestSeen[r.problem] \in Nat
  <2>1. /\ latestSeen' = [latestSeen EXCEPT ![r.problem] = r.runId]
        /\ ~(r.runId <= latestSeen[r.problem])
    BY DEF AcceptRequest, Stale
  <2>2. latestSeen \in [Problems -> RunIds \cup {0}]
    BY DEF IInv, TypeOK
  <2>3. latestSeen[r.problem] \in Nat
    BY <1>3, LatestSeenIsNat DEF IInv
  <2> QED BY <2>1, <2>2, <2>3, <1>3
<1>5. active \in ActiveRequest \cup {None}
  BY DEF IInv, TypeOK
<1>6. active' \in ActiveRequest \cup {None}
  BY <1>5 DEF AcceptRequest, ActiveAfter, ActiveRequest, LogicalStates
<1>7. TypeOK'
  BY <1>1, <1>2, <1>3, <1>4, <1>6 DEF IInv, TypeOK
<1>8. QueuedAreNewest'
  BY <1>1, <1>2, <1>3, <1>4 DEF QueuedAreNewest, DistinctProblems
<1>9. ActiveAgrees'
  <2> SUFFICES ASSUME active' # None PROVE ActiveAgrees'
    BY DEF ActiveAgrees
  <2>1. /\ active # None /\ active \in ActiveRequest
        /\ active' = ActiveAfter(r) /\ active'.request = active.request
        /\ active.request \in Request
    BY <1>5 DEF AcceptRequest, ActiveAfter, ActiveRequest
  <2>2. CASE active.request.problem = r.problem
    <3>1. active'.state = "Obsolete"
      BY <2>1, <2>2 DEF ActiveAfter, ActiveRequest
    <3>2. active.request.runId <= latestSeen[r.problem]
      BY <2>1, <2>2, ActiveFields
    <3>3. active.request.runId \in Nat
      BY <2>1, RequestFields
    <3> QED BY <3>1, <3>2, <3>3, <2>1, <2>2, <1>3, <1>4 DEF ActiveAgrees
  <2>3. CASE active.request.problem # r.problem
    <3> DEFINE p == active.request.problem
               id == active.request.runId
    <3>1. active'.state = active.state /\ active.state \in LogicalStates
      BY <2>1, <2>3 DEF ActiveAfter, ActiveRequest
    <3>2. p \in Problems /\ latestSeen'[p] = latestSeen[p]
      BY <2>1, <2>3, <1>4 DEF Request
    <3>3. HasLogicalRequest(p)' => HasLogicalRequest(p)
      <4> SUFFICES ASSUME HasLogicalRequest(p)' PROVE HasLogicalRequest(p)
        OBVIOUS
      <4>1. PICK k \in DOMAIN queue : queue[k].problem = p
        BY <2>1, <2>3, <1>2 DEF HasLogicalRequest
      <4> QED BY <4>1, <1>1, QueueWithComesFrom DEF HasLogicalRequest, queue
    <3>4. CASE active.state = "Latest"
      BY <3>1, <3>2, <3>3, <3>4, <2>1 DEF IInv, InvariantsHold, ActiveAgrees
    <3>5. CASE active.state = "Obsolete"
      BY <3>1, <3>2, <3>5, <2>1 DEF IInv, InvariantsHold, ActiveAgrees
    <3>6. CASE active.state = "Cancelled"
      BY <3>1, <3>2, <3>6, <2>1 DEF IInv, InvariantsHold, ActiveAgrees
    <3> QED BY <3>1, <3>4, <3>5, <3>6 DEF LogicalStates
  <2> QED BY <2>2, <2>3
<1>10. PendingOnlySamples' /\ RetiringAgrees'
  BY <1>1, <1>2 DEF PendingOnlySamples, RetiringAgrees
<1> QED BY <1>7, <1>8, <1>9, <1>10 DEF IInv, InvariantsHold

LEMMA RetireKeepsIInv ==
    ASSUME IInv, NEW p \in Problems, NEW v \in Revisions, retiring = None,
           RetireUserInputRuns(p, v), UNCHANGED gate
    PROVE IInv'
<1>1. \A i \in DOMAIN pending : pending[i].kind # "UserInput"
  BY DEF IInv, PendingOnlySamples
<1>2. /\ pending' = pending /\ foreground' \in {None, foreground}
      /\ UNCHANGED <<active, latestSeen, retiring, gate>>
  BY <1>1 DEF RetireUserInputRuns
<1>3. retired' = [retired EXCEPT ![p] = Newest(retired[p], v)]
  BY DEF RetireUserInputRuns, RetiredRevision
<1>4. TypeOK'
  BY <1>2, <1>3 DEF IInv, TypeOK, Newest
<1>5. \A q : HasLogicalRequest(q)' => HasLogicalRequest(q)
  BY <1>2 DEF HasLogicalRequest
<1>6. QueuedAreNewest'
  BY <1>2 DEF IInv, InvariantsHold, QueuedAreNewest
<1>7. ActiveAgrees'
  BY <1>2, <1>5, ActiveAgreesKept DEF IInv, InvariantsHold
<1> QED BY <1>2, <1>4, <1>6, <1>7 DEF IInv, InvariantsHold, PendingOnlySamples, RetiringAgrees

LEMMA CancelKeepsIInv ==
    ASSUME IInv, NEW p \in Problems, NEW id \in RunIds, retiring = None,
           CancelStress(p, id), UNCHANGED gate
    PROVE IInv'
<1> DEFINE ForegroundStress == foreground # None /\ IsStress(foreground, p, id)
<1>1. ~\E i \in DOMAIN pending : IsStress(pending[i], p, id)
  BY DEF IInv, PendingOnlySamples, IsStress
<1>2. UNCHANGED <<pending, latestSeen, retired, retiring, gate>>
  BY <1>1 DEF CancelStress
<1>3. CASE ForegroundStress
  <2>1. foreground' = None /\ active' = active
    BY <1>1, <1>3 DEF CancelStress, CancelsActiveStress
  <2>2. TypeOK'
    BY <1>2, <2>1 DEF IInv, TypeOK
  <2>3. \A q : HasLogicalRequest(q)' => HasLogicalRequest(q)
    BY <1>2, <2>1 DEF HasLogicalRequest
  <2>4. QueuedAreNewest'
    BY <1>2, <2>1 DEF IInv, InvariantsHold, QueuedAreNewest
  <2>5. ActiveAgrees'
    BY <1>2, <2>1, <2>3, ActiveAgreesKept DEF IInv, InvariantsHold
  <2> QED BY <1>2, <2>1, <2>2, <2>4, <2>5
          DEF IInv, InvariantsHold, PendingOnlySamples, RetiringAgrees
<1>4. CASE ~ForegroundStress /\ CancelsActiveStress(p, id)
  <2>1. /\ foreground' = foreground /\ active # None /\ IsStress(active.request, p, id)
        /\ active' = [active EXCEPT !.state = "Cancelled", !.cancelRequested = TRUE]
    BY <1>1, <1>4 DEF CancelStress, CancelsActiveStress
  <2>2. /\ active' \in ActiveRequest /\ active'.request = active.request
        /\ active'.state = "Cancelled"
    BY <2>1, ActiveFields DEF ActiveRequest, LogicalStates
  <2>3. TypeOK'
    BY <1>2, <2>1, <2>2 DEF IInv, TypeOK
  <2>4. QueuedAreNewest'
    BY <1>2, <2>1 DEF IInv, InvariantsHold, QueuedAreNewest
  <2>5. ActiveAgrees'
    BY <1>2, <2>1, <2>2, ActiveFields DEF ActiveAgrees, IsStress
  <2> QED BY <1>2, <2>1, <2>3, <2>4, <2>5
          DEF IInv, InvariantsHold, PendingOnlySamples, RetiringAgrees
<1>5. CASE ~ForegroundStress /\ ~CancelsActiveStress(p, id)
  <2>1. foreground' = foreground /\ active' = active
    BY <1>1, <1>5 DEF CancelStress
  <2> QED BY <1>2, <2>1 DEF IInv, TypeOK, InvariantsHold, QueuedAreNewest, ActiveAgrees,
             HasLogicalRequest, PendingOnlySamples, RetiringAgrees
<1> QED BY <1>3, <1>4, <1>5

(* The requests start_next chooses from: each the newest of its problem,   *)
(* no two of one problem, and sample runs behind the first.                *)
LEMMA StartOrderElements ==
    ASSUME IInv
    PROVE /\ StartOrder \in Seq(Request)
          /\ DistinctProblems(StartOrder)
          /\ \A k \in DOMAIN StartOrder :
                /\ latestSeen[StartOrder[k].problem] = StartOrder[k].runId
                /\ k > 1 => StartOrder[k].kind = "Samples"
<1>1. /\ pending \in Seq(Request) /\ DistinctProblems(pending)
      /\ \A k \in DOMAIN pending :
            /\ latestSeen[pending[k].problem] = pending[k].runId
            /\ pending[k].kind = "Samples"
            /\ foreground # None => pending[k].problem # foreground.problem
  BY DEF IInv, TypeOK, InvariantsHold, QueuedAreNewest, PendingOnlySamples, DistinctProblems
<1>2. CASE foreground = None
  <2>1. StartOrder = pending
    BY <1>1, <1>2 DEF StartOrder
  <2> QED BY <2>1, <1>1
<1>3. CASE foreground # None
  <2>1. foreground \in Request /\ latestSeen[foreground.problem] = foreground.runId
    BY <1>3 DEF IInv, TypeOK, InvariantsHold, QueuedAreNewest
  <2>2. StartOrder = <<foreground>> \o pending
    BY <1>3 DEF StartOrder
  <2>3. /\ StartOrder \in Seq(Request) /\ DOMAIN StartOrder = 1..(Len(pending) + 1)
        /\ Len(pending) \in Nat /\ DOMAIN pending = 1..Len(pending)
        /\ StartOrder[1] = foreground
        /\ \A k \in 2..(Len(pending) + 1) : StartOrder[k] = pending[k - 1]
    BY <1>1, <2>1, <2>2
  <2>4. \A k \in DOMAIN StartOrder :
           k = 1 \/ (k - 1 \in DOMAIN pending /\ StartOrder[k] = pending[k - 1])
    BY <2>3
  <2>5. DistinctProblems(StartOrder)
    <3> SUFFICES ASSUME NEW j \in DOMAIN StartOrder, NEW k \in DOMAIN StartOrder,
                        StartOrder[j].problem = StartOrder[k].problem
                 PROVE j = k
      BY DEF DistinctProblems
    <3>1. CASE j = 1 \/ k = 1
      BY <1>1, <1>3, <2>3, <2>4, <3>1
    <3>2. CASE j # 1 /\ k # 1
      <4>1. j - 1 = k - 1
        BY <1>1, <2>4, <3>2 DEF DistinctProblems
      <4> QED BY <4>1, <2>3
    <3> QED BY <3>1, <3>2
  <2>6. \A k \in DOMAIN StartOrder :
           /\ latestSeen[StartOrder[k].problem] = StartOrder[k].runId
           /\ k > 1 => StartOrder[k].kind = "Samples"
    BY <1>1, <2>1, <2>3, <2>4
  <2> QED BY <2>3, <2>5, <2>6
<1> QED BY <1>2, <1>3

LEMMA StartKeepsIInv ==
    ASSUME IInv, retiring = None, StartNext, UNCHANGED gate
    PROVE IInv'
<1> DEFINE order == StartOrder
<1>1. /\ order \in Seq(Request)
      /\ DistinctProblems(order)
      /\ \A k \in DOMAIN order :
            /\ latestSeen[order[k].problem] = order[k].runId
            /\ k > 1 => order[k].kind = "Samples"
  BY StartOrderElements
<1>2. /\ active = None /\ foreground' = None
      /\ UNCHANGED <<latestSeen, retired, retiring, gate>>
  BY DEF StartNext
<1>3. ASSUME NEW i \in DOMAIN order,
             active' = [request |-> order[i], state |-> "Latest", cancelRequested |-> FALSE],
             pending' = SubSeq(order, i + 1, Len(order))
      PROVE IInv'
  <2> HIDE DEF order
  <2>1. i \in 1..Len(order) /\ Len(order) \in Nat /\ order[i] \in Request
    BY <1>1
  <2>2. /\ pending' \in Seq(Request) /\ DOMAIN pending' = 1..(Len(order) - i)
        /\ \A k \in 1..(Len(order) - i) : pending'[k] = order[k + i] /\ k + i \in DOMAIN order
    BY <1>1, <1>3, <2>1
  <2>3. active' \in ActiveRequest /\ active'.request = order[i] /\ active'.state = "Latest"
    BY <1>3, <2>1 DEF ActiveRequest, LogicalStates
  <2>4. TypeOK'
    BY <1>2, <2>2, <2>3 DEF IInv, TypeOK
  <2>5. QueuedAreNewest'
    BY <1>1, <1>2, <2>1, <2>2 DEF QueuedAreNewest, DistinctProblems
  <2>6. ActiveAgrees'
    <3>1. \A k \in DOMAIN pending' : pending'[k].problem # active'.request.problem
      BY <1>1, <2>1, <2>2, <2>3 DEF DistinctProblems
    <3>2. latestSeen'[active'.request.problem] = active'.request.runId
      BY <1>1, <1>2, <2>3
    <3> QED BY <1>2, <2>3, <3>1, <3>2 DEF ActiveAgrees, HasLogicalRequest
  <2>7. PendingOnlySamples'
    BY <1>1, <2>1, <2>2 DEF PendingOnlySamples
  <2> QED BY <1>2, <2>4, <2>5, <2>6, <2>7 DEF IInv, InvariantsHold, RetiringAgrees
<1>4. ASSUME active' = active, pending' = <<>>
      PROVE IInv'
  BY <1>2, <1>4 DEF IInv, TypeOK, InvariantsHold, QueuedAreNewest, ActiveAgrees,
                    PendingOnlySamples, RetiringAgrees
<1> QED BY <1>3, <1>4 DEF StartNext

LEMMA RetireActiveKeepsIInv ==
    ASSUME IInv, RetireActive, UNCHANGED gate
    PROVE IInv'
<1>1. /\ active # None /\ active' = None
      /\ UNCHANGED <<foreground, pending, latestSeen, retired, gate>>
      /\ retiring' = [request |-> active.request, isLatest |-> ActiveIsLatest,
                      requeueEligible |-> ActiveIsEligible]
  BY DEF RetireActive, queueVars
<1>2. retiring' \in RetiredActive
  BY <1>1, ActiveFields DEF RetiredActive, ActiveIsLatest, ActiveIsEligible, PreservedOnPreemption
<1>3. TypeOK'
  BY <1>1, <1>2 DEF IInv, TypeOK
<1>4. RetiringAgrees'
  BY <1>1 DEF RetiringAgrees, ActiveIsEligible, ActiveIsLatest, PreservedOnPreemption,
              HasLogicalRequest
<1> QED BY <1>1, <1>3, <1>4 DEF IInv, InvariantsHold, QueuedAreNewest, ActiveAgrees,
                                PendingOnlySamples

LEMMA RequeueKeepsIInv ==
    ASSUME IInv, RequeueRetired, UNCHANGED gate
    PROVE IInv'
<1>1. /\ retiring # None /\ retiring' = None /\ active = None
      /\ UNCHANGED <<active, foreground, latestSeen, retired, gate>>
  BY DEF IInv, RetiringAgrees, RequeueRetired
<1>2. CASE RequeueAllowed
  <2> DEFINE r == retiring.request
  <2>1. pending' = Append(pending, r)
    BY <1>2 DEF RequeueRetired
  <2>2. /\ r \in Request /\ latestSeen[r.problem] = r.runId /\ r.kind = "Samples"
        /\ ~HasLogicalRequest(r.problem)
    BY <1>1, <1>2 DEF IInv, TypeOK, RetiringAgrees, RequeueAllowed, RetiredActive
  <2>3. pending \in Seq(Request)
    BY DEF IInv, TypeOK
  <2> HIDE DEF r
  <2>4. /\ pending' \in Seq(Request) /\ DOMAIN pending' = 1..(Len(pending) + 1)
        /\ DOMAIN pending = 1..Len(pending) /\ Len(pending) \in Nat
        /\ \A k \in 1..Len(pending) : pending'[k] = pending[k]
        /\ pending'[Len(pending) + 1] = r
    BY <2>1, <2>2, <2>3
  <2>5. TypeOK'
    BY <1>1, <2>4 DEF IInv, TypeOK
  <2>6. QueuedAreNewest'
    BY <1>1, <2>2, <2>4 DEF IInv, InvariantsHold, QueuedAreNewest, HasLogicalRequest
  <2>7. PendingOnlySamples'
    BY <2>2, <2>4 DEF IInv, PendingOnlySamples
  <2> QED BY <1>1, <2>5, <2>6, <2>7 DEF IInv, InvariantsHold, ActiveAgrees, RetiringAgrees
<1>3. CASE ~RequeueAllowed
  BY <1>1, <1>3 DEF RequeueRetired, IInv, TypeOK, InvariantsHold, QueuedAreNewest,
                    ActiveAgrees, PendingOnlySamples, RetiringAgrees
<1> QED BY <1>2, <1>3

LEMMA DropKeepsIInv ==
    ASSUME IInv, DropRetired, UNCHANGED gate
    PROVE IInv'
<1>1. active = None /\ retiring' = None /\ UNCHANGED <<active, queueVars, gate>>
  BY DEF IInv, RetiringAgrees, DropRetired
<1> QED BY <1>1 DEF queueVars, IInv, TypeOK, InvariantsHold, QueuedAreNewest, ActiveAgrees,
                    PendingOnlySamples, RetiringAgrees

LEMMA UiRetireKeepsIInv ==
    ASSUME IInv, NEW p \in Problems, NEW v \in Revisions, UiRetireBefore(p, v)
    PROVE IInv'
<1>1. /\ gate' = [gate EXCEPT ![p] = Newest(gate[p], v)]
      /\ UNCHANGED <<active, queueVars, retiring>>
  BY DEF UiRetireBefore, RetireBefore
<1>2. TypeOK'
  BY <1>1 DEF IInv, TypeOK, Newest, queueVars
<1> QED BY <1>1, <1>2 DEF queueVars, IInv, InvariantsHold, QueuedAreNewest, ActiveAgrees,
                          HasLogicalRequest, PendingOnlySamples, RetiringAgrees

LEMMA StutterKeepsIInv ==
    ASSUME IInv, UNCHANGED vars
    PROVE IInv'
BY DEF vars, queueVars, IInv, TypeOK, InvariantsHold, QueuedAreNewest, ActiveAgrees,
       HasLogicalRequest, PendingOnlySamples, RetiringAgrees

LEMMA StepKeepsIInv == IInv /\ [Next]_vars => IInv'
<1> SUFFICES ASSUME IInv, [Next]_vars PROVE IInv'
  OBVIOUS
<1>1. ASSUME NEW r \in Request, ClientRequest(r) PROVE IInv'
  <2>1. CASE AcceptRequest(r)
    BY <1>1, <2>1, AcceptKeepsIInv DEF ClientRequest
  <2>2. CASE UNCHANGED <<active, queueVars, retiring>>
    BY <1>1, <2>2, StutterKeepsIInv DEF ClientRequest, vars, queueVars
  <2> QED BY <1>1, <2>1, <2>2 DEF ClientRequest, RequestArrived
<1>2. ASSUME NEW p \in Problems, NEW v \in Revisions, ClientRetire(p, v) PROVE IInv'
  BY <1>2, RetireKeepsIInv DEF ClientRetire
<1>3. ASSUME NEW p \in Problems, NEW v \in Revisions, UiRetireBefore(p, v) PROVE IInv'
  BY <1>3, UiRetireKeepsIInv
<1>4. ASSUME NEW p \in Problems, NEW id \in RunIds, ClientCancel(p, id) PROVE IInv'
  BY <1>4, CancelKeepsIInv DEF ClientCancel
<1>5. CASE WorkerStart
  BY <1>5, StartKeepsIInv DEF WorkerStart
<1>6. CASE WorkerRetire
  BY <1>6, RetireActiveKeepsIInv DEF WorkerRetire
<1>7. CASE WorkerRequeue
  BY <1>7, RequeueKeepsIInv DEF WorkerRequeue
<1>8. CASE WorkerDrop
  BY <1>8, DropKeepsIInv DEF WorkerDrop
<1>9. CASE UNCHANGED vars
  BY <1>9, StutterKeepsIInv
<1> QED BY <1>1, <1>2, <1>3, <1>4, <1>5, <1>6, <1>7, <1>8, <1>9 DEF Next

(* IInv holds in every reachable state of the scheduler. *)
THEOREM IInvAlways == Spec => []IInv
BY InitIInv, StepKeepsIInv, PTL DEF Spec

-------------------------------------------------------------------------------
(* The results. *)

(* Every variable of the scheduler keeps its type. *)
THEOREM TypeCorrect == Spec => []TypeOK
<1>1. IInv => TypeOK
  BY DEF IInv
<1> QED BY IInvAlways, <1>1, PTL

(* invariants_hold, the debug assertion of run_scheduler.rs, never fails,  *)
(* whatever requests, retirements and cancellations arrive in any order.   *)
THEOREM AssertionNeverFails == Spec => []InvariantsHold
<1>1. IInv => InvariantsHold
  BY DEF IInv
<1> QED BY IInvAlways, <1>1, PTL

(* The queue never holds anything but sample runs. *)
THEOREM QueueHoldsSamples == Spec => []PendingOnlySamples
<1>1. IInv => PendingOnlySamples
  BY DEF IInv
<1> QED BY IInvAlways, <1>1, PTL

(* A preempted run that retire_active found eligible is always queued      *)
(* again by requeue_retired: its second test never refuses it.             *)
THEOREM PreemptedIsRequeued == Spec => []EligibleIsRequeued
<1>1. IInv => EligibleIsRequeued
  BY DEF IInv, RetiringAgrees, EligibleIsRequeued, RequeueAllowed
<1> QED BY IInvAlways, <1>1, PTL

(* Whatever start_next starts is the newest request of its problem, and no *)
(* user input that was retired before.                                     *)
THEOREM StartsOnlyNewest == Spec => StartsNewest
<1> DEFINE Starts == active = None /\ active' # None
           Good == /\ active'.request.runId = latestSeen[active'.request.problem]
                   /\ active'.state = "Latest"
                   /\ ~UserInputRetired(active'.request)
<1>1. IInv /\ [Next]_vars => [Starts => Good]_vars
  <2> SUFFICES ASSUME IInv, Next, Starts PROVE Good
    OBVIOUS
  <2>1. WorkerStart
    BY DEF Next, ClientRequest, RequestArrived, AcceptRequest, ClientRetire,
           RetireUserInputRuns, ClientCancel, CancelStress, CancelsActiveStress,
           UiRetireBefore, WorkerRetire, RetireActive, WorkerRequeue, RequeueRetired,
           WorkerDrop, DropRetired
  <2>2. PICK i \in DOMAIN StartOrder :
           /\ Startable(i)
           /\ active' = [request |-> StartOrder[i], state |-> "Latest",
                         cancelRequested |-> FALSE]
    BY <2>1 DEF WorkerStart, StartNext
  <2> QED BY <2>2, StartOrderElements DEF Startable
<1> QED BY IInvAlways, <1>1, PTL DEF Spec, StartsNewest

-------------------------------------------------------------------------------
(* The refinement of SampleDuty.                                           *)

(* A sample run of p is owed, by the place it is in. *)
Owes(p) ==
    \/ foreground # None /\ foreground.kind = "Samples" /\ foreground.problem = p
    \/ \E i \in DOMAIN pending : pending[i].problem = p
    \/ /\ active # None /\ active.state = "Latest"
       /\ active.request.kind = "Samples" /\ active.request.problem = p
    \/ retiring # None /\ retiring.requeueEligible /\ retiring.request.problem = p

(* What retire_active computes. *)
RetiringShape ==
    retiring # None =>
        (retiring.requeueEligible <=> retiring.isLatest /\ retiring.request.kind = "Samples")

DutyInv == IInv /\ RetiringShape

(* The owed run is the newest of its problem. *)
DutyIsNewest ==
    [p \in Problems |-> OwedRun(p)]
        = [p \in Problems |-> IF Owes(p) THEN latestSeen[p] ELSE 0]

LEMMA DutyOfInvariant == DutyInv => DutyIsNewest
<1> SUFFICES ASSUME DutyInv, NEW p \in Problems
             PROVE OwedRun(p) = IF Owes(p) THEN latestSeen[p] ELSE 0
  BY DEF DutyIsNewest
<1> DEFINE owed == {r \in Logical : r.problem = p /\ r.kind = "Samples"}
<1>1. \A r \in owed : r.runId = latestSeen[p]
  <2> SUFFICES ASSUME NEW r \in Logical, r.problem = p, r.kind = "Samples"
               PROVE r.runId = latestSeen[p]
    OBVIOUS
  <2>1. CASE foreground # None /\ r = foreground
    BY <2>1 DEF DutyInv, IInv, InvariantsHold, QueuedAreNewest
  <2>2. CASE \E i \in DOMAIN pending : r = pending[i]
    BY <2>2 DEF DutyInv, IInv, InvariantsHold, QueuedAreNewest
  <2>3. CASE active # None /\ active.state = "Latest" /\ r = active.request
    BY <2>3 DEF DutyInv, IInv, InvariantsHold, ActiveAgrees
  <2>4. CASE retiring # None /\ retiring.isLatest /\ r = retiring.request
    BY <2>4 DEF DutyInv, RetiringShape, IInv, RetiringAgrees
  <2> QED BY <2>1, <2>2, <2>3, <2>4 DEF Logical
<1>2. owed # {} <=> Owes(p)
  <2>1. \A i \in DOMAIN pending : pending[i].kind = "Samples"
    BY DEF DutyInv, IInv, PendingOnlySamples
  <2>2. ASSUME NEW r \in owed PROVE Owes(p)
    BY DEF Logical, Owes, DutyInv, RetiringShape
  <2>3. CASE foreground # None /\ foreground.kind = "Samples" /\ foreground.problem = p
    <3>1. foreground \in owed
      BY <2>3 DEF Logical
    <3> QED BY <2>3, <3>1 DEF Owes
  <2>4. ASSUME NEW i \in DOMAIN pending, pending[i].problem = p PROVE owed # {}
    <3>1. pending[i] \in owed
      BY <2>1, <2>4 DEF Logical
    <3> QED BY <3>1
  <2>5. CASE /\ active # None /\ active.state = "Latest"
             /\ active.request.kind = "Samples" /\ active.request.problem = p
    <3>1. active.request \in owed
      BY <2>5 DEF Logical
    <3> QED BY <2>5, <3>1 DEF Owes
  <2>6. CASE retiring # None /\ retiring.requeueEligible /\ retiring.request.problem = p
    <3>1. retiring.request \in owed
      BY <2>6 DEF Logical, DutyInv, RetiringShape
    <3> QED BY <2>6, <3>1 DEF Owes
  <2> QED BY <2>2, <2>3, <2>4, <2>5, <2>6 DEF Owes
<1>3. CASE owed = {}
  BY <1>2, <1>3 DEF OwedRun
<1>4. CASE owed # {}
  <2>1. OwedRun(p) = (CHOOSE r \in owed : TRUE).runId
    BY <1>4 DEF OwedRun
  <2>2. (CHOOSE r \in owed : TRUE) \in owed
    BY <1>4
  <2> HIDE DEF owed
  <2> QED BY <1>1, <1>2, <1>4, <2>1, <2>2
<1> QED BY <1>3, <1>4

LEMMA ShapeKept == RetiringShape /\ [Next]_vars => RetiringShape'
<1> SUFFICES ASSUME RetiringShape, [Next]_vars PROVE RetiringShape'
  OBVIOUS
<1>1. CASE retiring' = retiring \/ retiring' = None
  BY <1>1 DEF RetiringShape
<1>2. CASE WorkerRetire
  BY <1>2 DEF WorkerRetire, RetireActive, RetiringShape, ActiveIsEligible, PreservedOnPreemption
<1>3. retiring' = retiring \/ retiring' = None \/ WorkerRetire
  BY DEF Next, vars, ClientRequest, RequestArrived, AcceptRequest, ClientRetire,
         RetireUserInputRuns, ClientCancel, CancelStress, UiRetireBefore, WorkerStart,
         StartNext, WorkerRequeue, RequeueRetired, WorkerDrop, DropRetired
<1> QED BY <1>1, <1>2, <1>3

(* A step that moves owed runs between the places they may be in.          *)
LEMMA SameDuty ==
    ASSUME DutyIsNewest, DutyIsNewest', latestSeen' = latestSeen,
           ExecutedDuty' = ExecutedDuty,
           \A p \in Problems : Owes(p)' <=> Owes(p)
    PROVE UNCHANGED Duty!vars
BY DEF DutyIsNewest, Duty!vars

(* What remove_pending_problem does not look for stays. *)
LEMMA RemoveProblemKeeps ==
    ASSUME NEW queue \in Seq(Request), NEW p, DistinctProblems(queue),
           NEW i \in DOMAIN queue, queue[i].problem # p
    PROVE \E k \in DOMAIN RemoveProblem(queue, p) : RemoveProblem(queue, p)[k] = queue[i]
<1>1. CASE ~\E j \in DOMAIN queue : queue[j].problem = p
  BY <1>1 DEF RemoveProblem
<1>2. CASE \E j \in DOMAIN queue : queue[j].problem = p
  <2> DEFINE First(j) == /\ queue[j].problem = p
                         /\ \A h \in 1..(j - 1) : queue[h].problem # p
             at == CHOOSE j \in DOMAIN queue : First(j)
             rest == RemoveAt(queue, at)
  <2>1. \E j \in DOMAIN queue : First(j)
    BY <1>2 DEF DistinctProblems
  <2>2. at \in DOMAIN queue /\ First(at)
    BY <2>1
  <2>3. RemoveProblem(queue, p) = rest
    BY <1>2 DEF RemoveProblem
  <2> HIDE DEF at
  <2>4. /\ rest \in Seq(Request) /\ Len(rest) = Len(queue) - 1
        /\ \A k \in 1..(Len(queue) - 1) :
              rest[k] = IF k < at THEN queue[k] ELSE queue[k + 1]
    BY <2>2, RemoveAtElements
  <2> HIDE DEF rest
  <2>5. /\ DOMAIN rest = 1..(Len(queue) - 1) /\ at \in 1..Len(queue) /\ Len(queue) \in Nat
        /\ i \in 1..Len(queue) /\ i # at
    BY <2>2, <2>4
  <2>6. CASE i < at
    <3>1. i \in DOMAIN rest /\ rest[i] = queue[i]
      BY <2>4, <2>5, <2>6
    <3> QED BY <2>3, <3>1
  <2>7. CASE i > at
    <3>1. i - 1 \in DOMAIN rest /\ rest[i - 1] = queue[i]
      BY <2>4, <2>5, <2>7
    <3> QED BY <2>3, <3>1
  <2> QED BY <2>5, <2>6, <2>7
<1> QED BY <1>1, <1>2

(* A request that arrives leaves the owed runs of the other problems.      *)
LEMMA QueueWithKeeps ==
    ASSUME IInv, NEW r \in Request
    PROVE LET queue == QueueWith(r)
          IN /\ \A i \in DOMAIN pending :
                   pending[i].problem # r.problem =>
                       \E k \in DOMAIN queue : queue[k].problem = pending[i].problem
             /\ foreground # None /\ foreground.problem # r.problem
                    /\ foreground.kind = "Samples" =>
                    \E k \in DOMAIN queue : queue[k].problem = foreground.problem
<1> DEFINE rest == RemoveProblem(pending, r.problem)
           push == RemoveProblem(rest, foreground.problem)
           displaced == /\ foreground # None
                        /\ foreground.problem # r.problem
                        /\ PreservedOnPreemption(foreground)
<1>1. pending \in Seq(Request) /\ DistinctProblems(pending)
  BY DEF IInv, TypeOK, InvariantsHold, QueuedAreNewest, DistinctProblems
<1>2. /\ rest \in Seq(Request) /\ DistinctProblems(rest)
  BY <1>1, RemoveProblemElements
<1>3. \A i \in DOMAIN pending :
         pending[i].problem # r.problem => \E k \in DOMAIN rest : rest[k] = pending[i]
  BY <1>1, RemoveProblemKeeps
<1> HIDE DEF rest
<1>4. CASE ~displaced
  <2>1. QueueWith(r) = rest
    BY <1>4 DEF QueueWith, rest
  <2> QED BY <2>1, <1>3, <1>4 DEF PreservedOnPreemption
<1>5. CASE displaced
  <2>1. QueueWith(r) = Append(push, foreground)
    BY <1>5 DEF QueueWith, PushPendingLatest, rest
  <2>2. push \in Seq(Request)
    BY <1>2, RemoveProblemElements
  <2>3. \A k \in DOMAIN rest :
           rest[k].problem # foreground.problem => \E j \in DOMAIN push : push[j] = rest[k]
    BY <1>2, RemoveProblemKeeps
  <2> HIDE DEF push
  <2>4. foreground \in Request
    BY <1>5 DEF IInv, TypeOK
  <2>5. /\ DOMAIN Append(push, foreground) = 1..(Len(push) + 1)
        /\ DOMAIN push = 1..Len(push) /\ Len(push) \in Nat
        /\ \A k \in 1..Len(push) : Append(push, foreground)[k] = push[k]
        /\ Append(push, foreground)[Len(push) + 1] = foreground
    BY <2>2, <2>4
  <2>6. \E k \in DOMAIN QueueWith(r) : QueueWith(r)[k].problem = foreground.problem
    BY <2>1, <2>5
  <2>7. ASSUME NEW i \in DOMAIN pending, pending[i].problem # r.problem
        PROVE \E k \in DOMAIN QueueWith(r) : QueueWith(r)[k].problem = pending[i].problem
    <3>1. CASE pending[i].problem = foreground.problem
      BY <2>6, <3>1
    <3>2. CASE pending[i].problem # foreground.problem
      <4>1. PICK k \in DOMAIN rest : rest[k] = pending[i]
        BY <1>3, <2>7
      <4>2. PICK j \in DOMAIN push : push[j] = pending[i]
        BY <2>3, <3>2, <4>1
      <4> QED BY <2>1, <2>5, <4>2
    <3> QED BY <3>1, <3>2
  <2> QED BY <2>6, <2>7
<1> QED BY <1>4, <1>5

LEMMA AcceptKeepsDuty ==
    ASSUME DutyInv, DutyInv', DutyIsNewest, DutyIsNewest', NEW r \in Request,
           retiring = None, AcceptRequest(r)
    PROVE Duty!Arrive(r.problem, r.runId, r.kind = "Samples")
<1> DEFINE p == r.problem
           samples == r.kind = "Samples"
<1>1. /\ p \in Problems /\ r.runId \in Nat /\ r # None
      /\ latestSeen[p] \in Nat /\ latestSeen \in [Problems -> RunIds \cup {0}]
  BY RequestFields, LatestSeenIsNat, NoneIsNoRequest DEF DutyInv, IInv, TypeOK
<1>2. /\ latestSeen' = [latestSeen EXCEPT ![p] = r.runId] /\ ~Stale(r)
      /\ pending' = QueueWith(r) /\ foreground' = r /\ retiring' = None
      /\ active' = IF active = None THEN None ELSE ActiveAfter(r)
  BY DEF AcceptRequest
<1>3. r.runId > latestSeen[p]
  BY <1>1, <1>2 DEF Stale
<1>4. \A k \in DOMAIN pending' : pending'[k].problem # p
  BY <1>2, QueueWithElements DEF DutyInv
<1>5. active # None =>
        /\ active' # None /\ active'.request = active.request
        /\ active'.state = IF active.request.problem = p THEN "Obsolete" ELSE active.state
  BY <1>2, ActiveFields, NoneIsNoRequest
     DEF ActiveAfter, ActiveRequest, LogicalStates, DutyInv, IInv, TypeOK
<1>6. Owes(p)' <=> samples
  BY <1>1, <1>2, <1>4, <1>5 DEF Owes
<1>7. ASSUME NEW q \in Problems, q # p PROVE Owes(q)' <=> Owes(q)
  <2>1. (\E k \in DOMAIN pending' : pending'[k].problem = q)
          <=> \/ \E i \in DOMAIN pending : pending[i].problem = q
              \/ foreground # None /\ foreground.kind = "Samples" /\ foreground.problem = q
    <3>1. ASSUME NEW k \in DOMAIN pending', pending'[k].problem = q
          PROVE \/ \E i \in DOMAIN pending : pending[i].problem = q
                \/ foreground # None /\ foreground.kind = "Samples" /\ foreground.problem = q
      <4>1. \/ \E i \in DOMAIN pending : pending'[k] = pending[i]
            \/ foreground # None /\ pending'[k] = foreground
        BY <1>2, QueueWithComesFrom DEF DutyInv
      <4>2. pending'[k].kind = "Samples"
        BY <1>2, QueueWithElements DEF DutyInv
      <4> QED BY <3>1, <4>1, <4>2
    <3> QED BY <3>1, <1>2, <1>7, QueueWithKeeps DEF DutyInv
  <2>2. (active' # None /\ active'.state = "Latest" /\ active'.request.kind = "Samples"
            /\ active'.request.problem = q)
          <=> (active # None /\ active.state = "Latest" /\ active.request.kind = "Samples"
            /\ active.request.problem = q)
    BY <1>2, <1>5, <1>7
  <2> QED BY <1>2, <1>7, <2>1, <2>2 DEF Owes
<1>8. \A q \in Problems : latestSeen'[q] = IF q = p THEN r.runId ELSE latestSeen[q]
  BY <1>1, <1>2
<1>9. [q \in Problems |-> OwedRun(q)]'
        = [[q \in Problems |-> OwedRun(q)] EXCEPT ![p] = IF samples THEN r.runId ELSE 0]
  <2>1. \A q \in Problems :
           (IF Owes(q)' THEN latestSeen'[q] ELSE 0)
             = IF q = p THEN IF samples THEN r.runId ELSE 0
               ELSE IF Owes(q) THEN latestSeen[q] ELSE 0
    BY <1>6, <1>7, <1>8
  <2>2. [q \in Problems |-> OwedRun(q)]' = [q \in Problems |-> IF Owes(q)' THEN latestSeen'[q] ELSE 0]
    BY DEF DutyIsNewest
  <2>3. [q \in Problems |-> OwedRun(q)] = [q \in Problems |-> IF Owes(q) THEN latestSeen[q] ELSE 0]
    BY DEF DutyIsNewest
  <2> QED BY <1>1, <2>1, <2>2, <2>3
<1>10. ExecutedDuty' = IF ExecutedDuty = p THEN None ELSE ExecutedDuty
  <2>1. None # p /\ None \notin Problems
    BY <1>1, NoneAssumption
  <2>2. CASE active = None
    BY <1>2, <2>1, <2>2 DEF ExecutedDuty
  <2>3. CASE active # None
    BY <1>2, <1>5, <2>1, <2>3 DEF ExecutedDuty
  <2> QED BY <2>2, <2>3
<1> QED BY <1>1, <1>2, <1>3, <1>9, <1>10 DEF Duty!Arrive

LEMMA RetireKeepsDuty ==
    ASSUME DutyInv, DutyIsNewest, DutyIsNewest', retiring = None,
           NEW p \in Problems, NEW v \in Revisions, RetireUserInputRuns(p, v)
    PROVE UNCHANGED Duty!vars
<1>1. \A i \in DOMAIN pending : pending[i].kind # "UserInput"
  BY DEF DutyInv, IInv, PendingOnlySamples
<1>2. /\ pending' = pending /\ UNCHANGED <<active, latestSeen, retiring>>
      /\ \/ foreground' = foreground
         \/ foreground # None /\ foreground.kind = "UserInput" /\ foreground' = None
  BY <1>1 DEF RetireUserInputRuns
<1>3. \A q \in Problems : Owes(q)' <=> Owes(q)
  BY <1>2 DEF Owes
<1>4. ExecutedDuty' = ExecutedDuty
  BY <1>2 DEF ExecutedDuty
<1> QED BY <1>2, <1>3, <1>4, SameDuty

LEMMA CancelKeepsDuty ==
    ASSUME DutyInv, DutyIsNewest, DutyIsNewest', retiring = None,
           NEW p \in Problems, NEW id \in RunIds, CancelStress(p, id)
    PROVE UNCHANGED Duty!vars
<1>1. ~\E i \in DOMAIN pending : IsStress(pending[i], p, id)
  BY DEF DutyInv, IInv, PendingOnlySamples, IsStress
<1>2. /\ UNCHANGED <<pending, latestSeen, retiring>>
      /\ \/ foreground' = foreground
         \/ foreground # None /\ foreground.kind = "Stress" /\ foreground' = None
      /\ \/ active' = active
         \/ /\ active # None /\ active.request.kind = "Stress"
            /\ active' = [active EXCEPT !.state = "Cancelled", !.cancelRequested = TRUE]
  BY <1>1 DEF CancelStress, CancelsActiveStress, IsStress
<1>3. \/ active' = active
      \/ /\ active # None /\ active.request.kind = "Stress"
         /\ active'.request = active.request
  BY <1>2, ActiveFields DEF ActiveRequest, DutyInv
<1>4. \A q \in Problems : Owes(q)' <=> Owes(q)
  BY <1>2, <1>3 DEF Owes
<1>5. ExecutedDuty' = ExecutedDuty
  BY <1>2, <1>3 DEF ExecutedDuty
<1> QED BY <1>2, <1>4, <1>5, SameDuty

(* What start_next skips is user input, which is owed to nobody.           *)
LEMMA StartKeepsDuty ==
    ASSUME DutyInv, DutyIsNewest, DutyIsNewest', retiring = None, StartNext
    PROVE (\E p \in Problems : Duty!Start(p)) \/ UNCHANGED Duty!vars
<1> DEFINE order == StartOrder
<1>1. /\ order \in Seq(Request)
      /\ \A k \in DOMAIN order : k > 1 => order[k].kind = "Samples"
  BY StartOrderElements DEF DutyInv
<1>2. /\ active = None /\ foreground' = None /\ retiring' = None
      /\ latestSeen' = latestSeen
  BY DEF StartNext
<1>3. \A q : Owes(q) <=> \E k \in DOMAIN order : order[k].kind = "Samples" /\ order[k].problem = q
  <2>1. pending \in Seq(Request) /\ \A i \in DOMAIN pending : pending[i].kind = "Samples"
    BY DEF DutyInv, IInv, TypeOK, PendingOnlySamples
  <2>2. CASE foreground = None
    <3>1. order = pending
      BY <2>1, <2>2 DEF StartOrder
    <3> QED BY <2>1, <2>2, <3>1, <1>2 DEF Owes
  <2>3. CASE foreground # None
    <3>1. foreground \in Request /\ order = <<foreground>> \o pending
      BY <2>3 DEF StartOrder, DutyInv, IInv, TypeOK
    <3>2. /\ DOMAIN order = 1..(Len(pending) + 1) /\ Len(pending) \in Nat
          /\ DOMAIN pending = 1..Len(pending) /\ order[1] = foreground
          /\ \A k \in 1..Len(pending) : order[k + 1] = pending[k] /\ k + 1 \in DOMAIN order
      BY <2>1, <3>1
    <3>3. \A k \in DOMAIN order :
             k = 1 \/ (k - 1 \in DOMAIN pending /\ order[k] = pending[k - 1])
      BY <3>2
    <3> HIDE DEF order
    <3>4. 1 \in DOMAIN order /\ \A k \in DOMAIN pending : k + 1 \in DOMAIN order /\ order[k + 1] = pending[k]
      BY <3>2
    <3>5. \A q : Owes(q) <=> \/ foreground.kind = "Samples" /\ foreground.problem = q
                             \/ \E k \in DOMAIN pending : pending[k].problem = q
      BY <1>2, <2>3 DEF Owes
    <3> QED BY <2>1, <3>2, <3>3, <3>4, <3>5
  <2> QED BY <2>2, <2>3
<1>4. ExecutedDuty = None
  BY <1>2 DEF ExecutedDuty
<1>5. ASSUME NEW i \in DOMAIN order, Startable(i), \A j \in 1..(i - 1) : ~Startable(j),
             active' = [request |-> order[i], state |-> "Latest", cancelRequested |-> FALSE],
             pending' = SubSeq(order, i + 1, Len(order))
      PROVE (\E p \in Problems : Duty!Start(p)) \/ UNCHANGED Duty!vars
  <2> DEFINE p == order[i].problem
  <2>1. \A j \in 1..(i - 1) : order[j].kind = "UserInput"
    BY <1>1, <1>5 DEF Startable, UserInputRetired
  <2> HIDE DEF order
  <2>2. /\ i \in 1..Len(order) /\ Len(order) \in Nat /\ DOMAIN order = 1..Len(order)
        /\ order[i] \in Request
    BY <1>1
  <2>3. /\ pending' \in Seq(Request) /\ DOMAIN pending' = 1..(Len(order) - i)
        /\ \A k \in 1..(Len(order) - i) : pending'[k] = order[k + i] /\ k + i \in DOMAIN order
    <3>1. pending' = SubSeq(order, i + 1, Len(order)) /\ order \in Seq(Request)
      BY <1>1, <1>5
    <3>2. pending' \in Seq(Request) /\ Len(pending') = Len(order) - i
      BY <2>2, <3>1
    <3>3. \A k \in 1..(Len(order) - i) : pending'[k] = order[k + i] /\ k + i \in DOMAIN order
      BY <2>2, <3>1
    <3> QED BY <3>2, <3>3
  <2>4. /\ active' # None /\ active'.request = order[i] /\ active'.state = "Latest"
    <3>1. active' \in ActiveRequest
      BY <1>5, <2>2 DEF ActiveRequest, LogicalStates
    <3> QED BY <1>5, <3>1, NoneIsNoRequest
  <2>5. ASSUME NEW q \in Problems PROVE Owes(q)' <=> Owes(q)
    <3>1. Owes(q)' <=> \/ \E k \in DOMAIN pending' : pending'[k].problem = q
                       \/ order[i].kind = "Samples" /\ order[i].problem = q
      BY <1>2, <2>4 DEF Owes
    <3>2. Owes(q)' => Owes(q)
      <4>1. \A k \in DOMAIN pending' : /\ k + i \in DOMAIN order /\ pending'[k] = order[k + i]
                                       /\ order[k + i].kind = "Samples"
        BY <1>1, <2>2, <2>3
      <4> QED BY <1>3, <3>1, <4>1
    <3>3. ASSUME NEW k \in DOMAIN order, order[k].kind = "Samples", order[k].problem = q
          PROVE Owes(q)'
      <4>1. k >= i
        BY <2>1, <2>2, <3>3
      <4>2. CASE k = i
        BY <3>1, <3>3, <4>2
      <4>3. CASE k > i
        <5>1. k - i \in DOMAIN pending' /\ pending'[k - i] = order[k]
          BY <2>2, <2>3, <4>3
        <5> QED BY <3>1, <3>3, <5>1
      <4> QED BY <2>2, <4>1, <4>2, <4>3
    <3> QED BY <1>3, <3>2, <3>3
  <2>6. CASE order[i].kind = "Samples"
    <3>1. p \in Problems /\ p # None /\ ExecutedDuty' = p
      BY <2>2, <2>4, <2>6, RequestFields, NoneAssumption DEF ExecutedDuty
    <3>2. Owes(p) /\ latestSeen[p] # 0
      <4>1. Owes(p)
        BY <1>3, <2>6
      <4>2. latestSeen[p] = order[i].runId /\ order[i].runId \in RunIds
        BY <2>2, StartOrderElements, RequestFields DEF order, DutyInv
      <4> QED BY <4>1, <4>2, RunIdsAssumption
    <3>3. [q \in Problems |-> OwedRun(q)][p] # 0
      BY <3>1, <3>2 DEF DutyIsNewest
    <3>4. [q \in Problems |-> OwedRun(q)]' = [q \in Problems |-> OwedRun(q)]
      BY <1>2, <2>5 DEF DutyIsNewest
    <3>5. Duty!Start(p)
      BY <1>2, <1>4, <3>1, <3>3, <3>4 DEF Duty!Start
    <3> QED BY <3>1, <3>5
  <2>7. CASE order[i].kind # "Samples"
    <3>1. ExecutedDuty' = None
      BY <1>2, <2>4, <2>7 DEF ExecutedDuty
    <3> QED BY <1>2, <1>4, <2>5, <3>1, SameDuty
  <2> QED BY <2>6, <2>7
<1>6. ASSUME \A i \in DOMAIN order : ~Startable(i), pending' = <<>>, active' = active
      PROVE UNCHANGED Duty!vars
  <2>1. \A k \in DOMAIN order : order[k].kind = "UserInput"
    BY <1>6 DEF Startable, UserInputRetired
  <2>2. \A q \in Problems : ~Owes(q)
    BY <1>3, <2>1
  <2>3. \A q \in Problems : ~Owes(q)'
    BY <1>2, <1>6 DEF Owes
  <2>4. ExecutedDuty' = None
    BY <1>2, <1>6 DEF ExecutedDuty
  <2> QED BY <1>2, <1>4, <2>2, <2>3, <2>4, SameDuty
<1> QED BY <1>5, <1>6 DEF StartNext

LEMMA RetireActiveKeepsDuty ==
    ASSUME DutyInv, DutyIsNewest, DutyIsNewest', retiring = None, RetireActive
    PROVE UNCHANGED Duty!vars
<1>1. /\ active # None /\ active' = None
      /\ UNCHANGED <<foreground, pending, latestSeen>>
      /\ retiring' = [request |-> active.request, isLatest |-> ActiveIsLatest,
                      requeueEligible |-> ActiveIsEligible]
  BY DEF RetireActive, queueVars
<1>2. retiring' # None
  <2>1. retiring' \in RetiredActive
    BY <1>1, ActiveFields DEF DutyInv, RetiredActive, ActiveIsLatest, ActiveIsEligible, PreservedOnPreemption
  <2> QED BY <2>1, NoneIsNoRequest
<1>3. ActiveIsEligible <=> active.state = "Latest" /\ active.request.kind = "Samples"
  BY <1>1 DEF DutyInv, IInv, InvariantsHold, ActiveAgrees, ActiveIsEligible, ActiveIsLatest,
              PreservedOnPreemption
<1>4. retiring'.requeueEligible = ActiveIsEligible /\ retiring'.request = active.request
  BY <1>1
<1>5. \A q \in Problems : Owes(q)' <=> Owes(q)
  BY <1>1, <1>2, <1>3, <1>4 DEF Owes
<1>6. ExecutedDuty' = ExecutedDuty
  BY <1>1, <1>2, <1>3, <1>4 DEF ExecutedDuty
<1> QED BY <1>1, <1>5, <1>6, SameDuty

(* A preempted run goes back into the queue and stays owed. *)
LEMMA RequeueKeepsDuty ==
    ASSUME DutyInv, DutyIsNewest, DutyIsNewest', RequeueRetired
    PROVE Duty!Interrupt \/ UNCHANGED Duty!vars
<1>1. /\ retiring # None /\ retiring' = None /\ active = None
      /\ UNCHANGED <<active, foreground, latestSeen>>
  BY DEF DutyInv, IInv, RetiringAgrees, RequeueRetired
<1>2. ExecutedDuty' = None
  BY <1>1 DEF ExecutedDuty
<1>3. CASE retiring.requeueEligible
  <2> DEFINE r == retiring.request
  <2>1. r \in Request
    BY <1>1 DEF DutyInv, IInv, TypeOK, RetiredActive
  <2>2. pending' = Append(pending, r)
    BY <1>1, <1>3 DEF RequeueRetired, RequeueAllowed, DutyInv, IInv, RetiringAgrees
  <2>3. pending \in Seq(Request)
    BY DEF DutyInv, IInv, TypeOK
  <2>4. ExecutedDuty = r.problem /\ r.problem # None
    BY <1>1, <1>3, <2>1, RequestFields, NoneAssumption DEF ExecutedDuty
  <2> HIDE DEF r
  <2>5. \A q : (\E k \in DOMAIN pending' : pending'[k].problem = q)
                 <=> (\E i \in DOMAIN pending : pending[i].problem = q) \/ r.problem = q
    <3>1. /\ DOMAIN pending' = 1..(Len(pending) + 1)
          /\ DOMAIN pending = 1..Len(pending) /\ Len(pending) \in Nat
          /\ \A k \in 1..Len(pending) : pending'[k] = pending[k]
          /\ pending'[Len(pending) + 1] = r
      BY <2>1, <2>2, <2>3
    <3> QED BY <3>1
  <2>6. \A q \in Problems : Owes(q)' <=> Owes(q)
    BY <1>1, <1>3, <2>5 DEF Owes, r
  <2>7. [q \in Problems |-> OwedRun(q)]' = [q \in Problems |-> OwedRun(q)]
    BY <1>1, <2>6 DEF DutyIsNewest
  <2> QED BY <1>1, <1>2, <2>4, <2>7 DEF Duty!Interrupt
<1>4. CASE ~retiring.requeueEligible
  <2>1. pending' = pending
    BY <1>4 DEF RequeueRetired, RequeueAllowed
  <2>2. \A q \in Problems : Owes(q)' <=> Owes(q)
    BY <1>1, <1>4, <2>1 DEF Owes
  <2>3. ExecutedDuty = None
    BY <1>1, <1>4 DEF ExecutedDuty
  <2> QED BY <1>1, <1>2, <2>2, <2>3, SameDuty
<1> QED BY <1>3, <1>4

(* The attempt that reached its end discharges what was owed. *)
LEMMA DropKeepsDuty ==
    ASSUME DutyInv, DutyIsNewest, DutyIsNewest', DropRetired
    PROVE (\E p \in Problems : Duty!Discharge(p)) \/ UNCHANGED Duty!vars
<1>1. /\ retiring # None /\ retiring' = None /\ active = None
      /\ UNCHANGED <<active, foreground, pending, latestSeen>>
  BY DEF DutyInv, IInv, RetiringAgrees, DropRetired, queueVars
<1>2. ExecutedDuty' = None
  BY <1>1 DEF ExecutedDuty
<1>3. CASE retiring.requeueEligible
  <2>0. retiring.request \in Request
    BY <1>1 DEF DutyInv, IInv, TypeOK, RetiredActive
  <2> PICK p \in Problems : p = retiring.request.problem
    BY <2>0, RequestFields
  <2>1. p # None /\ ~HasLogicalRequest(p)
    BY <1>1, <1>3, NoneAssumption DEF DutyInv, IInv, RetiringAgrees
  <2>2. ExecutedDuty = p
    BY <1>1, <1>3 DEF ExecutedDuty
  <2>3. ~Owes(p)'
    BY <1>1, <2>1 DEF Owes, HasLogicalRequest
  <2>4. \A q \in Problems : q # p => (Owes(q)' <=> Owes(q))
    BY <1>1 DEF Owes
  <2>5. \A q \in Problems :
           (IF Owes(q)' THEN latestSeen'[q] ELSE 0)
             = IF q = p THEN 0 ELSE IF Owes(q) THEN latestSeen[q] ELSE 0
    BY <1>1, <2>3, <2>4
  <2>6. [q \in Problems |-> OwedRun(q)]' = [[q \in Problems |-> OwedRun(q)] EXCEPT ![p] = 0]
    <3>1. [q \in Problems |-> OwedRun(q)]' = [q \in Problems |-> IF Owes(q)' THEN latestSeen'[q] ELSE 0]
      BY DEF DutyIsNewest
    <3>2. [q \in Problems |-> OwedRun(q)] = [q \in Problems |-> IF Owes(q) THEN latestSeen[q] ELSE 0]
      BY DEF DutyIsNewest
    <3> QED BY <2>1, <2>5, <3>1, <3>2
  <2>7. Duty!Discharge(p)
    BY <1>1, <1>2, <2>2, <2>6 DEF Duty!Discharge
  <2> QED BY <2>1, <2>7
<1>4. CASE ~retiring.requeueEligible
  <2>1. \A q \in Problems : Owes(q)' <=> Owes(q)
    BY <1>1, <1>4 DEF Owes
  <2>2. ExecutedDuty = None
    BY <1>1, <1>4 DEF ExecutedDuty
  <2> QED BY <1>1, <1>2, <2>1, <2>2, SameDuty
<1> QED BY <1>3, <1>4

(* What the duties are read from is unchanged. *)
LEMMA StutterKeepsDuty ==
    ASSUME UNCHANGED <<active, foreground, pending, latestSeen, retiring>>
    PROVE UNCHANGED Duty!vars
<1>1. \A q : OwedRun(q)' = OwedRun(q)
  BY DEF OwedRun, Logical
<1> QED BY <1>1 DEF Duty!vars, ExecutedDuty

LEMMA StepKeepsDuty ==
    DutyInv /\ DutyInv' /\ DutyIsNewest /\ DutyIsNewest' /\ [Next]_vars
        => [Duty!Next]_(Duty!vars)
<1> SUFFICES ASSUME DutyInv, DutyInv', DutyIsNewest, DutyIsNewest', [Next]_vars
             PROVE Duty!Next \/ UNCHANGED Duty!vars
  OBVIOUS
<1>1. ASSUME NEW r \in Request, ClientRequest(r)
      PROVE Duty!Next \/ UNCHANGED Duty!vars
  <2>1. CASE AcceptRequest(r)
    <3>1. Duty!Arrive(r.problem, r.runId, r.kind = "Samples")
      BY <1>1, <2>1, AcceptKeepsDuty DEF ClientRequest
    <3>2. r.problem \in Problems /\ r.runId \in RunIds /\ (r.kind = "Samples") \in BOOLEAN
      BY RequestFields
    <3> QED BY <3>1, <3>2 DEF Duty!Next
  <2>2. CASE UNCHANGED <<active, queueVars, retiring>>
    BY <2>2, StutterKeepsDuty DEF queueVars
  <2> QED BY <1>1, <2>1, <2>2 DEF ClientRequest, RequestArrived
<1>2. ASSUME NEW p \in Problems, NEW v \in Revisions, ClientRetire(p, v)
      PROVE UNCHANGED Duty!vars
  BY <1>2, RetireKeepsDuty DEF ClientRetire
<1>3. ASSUME NEW p \in Problems, NEW v \in Revisions, UiRetireBefore(p, v)
      PROVE UNCHANGED Duty!vars
  BY <1>3, StutterKeepsDuty DEF UiRetireBefore, queueVars
<1>4. ASSUME NEW p \in Problems, NEW id \in RunIds, ClientCancel(p, id)
      PROVE UNCHANGED Duty!vars
  BY <1>4, CancelKeepsDuty DEF ClientCancel
<1>5. CASE WorkerStart
  BY <1>5, StartKeepsDuty DEF WorkerStart, Duty!Next
<1>6. CASE WorkerRetire
  BY <1>6, RetireActiveKeepsDuty DEF WorkerRetire
<1>7. CASE WorkerRequeue
  BY <1>7, RequeueKeepsDuty DEF WorkerRequeue, Duty!Next
<1>8. CASE WorkerDrop
  BY <1>8, DropKeepsDuty DEF WorkerDrop, Duty!Next
<1>9. CASE UNCHANGED vars
  BY <1>9, StutterKeepsDuty DEF vars, queueVars
<1> QED BY <1>1, <1>2, <1>3, <1>4, <1>5, <1>6, <1>7, <1>8, <1>9 DEF Next

(* The scheduler implements SampleDuty, whatever its client does: a sample *)
(* run it accepted stays owed until a newer request of its problem arrives *)
(* or it was executed to its end; preemption never ends a duty.            *)
THEOREM SchedulerKeepsSampleDuty == Spec => KeepsSampleDuty
<1>1. Init => RetiringShape /\ Duty!Init
  <2> SUFFICES ASSUME Init PROVE RetiringShape /\ Duty!Init
    OBVIOUS
  <2>1. Logical = {}
    BY DEF Init, Logical
  <2>2. \A p : OwedRun(p) = 0
    BY <2>1 DEF OwedRun
  <2>3. ExecutedDuty = None
    BY DEF Init, ExecutedDuty
  <2> QED BY <2>2, <2>3 DEF Init, RetiringShape, Duty!Init
<1>2. IInv /\ RetiringShape => DutyInv
  BY DEF DutyInv
<1>3. Spec => []DutyInv
  BY <1>1, <1>2, IInvAlways, ShapeKept, PTL DEF Spec
<1>4. Spec => []DutyIsNewest
  BY <1>3, DutyOfInvariant, PTL
<1> QED BY <1>1, <1>3, <1>4, StepKeepsDuty, PTL DEF Spec, KeepsSampleDuty, Duty!Spec

-------------------------------------------------------------------------------
(* Part II: the engine.                                                    *)
-------------------------------------------------------------------------------
(* The values of the engine's variables. *)
Notes == [type : {"RunStarted", "RunRequeued", "RunCompleted", "RunFailed"} \cup TestEvents
                   \cup StressEvents \cup InputEvents,
          runId : RunIds, problem : Problems, revision : Revisions, attempt : Nat]
Commands == [type : {"Run"}, request : Request]
              \cup [type : {"CancelStress"}, problem : Problems, runId : RunIds]
              \cup [type : {"RetireUserInputRuns"}, problem : Problems, revision : Revisions]
RunStates == [id : 0..MaxRunId, phase : Phases, started : BOOLEAN, attempts : SUBSET Nat]
StressStates == [id : 0..MaxRunId, phase : Phases]
InputStates == [id : 0..MaxRunId, revision : Revisions, status : Phases]
WorkerStates == [pc : WorkerPcs, drained : Nat, outcome : Outcomes \cup {None}, failed : BOOLEAN]

EngineTypes ==
    /\ ui \in {"running", "leaving", "closed"} /\ nextRunId \in 1..(MaxRunId + 1)
    /\ source \in [Problems -> BOOLEAN] /\ revision \in [Problems -> Revisions]
    /\ run \in [Problems -> RunStates] /\ stress \in [Problems -> StressStates]
    /\ userInput \in [Problems -> InputStates]
    /\ commands \in Seq(Commands) /\ messages \in Seq(Notes \cup {WorkerFailed})
    /\ worker \in WorkerStates /\ stopping \in BOOLEAN
    /\ attempt \in Attempts \cup {None} /\ spawned \in Nat

(* Where the worker is, and what it holds there. *)
WorkerInv ==
    /\ retiring # None <=> worker.pc = "publish"
    /\ worker.pc = "publish" => attempt = None /\ worker.outcome \in {"Completed", "Cancelled", "Failed"}
    /\ worker.pc = "spawn" => ~stopping /\ attempt = None /\ active # None
    /\ worker.pc \in {"top", "drain", "wait"} /\ attempt = None => active = None
    /\ worker.pc \in {"cleanup", "cleanupJoin", "exited"} => stopping \/ worker.failed
    /\ stopping => ui # "running"
    /\ attempt # None =>
          /\ active # None /\ attempt.request = active.request /\ attempt.number = spawned
          /\ attempt.pc = "ended" <=> attempt.outcome # None

-------------------------------------------------------------------------------
(* The requests of the engine. *)
RunsOf(s) == {c.request : c \in {c \in Range(s) : c.type = "Run"}}
InOrder(s) ==
    \A i, j \in DOMAIN s :
       i < j /\ s[i].type = "Run" /\ s[j].type = "Run" => s[i].request.runId < s[j].request.runId
Commanded == RunsOf(commands)
Queued == (IF foreground = None THEN {} ELSE {foreground}) \cup Range(pending)
Held == Queued \cup (IF active = None THEN {} ELSE {active.request})
               \cup (IF retiring = None THEN {} ELSE {retiring.request})
Said == {m \in Range(messages) : m.type # "WorkerFailed"}

(* Identifiers are given out in order, and seen by the scheduler in order. *)
IdInv ==
    /\ \A x \in Commanded :
          x.runId < nextRunId /\ \A q \in Problems : latestSeen[q] < x.runId
    /\ InOrder(commands)
    /\ \A c \in Range(commands) : c.type = "CancelStress" => c.runId < nextRunId
    /\ \A q \in Problems : latestSeen[q] < nextRunId
    /\ \A x \in Held : x.runId <= latestSeen[x.problem]
    /\ \A m \in Said : m.runId <= latestSeen[m.problem]
    /\ \A p \in Problems : /\ run[p].id < nextRunId /\ stress[p].id < nextRunId
                           /\ userInput[p].id < nextRunId

(* An identifier on the screen is that of a request of its kind. *)
KindInv ==
    \A p \in Problems :
       /\ \A x \in Commanded \cup Held : x.problem = p =>
             /\ x.runId = run[p].id => x.kind = "Samples"
             /\ x.runId = stress[p].id => x.kind = "Stress"
             /\ x.runId = userInput[p].id => /\ x.kind = "UserInput"
                                             /\ x.revision = userInput[p].revision
       /\ \A m \in Said : m.problem = p /\ m.runId = userInput[p].id =>
             m.revision = userInput[p].revision

(* The screen itself. *)
RunActive(p) == run[p].phase \in ActivePhases
StressActive(p) == stress[p].phase \in ActivePhases
InputActive(p) == userInput[p].status \in ActivePhases
ScreenInv ==
    \A p \in Problems :
       /\ RunActive(p) => run[p].id # 0 /\ ~StressActive(p) /\ ~InputActive(p)
       /\ StressActive(p) => stress[p].id # 0 /\ \A q \in Problems : /\ StressActive(q) => q = p
                                                                    /\ ~InputActive(q)
       /\ InputActive(p) => /\ userInput[p].id # 0 /\ source[p]
                            /\ userInput[p].revision = revision[p]
                            /\ \A q \in Problems : InputActive(q) => q = p
       /\ run[p].id = 0 \/ stress[p].id = 0
       /\ userInput[p].id # 0 => userInput[p].id \notin {run[p].id, stress[p].id}

(* No revision is retired that the screen still has. *)
GateInv ==
    \A p \in Problems :
       /\ gate[p] <= revision[p] /\ retired[p] <= revision[p]
       /\ \A c \in Range(commands) :
             c.type = "RetireUserInputRuns" /\ c.problem = p => c.revision <= revision[p]

-------------------------------------------------------------------------------
(* Attempts and what they said. *)
Events == {"RunStarted"} \cup TestEvents
Closing == {"RunRequeued", "RunCompleted", "RunFailed"}
Terminal == {"NoSamples", "CompileFailed", "TestRunFinished", "RunCompleted", "RunFailed"}

(* Attempts speak one after the other, and not after their outcome. *)
SpeechInv ==
    /\ \A i, j \in DOMAIN messages :
          i < j /\ messages[i].type # "WorkerFailed" /\ messages[j].type # "WorkerFailed" =>
            /\ messages[i].attempt <= messages[j].attempt
            /\ messages[i].type \in Closing => messages[i].attempt # messages[j].attempt
    /\ \A m \in Said :
          /\ m.attempt <= spawned
          /\ (attempt # None \/ retiring # None) /\ m.type \in Closing => m.attempt < spawned
    /\ \A p \in Problems : \A n \in run[p].attempts :
          n <= spawned /\ \A m \in Said : n <= m.attempt

(* A sample run is waiting for an attempt, or has one that is not retired. *)
Waits(p, id) ==
    \E x \in Commanded \cup Queued \cup (IF worker.pc = "spawn" THEN {active.request} ELSE {}) :
       x.problem = p /\ x.runId = id
Tried(p, id) ==
    \/ attempt # None /\ attempt.request.problem = p /\ attempt.request.runId = id
    \/ retiring # None /\ retiring.request.problem = p /\ retiring.request.runId = id
TriedToTheEnd ==
    \/ attempt # None /\ attempt.pc = "ended" /\ attempt.outcome = "Completed"
    \/ retiring # None /\ worker.outcome = "Completed"

About(p, id) == {m \in Said : m.problem = p /\ m.runId = id}
Requeued(p, id, n) == \E m \in About(p, id) : m.type = "RunRequeued" /\ m.attempt = n

(* The attempts of the run on the screen, shown or still in the channel. *)
Known(p) == run[p].attempts \cup {m.attempt : m \in {m \in About(p, run[p].id) : m.type \in Events}}

Repeated(p, id, n) == \/ Waits(p, id)
                      \/ Tried(p, id) /\ n # spawned
                      \/ \E m \in About(p, id) : n < m.attempt
Over(p, n) == \/ n \in run[p].attempts /\ run[p].phase \notin {"Compiling", "Running"}
              \/ \E m \in About(p, run[p].id) : m.attempt = n /\ m.type \in Terminal

AttemptsAgree(p) ==
    LET id == run[p].id
    IN /\ \A n, k \in run[p].attempts : n = k
       /\ run[p].phase = "Queued" => run[p].attempts = {}
       /\ id # 0 =>
            /\ ~(Waits(p, id) /\ Tried(p, id))
            (* another attempt of the run: the earlier one was taken back *)
            /\ \A n \in Known(p) : Repeated(p, id, n) => Requeued(p, id, n)
            (* an attempt that reached its end is not taken back *)
            /\ \A n \in Nat : Over(p, n) =>
                  ~Requeued(p, id, n) /\ (Tried(p, id) /\ n = spawned => TriedToTheEnd)
AttemptsInv == \A p \in Problems : AttemptsAgree(p)

-------------------------------------------------------------------------------
(* The pipeline. *)
IsCommanded(p, id) == \E x \in Commanded : x.problem = p /\ x.runId = id
ActiveLatest(p, id) ==
    active # None /\ active.state = "Latest" /\ active.request.problem = p /\ active.request.runId = id
RetiringLatest(p, id) ==
    retiring # None /\ retiring.isLatest /\ retiring.request.problem = p /\ retiring.request.runId = id
Foreground(p, id) == foreground # None /\ foreground.problem = p /\ foreground.runId = id
Told(p, id, types) == \E m \in About(p, id) : m.type \in types

RunOwed(p) ==
    LET id == run[p].id
    IN \/ IsCommanded(p, id) \/ \E x \in Queued : x.problem = p /\ x.runId = id
       \/ ActiveLatest(p, id) \/ RetiringLatest(p, id)
       \/ Told(p, id, {"RunCompleted", "RunFailed"})
StressOwed(p) ==
    LET id == stress[p].id
    IN \/ IsCommanded(p, id) \/ Foreground(p, id)
       \/ ActiveLatest(p, id) /\ (attempt # None => attempt.outcome # "Cancelled")
       \/ RetiringLatest(p, id) /\ worker.outcome # "Cancelled"
       \/ Told(p, id, {"RunCompleted", "RunFailed", "StressCancelled"})
InputOwed(p) ==
    LET id == userInput[p].id
    IN \/ IsCommanded(p, id) \/ Foreground(p, id)
       \/ ActiveLatest(p, id) /\ (attempt # None => attempt.outcome \notin {"Cancelled", "Completed"})
       \/ RetiringLatest(p, id) /\ worker.outcome = "Failed"
       \/ Told(p, id, {"InputFinished", "RunFailed"})

(* Nothing newer is on its way, and nothing that would cancel it. *)
NewestInv ==
    \A p \in Problems :
       /\ RunActive(p) => \A x \in Commanded : x.problem = p => x.runId <= run[p].id
       /\ StressActive(p) =>
            /\ \A x \in Commanded : x.runId <= stress[p].id
            /\ \A c \in Range(commands) :
                  c.type = "CancelStress" /\ c.problem = p => c.runId # stress[p].id
       /\ InputActive(p) =>
            /\ \A x \in Commanded : x.runId <= userInput[p].id
            /\ ~worker.failed /\ attempt # None /\ attempt.cancel =>
                  attempt.request.problem # p \/ attempt.request.runId # userInput[p].id
PipeInv ==
    ~worker.failed => \A p \in Problems : /\ RunActive(p) => RunOwed(p)
                                          /\ StressActive(p) => StressOwed(p)
                                          /\ InputActive(p) => InputOwed(p)

RetiringApart ==
    retiring # None =>
      /\ retiring.request.runId <= latestSeen[retiring.request.problem]
      /\ retiring.requeueEligible <=> retiring.isLatest /\ retiring.request.kind = "Samples"
      /\ retiring.request.kind = "Samples" =>
         \A x \in Queued : x.problem # retiring.request.problem \/ x.runId # retiring.request.runId
RunningInv == ui = "running" =>
    IdInv /\ KindInv /\ ScreenInv /\ GateInv /\ SpeechInv /\ AttemptsInv /\ NewestInv /\ PipeInv

EngineBase == EngineTypes /\ IInv /\ WorkerInv /\ RetiringApart
EngineInv == EngineBase /\ RunningInv

-------------------------------------------------------------------------------
(* Channels as sets of what they hold. *)
LEMMA AppendFacts ==
    ASSUME NEW S, NEW s \in Seq(S), NEW e \in S
    PROVE /\ Append(s, e) \in Seq(S) /\ Range(Append(s, e)) = Range(s) \cup {e}
          /\ Len(s) \in Nat /\ Len(Append(s, e)) = Len(s) + 1
          /\ DOMAIN s = 1..Len(s) /\ DOMAIN Append(s, e) = 1..(Len(s) + 1)
          /\ \A i \in 1..Len(s) : Append(s, e)[i] = s[i]
          /\ Append(s, e)[Len(s) + 1] = e
<1> DEFINE t == Append(s, e)
<1>1. /\ t \in Seq(S) /\ Len(s) \in Nat /\ Len(t) = Len(s) + 1
      /\ \A i \in 1..Len(s) : t[i] = s[i]
      /\ t[Len(s) + 1] = e
  BY AppendProperties, LenProperties
<1>2. DOMAIN s = 1..Len(s) /\ DOMAIN t = 1..(Len(s) + 1)
  BY <1>1, LenProperties
<1> HIDE DEF t
<1>3. 1..(Len(s) + 1) = (1..Len(s)) \cup {Len(s) + 1}
  BY <1>1
<1>4. Range(t) = Range(s) \cup {e}
  BY <1>1, <1>2, <1>3 DEF Range
<1> QED BY <1>1, <1>2, <1>4 DEF t

LEMMA TailFacts ==
    ASSUME NEW S, NEW s \in Seq(S), s # << >>
    PROVE /\ Tail(s) \in Seq(S) /\ Head(s) \in S
          /\ Range(s) = {Head(s)} \cup Range(Tail(s))
          /\ Len(s) \in Nat \ {0} /\ Head(s) = s[1]
          /\ DOMAIN s = 1..Len(s) /\ DOMAIN Tail(s) = 1..(Len(s) - 1)
          /\ \A i \in 1..(Len(s) - 1) : Tail(s)[i] = s[i + 1]
<1> DEFINE t == Tail(s)
<1>1. /\ t \in Seq(S) /\ Len(s) \in Nat \ {0} /\ Len(t) = Len(s) - 1 /\ Head(s) = s[1]
      /\ Head(s) \in S
      /\ \A i \in 1..Len(t) : t[i] = s[i + 1]
  BY HeadTailProperties, EmptySeq, LenProperties, ElementOfSeq
<1>2. DOMAIN s = 1..Len(s) /\ DOMAIN t = 1..(Len(s) - 1)
  BY <1>1, LenProperties
<1> HIDE DEF t
<1>3. \A i \in 1..Len(s) : i = 1 \/ \E j \in 1..(Len(s) - 1) : i = j + 1
  <2>1. ASSUME NEW i \in 1..Len(s), i # 1 PROVE i - 1 \in 1..(Len(s) - 1) /\ i = (i - 1) + 1
    BY <1>1, <2>1
  <2> QED BY <2>1
<1>4. \A j \in 1..(Len(s) - 1) : j + 1 \in 1..Len(s)
  BY <1>1
<1>5. Range(s) = {s[1]} \cup Range(t)
  <2>1. \A j \in 1..(Len(s) - 1) : t[j] = s[j + 1]
    BY <1>1
  <2>2. ASSUME NEW x \in Range(s) PROVE x = s[1] \/ x \in Range(t)
    <3>1. PICK i \in 1..Len(s) : x = s[i]
      BY <1>2, <2>2 DEF Range
    <3>2. ASSUME i # 1 PROVE x \in Range(t)
      <4>1. PICK j \in 1..(Len(s) - 1) : i = j + 1
        BY <1>3, <3>2
      <4>2. t[j] = x
        BY <2>1, <3>1, <4>1
      <4> QED BY <1>2, <4>2 DEF Range
    <3> QED BY <3>1, <3>2
  <2>3. s[1] \in Range(s)
    BY <1>1, <1>2 DEF Range
  <2>4. ASSUME NEW x \in Range(t) PROVE x \in Range(s)
    <3>1. PICK j \in 1..(Len(s) - 1) : x = t[j]
      BY <1>2, <2>4 DEF Range
    <3> QED BY <1>2, <1>4, <2>1, <3>1 DEF Range
  <2> QED BY <2>2, <2>3, <2>4
<1> QED BY <1>1, <1>2, <1>5 DEF t

LEMMA RangeFacts ==
    ASSUME NEW S, NEW s \in Seq(S)
    PROVE Range(s) \subseteq S /\ (s = << >> => Range(s) = {})
BY LenProperties, ElementOfSeq DEF Range

(* Scheduler steps, as the worker makes them.  It also drops the active    *)
(* request when the attempt could not be spawned or the thread ends.       *)
DropActive == active' = None /\ UNCHANGED <<queueVars, retiring, gate>>

LEMMA SchedulerKeeps ==
    ASSUME IInv, Next \/ UNCHANGED vars \/ (retiring = None /\ DropActive)
    PROVE IInv'
<1>1. CASE Next \/ UNCHANGED vars
  BY <1>1, StepKeepsIInv
<1>2. CASE retiring = None /\ DropActive
  BY <1>2, NoneAssumption
  DEF DropActive, queueVars, IInv, TypeOK, InvariantsHold, QueuedAreNewest, ActiveAgrees,
      PendingOnlySamples, RetiringAgrees, HasLogicalRequest
<1> QED BY <1>1, <1>2

(* A command more at the end of the channel. *)
LEMMA CommandAppended ==
    ASSUME NEW s \in Seq(Commands), NEW c \in Commands
    PROVE LET t == Append(s, c)
          IN /\ t \in Seq(Commands) /\ Range(t) = Range(s) \cup {c}
             /\ RunsOf(t) = RunsOf(s) \cup (IF c.type = "Run" THEN {c.request} ELSE {})
             /\ InOrder(s) /\ (c.type = "Run" => \A x \in RunsOf(s) : x.runId < c.request.runId)
                  => InOrder(t)
<1> DEFINE t == Append(s, c)
<1>1. /\ t \in Seq(Commands) /\ Range(t) = Range(s) \cup {c} /\ Len(s) \in Nat
      /\ DOMAIN s = 1..Len(s) /\ DOMAIN t = 1..(Len(s) + 1)
      /\ \A i \in 1..Len(s) : t[i] = s[i]
      /\ t[Len(s) + 1] = c
  BY AppendFacts
<1> HIDE DEF t
<1>2. RunsOf(t) = RunsOf(s) \cup (IF c.type = "Run" THEN {c.request} ELSE {})
  BY <1>1 DEF RunsOf
<1>3. ASSUME InOrder(s), c.type = "Run" => \A x \in RunsOf(s) : x.runId < c.request.runId
      PROVE InOrder(t)
  <2> SUFFICES ASSUME NEW i \in DOMAIN t, NEW j \in DOMAIN t, i < j, t[i].type = "Run", t[j].type = "Run"
               PROVE t[i].request.runId < t[j].request.runId
    BY DEF InOrder
  <2>1. i \in 1..Len(s)
    BY <1>1
  <2>2. CASE j \in 1..Len(s)
    BY <1>1, <1>3, <2>1, <2>2 DEF InOrder
  <2>3. CASE j = Len(s) + 1
    <3>1. s[i].request \in RunsOf(s)
      BY <1>1, <2>1 DEF RunsOf, Range
    <3> QED BY <1>1, <1>3, <2>1, <2>3, <3>1
  <2> QED BY <1>1, <2>2, <2>3
<1> QED BY <1>1, <1>2, <1>3 DEF t

LEMMA NewCommand ==
    ASSUME EngineTypes, NEW p \in Problems, NEW kind \in Kinds, nextRunId <= MaxRunId
    PROVE LET c == RunCommand(p, kind)
          IN /\ c \in Commands /\ c.type = "Run" /\ c.request \in Request
             /\ c.request.runId = nextRunId /\ c.request.problem = p /\ c.request.kind = kind
             /\ kind = "UserInput" => c.request.revision = revision[p]
<1>1. nextRunId \in RunIds /\ revision[p] \in Revisions /\ 0 \in Revisions
  BY EngineAssumption, RevisionsAssumption DEF EngineTypes
<1> DEFINE r == [runId |-> nextRunId, problem |-> p, kind |-> kind,
                 revision |-> IF kind = "UserInput" THEN revision[p] ELSE 0]
<1>2. r \in Request
  BY <1>1 DEF Request
<1>3. RunCommand(p, kind) = [type |-> "Run", request |-> r]
  BY DEF RunCommand
<1> HIDE DEF r
<1>4. RunCommand(p, kind) \in Commands /\ RunCommand(p, kind).type = "Run" /\ RunCommand(p, kind).request = r
  BY <1>2, <1>3 DEF Commands
<1> QED BY <1>2, <1>4 DEF r

-------------------------------------------------------------------------------
(* What a user action, or a notification, does to the screen: a state is   *)
(* kept, retired, or made for the new request, if there is one.            *)
RunKept(q) == run'[q] = run[q]
RunGone(q) ==
    run'[q].id = 0 /\ run'[q].phase \notin ActivePhases /\ run'[q].attempts \subseteq run[q].attempts
RunFresh(q, x) ==
    /\ x.problem = q /\ x.kind = "Samples"
    /\ run'[q].id = nextRunId /\ run'[q].phase = "Queued" /\ run'[q].attempts = {}
StressKept(q) == stress'[q] = stress[q]
StressGone(q) == stress'[q].phase \notin ActivePhases /\ stress'[q].id \in {0, stress[q].id}
StressFresh(q, x) == x.problem = q /\ x.kind = "Stress" /\ stress'[q].id = nextRunId
InputKept(q) == userInput'[q] = userInput[q]
InputGone(q) ==
    /\ userInput'[q].status \notin ActivePhases
    /\ \/ userInput'[q].id = 0
       \/ userInput'[q].id = userInput[q].id /\ userInput'[q].revision = userInput[q].revision
InputFresh(q, x) ==
    /\ x.problem = q /\ x.kind = "UserInput"
    /\ userInput'[q].id = nextRunId /\ userInput'[q].revision = x.revision
InputUnsent(q, new) ==
    /\ new = {}
    /\ userInput'[q].status \notin ActivePhases
    /\ userInput'[q].id = nextRunId /\ nextRunId' = nextRunId + 1

(* The requests that were sent: one or none. *)
Sent(new) ==
    /\ new \subseteq Request /\ \A x, y \in new : x = y
    /\ nextRunId' \in {nextRunId, nextRunId + 1} /\ nextRunId' <= MaxRunId + 1
    /\ \A x \in new : /\ x.runId = nextRunId /\ nextRunId' = nextRunId + 1
                      /\ RunActive(x.problem)' => run'[x.problem].id = nextRunId
                      /\ \A q \in Problems : /\ StressActive(q)' => stress'[q].id = nextRunId
                                             /\ InputActive(q)' => userInput'[q].id = nextRunId
    /\ Commanded' = Commanded \cup new
    /\ InOrder(commands) /\ (\A x \in Commanded : x.runId < nextRunId) => InOrder(commands')

UserEffect(new) ==
    /\ ui = "running" /\ ui' = "running"
    /\ UNCHANGED <<messages, workerVars, stopping, active, queueVars, retiring>>
    /\ source' \in [Problems -> BOOLEAN] /\ revision' \in [Problems -> Revisions]
    /\ run' \in [Problems -> RunStates] /\ stress' \in [Problems -> StressStates]
    /\ userInput' \in [Problems -> InputStates]
    /\ commands' \in Seq(Commands) /\ gate' \in [Problems -> Revisions]
    /\ \A q \in Problems : revision[q] <= revision'[q] /\ gate'[q] <= revision'[q]
    /\ Sent(new)
    /\ \A q \in Problems : /\ RunKept(q) \/ RunGone(q) \/ \E x \in new : RunFresh(q, x)
                           /\ StressKept(q) \/ StressGone(q) \/ \E x \in new : StressFresh(q, x)
                           /\ \/ InputKept(q) \/ InputGone(q) \/ InputUnsent(q, new)
                              \/ \E x \in new : InputFresh(q, x)
    /\ \A c \in Range(commands') \ Range(commands) :
          /\ c.type = "CancelStress" => /\ c.runId < nextRunId
                                        /\ ~StressActive(c.problem)'
          /\ c.type = "RetireUserInputRuns" => c.revision <= revision'[c.problem]
    /\ ScreenInv'

(* The pieces a user action is made of. *)
LEMMA RetiredInputs ==
    ASSUME NEW inputs \in [Problems -> InputStates], NEW q \in Problems
    PROVE LET t == RetireInputs(inputs)[q]
          IN /\ t \in InputStates /\ t.status \notin ActivePhases
             /\ t.id = inputs[q].id /\ t.revision = inputs[q].revision
<1>1. RetireInputs(inputs)[q] = IF inputs[q].status \in ActivePhases
                                THEN [inputs[q] EXCEPT !.status = "Cancelled"] ELSE inputs[q]
  BY DEF RetireInputs
<1>2. inputs[q] \in InputStates
  OBVIOUS
<1> QED BY <1>1, <1>2 DEF InputStates, Phases, ActivePhases, EndPhases

LEMMA RetiredStress ==
    ASSUME EngineTypes, ScreenInv, NEW p \in Problems, NEW q \in Problems, q # p
    PROVE LET t == RetireOtherStress(p)[q]
          IN /\ t \in StressStates /\ t.phase \notin ActivePhases
             /\ t = stress[q] \/ t.id = 0
<1>1. RetireOtherStress(p)[q] = IF IsActive(stress[q])
                                THEN [id |-> 0, phase |-> "Cancelled"] ELSE stress[q]
  BY DEF RetireOtherStress
<1>2. stress[q] \in StressStates /\ 0 \in 0..MaxRunId
  BY EngineAssumption DEF EngineTypes
<1>3. stress[q].phase \in ActivePhases => stress[q].id # 0
  BY DEF ScreenInv, StressActive
<1> QED BY <1>1, <1>2, <1>3 DEF StressStates, Phases, ActivePhases, EndPhases, IsActive

LEMMA FreshId ==
    ASSUME EngineTypes, IdInv, nextRunId <= MaxRunId
    PROVE /\ nextRunId \in 0..MaxRunId /\ nextRunId \in Nat \ {0} /\ nextRunId \in RunIds
          /\ nextRunId + 1 \in 1..(MaxRunId + 1)
          /\ \A q \in Problems : /\ run[q].id < nextRunId /\ stress[q].id < nextRunId
                                 /\ userInput[q].id < nextRunId
                                 /\ run[q].id \in Nat /\ stress[q].id \in Nat
                                 /\ userInput[q].id \in Nat
BY EngineAssumption DEF EngineTypes, IdInv, RunStates, StressStates, InputStates

LEMMA RequestSent ==
    ASSUME EngineTypes, NEW p \in Problems, NEW kind \in Kinds, nextRunId <= MaxRunId,
           nextRunId' = nextRunId + 1, commands' = Append(commands, RunCommand(p, kind))
    PROVE LET x == RunCommand(p, kind).request
          IN /\ x \in Request /\ x.runId = nextRunId /\ x.problem = p /\ x.kind = kind
             /\ kind = "UserInput" => x.revision = revision[p]
             /\ commands' \in Seq(Commands) /\ Commanded' = Commanded \cup {x}
             /\ nextRunId' \in {nextRunId, nextRunId + 1} /\ nextRunId' <= MaxRunId + 1
             /\ InOrder(commands) /\ (\A y \in Commanded : y.runId < nextRunId) => InOrder(commands')
             /\ \A c \in Range(commands') \ Range(commands) : c.type = "Run"
<1> DEFINE c == RunCommand(p, kind)
<1>1. /\ c \in Commands /\ c.type = "Run" /\ c.request \in Request
      /\ c.request.runId = nextRunId /\ c.request.problem = p /\ c.request.kind = kind
      /\ kind = "UserInput" => c.request.revision = revision[p]
  BY NewCommand
<1>2. commands \in Seq(Commands) /\ nextRunId \in Nat /\ MaxRunId \in Nat
  BY EngineAssumption DEF EngineTypes
<1> HIDE DEF c
<1>3. /\ commands' \in Seq(Commands) /\ Range(commands') = Range(commands) \cup {c}
      /\ RunsOf(commands') = RunsOf(commands) \cup {c.request}
      /\ InOrder(commands) /\ (\A x \in RunsOf(commands) : x.runId < c.request.runId)
            => InOrder(commands')
  <2>1. commands' = Append(commands, c)
    BY DEF c
  <2> QED BY <1>1, <1>2, <2>1, CommandAppended
<1> QED BY <1>1, <1>2, <1>3 DEF c, Commanded

LEMMA QueueRunEffect ==
    ASSUME EngineInv, ui = "running", ui' = "running", NEW p \in Problems,
           NEW inputs \in [Problems -> InputStates],
           \A q \in Problems : inputs[q] = userInput[q] \/ inputs[q] = NoInput,
           QueueRun(p, inputs),
           source' \in [Problems -> BOOLEAN], revision' \in [Problems -> Revisions],
           \A q \in Problems : revision[q] <= revision'[q],
           UNCHANGED <<messages, workerVars, stopping, vars>>
    PROVE \E new : UserEffect(new)
<1> DEFINE x == RunCommand(p, "Samples").request
<1>1. /\ x \in Request /\ x.runId = nextRunId /\ x.problem = p /\ x.kind = "Samples"
      /\ commands' \in Seq(Commands) /\ Commanded' = Commanded \cup {x}
      /\ nextRunId' \in {nextRunId, nextRunId + 1} /\ nextRunId' <= MaxRunId + 1
      /\ nextRunId' = nextRunId + 1
      /\ InOrder(commands) /\ (\A y \in Commanded : y.runId < nextRunId) => InOrder(commands')
      /\ \A c \in Range(commands') \ Range(commands) : c.type = "Run"
  BY RequestSent DEF QueueRun, EngineInv, EngineBase, Kinds
<1> HIDE DEF x
<1>2. EngineTypes /\ IdInv /\ ScreenInv /\ GateInv /\ gate \in [Problems -> Revisions]
  BY DEF EngineInv, EngineBase, RunningInv, IInv, TypeOK
<1>3. /\ nextRunId \in 0..MaxRunId /\ nextRunId \in Nat \ {0}
      /\ \A q \in Problems : /\ run[q].id < nextRunId /\ stress[q].id < nextRunId
                             /\ userInput[q].id < nextRunId
                             /\ run[q].id \in Nat /\ stress[q].id \in Nat
                             /\ userInput[q].id \in Nat
  BY <1>2, FreshId DEF QueueRun
<1>4. ASSUME NEW q \in Problems
      PROVE /\ q # p => run'[q] = run[q]
            /\ run'[p].id = nextRunId /\ run'[p].phase = "Queued" /\ run'[p].attempts = {}
            /\ run'[p] \in RunStates
    BY <1>2, <1>3 DEF QueueRun, NoRun, EngineTypes, RunStates, Phases, ActivePhases
<1>5. run' \in [Problems -> RunStates]
  <2>1. run' = [run EXCEPT ![p] = run'[p]]
    BY <1>2 DEF QueueRun, EngineTypes
  <2> QED BY <1>2, <1>4, <2>1 DEF EngineTypes
<1>6. ASSUME NEW q \in Problems
      PROVE /\ stress'[q] \in StressStates /\ ~StressActive(q)'
            /\ stress'[q] = stress[q] \/ stress'[q].id = 0
            /\ q = p => stress'[p].id = 0
  <2>1. CASE q # p
    <3>1. stress'[q] = RetireOtherStress(p)[q]
      BY <2>1 DEF QueueRun, RetireOtherStress
    <3> QED BY <1>2, <2>1, <3>1, RetiredStress DEF StressActive
  <2>2. CASE q = p
    <3>1. stress'[p] = [id |-> 0, phase |-> CancelPhase(stress[p])]
      BY DEF QueueRun, RetireOtherStress
    <3>2. stress[p].phase \in ActivePhases => stress[p].id # 0
      BY <1>2 DEF ScreenInv, StressActive
    <3>3. CancelPhase(stress[p]) \in Phases \ ActivePhases
      BY <1>2, <3>2 DEF CancelPhase, IsActive, EngineTypes, StressStates, Phases, ActivePhases, EndPhases
    <3>4. 0 \in 0..MaxRunId
      BY EngineAssumption
    <3> QED BY <2>2, <3>1, <3>3, <3>4 DEF StressStates, StressActive
  <2> QED BY <2>1, <2>2
<1>7. stress' \in [Problems -> StressStates] /\ userInput' \in [Problems -> InputStates]
  BY <1>6, RetiredInputs DEF QueueRun, RetireOtherStress, RetireInputs
<1>8. ASSUME NEW q \in Problems
      PROVE /\ ~InputActive(q)'
            /\ \/ userInput'[q].id = 0
               \/ userInput'[q].id = userInput[q].id /\ userInput'[q].revision = userInput[q].revision
  <2>1. /\ userInput'[q].status \notin ActivePhases
        /\ userInput'[q].id = inputs[q].id /\ userInput'[q].revision = inputs[q].revision
    BY RetiredInputs DEF QueueRun
  <2> QED BY <2>1 DEF InputActive, NoInput
<1>9. ScreenInv'
  <2> SUFFICES ASSUME NEW q \in Problems
               PROVE /\ run'[q].phase \in ActivePhases => run'[q].id # 0
                     /\ run'[q].id = 0 \/ stress'[q].id = 0
                     /\ userInput'[q].id # 0 => userInput'[q].id \notin {run'[q].id, stress'[q].id}
    BY <1>6, <1>8 DEF ScreenInv, RunActive
  <2>1. /\ RunActive(q) => run[q].id # 0
        /\ run[q].id = 0 \/ stress[q].id = 0
        /\ userInput[q].id # 0 => userInput[q].id \notin {run[q].id, stress[q].id}
    BY <1>2 DEF ScreenInv
  <2>2. CASE q = p
    BY <1>3, <1>4, <1>6, <1>8, <2>2
  <2>3. CASE q # p
    BY <1>3, <1>4, <1>6, <1>8, <2>1, <2>3 DEF RunActive
  <2> QED BY <2>2, <2>3
<1>10. Sent({x})
  BY <1>1, <1>4, <1>6, <1>8 DEF Sent, RunActive
<1>11. \A q \in Problems :
         /\ RunKept(q) \/ RunFresh(q, x)
         /\ StressKept(q) \/ StressGone(q)
         /\ InputGone(q)
  BY <1>1, <1>4, <1>6, <1>8 DEF RunKept, RunFresh, StressKept, StressGone, StressActive, InputGone, InputActive
<1>12. \A q \in Problems : gate'[q] <= revision'[q] /\ gate' = gate
  <2> SUFFICES ASSUME NEW q \in Problems PROVE gate[q] <= revision'[q] /\ gate' = gate
    BY DEF vars
  <2>1. gate[q] <= revision[q] /\ revision[q] <= revision'[q]
    BY <1>2 DEF GateInv
  <2>2. gate[q] \in Nat /\ revision[q] \in Nat /\ revision'[q] \in Nat
    BY <1>2, RevisionsAssumption DEF EngineTypes
  <2> QED BY <2>1, <2>2 DEF vars
<1>13. \A c \in Range(commands') \ Range(commands) :
          /\ c.type = "CancelStress" => /\ c.runId < nextRunId
                                        /\ ~StressActive(c.problem)'
          /\ c.type = "RetireUserInputRuns" => c.revision <= revision'[c.problem]
  BY <1>1
<1>14. UNCHANGED <<messages, workerVars, stopping, active, queueVars, retiring, gate>>
  BY DEF vars, queueVars
<1> QED BY <1>1, <1>2, <1>5, <1>7, <1>9, <1>10, <1>11, <1>12, <1>13, <1>14 DEF UserEffect

LEMMA NoInputType == NoInput \in InputStates /\ NoRun \in RunStates /\ 0 \in 0..MaxRunId
<1>1. 0 \in 0..MaxRunId /\ 0 \in Revisions
  BY EngineAssumption, RevisionsAssumption
<1> QED BY <1>1 DEF NoInput, NoRun, InputStates, RunStates, Phases

LEMMA RevisionRises ==
    ASSUME EngineTypes, NEW p \in Problems, MoreNotices(p),
           revision' = [revision EXCEPT ![p] = @ + 1]
    PROVE /\ revision' \in [Problems -> Revisions] /\ revision[p] + 1 \in Revisions
          /\ revision'[p] = revision[p] + 1
          /\ \A q \in Problems : /\ revision[q] \in Nat /\ revision'[q] \in Nat
                                 /\ revision[q] <= revision'[q]
                                 /\ q # p => revision'[q] = revision[q]
<1>1. revision \in [Problems -> 0..MaxRevision] /\ Revisions = 0..MaxRevision /\ MaxRevision \in Nat
  BY EngineAssumption DEF EngineTypes
<1>2. revision[p] \in Nat /\ revision[p] < MaxRevision
  BY <1>1 DEF MoreNotices
<1>3. revision[p] + 1 \in 0..MaxRevision
  BY <1>1, <1>2
<1> QED BY <1>1, <1>2, <1>3

LEMMA RunTestsEffect ==
    ASSUME EngineInv, NEW p \in Problems, RunTests(p) PROVE \E new : UserEffect(new)
<1>1. EngineTypes
  BY DEF EngineInv, EngineBase
<1>2. /\ ui = "running" /\ ui' = "running" /\ source' = source /\ revision' = revision
      /\ QueueRun(p, userInput) /\ UNCHANGED <<messages, workerVars, stopping, vars>>
  BY DEF RunTests
<1>3. /\ userInput \in [Problems -> InputStates] /\ source' \in [Problems -> BOOLEAN]
      /\ revision' \in [Problems -> Revisions]
  BY <1>1, <1>2 DEF EngineTypes
<1>4. \A q \in Problems : revision[q] <= revision'[q]
  <2> SUFFICES ASSUME NEW q \in Problems PROVE revision[q] <= revision[q]
    BY <1>2
  <2>1. revision[q] \in Nat
    BY <1>1, RevisionsAssumption DEF EngineTypes
  <2> QED BY <2>1
<1> QED BY <1>2, <1>3, <1>4, QueueRunEffect

LEMMA SourceChangedEffect ==
    ASSUME EngineInv, NEW p \in Problems, SourceChanged(p) PROVE \E new : UserEffect(new)
<1> DEFINE inputs == [userInput EXCEPT ![p] = NoInput]
<1>1. EngineTypes
  BY DEF EngineInv, EngineBase
<1>2. /\ ui = "running" /\ ui' = "running" /\ source' \in [Problems -> BOOLEAN]
      /\ QueueRun(p, inputs) /\ UNCHANGED <<messages, workerVars, stopping, vars>>
  BY <1>1 DEF SourceChanged, EngineTypes
<1>3. revision' \in [Problems -> Revisions] /\ \A q \in Problems : revision[q] <= revision'[q]
  BY <1>1, RevisionRises DEF SourceChanged
<1>4. /\ inputs \in [Problems -> InputStates]
      /\ \A q \in Problems : inputs[q] = userInput[q] \/ inputs[q] = NoInput
  BY <1>1, NoInputType DEF EngineTypes
<1> HIDE DEF inputs
<1> QED BY <1>2, <1>3, <1>4, QueueRunEffect

(* A step that sends no request. *)
LEMMA NothingSent ==
    ASSUME EngineTypes, nextRunId' \in {nextRunId, nextRunId + 1}, nextRunId' <= MaxRunId + 1,
           commands' = commands
    PROVE Sent({}) /\ Range(commands') = Range(commands) /\ commands' \in Seq(Commands)
BY DEF Sent, Commanded, EngineTypes

LEMMA OpenSourceEffect ==
    ASSUME EngineInv, NEW p \in Problems, OpenSource(p) PROVE \E new : UserEffect(new)
<1>1. EngineTypes /\ ScreenInv /\ GateInv /\ gate \in [Problems -> Revisions]
  BY DEF EngineInv, EngineBase, RunningInv, IInv, TypeOK, OpenSource
<1>2. /\ ui = "running" /\ ui' = "running" /\ source' \in [Problems -> BOOLEAN]
      /\ source'[p] /\ \A q \in Problems : q # p => source'[q] = source[q]
      /\ userInput' \in [Problems -> InputStates] /\ userInput'[p] = NoInput
      /\ \A q \in Problems : q # p => userInput'[q] = userInput[q]
      /\ UNCHANGED <<nextRunId, run, stress, commands, messages, workerVars, stopping, vars>>
  BY <1>1, NoInputType DEF OpenSource, EngineTypes
<1>3. /\ revision' \in [Problems -> Revisions]
      /\ \A q \in Problems : /\ revision[q] \in Nat /\ revision'[q] \in Nat
                             /\ revision[q] <= revision'[q]
                             /\ q # p => revision'[q] = revision[q]
  BY <1>1, RevisionRises DEF OpenSource
<1>4. Sent({}) /\ Range(commands') = Range(commands) /\ commands' \in Seq(Commands)
  <2>1. nextRunId' = nextRunId /\ nextRunId <= MaxRunId + 1
    BY <1>1, <1>2, EngineAssumption DEF EngineTypes
  <2> QED BY <1>1, <1>2, <2>1, NothingSent
<1>5. ScreenInv'
  BY <1>1, <1>2, <1>3 DEF ScreenInv, RunActive, StressActive, InputActive, NoInput, ActivePhases
<1>6. \A q \in Problems : RunKept(q) /\ StressKept(q) /\ (InputKept(q) \/ InputGone(q))
  BY <1>2 DEF RunKept, StressKept, InputKept, InputGone, NoInput, ActivePhases
<1>7. UNCHANGED <<messages, workerVars, stopping, active, queueVars, retiring, gate>>
  BY <1>2 DEF vars, queueVars
<1>8. \A q \in Problems : gate'[q] <= revision'[q]
  <2> SUFFICES ASSUME NEW q \in Problems PROVE gate[q] <= revision'[q]
    BY <1>7
  <2>1. gate[q] <= revision[q] /\ gate[q] \in Nat
    BY <1>1, RevisionsAssumption DEF GateInv
  <2> QED BY <1>3, <2>1
<1>9. run' \in [Problems -> RunStates] /\ stress' \in [Problems -> StressStates]
  BY <1>1, <1>2 DEF EngineTypes
<1> QED BY <1>1, <1>2, <1>3, <1>4, <1>5, <1>6, <1>7, <1>8, <1>9 DEF UserEffect

LEMMA ScreenFacts ==
    ASSUME EngineTypes, ScreenInv, NEW q \in Problems
    PROVE /\ run[q] \in RunStates /\ stress[q] \in StressStates /\ userInput[q] \in InputStates
          /\ RunActive(q) => run[q].id # 0 /\ ~StressActive(q) /\ ~InputActive(q)
          /\ StressActive(q) => stress[q].id # 0
          /\ IsActive(stress[q]) <=> StressActive(q)
          /\ IsActive(run[q]) <=> RunActive(q)
          /\ run[q].id = 0 \/ stress[q].id = 0
          /\ userInput[q].id # 0 => userInput[q].id \notin {run[q].id, stress[q].id}
BY DEF EngineTypes, ScreenInv, IsActive, RunActive, StressActive, InputActive

(* What stays of the screen when a request of problem p takes it over. *)
LEMMA OthersRetired ==
    ASSUME EngineTypes, ScreenInv, NEW p \in Problems, NEW q \in Problems, q # p
    PROVE /\ RetireOtherStress(p)[q] \in StressStates
          /\ RetireOtherStress(p)[q].phase \notin ActivePhases
          /\ RetireOtherStress(p)[q] = stress[q] \/ RetireOtherStress(p)[q].id = 0
          /\ RetireInputs(userInput)[q] \in InputStates
          /\ RetireInputs(userInput)[q].status \notin ActivePhases
          /\ RetireInputs(userInput)[q].id = userInput[q].id
          /\ RetireInputs(userInput)[q].revision = userInput[q].revision
  BY RetiredStress, RetiredInputs DEF EngineTypes

LEMMA StartStressEffect ==
    ASSUME EngineInv, NEW p \in Problems, StartStress(p) PROVE \E new : UserEffect(new)
<1> DEFINE x == RunCommand(p, "Stress").request
<1>1. EngineTypes /\ IdInv /\ ScreenInv /\ GateInv /\ gate \in [Problems -> Revisions]
  BY DEF EngineInv, EngineBase, RunningInv, IInv, TypeOK, StartStress
<1>2. /\ ui = "running" /\ ui' = "running"
      /\ UNCHANGED <<source, revision, messages, workerVars, stopping,
                     active, queueVars, retiring, gate>>
  BY DEF StartStress, vars, queueVars
<1>3. /\ x \in Request /\ x.runId = nextRunId /\ x.problem = p /\ x.kind = "Stress"
      /\ commands' \in Seq(Commands) /\ Commanded' = Commanded \cup {x}
      /\ nextRunId' \in {nextRunId, nextRunId + 1} /\ nextRunId' <= MaxRunId + 1
      /\ nextRunId' = nextRunId + 1
      /\ InOrder(commands) /\ (\A y \in Commanded : y.runId < nextRunId) => InOrder(commands')
      /\ \A c \in Range(commands') \ Range(commands) : c.type = "Run"
  BY <1>1, RequestSent DEF StartStress, Kinds
<1> HIDE DEF x
<1>4. /\ nextRunId \in 0..MaxRunId /\ nextRunId \in Nat \ {0} /\ 0 \in 0..MaxRunId
      /\ \A q \in Problems : /\ run[q].id < nextRunId /\ stress[q].id < nextRunId
                             /\ userInput[q].id < nextRunId
                             /\ run[q].id \in Nat /\ stress[q].id \in Nat
                             /\ userInput[q].id \in Nat
  BY <1>1, FreshId, NoInputType DEF StartStress
<1>5. ASSUME NEW q \in Problems, q # p
      PROVE /\ run'[q] = run[q]
            /\ stress'[q] \in StressStates /\ ~StressActive(q)'
            /\ stress'[q] = stress[q] \/ stress'[q].id = 0
  <2>1. stress'[q] = RetireOtherStress(p)[q] /\ run'[q] = run[q]
    BY <1>1, <1>5 DEF StartStress, RetireOtherStress, EngineTypes
  <2> QED BY <1>1, <1>5, <2>1, OthersRetired DEF StressActive
<1>6. /\ run'[p].id = 0 /\ run'[p].phase \notin ActivePhases /\ run'[p].attempts = run[p].attempts
      /\ run'[p] \in RunStates
      /\ stress'[p] = [id |-> nextRunId, phase |-> "Queued"]
  <2>1. CancelPhase(run[p]) \in Phases \ ActivePhases
    BY <1>1, ScreenFacts
    DEF CancelPhase, RunActive, RunStates, Phases, ActivePhases, EndPhases
  <2>2. run[p] \in RunStates
    BY <1>1 DEF EngineTypes
  <2>3. run'[p] = [run[p] EXCEPT !.id = 0, !.phase = CancelPhase(run[p])]
    BY <1>1 DEF StartStress, EngineTypes
  <2>4. stress'[p] = [id |-> nextRunId, phase |-> "Queued"]
    BY DEF StartStress, RetireOtherStress
  <2> QED BY <1>4, <2>1, <2>2, <2>3, <2>4 DEF RunStates
<1>7. ASSUME NEW q \in Problems
      PROVE /\ userInput'[q] \in InputStates /\ ~InputActive(q)' /\ userInput'[q].id = userInput[q].id
            /\ userInput'[q].revision = userInput[q].revision
  BY <1>1, RetiredInputs DEF StartStress, InputActive, EngineTypes
<1>8. /\ run' \in [Problems -> RunStates] /\ stress' \in [Problems -> StressStates]
      /\ userInput' \in [Problems -> InputStates]
      /\ source' \in [Problems -> BOOLEAN] /\ revision' \in [Problems -> Revisions]
      /\ gate' \in [Problems -> Revisions]
  <2>1. run' = [run EXCEPT ![p] = run'[p]]
    BY <1>1 DEF StartStress, EngineTypes
  <2>2. run' \in [Problems -> RunStates]
    BY <1>1, <1>6, <2>1 DEF EngineTypes
  <2>3. \A q \in Problems : stress'[q] \in StressStates
    BY <1>4, <1>5, <1>6 DEF StressStates, Phases, ActivePhases
  <2>4. stress' \in [Problems -> StressStates]
    BY <2>3 DEF StartStress, RetireOtherStress
  <2>5. userInput' \in [Problems -> InputStates]
    BY <1>7 DEF StartStress, RetireInputs
  <2> QED BY <1>1, <1>2, <2>2, <2>4, <2>5 DEF EngineTypes
<1>9. ScreenInv'
  <2> SUFFICES ASSUME NEW q \in Problems
               PROVE /\ RunActive(q)' => run'[q].id # 0 /\ ~StressActive(q)'
                     /\ StressActive(q)' => stress'[q].id # 0 /\ q = p
                     /\ run'[q].id = 0 \/ stress'[q].id = 0
                     /\ userInput'[q].id # 0 => userInput'[q].id \notin {run'[q].id, stress'[q].id}
    BY <1>7, <1>5 DEF ScreenInv
  <2>1. /\ RunActive(q) => run[q].id # 0
        /\ run[q].id = 0 \/ stress[q].id = 0
        /\ userInput[q].id # 0 => userInput[q].id \notin {run[q].id, stress[q].id}
    BY <1>1, ScreenFacts
  <2>2. CASE q = p
    BY <1>4, <1>6, <1>7, <2>2 DEF RunActive, StressActive
  <2>3. CASE q # p
    BY <1>4, <1>5, <1>7, <2>1, <2>3 DEF RunActive
  <2> QED BY <2>2, <2>3
<1>10. Sent({x})
  BY <1>3, <1>5, <1>6, <1>7 DEF Sent, RunActive
<1>11. ASSUME NEW q \in Problems
       PROVE /\ RunKept(q) \/ RunGone(q)
             /\ StressKept(q) \/ StressGone(q) \/ StressFresh(q, x)
             /\ InputGone(q)
  BY <1>3, <1>5, <1>6, <1>7
  DEF RunKept, RunGone, StressKept, StressGone, StressFresh, StressActive, InputGone, InputActive
<1>12. ASSUME NEW q \in Problems PROVE revision[q] <= revision'[q] /\ gate'[q] <= revision'[q]
  <2>1. gate[q] <= revision[q] /\ revision[q] \in Nat
    BY <1>1, RevisionsAssumption DEF GateInv, EngineTypes
  <2> QED BY <1>2, <2>1
<1> QED BY <1>2, <1>3, <1>8, <1>9, <1>10, <1>11, <1>12 DEF UserEffect

LEMMA RunUserInputEffect ==
    ASSUME EngineInv, NEW p \in Problems, RunUserInput(p) PROVE \E new : UserEffect(new)
<1> DEFINE x == RunCommand(p, "UserInput").request
<1>1. EngineTypes /\ IdInv /\ ScreenInv /\ GateInv /\ gate \in [Problems -> Revisions]
  BY DEF EngineInv, EngineBase, RunningInv, IInv, TypeOK, RunUserInput
<1>2. /\ ui = "running" /\ ui' = "running" /\ source[p]
      /\ UNCHANGED <<source, revision, messages, workerVars, stopping,
                     active, queueVars, retiring, gate>>
  BY DEF RunUserInput, vars, queueVars
<1>3. /\ x \in Request /\ x.runId = nextRunId /\ x.problem = p /\ x.kind = "UserInput"
      /\ x.revision = revision[p]
      /\ commands' \in Seq(Commands) /\ Commanded' = Commanded \cup {x}
      /\ nextRunId' \in {nextRunId, nextRunId + 1} /\ nextRunId' <= MaxRunId + 1
      /\ nextRunId' = nextRunId + 1
      /\ InOrder(commands) /\ (\A y \in Commanded : y.runId < nextRunId) => InOrder(commands')
      /\ \A c \in Range(commands') \ Range(commands) : c.type = "Run"
  BY <1>1, RequestSent DEF RunUserInput, Kinds
<1> HIDE DEF x
<1>4. /\ nextRunId \in 0..MaxRunId /\ nextRunId \in Nat \ {0} /\ 0 \in 0..MaxRunId
      /\ \A q \in Problems : /\ run[q].id < nextRunId /\ stress[q].id < nextRunId
                             /\ userInput[q].id < nextRunId
                             /\ run[q].id \in Nat /\ stress[q].id \in Nat
                             /\ userInput[q].id \in Nat
  BY <1>1, FreshId, NoInputType DEF RunUserInput
<1>5. ASSUME NEW q \in Problems, q # p
      PROVE /\ run'[q] = run[q]
            /\ stress'[q] \in StressStates /\ ~StressActive(q)'
            /\ stress'[q] = stress[q] \/ stress'[q].id = 0
            /\ userInput'[q] \in InputStates /\ ~InputActive(q)' /\ userInput'[q].id = userInput[q].id
            /\ userInput'[q].revision = userInput[q].revision
  <2>1. /\ stress'[q] = RetireOtherStress(p)[q] /\ run'[q] = run[q]
        /\ userInput'[q] = RetireInputs(userInput)[q]
    BY <1>1, <1>5 DEF RunUserInput, RetireOtherStress, RetireInputs, EngineTypes
  <2> QED BY <1>1, <1>5, <2>1, OthersRetired DEF StressActive, InputActive
<1>6. /\ \/ run'[p] = run[p] /\ ~RunActive(p)
         \/ run'[p].id = 0 /\ run'[p].phase \notin ActivePhases /\ run'[p].attempts = run[p].attempts
      /\ run'[p].id = run[p].id \/ run'[p].id = 0
      /\ run'[p] \in RunStates
      /\ stress'[p] \in StressStates /\ ~StressActive(p)'
      /\ stress'[p] = stress[p] \/ stress'[p].id = 0
      /\ userInput'[p] = [id |-> nextRunId, revision |-> revision[p], status |-> "Queued"]
  <2>1. run[p] \in RunStates /\ stress[p] \in StressStates
    BY <1>1 DEF EngineTypes
  <2>2. run'[p] = IF run[p].phase \in ActivePhases
                  THEN [run[p] EXCEPT !.id = 0, !.phase = "Cancelled"] ELSE run[p]
    BY <1>1 DEF RunUserInput, EngineTypes
  <2>3. stress'[p] = IF stress[p].phase \in ActivePhases
                     THEN [id |-> 0, phase |-> "Cancelled"] ELSE stress[p]
    BY DEF RunUserInput, RetireOtherStress
  <2>4. userInput'[p] = [id |-> nextRunId, revision |-> revision[p], status |-> "Queued"]
    BY DEF RunUserInput, RetireInputs
  <2>5. /\ \/ run'[p] = run[p] /\ ~RunActive(p)
           \/ run'[p].id = 0 /\ run'[p].phase \notin ActivePhases /\ run'[p].attempts = run[p].attempts
        /\ run'[p].id = run[p].id \/ run'[p].id = 0
        /\ run'[p] \in RunStates
    BY <1>4, <2>1, <2>2 DEF RunStates, RunActive, Phases, ActivePhases, EndPhases
  <2>6. /\ stress'[p] \in StressStates /\ ~StressActive(p)'
        /\ stress'[p] = stress[p] \/ stress'[p].id = 0
    BY <1>4, <2>1, <2>3 DEF StressStates, StressActive, Phases, ActivePhases, EndPhases
  <2> QED BY <2>4, <2>5, <2>6
<1>7. /\ run' \in [Problems -> RunStates] /\ stress' \in [Problems -> StressStates]
      /\ userInput' \in [Problems -> InputStates]
      /\ source' \in [Problems -> BOOLEAN] /\ revision' \in [Problems -> Revisions]
      /\ gate' \in [Problems -> Revisions]
  <2>1. run' = [run EXCEPT ![p] = run'[p]]
    BY <1>1 DEF RunUserInput, EngineTypes
  <2>2. run' \in [Problems -> RunStates]
    BY <1>1, <1>6, <2>1 DEF EngineTypes
  <2>3. stress' \in [Problems -> StressStates]
    BY <1>5, <1>6 DEF RunUserInput, RetireOtherStress
  <2>4. userInput'[p] \in InputStates
    BY <1>1, <1>4, <1>6 DEF InputStates, Phases, ActivePhases, EngineTypes
  <2>5. userInput' \in [Problems -> InputStates]
    BY <1>5, <2>4 DEF RunUserInput, RetireInputs
  <2> QED BY <1>1, <1>2, <2>2, <2>3, <2>5 DEF EngineTypes
<1>8. ScreenInv'
  <2> SUFFICES ASSUME NEW q \in Problems
               PROVE /\ RunActive(q)' => run'[q].id # 0 /\ ~StressActive(q)' /\ ~InputActive(q)'
                     /\ ~StressActive(q)'
                     /\ InputActive(q)' => /\ userInput'[q].id # 0 /\ source'[q]
                                           /\ userInput'[q].revision = revision'[q] /\ q = p
                     /\ run'[q].id = 0 \/ stress'[q].id = 0
                     /\ userInput'[q].id # 0 => userInput'[q].id \notin {run'[q].id, stress'[q].id}
    BY DEF ScreenInv
  <2>1. /\ RunActive(q) => run[q].id # 0
        /\ run[q].id = 0 \/ stress[q].id = 0
        /\ userInput[q].id # 0 => userInput[q].id \notin {run[q].id, stress[q].id}
    BY <1>1, ScreenFacts
  <2>2. CASE q = p
    BY <1>2, <1>4, <1>6, <2>1, <2>2 DEF RunActive
  <2>3. CASE q # p
    BY <1>4, <1>5, <2>1, <2>3 DEF RunActive
  <2> QED BY <2>2, <2>3
<1>9. Sent({x})
  BY <1>3, <1>5, <1>6 DEF Sent, RunActive
<1>10. ASSUME NEW q \in Problems
       PROVE /\ RunKept(q) \/ RunGone(q)
             /\ StressKept(q) \/ StressGone(q)
             /\ InputGone(q) \/ InputFresh(q, x)
  <2>1. CASE q = p
    BY <1>3, <1>6, <2>1
    DEF RunKept, RunGone, StressKept, StressGone, StressActive, InputFresh
  <2>2. CASE q # p
    BY <1>5, <2>2 DEF RunKept, StressKept, StressGone, StressActive, InputGone, InputActive
  <2> QED BY <2>1, <2>2
<1>11. ASSUME NEW q \in Problems PROVE revision[q] <= revision'[q] /\ gate'[q] <= revision'[q]
  <2>1. gate[q] <= revision[q] /\ revision[q] \in Nat
    BY <1>1, RevisionsAssumption DEF GateInv, EngineTypes
  <2> QED BY <1>2, <2>1
<1> QED BY <1>2, <1>3, <1>7, <1>8, <1>9, <1>10, <1>11 DEF UserEffect

LEMMA RunUserInputWithoutSourceEffect ==
    ASSUME EngineInv, NEW p \in Problems, RunUserInputWithoutSource(p)
    PROVE \E new : UserEffect(new)
<1>1. EngineTypes /\ IdInv /\ ScreenInv /\ GateInv /\ gate \in [Problems -> Revisions]
  BY DEF EngineInv, EngineBase, RunningInv, IInv, TypeOK, RunUserInputWithoutSource
<1>2. /\ ui = "running" /\ ui' = "running" /\ ~source[p]
      /\ UNCHANGED <<source, revision, run, stress, commands, messages, workerVars, stopping,
                     active, queueVars, retiring, gate>>
  BY DEF RunUserInputWithoutSource, vars, queueVars
<1>3. /\ nextRunId \in 0..MaxRunId /\ nextRunId \in Nat \ {0}
      /\ nextRunId' = nextRunId + 1 /\ nextRunId' \in {nextRunId, nextRunId + 1}
      /\ nextRunId' <= MaxRunId + 1
      /\ \A q \in Problems : /\ run[q].id < nextRunId /\ stress[q].id < nextRunId
                             /\ run[q].id \in Nat /\ stress[q].id \in Nat
  BY <1>1, FreshId, EngineAssumption DEF RunUserInputWithoutSource
<1>4. /\ userInput'[p] = [id |-> nextRunId, revision |-> revision[p], status |-> "Failed"]
      /\ \A q \in Problems : q # p => userInput'[q] = userInput[q]
      /\ userInput'[p] \in InputStates /\ userInput' \in [Problems -> InputStates]
  BY <1>1, <1>3 DEF RunUserInputWithoutSource, EngineTypes, InputStates, Phases, EndPhases
<1>5. ScreenInv'
  BY <1>1, <1>2, <1>3, <1>4 DEF ScreenInv, RunActive, StressActive, InputActive, ActivePhases
<1>6. \A q \in Problems : RunKept(q) /\ StressKept(q) /\ (InputKept(q) \/ InputUnsent(q, {}))
  BY <1>2, <1>3, <1>4 DEF RunKept, StressKept, InputKept, InputUnsent, ActivePhases
<1>7. Sent({}) /\ Range(commands') = Range(commands) /\ commands' \in Seq(Commands)
  BY <1>1, <1>2, <1>3, NothingSent
<1>8. ASSUME NEW q \in Problems PROVE revision[q] <= revision'[q] /\ gate'[q] <= revision'[q]
  <2>1. gate[q] <= revision[q] /\ revision[q] \in Nat
    BY <1>1, RevisionsAssumption DEF GateInv, EngineTypes
  <2> QED BY <1>2, <2>1
<1>9. /\ run' \in [Problems -> RunStates] /\ stress' \in [Problems -> StressStates]
      /\ source' \in [Problems -> BOOLEAN] /\ revision' \in [Problems -> Revisions]
      /\ gate' \in [Problems -> Revisions]
  BY <1>1, <1>2 DEF EngineTypes
<1> QED BY <1>2, <1>4, <1>5, <1>6, <1>7, <1>8, <1>9 DEF UserEffect

LEMMA CancelSent ==
    ASSUME NEW s \in Seq(Commands), NEW p \in Problems, NEW id \in RunIds
    PROVE LET c == CancelCommand(p, id)
              t == Append(s, c)
          IN /\ c.type = "CancelStress" /\ c.problem = p /\ c.runId = id /\ c \in Commands
             /\ t \in Seq(Commands) /\ Range(t) = Range(s) \cup {c} /\ RunsOf(t) = RunsOf(s)
             /\ InOrder(s) => InOrder(t)
<1> DEFINE c == CancelCommand(p, id)
<1>1. c \in Commands /\ c.type = "CancelStress" /\ c.problem = p /\ c.runId = id
  BY DEF CancelCommand, Commands
<1> HIDE DEF c
<1> QED BY <1>1, CommandAppended DEF c

LEMMA RetireSent ==
    ASSUME NEW s \in Seq(Commands), NEW p \in Problems, NEW v \in Revisions
    PROVE LET c == RetireCommand(p, v)
              t == Append(s, c)
          IN /\ c.type = "RetireUserInputRuns" /\ c.problem = p /\ c.revision = v /\ c \in Commands
             /\ t \in Seq(Commands) /\ Range(t) = Range(s) \cup {c} /\ RunsOf(t) = RunsOf(s)
             /\ InOrder(s) => InOrder(t)
<1> DEFINE c == RetireCommand(p, v)
<1>1. c \in Commands /\ c.type = "RetireUserInputRuns" /\ c.problem = p /\ c.revision = v
  BY DEF RetireCommand, Commands
<1> HIDE DEF c
<1> QED BY <1>1, CommandAppended DEF c

LEMMA StopStressEffect ==
    ASSUME EngineInv, StopStress PROVE \E new : UserEffect(new)
<1>1. EngineTypes /\ IdInv /\ ScreenInv /\ GateInv /\ gate \in [Problems -> Revisions]
  BY DEF EngineInv, EngineBase, RunningInv, IInv, TypeOK, StopStress
<1>2. /\ ui = "running" /\ ui' = "running"
      /\ UNCHANGED <<nextRunId, source, revision, run, userInput, messages, workerVars, stopping,
                     active, queueVars, retiring, gate>>
  BY DEF StopStress, vars, queueVars
<1>3. PICK p \in Problems : /\ stress[p].phase \in ActivePhases /\ stress[p].id # 0
                            /\ commands' = Append(commands, CancelCommand(p, stress[p].id))
                            /\ stress' = [stress EXCEPT ![p].phase = "Cancelled"]
  BY DEF StopStress, StressShown
<1> DEFINE c == CancelCommand(p, stress[p].id)
<1>4. stress[p].id \in RunIds /\ stress[p].id < nextRunId /\ stress[p].id \in Nat
  BY <1>1, <1>3, EngineAssumption DEF EngineTypes, StressStates, IdInv
<1>5. /\ c.type = "CancelStress" /\ c.problem = p /\ c.runId = stress[p].id
      /\ commands' \in Seq(Commands) /\ Range(commands') = Range(commands) \cup {c}
      /\ RunsOf(commands') = RunsOf(commands)
      /\ InOrder(commands) => InOrder(commands')
  BY <1>1, <1>3, <1>4, CancelSent DEF EngineTypes
<1> HIDE DEF c
<1>6. /\ stress' \in [Problems -> StressStates]
      /\ \A q \in Problems : q # p => stress'[q] = stress[q]
      /\ stress'[p].id = stress[p].id /\ stress'[p].phase = "Cancelled"
  BY <1>1, <1>3 DEF EngineTypes, StressStates, Phases, EndPhases
<1>7. ScreenInv'
  BY <1>1, <1>2, <1>6 DEF ScreenInv, RunActive, StressActive, InputActive, ActivePhases
<1>8. \A q \in Problems : RunKept(q) /\ (StressKept(q) \/ StressGone(q)) /\ InputKept(q)
  BY <1>2, <1>6 DEF RunKept, StressKept, StressGone, InputKept, ActivePhases
<1>9. Sent({})
  BY <1>1, <1>2, <1>5, EngineAssumption DEF Sent, Commanded, EngineTypes
<1>10. ASSUME NEW q \in Problems PROVE revision[q] <= revision'[q] /\ gate'[q] <= revision'[q]
  <2>1. gate[q] <= revision[q] /\ revision[q] \in Nat
    BY <1>1, RevisionsAssumption DEF GateInv, EngineTypes
  <2> QED BY <1>2, <2>1
<1>11. /\ run' \in [Problems -> RunStates] /\ userInput' \in [Problems -> InputStates]
       /\ source' \in [Problems -> BOOLEAN] /\ revision' \in [Problems -> Revisions]
       /\ gate' \in [Problems -> Revisions]
  BY <1>1, <1>2 DEF EngineTypes
<1>12. \A d \in Range(commands') \ Range(commands) :
          /\ d.type = "CancelStress" => d.runId < nextRunId /\ ~StressActive(d.problem)'
          /\ d.type = "RetireUserInputRuns" => d.revision <= revision'[d.problem]
  BY <1>4, <1>5, <1>6 DEF StressActive, ActivePhases
<1> QED BY <1>2, <1>5, <1>6, <1>7, <1>8, <1>9, <1>10, <1>11, <1>12 DEF UserEffect

LEMMA SourceRemovedEffect ==
    ASSUME EngineInv, NEW p \in Problems, SourceRemoved(p) PROVE \E new : UserEffect(new)
<1> DEFINE v == revision[p] + 1
           r == RetireCommand(p, v)
           c == CancelCommand(p, stress[p].id)
           s == Append(commands, r)
           stops == StressShown = {p} /\ stress[p].id # 0
<1>1. EngineTypes /\ IdInv /\ ScreenInv /\ GateInv /\ gate \in [Problems -> Revisions]
  BY DEF EngineInv, EngineBase, RunningInv, IInv, TypeOK, SourceRemoved
<1>2. /\ ui = "running" /\ ui' = "running"
      /\ UNCHANGED <<nextRunId, messages, workerVars, stopping, active, queueVars, retiring>>
      /\ source' \in [Problems -> BOOLEAN]
      /\ \A q \in Problems : q # p => source'[q] = source[q]
  BY <1>1 DEF SourceRemoved, EngineTypes
<1>3. /\ revision' \in [Problems -> Revisions] /\ v \in Revisions /\ revision'[p] = v
      /\ \A q \in Problems : /\ revision[q] \in Nat /\ revision'[q] \in Nat
                             /\ revision[q] <= revision'[q]
                             /\ q # p => revision'[q] = revision[q]
  BY <1>1, RevisionRises DEF SourceRemoved
<1>4. /\ run' \in [Problems -> RunStates] /\ run'[p] = NoRun
      /\ userInput' \in [Problems -> InputStates] /\ userInput'[p] = NoInput
      /\ \A q \in Problems : q # p => run'[q] = run[q] /\ userInput'[q] = userInput[q]
  BY <1>1, NoInputType DEF SourceRemoved, EngineTypes
<1>5. /\ stress' \in [Problems -> StressStates]
      /\ stress'[p].id = 0 /\ stress'[p].phase \notin ActivePhases
      /\ \A q \in Problems : q # p => stress'[q] = stress[q]
  BY <1>1, NoInputType DEF SourceRemoved, EngineTypes, StressStates, Phases, EndPhases, ActivePhases
<1>6. /\ r.type = "RetireUserInputRuns" /\ r.problem = p /\ r.revision = v /\ r \in Commands
      /\ s \in Seq(Commands) /\ Range(s) = Range(commands) \cup {r} /\ RunsOf(s) = RunsOf(commands)
      /\ InOrder(commands) => InOrder(s)
  BY <1>1, <1>3, RetireSent DEF EngineTypes
<1>7. commands' = IF stops THEN Append(s, c) ELSE s
  <2>1. commands' = commands \o <<r>> \o (IF stops THEN <<c>> ELSE << >>)
    BY DEF SourceRemoved
  <2>2. s = commands \o <<r>>
    BY <1>1, <1>6, AppendIsConcat DEF EngineTypes
  <2>3. CASE stops
    <3>1. stress[p].id \in RunIds
      BY <1>1, <2>3, EngineAssumption DEF EngineTypes, StressStates
    <3>2. c \in Commands
      BY <3>1 DEF CancelCommand, Commands
    <3>3. Append(s, c) = s \o <<c>>
      BY <1>6, <3>2, AppendIsConcat
    <3> QED BY <2>1, <2>2, <2>3, <3>3
  <2>4. CASE ~stops
    BY <1>6, <2>1, <2>2, <2>4, ConcatEmptySeq
  <2> QED BY <2>3, <2>4
<1>8. /\ commands' \in Seq(Commands) /\ RunsOf(commands') = RunsOf(commands)
      /\ InOrder(commands) => InOrder(commands')
      /\ \A d \in Range(commands') \ Range(commands) :
            \/ d.type = "RetireUserInputRuns" /\ d.problem = p /\ d.revision = v
            \/ d.type = "CancelStress" /\ d.problem = p /\ d.runId < nextRunId
  <2>1. CASE ~stops
    BY <1>6, <1>7, <2>1
  <2>2. CASE stops
    <3>1. stress[p].id \in RunIds /\ stress[p].id < nextRunId
      BY <1>1, <2>2, EngineAssumption DEF EngineTypes, StressStates, IdInv
    <3> HIDE DEF r, s
    <3>2. /\ c.type = "CancelStress" /\ c.problem = p /\ c.runId = stress[p].id
          /\ Append(s, c) \in Seq(Commands) /\ Range(Append(s, c)) = Range(s) \cup {c}
          /\ RunsOf(Append(s, c)) = RunsOf(s) /\ (InOrder(s) => InOrder(Append(s, c)))
      BY <1>6, <3>1, CancelSent
    <3> HIDE DEF c
    <3> QED BY <1>6, <1>7, <2>2, <3>1, <3>2
  <2> QED BY <2>1, <2>2
<1>9. ScreenInv'
  BY <1>1, <1>2, <1>3, <1>4, <1>5
  DEF ScreenInv, RunActive, StressActive, InputActive, NoRun, NoInput, ActivePhases
<1>10. \A q \in Problems : /\ RunKept(q) \/ RunGone(q)
                           /\ StressKept(q) \/ StressGone(q)
                           /\ InputKept(q) \/ InputGone(q)
  BY <1>4, <1>5 DEF RunKept, RunGone, StressKept, StressGone, InputKept, InputGone,
                    NoRun, NoInput, ActivePhases
<1>11. Sent({})
  BY <1>1, <1>2, <1>8, EngineAssumption DEF Sent, Commanded, EngineTypes
<1>12. /\ gate' \in [Problems -> Revisions]
       /\ \A q \in Problems : gate'[q] <= revision'[q]
  <2>1. gate' = [gate EXCEPT ![p] = Newest(gate[p], v)]
    BY <1>1 DEF SourceRemoved, RetireBefore
  <2>2. \A q \in Problems : gate[q] <= revision[q] /\ gate[q] \in Nat
    BY <1>1, RevisionsAssumption DEF GateInv
  <2>3. Newest(gate[p], v) = v
    BY <1>3, <2>2 DEF Newest
  <2> QED BY <1>1, <1>3, <2>1, <2>2, <2>3
<1>13. \A d \in Range(commands') \ Range(commands) :
          /\ d.type = "CancelStress" => d.runId < nextRunId /\ ~StressActive(d.problem)'
          /\ d.type = "RetireUserInputRuns" => d.revision <= revision'[d.problem]
  BY <1>3, <1>5, <1>8 DEF StressActive
<1> QED BY <1>2, <1>3, <1>4, <1>5, <1>8, <1>9, <1>10, <1>11, <1>12, <1>13 DEF UserEffect

-------------------------------------------------------------------------------
(* The values at hand. *)
LEMMA Fields ==
    ASSUME EngineBase
    PROVE /\ Commanded \subseteq Request /\ Held \subseteq Request /\ Queued \subseteq Held
          /\ Said \subseteq Notes
          /\ \A q \in Problems : latestSeen[q] \in Nat
          /\ attempt # None => /\ attempt \in Attempts /\ attempt.request \in Held
                               /\ active # None /\ attempt.request = active.request
          /\ active # None => active \in ActiveRequest /\ active.request \in Held
          /\ retiring # None => retiring \in RetiredActive /\ retiring.request \in Held
          /\ worker.pc = "spawn" => active # None
          /\ \A x \in Request : x.runId \in Nat \ {0} /\ x.problem \in Problems
          /\ \A m \in Notes : m.runId \in Nat \ {0} /\ m.problem \in Problems /\ m.attempt \in Nat
          /\ nextRunId \in Nat \ {0} /\ spawned \in Nat
<1>1. EngineTypes /\ IInv /\ TypeOK /\ WorkerInv
  BY DEF EngineBase, IInv
<1>2. Range(commands) \subseteq Commands /\ Range(messages) \subseteq Notes \cup {WorkerFailed}
  BY <1>1, RangeFacts DEF EngineTypes
<1>3. Commanded \subseteq Request
  BY <1>2 DEF Commanded, RunsOf, Commands
<1>4. Range(pending) \subseteq Request
  BY <1>1, RangeFacts DEF TypeOK
<1>5. Queued \subseteq Request
  BY <1>1, <1>4 DEF Queued, TypeOK
<1>6. /\ active # None => active \in ActiveRequest /\ active.request \in Held
      /\ retiring # None => retiring \in RetiredActive /\ retiring.request \in Held
      /\ Held \subseteq Request /\ Queued \subseteq Held
  BY <1>1, <1>5 DEF Held, TypeOK, ActiveRequest, RetiredActive
<1>7. Said \subseteq Notes
  BY <1>2 DEF Said, WorkerFailed
<1>8. \A q \in Problems : latestSeen[q] \in Nat
  BY <1>1, LatestSeenIsNat
<1>9. attempt # None => /\ attempt \in Attempts /\ active # None /\ attempt.request = active.request
  BY <1>1 DEF EngineTypes, WorkerInv
<1>10. \A x \in Request : x.runId \in Nat \ {0} /\ x.problem \in Problems
  BY RunIdsAssumption DEF Request
<1>11. \A m \in Notes : m.runId \in Nat \ {0} /\ m.problem \in Problems /\ m.attempt \in Nat
  BY RunIdsAssumption DEF Notes
<1>12. nextRunId \in Nat \ {0} /\ spawned \in Nat
  BY <1>1, EngineAssumption DEF EngineTypes
<1>13. worker.pc = "spawn" => active # None
  BY <1>1 DEF WorkerInv
<1> QED BY <1>3, <1>6, <1>7, <1>8, <1>9, <1>10, <1>11, <1>12, <1>13

-------------------------------------------------------------------------------
(* User actions keep the invariant. *)
LEMMA UserBase ==
    ASSUME EngineBase, NEW new, UserEffect(new) PROVE EngineBase'
<1>1. EngineTypes /\ IInv /\ WorkerInv /\ RetiringApart
  BY DEF EngineBase
<1>2. EngineTypes'
  BY <1>1, EngineAssumption DEF UserEffect, EngineTypes, workerVars, Sent
<1>3. IInv'
  BY <1>1 DEF UserEffect, queueVars, IInv, TypeOK, InvariantsHold, QueuedAreNewest, ActiveAgrees,
              PendingOnlySamples, RetiringAgrees, HasLogicalRequest, RequeueAllowed
<1>4. WorkerInv'
  BY <1>1 DEF UserEffect, workerVars, WorkerInv
<1>5. RetiringApart'
  BY <1>1 DEF UserEffect, queueVars, RetiringApart, Queued
<1> QED BY <1>2, <1>3, <1>4, <1>5 DEF EngineBase

LEMMA UserFrame ==
    ASSUME NEW new, UserEffect(new)
    PROVE /\ Held' = Held /\ Queued' = Queued /\ Said' = Said /\ latestSeen' = latestSeen
          /\ retired' = retired /\ active' = active /\ retiring' = retiring
          /\ worker' = worker /\ attempt' = attempt /\ spawned' = spawned /\ messages' = messages
          /\ foreground' = foreground
BY DEF UserEffect, queueVars, workerVars, Held, Queued, Said

LEMMA UserScreen ==
    ASSUME NEW new, UserEffect(new), NEW q \in Problems
    PROVE /\ run'[q].id \in {0, run[q].id, nextRunId} /\ stress'[q].id \in {0, stress[q].id, nextRunId}
          /\ userInput'[q].id \in {0, userInput[q].id, nextRunId}
          /\ run'[q].id = nextRunId \/ stress'[q].id = nextRunId \/ userInput'[q].id = nextRunId
                => nextRunId' = nextRunId + 1 \/ nextRunId \in {0, run[q].id, stress[q].id, userInput[q].id}
<1>1. \A x \in new : nextRunId' = nextRunId + 1
  BY DEF UserEffect, Sent
<1>2. run'[q].id \in {0, run[q].id} \/ (run'[q].id = nextRunId /\ nextRunId' = nextRunId + 1)
  <2>1. RunKept(q) \/ RunGone(q) \/ \E x \in new : RunFresh(q, x)
    BY DEF UserEffect
  <2> QED BY <1>1, <2>1 DEF RunKept, RunGone, RunFresh
<1>3. stress'[q].id \in {0, stress[q].id} \/ (stress'[q].id = nextRunId /\ nextRunId' = nextRunId + 1)
  <2>1. StressKept(q) \/ StressGone(q) \/ \E x \in new : StressFresh(q, x)
    BY DEF UserEffect
  <2> QED BY <1>1, <2>1 DEF StressKept, StressGone, StressFresh
<1>4. userInput'[q].id \in {0, userInput[q].id} \/ (userInput'[q].id = nextRunId /\ nextRunId' = nextRunId + 1)
  <2>1. InputKept(q) \/ InputGone(q) \/ InputUnsent(q, new) \/ \E x \in new : InputFresh(q, x)
    BY DEF UserEffect
  <2> QED BY <1>1, <2>1 DEF InputKept, InputGone, InputUnsent, InputFresh
<1> QED BY <1>2, <1>3, <1>4

LEMMA UserIds ==
    ASSUME EngineBase, IdInv, NEW new, UserEffect(new) PROVE IdInv'
<1> USE Fields, UserFrame
<1>1. /\ \A q \in Problems : latestSeen[q] < nextRunId
      /\ \A x \in Commanded : x.runId < nextRunId /\ \A q \in Problems : latestSeen[q] < x.runId
      /\ nextRunId' \in {nextRunId, nextRunId + 1} /\ nextRunId' \in Nat
      /\ new \subseteq Request /\ \A x \in new : x.runId = nextRunId /\ nextRunId' = nextRunId + 1
      /\ Commanded' = Commanded \cup new
  BY DEF IdInv, UserEffect, Sent
<1>2. \A x \in Commanded' : x.runId < nextRunId' /\ \A q \in Problems : latestSeen'[q] < x.runId
  BY <1>1
<1>3. InOrder(commands')
  BY <1>1 DEF IdInv, UserEffect, Sent
<1>4. ASSUME NEW c \in Range(commands'), c.type = "CancelStress" PROVE c.runId < nextRunId'
  <2>1. c.runId < nextRunId
    BY <1>4 DEF IdInv, UserEffect
  <2>2. c \in Commands
    BY <1>4, RangeFacts DEF UserEffect
  <2>3. c.runId \in Nat
    BY <1>4, <2>2, RunIdsAssumption DEF Commands
  <2> QED BY <1>1, <2>1, <2>3
<1>5. \A q \in Problems : latestSeen'[q] < nextRunId'
  BY <1>1
<1>6. /\ \A x \in Held' : x.runId <= latestSeen'[x.problem]
      /\ \A m \in Said' : m.runId <= latestSeen'[m.problem]
  BY DEF IdInv
<1>7. ASSUME NEW q \in Problems
      PROVE run'[q].id < nextRunId' /\ stress'[q].id < nextRunId' /\ userInput'[q].id < nextRunId'
  <2>1. /\ run[q].id < nextRunId /\ stress[q].id < nextRunId /\ userInput[q].id < nextRunId
        /\ run[q].id \in Nat /\ stress[q].id \in Nat /\ userInput[q].id \in Nat
    BY EngineAssumption DEF IdInv, EngineBase, EngineTypes, RunStates, StressStates, InputStates
  <2>2. /\ run'[q].id \in {0, run[q].id, nextRunId} /\ stress'[q].id \in {0, stress[q].id, nextRunId}
        /\ userInput'[q].id \in {0, userInput[q].id, nextRunId}
        /\ run'[q].id = nextRunId \/ stress'[q].id = nextRunId \/ userInput'[q].id = nextRunId
              => nextRunId' = nextRunId + 1 \/ nextRunId \in {0, run[q].id, stress[q].id, userInput[q].id}
    BY UserScreen
  <2> QED BY <1>1, <2>1, <2>2
<1> QED BY <1>2, <1>3, <1>4, <1>5, <1>6, <1>7 DEF IdInv

LEMMA UserKinds ==
    ASSUME EngineBase, IdInv, KindInv, NEW new, UserEffect(new) PROVE KindInv'
<1> USE Fields, UserFrame
<1>1. /\ \A x \in Commanded \cup Held : x.runId < nextRunId /\ x.runId \in Nat \ {0}
      /\ \A m \in Said : m.runId < nextRunId /\ m.runId \in Nat \ {0}
  <2>1. \A q \in Problems : latestSeen[q] < nextRunId
    BY DEF IdInv
  <2> QED BY <2>1 DEF IdInv
<1>2. /\ new \subseteq Request /\ \A x \in new : x.runId = nextRunId
      /\ \A x, y \in new : x = y
      /\ Commanded' = Commanded \cup new
  BY DEF UserEffect, Sent
<1>3. ASSUME NEW p \in Problems
      PROVE run[p].id < nextRunId /\ stress[p].id < nextRunId /\ userInput[p].id < nextRunId
            /\ run[p].id \in Nat /\ stress[p].id \in Nat /\ userInput[p].id \in Nat
  BY EngineAssumption DEF IdInv, EngineBase, EngineTypes, RunStates, StressStates, InputStates
<1>4. ASSUME NEW p \in Problems, NEW x \in Commanded' \cup Held', x.problem = p
      PROVE /\ x.runId = run'[p].id => x.kind = "Samples"
            /\ x.runId = stress'[p].id => x.kind = "Stress"
            /\ x.runId = userInput'[p].id => x.kind = "UserInput" /\ x.revision = userInput'[p].revision
  <2>1. CASE x \in new
    <3>1. x.runId = nextRunId /\ nextRunId \in Nat \ {0} /\ new # {}
      BY <1>2, <2>1
    <3>2. x.runId = run'[p].id => x.kind = "Samples"
      BY <1>2, <1>3, <2>1, <3>1 DEF UserEffect, RunKept, RunGone, RunFresh
    <3>3. x.runId = stress'[p].id => x.kind = "Stress"
      BY <1>2, <1>3, <2>1, <3>1 DEF UserEffect, StressKept, StressGone, StressFresh
    <3>4. x.runId = userInput'[p].id => x.kind = "UserInput" /\ x.revision = userInput'[p].revision
      <4>1. InputKept(p) \/ InputGone(p) => userInput'[p].id # nextRunId
        BY <1>3, <3>1 DEF InputKept, InputGone
      <4>2. ~InputUnsent(p, new)
        BY <3>1 DEF InputUnsent
      <4>3. ASSUME NEW y \in new, InputFresh(p, y)
            PROVE x.kind = "UserInput" /\ x.revision = userInput'[p].revision
        <5>1. x = y
          BY <1>2, <2>1
        <5> QED BY <4>3, <5>1 DEF InputFresh
      <4>4. InputKept(p) \/ InputGone(p) \/ InputUnsent(p, new) \/ \E y \in new : InputFresh(p, y)
        BY DEF UserEffect
      <4> QED BY <3>1, <4>1, <4>2, <4>3, <4>4
    <3> QED BY <3>2, <3>3, <3>4
  <2>2. CASE x \in Commanded \cup Held
    <3>1. /\ x.runId < nextRunId /\ x.runId \in Nat \ {0}
          /\ x.runId = run[p].id => x.kind = "Samples"
          /\ x.runId = stress[p].id => x.kind = "Stress"
          /\ x.runId = userInput[p].id => x.kind = "UserInput" /\ x.revision = userInput[p].revision
      BY <1>1, <1>4, <2>2 DEF KindInv
    <3>2. x.runId = run'[p].id => x.runId = run[p].id
      BY <1>2, <3>1 DEF UserEffect, RunKept, RunGone, RunFresh
    <3>3. x.runId = stress'[p].id => x.runId = stress[p].id
      BY <1>2, <3>1 DEF UserEffect, StressKept, StressGone, StressFresh
    <3>4. x.runId = userInput'[p].id => x.runId = userInput[p].id /\ userInput'[p].revision = userInput[p].revision
      BY <1>2, <3>1 DEF UserEffect, InputKept, InputGone, InputFresh, InputUnsent
    <3> QED BY <3>1, <3>2, <3>3, <3>4
  <2> QED BY <1>2, <1>4, <2>1, <2>2
<1>5. ASSUME NEW p \in Problems, NEW m \in Said', m.problem = p, m.runId = userInput'[p].id
      PROVE m.revision = userInput'[p].revision
  <2>1. m \in Said /\ m.runId < nextRunId /\ m.runId \in Nat \ {0}
    BY <1>1
  <2>2. m.runId = userInput[p].id /\ userInput'[p].revision = userInput[p].revision
    BY <1>2, <1>5, <2>1 DEF UserEffect, InputKept, InputGone, InputFresh, InputUnsent
  <2> QED BY <1>5, <2>1, <2>2 DEF KindInv
<1> QED BY <1>4, <1>5 DEF KindInv

LEMMA UserGate ==
    ASSUME EngineBase, GateInv, NEW new, UserEffect(new) PROVE GateInv'
<1>1. /\ retired \in [Problems -> Revisions] /\ revision \in [Problems -> Revisions]
      /\ revision' \in [Problems -> Revisions] /\ retired' = retired
  BY UserFrame DEF EngineBase, EngineTypes, IInv, TypeOK, UserEffect
<1> SUFFICES ASSUME NEW p \in Problems
             PROVE /\ gate'[p] <= revision'[p] /\ retired'[p] <= revision'[p]
                   /\ \A c \in Range(commands') :
                         c.type = "RetireUserInputRuns" /\ c.problem = p => c.revision <= revision'[p]
  BY DEF GateInv
<1>2. /\ retired[p] \in Nat /\ revision[p] \in Nat /\ revision'[p] \in Nat
      /\ revision[p] <= revision'[p] /\ gate'[p] <= revision'[p] /\ retired[p] <= revision[p]
  BY <1>1, RevisionsAssumption DEF UserEffect, GateInv
<1>3. ASSUME NEW c \in Range(commands'), c.type = "RetireUserInputRuns", c.problem = p
      PROVE c.revision <= revision'[p]
  <2>1. CASE c \in Range(commands)
    <3>1. c.revision <= revision[p]
      BY <1>3, <2>1 DEF GateInv
    <3>2. c \in Commands
      BY <1>3, RangeFacts DEF UserEffect
    <3>3. c.revision \in Nat
      BY <1>3, <3>2, RevisionsAssumption DEF Commands
    <3> QED BY <1>2, <3>1, <3>3
  <2>2. CASE c \notin Range(commands)
    BY <1>3, <2>2 DEF UserEffect
  <2> QED BY <2>1, <2>2
<1> QED BY <1>1, <1>2, <1>3

LEMMA UserAttemptsFrame ==
    ASSUME NEW new, UserEffect(new), NEW q \in Problems
    PROVE \/ RunKept(q)
          \/ run'[q].id = 0 /\ run'[q].phase \notin ActivePhases /\ run'[q].attempts \subseteq run[q].attempts
          \/ /\ new # {} /\ run'[q].id = nextRunId /\ run'[q].phase = "Queued" /\ run'[q].attempts = {}
             /\ \E x \in new : x.problem = q
BY DEF UserEffect, RunGone, RunFresh

LEMMA UserSpeech ==
    ASSUME SpeechInv, NEW new, UserEffect(new) PROVE SpeechInv'
<1>1. \A q \in Problems : run'[q].attempts \subseteq run[q].attempts
  BY UserAttemptsFrame DEF RunKept
<1>2. /\ messages' = messages /\ Said' = Said /\ spawned' = spawned /\ attempt' = attempt
      /\ retiring' = retiring
  BY UserFrame
<1> QED BY <1>1, <1>2 DEF SpeechInv

(* What is said of the attempts of a run whose state on the screen, and    *)
(* whose commands, a step leaves alone. *)
LEMMA UserAttempts ==
    ASSUME EngineBase, IdInv, AttemptsInv, NEW new, UserEffect(new) PROVE AttemptsInv'
<1>1. /\ Queued' = Queued /\ Said' = Said /\ active' = active /\ retiring' = retiring
      /\ worker' = worker /\ attempt' = attempt /\ spawned' = spawned
  BY UserFrame
<1>2. Commanded' = Commanded \cup new /\ \A x \in new : x.runId = nextRunId
  BY DEF UserEffect, Sent
<1> SUFFICES ASSUME NEW p \in Problems PROVE AttemptsAgree(p)'
  BY DEF AttemptsInv
<1>3. AttemptsAgree(p)
  BY DEF AttemptsInv
<1>4. run[p].id < nextRunId /\ run[p].id \in Nat /\ nextRunId \in Nat
  BY EngineAssumption, Fields DEF IdInv, EngineBase, EngineTypes, RunStates
<1>5. CASE RunKept(p)
  <2>1. Waits(p, run[p].id)' <=> Waits(p, run[p].id)
    BY <1>1, <1>2, <1>4, <1>5 DEF Waits, RunKept
  <2>2. Tried(p, run[p].id)' <=> Tried(p, run[p].id)
    BY <1>1, <1>5 DEF Tried, RunKept
  <2>3. About(p, run[p].id)' = About(p, run[p].id)
    BY <1>1, <1>5 DEF About, RunKept
  <2>4. TriedToTheEnd' <=> TriedToTheEnd
    BY <1>1 DEF TriedToTheEnd
  <2>5. \A n : /\ Repeated(p, run[p].id, n)' <=> Repeated(p, run[p].id, n)
               /\ Requeued(p, run[p].id, n)' <=> Requeued(p, run[p].id, n)
               /\ Over(p, n)' <=> Over(p, n)
    BY <1>1, <1>5, <2>1, <2>2, <2>3 DEF Repeated, Requeued, Over, RunKept
  <2>6. Known(p)' = Known(p)
    BY <1>5, <2>3 DEF Known, RunKept
  <2> QED BY <1>1, <1>3, <1>5, <2>1, <2>2, <2>4, <2>5, <2>6 DEF AttemptsAgree, RunKept
<1>6. CASE /\ run'[p].id = 0 /\ run'[p].phase \notin ActivePhases
           /\ run'[p].attempts \subseteq run[p].attempts
  BY <1>3, <1>6 DEF AttemptsAgree, ActivePhases
<1>7. CASE /\ new # {} /\ run'[p].id = nextRunId /\ run'[p].phase = "Queued" /\ run'[p].attempts = {}
  <2>1. About(p, run[p].id)' = {}
    <3> SUFFICES ASSUME NEW m \in Said, m.problem = p PROVE m.runId # nextRunId
      BY <1>1, <1>7 DEF About
    <3>1. m.runId <= latestSeen[p] /\ latestSeen[p] < nextRunId
      BY DEF IdInv
    <3> QED BY <3>1, Fields
  <2>2. ~Tried(p, run[p].id)'
    <3>1. \A x \in Held : x.problem = p => x.runId # nextRunId
      <4> SUFFICES ASSUME NEW x \in Held, x.problem = p PROVE x.runId # nextRunId
        OBVIOUS
      <4>1. x.runId <= latestSeen[p] /\ latestSeen[p] < nextRunId
        BY DEF IdInv
      <4> QED BY <4>1, Fields
    <3> QED BY <1>1, <1>7, <3>1, Fields DEF Tried
  <2>3. Known(p)' = {}
    BY <1>7, <2>1 DEF Known
  <2>4. \A n : ~Over(p, n)'
    BY <1>7, <2>1 DEF Over
  <2> QED BY <1>7, <2>2, <2>3, <2>4 DEF AttemptsAgree
<1> QED BY <1>5, <1>6, <1>7, UserAttemptsFrame

LEMMA UserNewest ==
    ASSUME EngineBase, IdInv, NewestInv, NEW new, UserEffect(new) PROVE NewestInv'
<1>1. /\ worker' = worker /\ attempt' = attempt
      /\ Commanded' = Commanded \cup new /\ new \subseteq Request
      /\ \A x \in new : /\ x.runId = nextRunId
                        /\ RunActive(x.problem)' => run'[x.problem].id = nextRunId
                        /\ \A q \in Problems : /\ StressActive(q)' => stress'[q].id = nextRunId
                                               /\ InputActive(q)' => userInput'[q].id = nextRunId
  BY UserFrame DEF UserEffect, Sent
<1>2. \A x \in Commanded : x.runId < nextRunId /\ x.runId \in Nat
  BY Fields DEF IdInv
<1>3. nextRunId \in Nat
  BY Fields
<1> SUFFICES ASSUME NEW p \in Problems
             PROVE /\ RunActive(p)' => \A x \in Commanded' : x.problem = p => x.runId <= run'[p].id
                   /\ StressActive(p)' =>
                        /\ \A x \in Commanded' : x.runId <= stress'[p].id
                        /\ \A c \in Range(commands') :
                              c.type = "CancelStress" /\ c.problem = p => c.runId # stress'[p].id
                   /\ InputActive(p)' =>
                        /\ \A x \in Commanded' : x.runId <= userInput'[p].id
                        /\ ~worker'.failed /\ attempt' # None /\ attempt'.cancel =>
                              attempt'.request.problem # p \/ attempt'.request.runId # userInput'[p].id
  BY DEF NewestInv
<1>4. ASSUME RunActive(p)', NEW x \in Commanded', x.problem = p PROVE x.runId <= run'[p].id
  <2>1. CASE x \in new
    BY <1>1, <1>3, <1>4, <2>1
  <2>2. CASE x \in Commanded
    <3>1. RunKept(p) \/ run'[p].id = nextRunId
      BY <1>4, UserAttemptsFrame DEF RunActive
    <3> QED BY <1>2, <1>3, <1>4, <2>2, <3>1 DEF RunKept, RunActive, NewestInv
  <2> QED BY <1>1, <1>4, <2>1, <2>2
<1>5. ASSUME StressActive(p)'
      PROVE /\ \A x \in Commanded' : x.runId <= stress'[p].id
            /\ \A c \in Range(commands') :
                  c.type = "CancelStress" /\ c.problem = p => c.runId # stress'[p].id
  <2>1. (StressKept(p) /\ StressActive(p)) \/ stress'[p].id = nextRunId
    BY <1>5 DEF UserEffect, StressKept, StressGone, StressFresh, StressActive
  <2>2. ASSUME NEW x \in Commanded' PROVE x.runId <= stress'[p].id
    <3>1. CASE x \in new
      BY <1>1, <1>3, <1>5, <3>1
    <3>2. CASE x \in Commanded
      BY <1>2, <1>3, <2>1, <3>2 DEF StressKept, NewestInv
    <3> QED BY <1>1, <2>2, <3>1, <3>2
  <2>3. ASSUME NEW c \in Range(commands'), c.type = "CancelStress", c.problem = p
        PROVE c.runId # stress'[p].id
    <3>1. c \in Range(commands) /\ c.runId < nextRunId
      BY <1>5, <2>3 DEF UserEffect, IdInv
    <3>2. c.runId \in Nat
      <4>1. c \in Commands
        BY <2>3, RangeFacts DEF UserEffect
      <4> QED BY <2>3, <4>1, RunIdsAssumption DEF Commands
    <3> QED BY <1>3, <2>1, <2>3, <3>1, <3>2 DEF StressKept, NewestInv
  <2> QED BY <2>2, <2>3
<1>6. ASSUME InputActive(p)'
      PROVE /\ \A x \in Commanded' : x.runId <= userInput'[p].id
            /\ ~worker'.failed /\ attempt' # None /\ attempt'.cancel =>
                  attempt'.request.problem # p \/ attempt'.request.runId # userInput'[p].id
  <2>1. (InputKept(p) /\ InputActive(p)) \/ userInput'[p].id = nextRunId
    BY <1>6 DEF UserEffect, InputKept, InputGone, InputUnsent, InputFresh, InputActive
  <2>2. ASSUME NEW x \in Commanded' PROVE x.runId <= userInput'[p].id
    <3>1. CASE x \in new
      BY <1>1, <1>3, <1>6, <3>1
    <3>2. CASE x \in Commanded
      BY <1>2, <1>3, <2>1, <3>2 DEF InputKept, NewestInv
    <3> QED BY <1>1, <2>2, <3>1, <3>2
  <2>3. attempt # None => attempt.request.runId < nextRunId /\ attempt.request.runId \in Nat
    <3> SUFFICES ASSUME attempt # None
                 PROVE attempt.request.runId < nextRunId /\ attempt.request.runId \in Nat
      OBVIOUS
    <3>1. attempt.request \in Held /\ attempt.request \in Request
      BY Fields
    <3> DEFINE q == attempt.request.problem
    <3>2. q \in Problems /\ latestSeen[q] \in Nat /\ attempt.request.runId \in Nat
      BY <3>1, Fields
    <3>3. attempt.request.runId <= latestSeen[q] /\ latestSeen[q] < nextRunId
      BY <3>1, <3>2 DEF IdInv
    <3> QED BY <1>3, <3>2, <3>3
  <2> QED BY <1>1, <1>3, <2>1, <2>2, <2>3 DEF InputKept, NewestInv
<1> QED BY <1>4, <1>5, <1>6

LEMMA UserPipe ==
    ASSUME PipeInv, NEW new, UserEffect(new) PROVE PipeInv'
<1>1. /\ Queued' = Queued /\ Said' = Said /\ active' = active /\ retiring' = retiring
      /\ worker' = worker /\ attempt' = attempt /\ foreground' = foreground
  BY UserFrame
<1>2. Commanded' = Commanded \cup new /\ \A x \in new : x.runId = nextRunId
  BY DEF UserEffect, Sent
<1> SUFFICES ASSUME ~worker.failed, NEW p \in Problems
             PROVE /\ RunActive(p)' => RunOwed(p)'
                   /\ StressActive(p)' => StressOwed(p)'
                   /\ InputActive(p)' => InputOwed(p)'
  BY <1>1 DEF PipeInv
<1>3. ASSUME RunActive(p)' PROVE RunOwed(p)'
  <2>1. CASE RunKept(p)
    <3>1. RunOwed(p)
      BY <1>3, <2>1 DEF PipeInv, RunActive, RunKept
    <3> QED BY <1>1, <1>2, <2>1, <3>1
            DEF RunOwed, RunKept, IsCommanded, ActiveLatest, RetiringLatest, Told, About
  <2>2. CASE \E x \in new : RunFresh(p, x)
    BY <1>2, <2>2 DEF RunFresh, RunOwed, IsCommanded
  <2> QED BY <1>3, <2>1, <2>2 DEF UserEffect, RunGone, RunActive
<1>4. ASSUME StressActive(p)' PROVE StressOwed(p)'
  <2>1. CASE StressKept(p)
    <3>1. StressOwed(p)
      BY <1>4, <2>1 DEF PipeInv, StressActive, StressKept
    <3> QED BY <1>1, <1>2, <2>1, <3>1
            DEF StressOwed, StressKept, IsCommanded, Foreground, ActiveLatest, RetiringLatest, Told, About
  <2>2. CASE \E x \in new : StressFresh(p, x)
    BY <1>2, <2>2 DEF StressFresh, StressOwed, IsCommanded
  <2> QED BY <1>4, <2>1, <2>2 DEF UserEffect, StressGone, StressActive
<1>5. ASSUME InputActive(p)' PROVE InputOwed(p)'
  <2>1. CASE InputKept(p)
    <3>1. InputOwed(p)
      BY <1>5, <2>1 DEF PipeInv, InputActive, InputKept
    <3> QED BY <1>1, <1>2, <2>1, <3>1
            DEF InputOwed, InputKept, IsCommanded, Foreground, ActiveLatest, RetiringLatest, Told, About
  <2>2. CASE \E x \in new : InputFresh(p, x)
    BY <1>2, <2>2 DEF InputFresh, InputOwed, IsCommanded
  <2> QED BY <1>5, <2>1, <2>2 DEF UserEffect, InputGone, InputUnsent, InputActive
<1> QED BY <1>3, <1>4, <1>5

LEMMA UserKeeps ==
    ASSUME EngineInv, NEW new, UserEffect(new) PROVE EngineInv'
<1>1. EngineBase /\ IdInv /\ KindInv /\ GateInv /\ SpeechInv /\ AttemptsInv /\ NewestInv /\ PipeInv
  BY DEF EngineInv, RunningInv, UserEffect
<1>2. ScreenInv'
  BY DEF UserEffect
<1> QED BY <1>1, <1>2, UserBase, UserIds, UserKinds, UserGate, UserSpeech, UserAttempts, UserNewest,
           UserPipe DEF EngineInv, RunningInv

-------------------------------------------------------------------------------
(* The end of the session. *)
LEMMA LeaveKeeps ==
    ASSUME EngineBase, Leave \/ RequestStop \/ JoinWorker PROVE EngineBase' /\ ui' # "running"
<1>1. EngineTypes /\ IInv /\ WorkerInv /\ RetiringApart
  BY DEF EngineBase
<1>2. UNCHANGED <<commands, workerVars, vars>> /\ ui' \in {"leaving", "closed"}
  BY DEF Leave, RequestStop, JoinWorker, uiVars
<1>3. IInv' /\ RetiringApart'
  BY <1>1, <1>2 DEF vars, IInv, TypeOK, InvariantsHold, QueuedAreNewest, ActiveAgrees,
     PendingOnlySamples, RetiringAgrees, HasLogicalRequest, RetiringApart, Queued
<1>4. EngineTypes'
  <2>1. CASE RequestStop \/ JoinWorker
    BY <1>1, <1>2, <2>1 DEF RequestStop, JoinWorker, uiVars, appVars, workerVars, EngineTypes
  <2>2. CASE Leave
    <3>1. 1 \in 1..(MaxRunId + 1) /\ 0 \in Revisions /\ NoRun \in RunStates /\ NoInput \in InputStates
      BY EngineAssumption, RevisionsAssumption, NoInputType
    <3>2. NoStress \in StressStates
      BY NoInputType DEF NoStress, StressStates, Phases
    <3> QED BY <1>1, <1>2, <2>2, <3>1, <3>2 DEF Leave, workerVars, EngineTypes
  <2> QED BY <2>1, <2>2
<1>5. WorkerInv'
  BY <1>1, <1>2 DEF Leave, RequestStop, JoinWorker, workerVars, vars, WorkerInv
<1> QED BY <1>1, <1>2, <1>3, <1>4, <1>5 DEF EngineBase

-------------------------------------------------------------------------------
(* The steps of an attempt. *)
Saying == {"RunStarted"} \cup TestEvents \cup StressEvents \cup InputEvents
Says(t) == messages' = Append(messages, Message(t, attempt.request, attempt.number))

AttemptEffect ==
    /\ attempt # None /\ attempt.pc # "ended"
    /\ attempt' \in Attempts /\ attempt'.request = attempt.request
    /\ attempt'.number = attempt.number /\ attempt'.cancel = attempt.cancel
    /\ attempt'.pc = "ended" <=> attempt'.outcome # None
    /\ AttemptFrame
    /\ \/ messages' = messages
       \/ /\ ui = "running"
          /\ \E t \in Saying : Says(t) /\ (t \in Terminal => attempt'.pc = "ended" /\ attempt'.outcome = "Completed")
    /\ attempt'.outcome = "Cancelled" => attempt.cancel
    /\ ui = "running" /\ attempt'.outcome = "Cancelled" /\ Runs("Stress") => Says("StressCancelled")
    /\ ui = "running" /\ attempt'.outcome = "Completed" /\ Runs("UserInput") => Says("InputFinished")

LEMMA AttemptSteps ==
    ASSUME EngineBase, AttemptStep \/ AttemptMishap PROVE AttemptEffect
<1>1. attempt \in Attempts \cup {None} /\ None \notin Outcomes
  BY EngineAssumption DEF EngineBase, EngineTypes
<1>2. attempt # None => (attempt.pc = "ended" <=> attempt.outcome # None)
  BY DEF EngineBase, WorkerInv
<1>3. ASSUME attempt # None, attempt.pc # "ended",
             NEW pc \in {"started", "testing", "tested"}, Continue(pc)
      PROVE /\ attempt' \in Attempts /\ attempt'.request = attempt.request
            /\ attempt'.number = attempt.number /\ attempt'.cancel = attempt.cancel
            /\ attempt'.pc = pc /\ attempt'.pc # "ended" /\ attempt'.outcome = None
  BY <1>1, <1>2, <1>3 DEF Continue, Attempts
<1>4. ASSUME attempt # None, attempt.pc # "ended", NEW o \in Outcomes, End(o)
      PROVE /\ attempt' \in Attempts /\ attempt'.request = attempt.request
            /\ attempt'.number = attempt.number /\ attempt'.cancel = attempt.cancel
            /\ attempt'.pc = "ended" /\ attempt'.outcome = o /\ o # None
  BY <1>1, <1>4 DEF End, Attempts
<1>5. ASSUME NEW t, Say(t) PROVE messages' = messages \/ (ui = "running" /\ Says(t))
  BY <1>5 DEF Say, Says
<1>6. ASSUME NEW t, Say(t), ui = "running" PROVE Says(t)
  BY <1>6 DEF Say, Says
<1>7. "Completed" \in Outcomes /\ "Cancelled" \in Outcomes /\ "Failed" \in Outcomes /\ "Panicked" \in Outcomes
  BY DEF Outcomes
<1> USE DEF Saying, TestEvents, StressEvents, InputEvents, Terminal
<1>8. CASE AttemptStarts
  BY <1>1, <1>3, <1>5, <1>7, <1>8 DEF AttemptStarts, At, AttemptEffect
<1>9. CASE SamplesBegin
  <2>1. CASE Say("NoSamples") /\ End("Completed")
    BY <1>4, <1>5, <1>7, <1>9, <2>1 DEF SamplesBegin, At, Runs, AttemptEffect
  <2>2. CASE Say("CompileFailed") /\ End("Completed")
    BY <1>4, <1>5, <1>7, <1>9, <2>2 DEF SamplesBegin, At, Runs, AttemptEffect
  <2>3. CASE Say("TestRunStarted") /\ Continue("testing")
    BY <1>1, <1>3, <1>5, <1>7, <1>9, <2>3 DEF SamplesBegin, At, AttemptEffect
  <2> QED BY <1>9, <2>1, <2>2, <2>3 DEF SamplesBegin
<1>10. CASE SamplesJudge
  BY <1>1, <1>3, <1>5, <1>7, <1>10 DEF SamplesJudge, At, AttemptEffect
<1>11. CASE SamplesFinish
  BY <1>4, <1>5, <1>7, <1>11 DEF SamplesFinish, At, Runs, AttemptEffect
<1>12. CASE StressBegins
  BY <1>1, <1>3, <1>5, <1>7, <1>12 DEF StressBegins, At, AttemptEffect
<1>13. CASE StressFindsFailure
  BY <1>4, <1>5, <1>7, <1>13 DEF StressFindsFailure, At, Runs, AttemptEffect
<1>14. CASE InputBegins
  <2>1. CASE Say("InputRunning") /\ Continue("testing")
    BY <1>1, <1>3, <1>5, <1>7, <1>14, <2>1 DEF InputBegins, At, AttemptEffect
  <2>2. CASE Say("InputFinished") /\ End("Completed")
    BY <1>4, <1>5, <1>6, <1>7, <1>14, <2>2 DEF InputBegins, At, Runs, AttemptEffect
  <2> QED BY <1>14, <2>1, <2>2 DEF InputBegins
<1>15. CASE InputFinishes
  BY <1>4, <1>5, <1>6, <1>7, <1>15 DEF InputFinishes, At, Runs, AttemptEffect
<1>16. CASE AttemptObservesCancel
  <2>1. CASE Runs("Stress")
    <3>1. /\ attempt # None /\ attempt.pc # "ended" /\ attempt.cancel
          /\ Say("StressCancelled") /\ End("Cancelled") /\ AttemptFrame
      BY <1>16, <2>1 DEF AttemptObservesCancel
    <3>2. /\ messages' = messages \/ (ui = "running" /\ Says("StressCancelled"))
          /\ ui = "running" => Says("StressCancelled")
      BY <1>5, <1>6, <3>1
    <3>3. /\ attempt' \in Attempts /\ attempt'.request = attempt.request
          /\ attempt'.number = attempt.number /\ attempt'.cancel = attempt.cancel
          /\ attempt'.pc = "ended" /\ attempt'.outcome = "Cancelled" /\ attempt'.outcome # None
      BY <1>4, <1>7, <3>1
    <3> QED BY <3>1, <3>2, <3>3 DEF AttemptEffect
  <2>2. CASE ~Runs("Stress")
    BY <1>4, <1>7, <1>16, <2>2 DEF AttemptObservesCancel, AttemptEffect, Silent
  <2> QED BY <2>1, <2>2
<1>17. CASE AttemptFails
  BY <1>4, <1>7, <1>17 DEF AttemptFails, Silent, AttemptEffect
<1>18. CASE AttemptPanics
  BY <1>4, <1>7, <1>18 DEF AttemptPanics, Silent, AttemptEffect
<1> QED BY <1>8, <1>9, <1>10, <1>11, <1>12, <1>13, <1>14, <1>15, <1>16, <1>17, <1>18
        DEF AttemptStep, AttemptMishap

LEMMA AttemptFrameFacts ==
    ASSUME EngineBase, AttemptEffect
    PROVE /\ UNCHANGED <<ui, nextRunId, source, revision, run, stress, userInput, commands, worker,
                         spawned, stopping, active, foreground, pending, latestSeen, retired, retiring, gate>>
          /\ Commanded' = Commanded /\ Queued' = Queued /\ Held' = Held
          /\ retiring = None /\ active # None /\ attempt.request = active.request
          /\ attempt.number = spawned /\ attempt.outcome = None
          /\ attempt.request \in Held /\ attempt.request \in Request
          /\ worker.pc # "spawn"
<1>1. UNCHANGED <<ui, nextRunId, source, revision, run, stress, userInput, commands, worker,
                  spawned, stopping, active, foreground, pending, latestSeen, retired, retiring, gate>>
  BY DEF AttemptEffect, AttemptFrame, uiVars, appVars, vars
<1>2. Commanded' = Commanded /\ Queued' = Queued /\ Held' = Held
  BY <1>1 DEF Commanded, Queued, Held
<1>3. /\ retiring = None /\ active # None /\ attempt.request = active.request
      /\ attempt.number = spawned /\ attempt.outcome = None /\ worker.pc # "spawn"
  BY DEF AttemptEffect, EngineBase, WorkerInv
<1>4. attempt.request \in Held /\ attempt.request \in Request
  BY Fields DEF AttemptEffect
<1> QED BY <1>1, <1>2, <1>3, <1>4

(* What the attempt says. *)
LEMMA AttemptSpeaks ==
    ASSUME EngineBase, AttemptEffect, NEW t \in Saying, Says(t)
    PROVE LET m == Message(t, attempt.request, attempt.number)
          IN /\ m \in Notes /\ m.type = t /\ m.problem = attempt.request.problem
             /\ m.runId = attempt.request.runId /\ m.revision = attempt.request.revision
             /\ m.attempt = spawned
             /\ Said' = Said \cup {m}
             /\ messages' \in Seq(Notes \cup {WorkerFailed})
             /\ Len(messages) \in Nat
             /\ DOMAIN messages = 1..Len(messages) /\ DOMAIN messages' = 1..(Len(messages) + 1)
             /\ \A i \in 1..Len(messages) : messages'[i] = messages[i]
             /\ messages'[Len(messages) + 1] = m
<1> DEFINE m == Message(t, attempt.request, attempt.number)
<1>1. /\ attempt.request \in Request /\ attempt.number = spawned /\ spawned \in Nat
      /\ messages \in Seq(Notes \cup {WorkerFailed})
  BY AttemptFrameFacts, Fields DEF EngineBase, EngineTypes
<1>2. /\ m.type = t /\ m.problem = attempt.request.problem
      /\ m.runId = attempt.request.runId /\ m.revision = attempt.request.revision
      /\ m.attempt = spawned
  BY <1>1 DEF Message
<1>3. m \in Notes
  BY <1>1 DEF Message, Notes, Request, Saying
<1>4. messages' = Append(messages, m)
  BY DEF Says
<1> HIDE DEF m
<1>5. /\ messages' \in Seq(Notes \cup {WorkerFailed}) /\ Range(messages') = Range(messages) \cup {m}
      /\ Len(messages) \in Nat
      /\ DOMAIN messages = 1..Len(messages) /\ DOMAIN messages' = 1..(Len(messages) + 1)
      /\ \A i \in 1..Len(messages) : messages'[i] = messages[i]
      /\ messages'[Len(messages) + 1] = m
  BY <1>1, <1>3, <1>4, AppendFacts
<1>6. m.type # "WorkerFailed"
  BY <1>2 DEF Saying, TestEvents, StressEvents, InputEvents
<1>7. Said' = Said \cup {m}
  BY <1>5, <1>6 DEF Said
<1> QED BY <1>2, <1>3, <1>5, <1>7 DEF m

LEMMA AttemptBase ==
    ASSUME EngineBase, AttemptEffect PROVE EngineBase'
<1>1. EngineTypes /\ IInv /\ WorkerInv /\ RetiringApart
  BY DEF EngineBase
<1>2. messages' \in Seq(Notes \cup {WorkerFailed})
  BY <1>1, AttemptSpeaks DEF AttemptEffect, EngineTypes
<1>3. EngineTypes'
  BY <1>1, <1>2, AttemptFrameFacts DEF AttemptEffect, EngineTypes
<1>4. IInv' /\ RetiringApart'
  BY <1>1, AttemptFrameFacts DEF IInv, TypeOK, InvariantsHold, QueuedAreNewest, ActiveAgrees,
     PendingOnlySamples, RetiringAgrees, HasLogicalRequest, RetiringApart, Queued
<1>5. WorkerInv'
  <2>1. attempt' # None
    BY EngineAssumption DEF AttemptEffect
  <2> QED BY <1>1, <2>1, AttemptFrameFacts DEF AttemptEffect, WorkerInv
<1> QED BY <1>3, <1>4, <1>5 DEF EngineBase

(* Every message the attempt adds is about its request. *)
LEMMA AttemptSaid ==
    ASSUME EngineBase, AttemptEffect
    PROVE /\ Said \subseteq Said'
          /\ \A m \in Said' : \/ m \in Said
                              \/ /\ m \in Notes /\ m.type \in Saying
                                 /\ m.problem = attempt.request.problem
                                 /\ m.runId = attempt.request.runId
                                 /\ m.revision = attempt.request.revision
                                 /\ m.attempt = spawned
                                 /\ m.type \in Terminal => TriedToTheEnd'
<1>1. CASE messages' = messages
  BY <1>1 DEF Said
<1>2. ASSUME NEW t \in Saying, Says(t),
             t \in Terminal => attempt'.pc = "ended" /\ attempt'.outcome = "Completed"
      PROVE /\ Said \subseteq Said'
            /\ \A m \in Said' : \/ m \in Said
                                \/ /\ m \in Notes /\ m.type = t
                                   /\ m.problem = attempt.request.problem
                                   /\ m.runId = attempt.request.runId
                                   /\ m.revision = attempt.request.revision
                                   /\ m.attempt = spawned
                                   /\ m.type \in Terminal => attempt' # None /\ attempt'.pc = "ended"
                                                               /\ attempt'.outcome = "Completed"
  <2>1. attempt' # None
    BY EngineAssumption DEF AttemptEffect
  <2> QED BY <1>2, <2>1, AttemptSpeaks
<1> QED BY <1>1, <1>2 DEF AttemptEffect, TriedToTheEnd

LEMMA AttemptIds ==
    ASSUME EngineBase, IdInv, AttemptEffect PROVE IdInv'
<1>1. \A m \in Said' : m.runId <= latestSeen[m.problem]
  <2>1. attempt.request.runId <= latestSeen[attempt.request.problem]
    BY AttemptFrameFacts DEF IdInv
  <2> QED BY <2>1, AttemptSaid DEF IdInv
<1> QED BY <1>1, AttemptFrameFacts DEF IdInv

LEMMA AttemptKinds ==
    ASSUME EngineBase, KindInv, AttemptEffect PROVE KindInv'
<1>1. ASSUME NEW p \in Problems, NEW m \in Said', m.problem = p, m.runId = userInput[p].id
      PROVE m.revision = userInput[p].revision
  <2>1. CASE m \in Said
    BY <1>1, <2>1 DEF KindInv
  <2>2. CASE m \notin Said
    BY <1>1, <2>2, AttemptSaid, AttemptFrameFacts DEF KindInv
  <2> QED BY <2>1, <2>2
<1> QED BY <1>1, AttemptFrameFacts DEF KindInv

LEMMA AttemptSpeech ==
    ASSUME EngineBase, SpeechInv, AttemptEffect PROVE SpeechInv'
<1> DEFINE n == Len(messages)
<1>1. attempt' # None /\ spawned' = spawned /\ run' = run /\ retiring' = retiring /\ spawned \in Nat
  BY EngineAssumption, AttemptFrameFacts, Fields DEF AttemptEffect
<1>2. CASE messages' = messages
  BY <1>1, <1>2 DEF SpeechInv, Said, AttemptEffect
<1>3. CASE messages' # messages
  <2>1. PICK t \in Saying : Says(t)
    BY <1>3 DEF AttemptEffect
  <2> DEFINE m == Message(t, attempt.request, attempt.number)
  <2>2. /\ m \in Notes /\ m.type = t /\ m.attempt = spawned
        /\ Said' = Said \cup {m} /\ n \in Nat
        /\ DOMAIN messages = 1..n /\ DOMAIN messages' = 1..(n + 1)
        /\ \A i \in 1..n : messages'[i] = messages[i]
        /\ messages'[n + 1] = m
    BY <2>1, AttemptSpeaks
  <2> HIDE DEF m, n
  <2>3. t \notin Closing
    BY DEF Saying, Closing, TestEvents, StressEvents, InputEvents
  <2>4. ASSUME NEW i \in DOMAIN messages', NEW j \in DOMAIN messages', i < j,
               messages'[i].type # "WorkerFailed", messages'[j].type # "WorkerFailed"
        PROVE /\ messages'[i].attempt <= messages'[j].attempt
              /\ messages'[i].type \in Closing => messages'[i].attempt # messages'[j].attempt
    <3>1. i \in 1..n /\ messages'[i] = messages[i]
      BY <2>2, <2>4
    <3>2. CASE j \in 1..n
      BY <2>2, <2>4, <3>1, <3>2 DEF SpeechInv
    <3>3. CASE j = n + 1
      <4>1. messages[i] \in Said
        BY <2>2, <2>4, <3>1 DEF Said, Range
      <4>2. /\ messages[i].attempt <= spawned /\ messages[i].attempt \in Nat
            /\ messages[i].type \in Closing => messages[i].attempt < spawned
        BY <4>1, Fields DEF SpeechInv, AttemptEffect
      <4> QED BY <1>1, <2>2, <3>1, <3>3, <4>2
    <3> QED BY <2>2, <3>2, <3>3
  <2>5. \A k \in Said' :
          /\ k.attempt <= spawned
          /\ k.type \in Closing => k.attempt < spawned
    BY <1>1, <2>2, <2>3 DEF SpeechInv, AttemptEffect
  <2>6. \A p \in Problems : \A k \in run[p].attempts :
          k <= spawned /\ \A c \in Said' : k <= c.attempt
    BY <2>2 DEF SpeechInv
  <2> QED BY <1>1, <2>4, <2>5, <2>6 DEF SpeechInv
<1> QED BY <1>2, <1>3

LEMMA AttemptAttempts ==
    ASSUME EngineBase, SpeechInv, AttemptsInv, AttemptEffect PROVE AttemptsInv'
<1>1. /\ run' = run /\ spawned' = spawned /\ worker' = worker /\ active' = active
      /\ retiring' = retiring /\ retiring = None /\ worker.pc # "spawn"
      /\ Commanded' = Commanded /\ Queued' = Queued /\ attempt' # None
      /\ attempt # None /\ attempt.pc # "ended" /\ attempt'.request = attempt.request
      /\ spawned \in Nat
  BY EngineAssumption, AttemptFrameFacts, Fields DEF AttemptEffect
<1> SUFFICES ASSUME NEW p \in Problems PROVE AttemptsAgree(p)'
  BY DEF AttemptsInv
<1> DEFINE id == run[p].id
           mine == attempt.request.problem = p /\ attempt.request.runId = id
<1>2. AttemptsAgree(p)
  BY DEF AttemptsInv
<1>3. /\ Waits(p, id)' <=> Waits(p, id)
      /\ Tried(p, id)' <=> mine
      /\ Tried(p, id) <=> mine
      /\ ~TriedToTheEnd
  BY <1>1 DEF Waits, Tried, TriedToTheEnd
<1>4. /\ About(p, id) \subseteq About(p, id)'
      /\ \A m \in About(p, id)' : \/ m \in About(p, id)
                                  \/ /\ mine /\ m.type \in Saying /\ m.attempt = spawned
                                     /\ m.type \in Terminal => TriedToTheEnd'
  BY <1>1, AttemptSaid DEF About
<1>5. \A m \in About(p, id) : /\ m.attempt \in Nat /\ m.attempt <= spawned
                              /\ m.type \in Closing => m.attempt < spawned
  BY <1>1, Fields DEF SpeechInv, About
<1>6. \A n : Requeued(p, id, n)' <=> Requeued(p, id, n)
  <2>1. "RunRequeued" \notin Saying
    BY DEF Saying, TestEvents, StressEvents, InputEvents
  <2> QED BY <1>1, <1>4, <2>1 DEF Requeued
<1>7. ~Requeued(p, id, spawned)
  BY <1>1, <1>5 DEF Requeued, Closing
<1> SUFFICES ASSUME id # 0
             PROVE /\ ~(Waits(p, id)' /\ Tried(p, id)')
                   /\ \A n \in Known(p)' : Repeated(p, id, n)' => Requeued(p, id, n)'
                   /\ \A n \in Nat : Over(p, n)' =>
                         ~Requeued(p, id, n)' /\ (Tried(p, id)' /\ n = spawned' => TriedToTheEnd')
  BY <1>1, <1>2 DEF AttemptsAgree
<1>8. ~(Waits(p, id)' /\ Tried(p, id)')
  BY <1>2, <1>3 DEF AttemptsAgree
<1>9. ASSUME NEW n \in Known(p)', Repeated(p, id, n)' PROVE Requeued(p, id, n)'
  <2>1. n \in Known(p) \/ (n = spawned /\ mine)
    BY <1>1, <1>4, <1>9 DEF Known
  <2>2. CASE n = spawned /\ mine
    <3>1. ~Waits(p, id)'
      BY <1>3, <1>8, <2>2
    <3>2. \A m \in About(p, id)' : ~(spawned < m.attempt)
      BY <1>1, <1>4, <1>5
    <3> QED BY <1>1, <1>9, <2>2, <3>1, <3>2 DEF Repeated
  <2>3. CASE n \in Known(p) /\ ~(n = spawned /\ mine)
    <3>1. Repeated(p, id, n)
      <4>1. CASE Waits(p, id)' \/ (Tried(p, id)' /\ n # spawned')
        BY <1>1, <1>3, <4>1 DEF Repeated
      <4>2. CASE \E m \in About(p, id)' : n < m.attempt
        <5>1. PICK m \in About(p, id)' : n < m.attempt
          BY <4>2
        <5>2. CASE m \in About(p, id)
          BY <5>1, <5>2 DEF Repeated
        <5>3. CASE mine
          BY <1>3, <2>3, <5>3 DEF Repeated
        <5> QED BY <1>4, <5>2, <5>3
      <4> QED BY <1>1, <1>9, <4>1, <4>2 DEF Repeated
    <3> QED BY <1>2, <1>6, <2>3, <3>1 DEF AttemptsAgree
  <2> QED BY <2>1, <2>2, <2>3
<1>10. ASSUME NEW n \in Nat, Over(p, n)'
       PROVE ~Requeued(p, id, n)' /\ (Tried(p, id)' /\ n = spawned' => TriedToTheEnd')
  <2>1. CASE Over(p, n)
    <3>1. ~Requeued(p, id, n) /\ (Tried(p, id) /\ n = spawned => TriedToTheEnd)
      BY <1>2, <2>1 DEF AttemptsAgree
    <3> QED BY <1>1, <1>3, <1>6, <3>1
  <2>2. CASE ~Over(p, n)
    <3>1. n = spawned /\ TriedToTheEnd'
      BY <1>1, <1>4, <1>10, <2>2 DEF Over
    <3> QED BY <1>6, <1>7, <3>1
  <2> QED BY <2>1, <2>2
<1> QED BY <1>8, <1>9, <1>10

LEMMA AttemptNewest ==
    ASSUME EngineBase, NewestInv, AttemptEffect PROVE NewestInv'
BY AttemptFrameFacts DEF NewestInv, AttemptEffect, RunActive, StressActive, InputActive

LEMMA AttemptPipe ==
    ASSUME EngineBase, KindInv, NewestInv, PipeInv, AttemptEffect, ui = "running" PROVE PipeInv'
<1>1. /\ run' = run /\ stress' = stress /\ userInput' = userInput /\ worker' = worker
      /\ active' = active /\ foreground' = foreground /\ retiring' = retiring /\ retiring = None
      /\ Commanded' = Commanded /\ Queued' = Queued
      /\ attempt # None /\ attempt.request = active.request /\ attempt.request \in Held
  BY AttemptFrameFacts DEF AttemptEffect
<1>2. Said \subseteq Said'
  BY AttemptSaid
<1>3. ASSUME NEW t \in Saying, Says(t)
      PROVE \E m \in Said' : /\ m.type = t /\ m.problem = attempt.request.problem
                             /\ m.runId = attempt.request.runId
  <2> DEFINE m == Message(t, attempt.request, attempt.number)
  <2>1. /\ m.type = t /\ m.problem = attempt.request.problem
        /\ m.runId = attempt.request.runId
        /\ Said' = Said \cup {m}
    BY <1>3, AttemptSpeaks
  <2> HIDE DEF m
  <2> QED BY <2>1
<1> SUFFICES ASSUME ~worker.failed, NEW p \in Problems
             PROVE /\ RunActive(p) => RunOwed(p)'
                   /\ StressActive(p) => StressOwed(p)'
                   /\ InputActive(p) => InputOwed(p)'
  BY <1>1 DEF PipeInv, RunActive, StressActive, InputActive
<1>4. ASSUME RunActive(p) PROVE RunOwed(p)'
  <2>1. RunOwed(p)
    BY <1>4 DEF PipeInv
  <2> QED BY <1>1, <1>2, <2>1 DEF RunOwed, IsCommanded, ActiveLatest, RetiringLatest, Told, About
<1>5. ASSUME StressActive(p) PROVE StressOwed(p)'
  <2>1. StressOwed(p)
    BY <1>5 DEF PipeInv
  <2>2. CASE ActiveLatest(p, stress[p].id)
    <3>1. attempt.request.problem = p /\ attempt.request.runId = stress[p].id
      BY <1>1, <2>2 DEF ActiveLatest
    <3>2. attempt.request.kind = "Stress"
      BY <1>1, <3>1 DEF KindInv
    <3>3. CASE attempt'.outcome = "Cancelled"
      <4>1. Says("StressCancelled") /\ "StressCancelled" \in Saying
        BY <3>2, <3>3 DEF AttemptEffect, Runs, Saying, StressEvents
      <4> QED BY <1>1, <1>3, <3>1, <4>1 DEF StressOwed, Told, About
    <3>4. CASE attempt'.outcome # "Cancelled"
      BY <1>1, <2>2, <3>4 DEF StressOwed, ActiveLatest
    <3> QED BY <3>3, <3>4
  <2>3. CASE ~ActiveLatest(p, stress[p].id)
    BY <1>1, <1>2, <2>1, <2>3 DEF StressOwed, IsCommanded, Foreground, RetiringLatest, Told, About
  <2> QED BY <2>2, <2>3
<1>6. ASSUME InputActive(p) PROVE InputOwed(p)'
  <2>1. InputOwed(p)
    BY <1>6 DEF PipeInv
  <2>2. CASE ActiveLatest(p, userInput[p].id)
    <3>1. attempt.request.problem = p /\ attempt.request.runId = userInput[p].id
      BY <1>1, <2>2 DEF ActiveLatest
    <3>2. attempt.request.kind = "UserInput"
      BY <1>1, <3>1 DEF KindInv
    <3>3. ~attempt.cancel
      BY <1>1, <1>6, <3>1 DEF NewestInv
    <3>4. attempt'.outcome # "Cancelled"
      BY <3>3 DEF AttemptEffect
    <3>5. CASE attempt'.outcome = "Completed"
      <4>1. Says("InputFinished") /\ "InputFinished" \in Saying
        BY <3>2, <3>5 DEF AttemptEffect, Runs, Saying, InputEvents
      <4> QED BY <1>1, <1>3, <3>1, <4>1 DEF InputOwed, Told, About
    <3>6. CASE attempt'.outcome # "Completed"
      BY <1>1, <2>2, <3>4, <3>6 DEF InputOwed, ActiveLatest
    <3> QED BY <3>5, <3>6
  <2>3. CASE ~ActiveLatest(p, userInput[p].id)
    BY <1>1, <1>2, <2>1, <2>3 DEF InputOwed, IsCommanded, Foreground, RetiringLatest, Told, About
  <2> QED BY <2>2, <2>3
<1> QED BY <1>4, <1>5, <1>6

LEMMA AttemptKeeps ==
    ASSUME EngineInv, AttemptEffect PROVE EngineInv'
<1>1. EngineBase'
  BY AttemptBase DEF EngineInv
<1>2. CASE ui # "running"
  BY <1>1, <1>2, AttemptFrameFacts DEF EngineInv, RunningInv
<1>3. CASE ui = "running"
  <2>1. EngineBase /\ IdInv /\ KindInv /\ ScreenInv /\ GateInv /\ SpeechInv /\ AttemptsInv /\ NewestInv /\ PipeInv
    BY <1>3 DEF EngineInv, RunningInv
  <2>2. ScreenInv'
    BY <2>1, AttemptFrameFacts DEF ScreenInv, RunActive, StressActive, InputActive, EngineInv
  <2>3. GateInv'
    BY <2>1, AttemptFrameFacts DEF GateInv
  <2> QED BY <1>1, <1>3, <2>1, <2>2, <2>3, AttemptIds, AttemptKinds, AttemptSpeech, AttemptAttempts,
             AttemptNewest, AttemptPipe DEF EngineInv, RunningInv
<1> QED BY <1>2, <1>3

-------------------------------------------------------------------------------
(* The handler of a message. *)
HandledRun(m) ==
    LET p == m.problem
    IN \/ run'[p] = run[p]
       \/ /\ run[p].id = m.runId /\ run'[p].id = run[p].id /\ run[p].phase \in ActivePhases
          /\ \/ /\ m.type \in Events /\ run'[p].attempts = run[p].attempts \cup {m.attempt}
                /\ run'[p].phase # "Queued"
                /\ run'[p].phase \notin {"Compiling", "Running"} => m.type \in Terminal
             \/ m.type = "RunRequeued" /\ run'[p].attempts = {} /\ run'[p].phase = "Queued"
             \/ /\ m.type \in {"RunCompleted", "RunFailed"}
                /\ run'[p].attempts = run[p].attempts /\ run'[p].phase \in {"Finished", "Failed"}

(* Only what is active changes, and it keeps its identity. *)
HandledOthers(m) ==
    LET p == m.problem
    IN /\ stress'[p].id = stress[p].id
       /\ stress'[p] = stress[p] \/ StressActive(p)
       /\ userInput'[p].id = userInput[p].id /\ userInput'[p].revision = userInput[p].revision
       /\ userInput'[p] = userInput[p] \/ InputActive(p)
       /\ \A q \in Problems : q # p => run'[q] = run[q] /\ stress'[q] = stress[q]
                                         /\ userInput'[q] = userInput[q]

(* What decides a state on the screen is not overlooked. *)
Decides(m) ==
    LET p == m.problem
    IN /\ m.type \in {"RunCompleted", "RunFailed"} /\ m.runId = run[p].id => run'[p].phase \notin ActivePhases
       /\ m.type \in {"RunCompleted", "RunFailed", "StressCancelled"} /\ m.runId = stress[p].id
             => stress'[p].phase \notin ActivePhases
       /\ m.type \in {"InputFinished", "RunFailed"} /\ m.runId = userInput[p].id
             => userInput'[p].status \notin ActivePhases
       /\ m.type = "RunRequeued" /\ m.runId = run[p].id => run'[p].phase \notin {"Compiling", "Running"}

Handled(m) ==
    /\ run' \in [Problems -> RunStates] /\ stress' \in [Problems -> StressStates]
    /\ userInput' \in [Problems -> InputStates]
    /\ HandledRun(m) /\ HandledOthers(m) /\ Decides(m)

(* The three ways to change the screen. *)
LEMMA SetRunFacts ==
    ASSUME EngineTypes, NEW m \in Notes, NEW state \in RunStates, SetRun(m, state)
    PROVE /\ run' \in [Problems -> RunStates] /\ run'[m.problem] = state
          /\ \A q \in Problems : q # m.problem => run'[q] = run[q]
          /\ stress' = stress /\ userInput' = userInput
BY DEF SetRun, EngineTypes, Notes

LEMMA SetStressFacts ==
    ASSUME EngineTypes, NEW m \in Notes, NEW phase \in Phases, SetStress(m, phase)
    PROVE /\ stress' \in [Problems -> StressStates]
          /\ stress'[m.problem].phase = phase /\ stress'[m.problem].id = stress[m.problem].id
          /\ \A q \in Problems : q # m.problem => stress'[q] = stress[q]
          /\ run' = run /\ userInput' = userInput
BY DEF SetStress, EngineTypes, StressStates, Notes

LEMMA SetInputFacts ==
    ASSUME EngineTypes, NEW m \in Notes, NEW status \in Phases, SetInput(m, status)
    PROVE /\ userInput' \in [Problems -> InputStates]
          /\ userInput'[m.problem].status = status
          /\ userInput'[m.problem].id = userInput[m.problem].id
          /\ userInput'[m.problem].revision = userInput[m.problem].revision
          /\ \A q \in Problems : q # m.problem => userInput'[q] = userInput[q]
          /\ run' = run /\ stress' = stress
BY DEF SetInput, EngineTypes, InputStates, Notes

(* A message of type t that changes nothing, or one state. *)
LEMMA HandledIgnored ==
    ASSUME EngineTypes, Ignored, NEW m \in Notes
    PROVE /\ run' \in [Problems -> RunStates] /\ stress' \in [Problems -> StressStates]
          /\ userInput' \in [Problems -> InputStates] /\ HandledRun(m) /\ HandledOthers(m)
          /\ run' = run /\ stress' = stress /\ userInput' = userInput
BY DEF Ignored, EngineTypes, HandledRun, HandledOthers

LEMMA SetRunHandled ==
    ASSUME EngineTypes, NEW m \in Notes, NEW state, SetRun(m, state),
           state \in RunStates, state.id = run[m.problem].id,
           run[m.problem].id = m.runId, run[m.problem].phase \in ActivePhases,
           \/ /\ m.type \in Events /\ state.attempts = run[m.problem].attempts \cup {m.attempt}
              /\ state.phase # "Queued"
              /\ state.phase \notin {"Compiling", "Running"} => m.type \in Terminal
           \/ m.type = "RunRequeued" /\ state.attempts = {} /\ state.phase = "Queued"
           \/ /\ m.type \in {"RunCompleted", "RunFailed"}
              /\ state.attempts = run[m.problem].attempts /\ state.phase \in {"Finished", "Failed"}
    PROVE /\ run' \in [Problems -> RunStates] /\ stress' \in [Problems -> StressStates]
          /\ userInput' \in [Problems -> InputStates] /\ HandledRun(m) /\ HandledOthers(m)
          /\ run'[m.problem] = state
<1>1. /\ run' \in [Problems -> RunStates] /\ run'[m.problem] = state
      /\ \A q \in Problems : q # m.problem => run'[q] = run[q]
      /\ stress' = stress /\ userInput' = userInput
  BY SetRunFacts
<1>2. HandledRun(m)
  BY <1>1 DEF HandledRun
<1>3. HandledOthers(m)
  BY <1>1 DEF HandledOthers
<1> QED BY <1>1, <1>2, <1>3 DEF EngineTypes

LEMMA SetStressHandled ==
    ASSUME EngineTypes, NEW m \in Notes, NEW phase \in Phases, SetStress(m, phase),
           stress[m.problem].phase \in ActivePhases
    PROVE /\ run' \in [Problems -> RunStates] /\ stress' \in [Problems -> StressStates]
          /\ userInput' \in [Problems -> InputStates] /\ HandledRun(m) /\ HandledOthers(m)
          /\ run' = run /\ userInput' = userInput
          /\ stress'[m.problem].phase = phase /\ stress'[m.problem].id = stress[m.problem].id
<1>1. /\ stress' \in [Problems -> StressStates]
      /\ stress'[m.problem].phase = phase /\ stress'[m.problem].id = stress[m.problem].id
      /\ \A q \in Problems : q # m.problem => stress'[q] = stress[q]
      /\ run' = run /\ userInput' = userInput
  BY SetStressFacts
<1>2. HandledRun(m) /\ HandledOthers(m)
  BY <1>1 DEF HandledRun, HandledOthers, StressActive
<1> QED BY <1>1, <1>2 DEF EngineTypes

LEMMA SetInputHandled ==
    ASSUME EngineTypes, NEW m \in Notes, NEW status \in Phases, SetInput(m, status),
           userInput[m.problem].status \in ActivePhases
    PROVE /\ run' \in [Problems -> RunStates] /\ stress' \in [Problems -> StressStates]
          /\ userInput' \in [Problems -> InputStates] /\ HandledRun(m) /\ HandledOthers(m)
          /\ run' = run /\ stress' = stress
          /\ userInput'[m.problem].status = status
          /\ userInput'[m.problem].id = userInput[m.problem].id
<1>1. /\ userInput' \in [Problems -> InputStates]
      /\ userInput'[m.problem].status = status
      /\ userInput'[m.problem].id = userInput[m.problem].id
      /\ userInput'[m.problem].revision = userInput[m.problem].revision
      /\ \A q \in Problems : q # m.problem => userInput'[q] = userInput[q]
      /\ run' = run /\ stress' = stress
  BY SetInputFacts
<1>2. HandledRun(m) /\ HandledOthers(m)
  BY <1>1 DEF HandledRun, HandledOthers, InputActive
<1> QED BY <1>1, <1>2 DEF EngineTypes

LEMMA HandleStarted ==
    ASSUME EngineTypes, NEW m \in Notes, m.type = "RunStarted", OnRunStarted(m) PROVE Handled(m)
<1> DEFINE p == m.problem
<1>1. p \in Problems /\ m.attempt \in Nat /\ run[p] \in RunStates
      /\ stress[p] \in StressStates
  BY DEF Notes, EngineTypes
<1>2. Decides(m)
  BY DEF Decides
<1>3. Started(p) \in {"Compiling", "Running"} /\ Started(p) \in Phases
  BY DEF Started, Phases, ActivePhases
<1>4. CASE userInput[p].status = "Queued" /\ SetInput(m, Started(p))
  BY <1>2, <1>3, <1>4, SetInputHandled DEF Handled, ActivePhases
<1>5. CASE Ignored
  BY <1>2, <1>5, HandledIgnored DEF Handled
<1>6. CASE /\ run[p].id = m.runId /\ run[p].phase = "Queued"
           /\ SetRun(m, [run[p] EXCEPT !.phase = Started(p), !.attempts = @ \cup {m.attempt}])
  <2> DEFINE state == [run[p] EXCEPT !.phase = Started(p), !.attempts = @ \cup {m.attempt}]
  <2>1. /\ state \in RunStates /\ state.id = run[p].id /\ state.phase = Started(p)
        /\ state.attempts = run[p].attempts \cup {m.attempt}
    BY <1>1, <1>3 DEF RunStates
  <2> HIDE DEF state
  <2>2. SetRun(m, state)
    BY <1>6 DEF state
  <2>3. m.type \in Events /\ run[p].phase \in ActivePhases /\ state.phase # "Queued"
        /\ state.phase \in {"Compiling", "Running"}
    BY <1>3, <1>6, <2>1 DEF Events, ActivePhases
  <2> QED BY <1>2, <1>6, <2>1, <2>2, <2>3, SetRunHandled DEF Handled
<1>7. CASE stress[p].phase = "Queued" /\ SetStress(m, Started(p))
  BY <1>2, <1>3, <1>7, SetStressHandled DEF Handled, ActivePhases
<1> QED BY <1>4, <1>5, <1>6, <1>7 DEF OnRunStarted

LEMMA HandleRequeued ==
    ASSUME EngineTypes, NEW m \in Notes, m.type = "RunRequeued", OnRunRequeued(m) PROVE Handled(m)
<1> DEFINE p == m.problem
           state == [NoRun EXCEPT !.id = m.runId, !.phase = "Queued"]
<1>1. p \in Problems /\ run[p] \in RunStates
  BY DEF Notes, EngineTypes
<1>2. CASE run[p].id = m.runId /\ run[p].phase \in {"Compiling", "Running"}
  <2>1. /\ state \in RunStates /\ state.id = run[p].id /\ state.phase = "Queued"
        /\ state.attempts = {}
    BY <1>1, <1>2 DEF RunStates, NoRun, Phases, ActivePhases
  <2> HIDE DEF state
  <2>2. SetRun(m, state)
    BY <1>2 DEF OnRunRequeued, state
  <2>3. run[p].phase \in ActivePhases
    BY <1>2 DEF ActivePhases
  <2>4. /\ run' \in [Problems -> RunStates] /\ stress' \in [Problems -> StressStates]
        /\ userInput' \in [Problems -> InputStates] /\ HandledRun(m) /\ HandledOthers(m)
        /\ run'[p] = state
    BY <1>2, <2>1, <2>2, <2>3, SetRunHandled
  <2> QED BY <2>1, <2>4 DEF Handled, Decides
<1>3. CASE ~(run[p].id = m.runId /\ run[p].phase \in {"Compiling", "Running"})
  <2>1. Ignored
    BY <1>3 DEF OnRunRequeued
  <2> QED BY <1>3, <2>1, HandledIgnored DEF Handled, Decides
<1> QED BY <1>2, <1>3

LEMMA HandleEvent ==
    ASSUME EngineTypes, NEW m \in Notes, m.type \in TestEvents, OnRunEvent(m) PROVE Handled(m)
<1> DEFINE p == m.problem
           state == [run[p] EXCEPT !.phase = RunEventPhase(m),
                                   !.started = @ \/ m.type = "TestRunStarted",
                                   !.attempts = @ \cup {m.attempt}]
<1>1. p \in Problems /\ run[p] \in RunStates /\ m.attempt \in Nat
  BY DEF Notes, EngineTypes
<1>2. Decides(m)
  BY DEF Decides, TestEvents
<1>3. ASSUME RunEventPhase(m) # "Ignored"
      PROVE /\ run[p].phase \in ActivePhases
            /\ RunEventPhase(m) \in Phases /\ RunEventPhase(m) # "Queued"
            /\ RunEventPhase(m) \notin {"Compiling", "Running"} => m.type \in Terminal
  BY <1>3 DEF RunEventPhase, ActivePhases, Phases, EndPhases, Terminal
<1>4. CASE run[p].id = m.runId /\ RunEventPhase(m) # "Ignored"
  <2>1. /\ state \in RunStates /\ state.id = run[p].id /\ state.phase = RunEventPhase(m)
        /\ state.attempts = run[p].attempts \cup {m.attempt}
    BY <1>1, <1>3, <1>4 DEF RunStates
  <2>2. SetRun(m, state)
    BY <1>4 DEF OnRunEvent
  <2> HIDE DEF state
  <2>3. m.type \in Events
    BY DEF Events
  <2> QED BY <1>2, <1>3, <1>4, <2>1, <2>2, <2>3, SetRunHandled DEF Handled
<1>5. CASE ~(run[p].id = m.runId /\ RunEventPhase(m) # "Ignored")
  <2>1. Ignored
    BY <1>5 DEF OnRunEvent
  <2> QED BY <1>2, <2>1, HandledIgnored DEF Handled
<1> QED BY <1>4, <1>5

LEMMA HandleStress ==
    ASSUME EngineTypes, NEW m \in Notes, m.type \in StressEvents, OnStressEvent(m) PROVE Handled(m)
<1> DEFINE p == m.problem
           phase == stress[p].phase
<1>1. "Running" \in Phases /\ "Failed" \in Phases /\ "Cancelled" \in Phases
  BY DEF Phases, ActivePhases, EndPhases
<1>2. m.type \in {"StressStarted", "StressFailed", "StressCancelled"}
  BY DEF StressEvents
<1>3. CASE Ignored /\ ~(m.type = "StressCancelled" /\ m.runId = stress[p].id /\ phase \in ActivePhases)
  BY <1>2, <1>3, HandledIgnored DEF Handled, Decides, StressActive
<1>4. CASE phase \in ActivePhases /\ m.type # "StressCancelled"
             /\ \E s \in Phases : SetStress(m, s)
  BY <1>2, <1>4, SetStressHandled DEF Handled, Decides
<1>5. CASE phase \in ActivePhases /\ SetStress(m, "Cancelled")
  <2>1. /\ run' \in [Problems -> RunStates] /\ stress' \in [Problems -> StressStates]
        /\ userInput' \in [Problems -> InputStates] /\ HandledRun(m) /\ HandledOthers(m)
        /\ stress'[p].phase = "Cancelled"
    BY <1>1, <1>5, SetStressHandled
  <2> QED BY <1>2, <2>1 DEF Handled, Decides, StressActive, ActivePhases
<1>6. CASE stress[p].id # m.runId
  BY <1>3, <1>6 DEF OnStressEvent
<1>7. CASE stress[p].id = m.runId
  <2>1. CASE m.type = "StressStarted" /\ phase \in ActivePhases
    BY <1>1, <1>4, <1>7, <2>1 DEF OnStressEvent
  <2>2. CASE m.type = "StressFailed" /\ phase \in {"Compiling", "Running"}
    BY <1>1, <1>4, <1>7, <2>2 DEF OnStressEvent, ActivePhases
  <2>3. CASE m.type = "StressCancelled" /\ phase \in ActivePhases
    BY <1>5, <1>7, <2>3 DEF OnStressEvent
  <2>4. CASE /\ ~(m.type = "StressStarted" /\ phase \in ActivePhases)
             /\ ~(m.type = "StressFailed" /\ phase \in {"Compiling", "Running"})
             /\ ~(m.type = "StressCancelled" /\ phase \in ActivePhases)
    BY <1>3, <1>7, <2>4 DEF OnStressEvent
  <2> QED BY <2>1, <2>2, <2>3, <2>4
<1> QED BY <1>6, <1>7

LEMMA HandleInput ==
    ASSUME EngineTypes, ScreenInv, KindInv, NEW m \in Notes, m \in Said, m.type \in InputEvents,
           OnUserInputEvent(m)
    PROVE Handled(m)
<1> DEFINE p == m.problem
           status == IF m.type = "InputRunning" THEN "Running" ELSE "Finished"
<1>1. p \in Problems /\ status \in Phases
  BY DEF Notes, Phases, ActivePhases, EndPhases
<1>2. m.type \in {"InputRunning", "InputFinished"}
  BY DEF InputEvents
<1>3. CASE CurrentInput(m) /\ userInput[p].revision = m.revision
  <2>1. SetInput(m, status) /\ userInput[p].status \in ActivePhases
    BY <1>3 DEF OnUserInputEvent, CurrentInput
  <2>2. /\ run' \in [Problems -> RunStates] /\ stress' \in [Problems -> StressStates]
        /\ userInput' \in [Problems -> InputStates] /\ HandledRun(m) /\ HandledOthers(m)
        /\ userInput'[p].status = status
    BY <1>1, <2>1, SetInputHandled
  <2> QED BY <1>2, <2>2 DEF Handled, Decides, InputActive, ActivePhases
<1>4. CASE ~(CurrentInput(m) /\ userInput[p].revision = m.revision)
  <2>1. Ignored
    BY <1>4 DEF OnUserInputEvent
  <2>2. m.runId = userInput[p].id => ~InputActive(p)
    BY <1>1, <1>4 DEF CurrentInput, ScreenInv, KindInv, InputActive
  <2>3. userInput' = userInput
    BY <2>1 DEF Ignored
  <2> QED BY <1>2, <2>1, <2>2, <2>3, HandledIgnored DEF Handled, Decides, InputActive
<1> QED BY <1>3, <1>4

LEMMA HandleOutcome ==
    ASSUME EngineTypes, ScreenInv, NEW m \in Notes, m.type \in {"RunCompleted", "RunFailed"},
           m.runId # 0, OnOutcome(m)
    PROVE Handled(m)
<1> DEFINE p == m.problem
           verdict == IF m.type = "RunCompleted" THEN "Finished" ELSE "Failed"
           state == [run[p] EXCEPT !.phase = verdict]
           ends == m.type = "RunFailed" /\ CurrentInput(m)
<1>1. /\ p \in Problems /\ verdict \in Phases /\ verdict \notin ActivePhases
      /\ verdict \in {"Finished", "Failed"}
  BY DEF Notes, Phases, ActivePhases, EndPhases
<1>2. /\ run[p] \in RunStates
      /\ run[p].id = 0 \/ stress[p].id = 0
      /\ userInput[p].id # 0 => userInput[p].id \notin {run[p].id, stress[p].id}
      /\ InputActive(p) => source[p] /\ userInput[p].revision = revision[p]
  BY <1>1 DEF EngineTypes, ScreenInv
<1>3. m.type = "RunFailed" /\ m.runId = userInput[p].id /\ InputActive(p) => ends
  BY <1>2 DEF CurrentInput, InputActive
<1>4. CASE ends
  <2>1. SetInput(m, "Failed") /\ userInput[p].status \in ActivePhases /\ userInput[p].id = m.runId
        /\ "Failed" \in Phases
    BY <1>4 DEF OnOutcome, CurrentInput, Phases, EndPhases
  <2>2. /\ run' \in [Problems -> RunStates] /\ stress' \in [Problems -> StressStates]
        /\ userInput' \in [Problems -> InputStates] /\ HandledRun(m) /\ HandledOthers(m)
        /\ userInput'[p].status = "Failed"
    BY <2>1, SetInputHandled
  <2>3. m.runId # run[p].id /\ m.runId # stress[p].id
    BY <1>2, <2>1
  <2> QED BY <2>2, <2>3 DEF Handled, Decides, InputActive, ActivePhases
<1>5. CASE ~ends /\ run[p].id = m.runId /\ run[p].phase \in ActivePhases
  <2>1. /\ state \in RunStates /\ state.id = run[p].id /\ state.phase = verdict
        /\ state.attempts = run[p].attempts
    BY <1>1, <1>2 DEF RunStates
  <2>2. SetRun(m, state)
    BY <1>5 DEF OnOutcome
  <2> HIDE DEF state
  <2>3. /\ run' \in [Problems -> RunStates] /\ stress' \in [Problems -> StressStates]
        /\ userInput' \in [Problems -> InputStates] /\ HandledRun(m) /\ HandledOthers(m)
        /\ run'[p] = state /\ stress' = stress /\ userInput' = userInput
    BY <1>1, <1>5, <2>1, <2>2, SetRunHandled DEF SetRun
  <2>4. m.runId # stress[p].id /\ m.runId # userInput[p].id
    BY <1>2, <1>5
  <2> QED BY <1>1, <2>1, <2>3, <2>4 DEF Handled, Decides, RunActive
<1>6. CASE ~ends /\ run[p].id # m.runId /\ stress[p].id = m.runId /\ stress[p].phase \in ActivePhases
  <2>1. SetStress(m, verdict)
    BY <1>6 DEF OnOutcome
  <2>2. /\ run' \in [Problems -> RunStates] /\ stress' \in [Problems -> StressStates]
        /\ userInput' \in [Problems -> InputStates] /\ HandledRun(m) /\ HandledOthers(m)
        /\ userInput' = userInput /\ stress'[p].phase = verdict
    BY <1>1, <1>6, <2>1, SetStressHandled
  <2>3. m.runId # userInput[p].id
    BY <1>2, <1>6
  <2> QED BY <1>1, <1>6, <2>2, <2>3 DEF Handled, Decides, StressActive
<1>7. CASE /\ ~ends
           /\ ~(run[p].id = m.runId /\ run[p].phase \in ActivePhases)
           /\ ~(run[p].id # m.runId /\ stress[p].id = m.runId /\ stress[p].phase \in ActivePhases)
  <2>1. Ignored
    BY <1>7 DEF OnOutcome
  <2>2. run' = run /\ stress' = stress /\ userInput' = userInput
    BY <2>1 DEF Ignored
  <2>3. Decides(m)
    BY <1>2, <1>3, <1>7, <2>2 DEF Decides, RunActive, StressActive, InputActive
  <2> QED BY <2>1, <2>3, HandledIgnored DEF Handled
<1> QED BY <1>4, <1>5, <1>6, <1>7

LEMMA HandleFacts ==
    ASSUME EngineInv, HandleMessage
    PROVE LET m == Head(messages)
          IN /\ ui = "running" /\ ui' = "running" /\ Handled(m)
             /\ m \in Notes /\ m \in Said /\ Said' \subseteq Said /\ Said \subseteq Said' \cup {m}
             /\ messages' \in Seq(Notes \cup {WorkerFailed})
             /\ UNCHANGED <<nextRunId, source, revision, commands, worker, attempt, spawned, stopping,
                            active, foreground, pending, latestSeen, retired, retiring, gate>>
             /\ Commanded' = Commanded /\ Queued' = Queued /\ Held' = Held
<1> DEFINE m == Head(messages)
<1>1. /\ EngineTypes /\ ScreenInv /\ KindInv /\ ui = "running" /\ messages # << >>
      /\ m.type # "WorkerFailed" /\ messages' = Tail(messages)
      /\ messages \in Seq(Notes \cup {WorkerFailed})
  BY DEF EngineInv, EngineBase, RunningInv, HandleMessage, EngineTypes
<1>2. /\ Range(messages) = {m} \cup Range(messages') /\ m \in Notes \cup {WorkerFailed}
      /\ messages' \in Seq(Notes \cup {WorkerFailed})
  BY <1>1, TailFacts
<1>3. UNCHANGED <<ui, nextRunId, source, revision, commands, worker, attempt, spawned, stopping,
                  active, foreground, pending, latestSeen, retired, retiring, gate>>
  BY DEF HandleMessage, workerVars, vars
<1>4. Commanded' = Commanded /\ Queued' = Queued /\ Held' = Held
  BY <1>3 DEF Commanded, Queued, Held
<1>5. \/ m.type = "RunStarted" /\ OnRunStarted(m)
      \/ m.type = "RunRequeued" /\ OnRunRequeued(m)
      \/ m.type \in TestEvents /\ OnRunEvent(m)
      \/ m.type \in StressEvents /\ OnStressEvent(m)
      \/ m.type \in InputEvents /\ OnUserInputEvent(m)
      \/ m.type \in {"RunCompleted", "RunFailed"} /\ OnOutcome(m)
  BY DEF HandleMessage
<1> HIDE DEF m
<1>6. /\ m \in Notes /\ m \in Said /\ Said' \subseteq Said /\ Said \subseteq Said' \cup {m}
  BY <1>1, <1>2 DEF Said, WorkerFailed
<1>7. m.runId # 0
  BY <1>6, RunIdsAssumption DEF Notes
<1>8. Handled(m)
  BY <1>1, <1>5, <1>6, <1>7, HandleStarted, HandleRequeued, HandleEvent, HandleStress, HandleInput,
     HandleOutcome
<1> QED BY <1>1, <1>2, <1>3, <1>4, <1>6, <1>8 DEF m

LEMMA HandleBase ==
    ASSUME EngineInv, HandleMessage PROVE EngineBase'
<1>1. EngineTypes /\ IInv /\ WorkerInv /\ RetiringApart
  BY DEF EngineInv, EngineBase
<1>2. EngineTypes'
  BY <1>1, HandleFacts DEF Handled, EngineTypes
<1>3. IInv' /\ RetiringApart'
  BY <1>1, HandleFacts DEF IInv, TypeOK, InvariantsHold, QueuedAreNewest, ActiveAgrees,
     PendingOnlySamples, RetiringAgrees, HasLogicalRequest, RetiringApart, Queued
<1>4. WorkerInv'
  BY <1>1, HandleFacts DEF WorkerInv
<1> QED BY <1>2, <1>3, <1>4 DEF EngineBase

(* The identities on the screen stay, and nothing becomes active. *)
LEMMA HandleScreen ==
    ASSUME EngineInv, HandleMessage, NEW q \in Problems
    PROVE /\ run'[q].id = run[q].id /\ stress'[q].id = stress[q].id
          /\ userInput'[q].id = userInput[q].id /\ userInput'[q].revision = userInput[q].revision
          /\ RunActive(q)' => RunActive(q)
          /\ StressActive(q)' => StressActive(q)
          /\ InputActive(q)' => InputActive(q)
<1> DEFINE m == Head(messages)
<1>1. HandledRun(m) /\ HandledOthers(m)
  BY HandleFacts DEF Handled
<1> HIDE DEF m
<1>2. CASE q = m.problem
  BY <1>1, <1>2 DEF HandledRun, HandledOthers, RunActive, StressActive, InputActive
<1>3. CASE q # m.problem
  BY <1>1, <1>3 DEF HandledOthers, RunActive, StressActive, InputActive
<1> QED BY <1>2, <1>3

LEMMA HandleOrder ==
    ASSUME EngineInv, HandleMessage
    PROVE LET m == Head(messages)
          IN /\ \A c \in Said' : /\ m.attempt <= c.attempt
                                 /\ m.type \in Closing => m.attempt # c.attempt
             /\ \A i, j \in DOMAIN messages' :
                   i < j /\ messages'[i].type # "WorkerFailed" /\ messages'[j].type # "WorkerFailed" =>
                     /\ messages'[i].attempt <= messages'[j].attempt
                     /\ messages'[i].type \in Closing => messages'[i].attempt # messages'[j].attempt
<1> DEFINE n == Len(messages)
<1>1. /\ SpeechInv /\ messages # << >> /\ messages' = Tail(messages)
      /\ Head(messages).type # "WorkerFailed" /\ messages \in Seq(Notes \cup {WorkerFailed})
  BY DEF EngineInv, EngineBase, RunningInv, HandleMessage, EngineTypes
<1>2. /\ n \in Nat \ {0} /\ Head(messages) = messages[1]
      /\ DOMAIN messages = 1..n /\ DOMAIN messages' = 1..(n - 1)
      /\ \A i \in 1..(n - 1) : messages'[i] = messages[i + 1]
  BY <1>1, TailFacts
<1> HIDE DEF n
<1>3. ASSUME NEW i \in DOMAIN messages', NEW j \in DOMAIN messages', i < j,
             messages'[i].type # "WorkerFailed", messages'[j].type # "WorkerFailed"
      PROVE /\ messages'[i].attempt <= messages'[j].attempt
            /\ messages'[i].type \in Closing => messages'[i].attempt # messages'[j].attempt
  <2>1. /\ i + 1 \in 1..n /\ j + 1 \in 1..n /\ i + 1 < j + 1
        /\ messages'[i] = messages[i + 1] /\ messages'[j] = messages[j + 1]
    BY <1>2, <1>3
  <2> QED BY <1>1, <1>2, <1>3, <2>1 DEF SpeechInv
<1>4. ASSUME NEW c \in Said'
      PROVE /\ Head(messages).attempt <= c.attempt
            /\ Head(messages).type \in Closing => Head(messages).attempt # c.attempt
  <2>1. PICK i \in DOMAIN messages' : messages'[i] = c
    BY <1>4 DEF Said, Range
  <2>2. i + 1 \in 1..n /\ 1 < i + 1 /\ messages[i + 1] = c /\ c.type # "WorkerFailed" /\ 1 \in 1..n
    BY <1>2, <1>4, <2>1 DEF Said
  <2> QED BY <1>1, <1>2, <2>2 DEF SpeechInv
<1> QED BY <1>3, <1>4

LEMMA HandleSpeech ==
    ASSUME EngineInv, HandleMessage PROVE SpeechInv'
<1> DEFINE m == Head(messages)
<1>1. /\ \A c \in Said' : m.attempt <= c.attempt
      /\ \A i, j \in DOMAIN messages' :
            i < j /\ messages'[i].type # "WorkerFailed" /\ messages'[j].type # "WorkerFailed" =>
              /\ messages'[i].attempt <= messages'[j].attempt
              /\ messages'[i].type \in Closing => messages'[i].attempt # messages'[j].attempt
  BY HandleOrder
<1>2. SpeechInv /\ m \in Said /\ Said' \subseteq Said /\ HandledRun(m) /\ HandledOthers(m)
      /\ attempt' = attempt /\ retiring' = retiring /\ spawned' = spawned
  BY HandleFacts DEF EngineInv, RunningInv, Handled
<1> HIDE DEF m
<1>3. \A q \in Problems : run'[q].attempts \subseteq run[q].attempts \cup {m.attempt}
  BY <1>2 DEF HandledRun, HandledOthers
<1>4. \A q \in Problems : \A n \in run'[q].attempts : n <= spawned /\ \A c \in Said' : n <= c.attempt
  BY <1>1, <1>2, <1>3 DEF SpeechInv
<1> QED BY <1>1, <1>2, <1>4 DEF SpeechInv

(* The attempts of the run that the message is about. *)
LEMMA HandleAttempts ==
    ASSUME EngineInv, HandleMessage PROVE AttemptsInv'
<1> DEFINE m == Head(messages)
<1>1. /\ \A c \in Said' : /\ m.attempt <= c.attempt
                          /\ m.type \in Closing => m.attempt # c.attempt
  BY HandleOrder
<1>2. /\ m \in Notes /\ m \in Said /\ Said' \subseteq Said /\ Said \subseteq Said' \cup {m}
      /\ HandledRun(m) /\ HandledOthers(m) /\ Decides(m)
      /\ attempt' = attempt /\ retiring' = retiring /\ spawned' = spawned /\ worker' = worker
      /\ active' = active /\ Commanded' = Commanded /\ Queued' = Queued
  BY HandleFacts DEF Handled
<1>3. SpeechInv /\ AttemptsInv /\ EngineBase /\ ui = "running"
  BY DEF EngineInv, RunningInv, HandleMessage
<1>4. m.runId \in Nat \ {0} /\ m.attempt \in Nat /\ \A c \in Said : c.attempt \in Nat
  BY <1>2, <1>3, Fields
<1> HIDE DEF m
<1> SUFFICES ASSUME NEW p \in Problems PROVE AttemptsAgree(p)'
  BY DEF AttemptsInv
<1> DEFINE id == run[p].id
           A == run[p].attempts
<1>5. AttemptsAgree(p) /\ run'[p].id = id
  BY <1>2, <1>3 DEF AttemptsInv, HandledRun, HandledOthers
<1>6. /\ Waits(p, id)' <=> Waits(p, id)
      /\ Tried(p, id)' <=> Tried(p, id)
      /\ TriedToTheEnd' <=> TriedToTheEnd
  BY <1>2, <1>5 DEF Waits, Tried, TriedToTheEnd
<1>7. /\ About(p, id)' \subseteq About(p, id)
      /\ \A c \in About(p, id) : c # m => c \in About(p, id)'
      /\ \A c \in About(p, id) : c \in Said
      /\ \A c \in About(p, id)' : c \in Said'
  BY <1>2, <1>5 DEF About
<1>8. \A n : Repeated(p, id, n)' => Repeated(p, id, n)
  BY <1>2, <1>5, <1>6, <1>7 DEF Repeated
<1>9. \A n : Requeued(p, id, n)' => Requeued(p, id, n)
  BY <1>5, <1>7 DEF Requeued
<1>10. CASE ~(m.problem = p /\ m.runId = id)
  <2>1. run'[p] = run[p]
    BY <1>2, <1>10 DEF HandledRun, HandledOthers
  <2>2. About(p, id)' = About(p, id)
    BY <1>7, <1>10 DEF About
  <2>3. Known(p)' = Known(p)
    BY <2>1, <2>2 DEF Known
  <2>4. \A n : /\ Repeated(p, id, n)' <=> Repeated(p, id, n)
               /\ Requeued(p, id, n)' <=> Requeued(p, id, n)
               /\ Over(p, n)' <=> Over(p, n)
    BY <1>2, <1>6, <2>1, <2>2 DEF Repeated, Requeued, Over
  <2> QED BY <1>2, <1>5, <1>6, <2>1, <2>3, <2>4 DEF AttemptsAgree
<1>11. CASE m.problem = p /\ m.runId = id
  <2>1. m \in About(p, id) /\ id # 0
    BY <1>2, <1>4, <1>11 DEF About
  <2>2. /\ \A n, k \in A : n = k
        /\ run[p].phase = "Queued" => A = {}
        /\ ~(Waits(p, id) /\ Tried(p, id))
        /\ \A n \in Known(p) : Repeated(p, id, n) => Requeued(p, id, n)
        /\ \A n \in Nat : Over(p, n) =>
              ~Requeued(p, id, n) /\ (Tried(p, id) /\ n = spawned => TriedToTheEnd)
    BY <1>5, <2>1 DEF AttemptsAgree
  (* an earlier attempt than that of the message was taken back before it *)
  <2>3. ASSUME m.type # "RunRequeued", NEW n \in A PROVE n = m.attempt
    <3>1. n \in Known(p) /\ n <= m.attempt
      BY <1>2, <1>3 DEF Known, SpeechInv
    <3>2. ASSUME n < m.attempt PROVE FALSE
      <4>1. Repeated(p, id, n)
        BY <2>1, <3>2 DEF Repeated
      <4>2. PICK c \in About(p, id) : c.type = "RunRequeued" /\ c.attempt = n
        BY <2>2, <3>1, <4>1 DEF Requeued
      <4>3. m.attempt <= n
        BY <1>1, <1>7, <2>3, <4>2
      <4>4. n \in Nat
        BY <1>4, <1>7, <4>2
      <4> QED BY <1>4, <3>2, <4>3, <4>4
    <3>3. n \in Nat
      BY <1>3 DEF EngineBase, EngineTypes, RunStates
    <3> QED BY <1>4, <3>1, <3>2, <3>3
  <2>4. /\ \A n, k \in run'[p].attempts : n = k
        /\ run'[p].phase = "Queued" => run'[p].attempts = {}
    BY <1>2, <1>11, <2>2, <2>3 DEF HandledRun, Events, TestEvents
  <2>5. Known(p)' \subseteq Known(p)
    BY <1>2, <1>5, <1>7, <1>11, <2>1 DEF Known, HandledRun
  <2>6. ASSUME NEW n \in Known(p)', Repeated(p, id, n)' PROVE Requeued(p, id, n)'
    <3>1. Requeued(p, id, n)
      BY <1>8, <2>2, <2>5, <2>6
    <3>2. PICK c \in About(p, id) : c.type = "RunRequeued" /\ c.attempt = n
      BY <3>1 DEF Requeued
    <3>3. CASE c # m
      BY <1>5, <1>7, <3>2, <3>3 DEF Requeued
    <3>4. CASE c = m
      <4>1. m.type = "RunRequeued" /\ m.type \in Closing /\ m.type \notin Events
        BY <3>2, <3>4 DEF Closing, Events, TestEvents
      <4>2. n \in run'[p].attempts
        <5>1. \A d \in About(p, id)' : d.attempt # n
          BY <1>1, <1>7, <3>2, <3>4, <4>1
        <5> QED BY <1>5, <2>6, <5>1 DEF Known
      <4>3. run'[p] = run[p] /\ run[p].phase \notin {"Compiling", "Running"}
        BY <1>2, <1>11, <4>1, <4>2 DEF HandledRun, Decides
      <4>4. Over(p, n)
        BY <4>2, <4>3 DEF Over
      <4>5. n \in Nat
        BY <1>4, <3>2, <3>4
      <4> QED BY <2>2, <3>1, <4>4, <4>5
    <3> QED BY <3>3, <3>4
  <2>7. ASSUME NEW n \in Nat, Over(p, n)' PROVE Over(p, n)
    <3>1. CASE \E c \in About(p, id)' : c.attempt = n /\ c.type \in Terminal
      BY <1>7, <3>1 DEF Over
    <3>2. CASE n \in run'[p].attempts /\ run'[p].phase \notin {"Compiling", "Running"}
      <4>1. CASE run'[p] = run[p]
        BY <3>2, <4>1 DEF Over
      <4>2. CASE m.type \in Terminal /\ n \in A \cup {m.attempt} /\ m.type # "RunRequeued"
        BY <2>1, <2>3, <4>2 DEF Over
      <4> QED BY <1>2, <1>11, <3>2, <4>1, <4>2 DEF HandledRun, Events, TestEvents, Terminal
    <3> QED BY <1>5, <2>7, <3>1, <3>2 DEF Over
  <2> QED BY <1>2, <1>5, <1>6, <1>9, <2>2, <2>4, <2>6, <2>7 DEF AttemptsAgree
<1> QED BY <1>10, <1>11

LEMMA HandlePipe ==
    ASSUME EngineInv, HandleMessage PROVE PipeInv'
<1> DEFINE m == Head(messages)
<1>1. /\ Said \subseteq Said' \cup {m} /\ HandledRun(m) /\ HandledOthers(m) /\ Decides(m)
      /\ attempt' = attempt /\ retiring' = retiring /\ worker' = worker /\ foreground' = foreground
      /\ active' = active /\ Commanded' = Commanded /\ Queued' = Queued
  BY HandleFacts DEF Handled
<1>2. PipeInv
  BY DEF EngineInv, RunningInv, HandleMessage
<1> HIDE DEF m
<1> SUFFICES ASSUME ~worker.failed, NEW p \in Problems
             PROVE /\ RunActive(p)' => RunOwed(p)'
                   /\ StressActive(p)' => StressOwed(p)'
                   /\ InputActive(p)' => InputOwed(p)'
  BY <1>1 DEF PipeInv
<1>3. /\ run'[p].id = run[p].id /\ stress'[p].id = stress[p].id /\ userInput'[p].id = userInput[p].id
      /\ RunActive(p)' => RunActive(p)
      /\ StressActive(p)' => StressActive(p)
      /\ InputActive(p)' => InputActive(p)
  BY HandleScreen
<1>4. ASSUME NEW id, NEW types, Told(p, id, types), ~(m.problem = p /\ m.runId = id /\ m.type \in types)
      PROVE \E c \in Said' : c.problem = p /\ c.runId = id /\ c.type \in types
  BY <1>1, <1>4 DEF Told, About
<1>5. ASSUME RunActive(p)' PROVE RunOwed(p)'
  <2>1. RunOwed(p)
    BY <1>2, <1>3, <1>5 DEF PipeInv
  <2>2. CASE Told(p, run[p].id, {"RunCompleted", "RunFailed"})
    <3>1. ~(m.problem = p /\ m.runId = run[p].id /\ m.type \in {"RunCompleted", "RunFailed"})
      BY <1>1, <1>5 DEF Decides, RunActive
    <3> QED BY <1>3, <1>4, <2>2, <3>1 DEF RunOwed, Told, About
  <2>3. CASE ~Told(p, run[p].id, {"RunCompleted", "RunFailed"})
    BY <1>1, <1>3, <2>1, <2>3 DEF RunOwed, IsCommanded, ActiveLatest, RetiringLatest
  <2> QED BY <2>2, <2>3
<1>6. ASSUME StressActive(p)' PROVE StressOwed(p)'
  <2> DEFINE types == {"RunCompleted", "RunFailed", "StressCancelled"}
  <2>1. StressOwed(p)
    BY <1>2, <1>3, <1>6 DEF PipeInv
  <2>2. CASE Told(p, stress[p].id, types)
    <3>1. ~(m.problem = p /\ m.runId = stress[p].id /\ m.type \in types)
      BY <1>1, <1>6 DEF Decides, StressActive
    <3> QED BY <1>3, <1>4, <2>2, <3>1 DEF StressOwed, Told, About
  <2>3. CASE ~Told(p, stress[p].id, types)
    BY <1>1, <1>3, <2>1, <2>3 DEF StressOwed, IsCommanded, Foreground, ActiveLatest, RetiringLatest
  <2> QED BY <2>2, <2>3
<1>7. ASSUME InputActive(p)' PROVE InputOwed(p)'
  <2> DEFINE types == {"InputFinished", "RunFailed"}
  <2>1. InputOwed(p)
    BY <1>2, <1>3, <1>7 DEF PipeInv
  <2>2. CASE Told(p, userInput[p].id, types)
    <3>1. ~(m.problem = p /\ m.runId = userInput[p].id /\ m.type \in types)
      BY <1>1, <1>7 DEF Decides, InputActive
    <3> QED BY <1>3, <1>4, <2>2, <3>1 DEF InputOwed, Told, About
  <2>3. CASE ~Told(p, userInput[p].id, types)
    BY <1>1, <1>3, <2>1, <2>3 DEF InputOwed, IsCommanded, Foreground, ActiveLatest, RetiringLatest
  <2> QED BY <2>2, <2>3
<1> QED BY <1>5, <1>6, <1>7

LEMMA HandleKeeps ==
    ASSUME EngineInv, HandleMessage PROVE EngineInv'
<1>1. /\ Said' \subseteq Said
      /\ UNCHANGED <<nextRunId, source, revision, commands, worker, attempt, spawned, stopping,
                     active, foreground, pending, latestSeen, retired, retiring, gate>>
      /\ Commanded' = Commanded /\ Queued' = Queued /\ Held' = Held
  BY HandleFacts
<1>2. IdInv /\ KindInv /\ ScreenInv /\ GateInv /\ NewestInv
  BY DEF EngineInv, RunningInv, HandleMessage
<1>3. \A q \in Problems :
         /\ run'[q].id = run[q].id /\ stress'[q].id = stress[q].id
         /\ userInput'[q].id = userInput[q].id /\ userInput'[q].revision = userInput[q].revision
         /\ RunActive(q)' => RunActive(q)
         /\ StressActive(q)' => StressActive(q)
         /\ InputActive(q)' => InputActive(q)
  BY HandleScreen
<1>4. IdInv'
  BY <1>1, <1>2, <1>3 DEF IdInv
<1>5. KindInv'
  BY <1>1, <1>2, <1>3 DEF KindInv
<1>6. ScreenInv'
  BY <1>1, <1>2, <1>3 DEF ScreenInv
<1>7. GateInv'
  BY <1>1, <1>2 DEF GateInv
<1>8. NewestInv'
  BY <1>1, <1>2, <1>3 DEF NewestInv
<1> QED BY <1>4, <1>5, <1>6, <1>7, <1>8, HandleBase, HandleSpeech, HandleAttempts, HandlePipe
        DEF EngineInv, RunningInv

-------------------------------------------------------------------------------
(* The steps of the worker: what they have in common. *)

(* Requests move from the commands to the scheduler, and messages are      *)
(* about requests the scheduler held.                                      *)
Moved ==
    /\ UNCHANGED uiVars /\ gate' = gate
    /\ Range(commands') \subseteq Range(commands) /\ InOrder(commands')
    /\ Held' \subseteq Held \cup Commanded
    /\ \A x \in Held' : x.runId <= latestSeen'[x.problem]
    /\ \A q \in Problems : /\ latestSeen[q] <= latestSeen'[q] /\ latestSeen'[q] < nextRunId
                           /\ latestSeen'[q] \in Nat /\ retired'[q] <= revision[q]
    /\ \A x \in Commanded' : \A q \in Problems : latestSeen'[q] < x.runId
    /\ \A m \in Said' : m \in Said \/ \E x \in Held : /\ m.problem = x.problem /\ m.runId = x.runId
                                                     /\ m.revision = x.revision

LEMMA MovedKeeps ==
    ASSUME EngineBase, IdInv, KindInv, ScreenInv, GateInv, Moved
    PROVE IdInv' /\ KindInv' /\ ScreenInv' /\ GateInv'
<1>1. UNCHANGED <<ui, nextRunId, source, revision, run, stress, userInput, gate>>
  BY DEF Moved, uiVars, appVars
<1>2. Commanded' \subseteq Commanded
  BY DEF Moved, Commanded, RunsOf
<1>3. /\ Said \subseteq Notes /\ Held \subseteq Request /\ Commanded \subseteq Request
      /\ \A m \in Notes : m.runId \in Nat \ {0} /\ m.problem \in Problems
      /\ \A x \in Request : x.runId \in Nat \ {0} /\ x.problem \in Problems
      /\ \A q \in Problems : latestSeen[q] \in Nat
  BY Fields
<1>4. \A m \in Said' : m.runId <= latestSeen'[m.problem]
  <2> SUFFICES ASSUME NEW m \in Said' PROVE m.runId <= latestSeen'[m.problem]
    OBVIOUS
  <2>1. /\ m.runId \in Nat /\ m.problem \in Problems /\ m.runId <= latestSeen[m.problem]
    BY <1>3 DEF Moved, IdInv
  <2> QED BY <1>3, <2>1 DEF Moved
<1>5. IdInv'
  BY <1>1, <1>2, <1>4 DEF IdInv, Moved
<1>6. KindInv'
  BY <1>1, <1>2 DEF KindInv, Moved
<1>7. ScreenInv'
  BY <1>1 DEF ScreenInv, RunActive, StressActive, InputActive
<1>8. GateInv'
  BY <1>1 DEF GateInv, Moved
<1> QED BY <1>5, <1>6, <1>7, <1>8

(* Nothing is said. *)
LEMMA QuietSpeech ==
    ASSUME SpeechInv, UNCHANGED <<uiVars, messages, spawned>>,
           attempt' # None \/ retiring' # None => attempt # None \/ retiring # None
    PROVE SpeechInv'
BY DEF SpeechInv, Said, uiVars, appVars

(* No run waits that did not wait before, none is tried anew. *)
LEMMA QuietAttempts ==
    ASSUME EngineTypes, AttemptsInv, UNCHANGED <<uiVars, spawned>>, Said' = Said,
           \A p \in Problems : \A id \in 0..MaxRunId :
              /\ Waits(p, id)' => Waits(p, id)
              /\ Tried(p, id)' => Tried(p, id) /\ (TriedToTheEnd => TriedToTheEnd')
    PROVE AttemptsInv'
<1> SUFFICES ASSUME NEW p \in Problems PROVE AttemptsAgree(p)'
  BY DEF AttemptsInv
<1> DEFINE id == run[p].id
<1>1. run' = run /\ spawned' = spawned /\ Said' = Said
  BY DEF uiVars, appVars
<1>2. AttemptsAgree(p)
  BY DEF AttemptsInv
<1>3. /\ About(p, id)' = About(p, id) /\ Known(p)' = Known(p)
      /\ \A n : Requeued(p, id, n)' <=> Requeued(p, id, n)
      /\ \A n : Over(p, n)' <=> Over(p, n)
  BY <1>1 DEF About, Known, Requeued, Over
<1>4. /\ Waits(p, id)' => Waits(p, id)
      /\ Tried(p, id)' => Tried(p, id) /\ (TriedToTheEnd => TriedToTheEnd')
  <2>1. id \in 0..MaxRunId
    BY DEF EngineTypes, RunStates
  <2> QED BY <1>1, <2>1
<1>5. \A n : Repeated(p, id, n)' => Repeated(p, id, n)
  BY <1>1, <1>3, <1>4 DEF Repeated
<1> SUFFICES ASSUME id # 0
             PROVE /\ ~(Waits(p, id)' /\ Tried(p, id)')
                   /\ \A n \in Known(p)' : Repeated(p, id, n)' => Requeued(p, id, n)'
                   /\ \A n \in Nat : Over(p, n)' =>
                         ~Requeued(p, id, n)' /\ (Tried(p, id)' /\ n = spawned' => TriedToTheEnd')
  BY <1>1, <1>2 DEF AttemptsAgree
<1>6. /\ ~(Waits(p, id) /\ Tried(p, id))
      /\ \A n \in Known(p) : Repeated(p, id, n) => Requeued(p, id, n)
      /\ \A n \in Nat : Over(p, n) =>
             ~Requeued(p, id, n) /\ (Tried(p, id) /\ n = spawned => TriedToTheEnd)
  BY <1>2 DEF AttemptsAgree
<1>7. \A n \in Known(p)' : Repeated(p, id, n)' => Requeued(p, id, n)'
  BY <1>3, <1>5, <1>6
<1> QED BY <1>1, <1>3, <1>4, <1>6, <1>7

(* The active request and the queue have no sample run in common. *)
LEMMA ActiveApart ==
    ASSUME IInv, active # None, active.request.kind = "Samples", NEW x \in Queued
    PROVE x.problem # active.request.problem \/ x.runId # active.request.runId
<1> SUFFICES ASSUME x.problem = active.request.problem, x.runId = active.request.runId
             PROVE FALSE
  OBVIOUS
<1>1. HasLogicalRequest(x.problem) /\ latestSeen[x.problem] = x.runId
  BY DEF Queued, Range, IInv, InvariantsHold, QueuedAreNewest, HasLogicalRequest
<1>2. active.state = "Obsolete"
  BY <1>1, ActiveFields DEF IInv, InvariantsHold, ActiveAgrees, LogicalStates
<1>3. x.runId < latestSeen[x.problem] /\ latestSeen[x.problem] \in Nat
  BY <1>2, ActiveFields, LatestSeenIsNat, RequestFields DEF IInv, InvariantsHold, ActiveAgrees
<1> QED BY <1>1, <1>3

(* The five ways a step of the worker changes the engine. *)
Turn == \E pc \in {"top", "drain", "wait", "cleanup"} :
           /\ worker.pc \in {"top", "drain", "wait"} /\ (pc = "cleanup" => stopping)
           /\ GoTo(pc) /\ NoCompletion
Take == worker.pc \in {"top", "drain"} /\ TakeCompletion
Process == \E next \in {"top", "drain"} :
              /\ worker.pc \in {"wait", "drain"} /\ ~stopping /\ commands # <<>>
              /\ ProcessCommand(next)
Starts == /\ worker.pc = "drain" /\ ~stopping /\ attempt = None /\ StartNext
          /\ GoTo(IF active' = None THEN "wait" ELSE "spawn")
          /\ UNCHANGED <<uiVars, commands, messages, attempt, spawned, stopping, gate>>
Cleanup == CleanupCancels \/ CleanupJoins

LEMMA WorkerCases ==
    ASSUME WorkerStep
    PROVE Turn \/ Take \/ Process \/ Starts \/ SpawnAttempt \/ PublishOutcome \/ Cleanup
<1>1. CASE LoopTop
  BY <1>1 DEF LoopTop, Turn, Take
<1>2. CASE DrainCommands
  BY <1>2 DEF DrainCommands, BatchOver, Turn, Process
<1>3. CASE CheckAgain
  BY <1>3 DEF CheckAgain, Turn, Take, Starts
<1>4. CASE WaitForCommand
  BY <1>4 DEF WaitForCommand, Turn, Process
<1> QED BY <1>1, <1>2, <1>3, <1>4 DEF WorkerStep, Cleanup

-------------------------------------------------------------------------------
(* The worker goes on to another point of its loop. *)
LEMMA TurnKeeps ==
    ASSUME EngineInv, Turn PROVE EngineInv'
<1>1. EngineTypes /\ IInv /\ WorkerInv /\ RetiringApart
  BY DEF EngineInv, EngineBase
<1>2. /\ UNCHANGED <<uiVars, commands, messages, attempt, spawned, stopping, vars>>
      /\ worker.pc \in {"top", "drain", "wait"} /\ worker'.pc \in {"top", "drain", "wait", "cleanup"}
      /\ worker'.outcome = worker.outcome /\ worker'.failed = worker.failed
      /\ worker' \in WorkerStates /\ (worker'.pc = "cleanup" => stopping)
  <2>1. PICK pc \in {"top", "drain", "wait", "cleanup"} :
           /\ worker.pc \in {"top", "drain", "wait"} /\ (pc = "cleanup" => stopping)
           /\ worker' = [worker EXCEPT !.pc = pc, !.drained = 0] /\ NoCompletion
    BY DEF Turn, GoTo
  <2>2. worker \in WorkerStates /\ pc \in WorkerPcs
    BY <1>1 DEF EngineTypes, WorkerPcs
  <2>3. /\ worker' \in WorkerStates /\ worker'.pc = pc
        /\ worker'.outcome = worker.outcome /\ worker'.failed = worker.failed
    BY <2>1, <2>2 DEF WorkerStates
  <2> QED BY <2>1, <2>3 DEF NoCompletion
<1>3. /\ UNCHANGED <<ui, nextRunId, source, revision, run, stress, userInput>>
      /\ UNCHANGED <<active, foreground, pending, latestSeen, retired, retiring, gate>>
      /\ Said' = Said /\ Commanded' = Commanded /\ Held' = Held /\ Queued' = Queued
  BY <1>2 DEF uiVars, appVars, vars, Said, Commanded, Held, Queued
<1>4. EngineTypes'
  BY <1>1, <1>2, <1>3 DEF EngineTypes
<1>5. IInv'
  BY <1>1, <1>2, SchedulerKeeps
<1>6. WorkerInv'
  BY <1>1, <1>2, <1>3 DEF WorkerInv
<1>7. RetiringApart'
  BY <1>1, <1>3 DEF RetiringApart
<1>8. EngineBase'
  BY <1>4, <1>5, <1>6, <1>7 DEF EngineBase
<1> SUFFICES ASSUME ui = "running" PROVE RunningInv'
  BY <1>3, <1>8 DEF EngineInv, RunningInv
<1>9. IdInv /\ KindInv /\ ScreenInv /\ GateInv /\ SpeechInv /\ AttemptsInv /\ NewestInv /\ PipeInv
  BY DEF EngineInv, RunningInv
<1>10. IdInv' /\ KindInv' /\ ScreenInv' /\ GateInv'
  BY <1>2, <1>3, <1>9 DEF IdInv, KindInv, ScreenInv, GateInv, RunActive, StressActive, InputActive
<1>11. SpeechInv'
  BY <1>2, <1>3, <1>9, QuietSpeech
<1>12. AttemptsInv'
  <2>1. /\ \A p, id : Waits(p, id)' <=> Waits(p, id)
        /\ \A p, id : Tried(p, id)' <=> Tried(p, id)
        /\ TriedToTheEnd' <=> TriedToTheEnd
    BY <1>2, <1>3 DEF Waits, Tried, TriedToTheEnd
  <2> QED BY <1>1, <1>2, <1>3, <1>9, <2>1, QuietAttempts
<1>13. NewestInv'
  BY <1>2, <1>3, <1>9 DEF NewestInv, RunActive, StressActive, InputActive
<1>14. PipeInv'
  BY <1>2, <1>3, <1>9 DEF PipeInv, RunActive, StressActive, InputActive, RunOwed, StressOwed, InputOwed,
     IsCommanded, ActiveLatest, RetiringLatest, Foreground, Told, About
<1> QED BY <1>3, <1>9, <1>10, <1>11, <1>12, <1>13, <1>14 DEF RunningInv

(* The worker joins the attempt and takes the active request back. *)
LEMMA TakeFacts ==
    ASSUME EngineBase, Take
    PROVE /\ UNCHANGED <<ui, nextRunId, source, revision, run, stress, userInput, uiVars>>
          /\ UNCHANGED <<commands, messages, spawned, stopping, foreground, pending, latestSeen, retired, gate>>
          /\ Said' = Said /\ Commanded' = Commanded /\ Held' = Held /\ Queued' = Queued
          /\ attempt # None /\ attempt' = None /\ attempt.request = active.request /\ active # None
          /\ retiring = None /\ worker' \in WorkerStates /\ worker.pc # "spawn"
          /\ \/ /\ worker'.pc = "cleanup" /\ worker'.failed /\ active' = active /\ retiring' = None
             \/ /\ worker'.pc = "publish" /\ worker'.outcome = attempt.outcome
                /\ worker'.failed = worker.failed
                /\ attempt.outcome \in {"Completed", "Cancelled", "Failed"}
                /\ active' = None /\ retiring' # None /\ retiring'.request = active.request
                /\ retiring'.isLatest = ActiveIsLatest
                /\ retiring'.requeueEligible = ActiveIsEligible
<1>1. /\ attempt # None /\ attempt.pc = "ended" /\ attempt' = None
      /\ UNCHANGED <<uiVars, commands, messages, spawned, stopping, gate>>
      /\ worker.pc \in {"top", "drain"}
  BY DEF Take, TakeCompletion, Ended
<1>2. EngineTypes /\ IInv /\ WorkerInv
  BY DEF EngineBase
<1>3. /\ active # None /\ attempt.request = active.request /\ attempt.outcome # None
      /\ retiring = None /\ attempt.outcome \in Outcomes
  BY <1>1, <1>2 DEF WorkerInv, EngineTypes, Attempts
<1>4. UNCHANGED <<ui, nextRunId, source, revision, run, stress, userInput>>
      /\ Said' = Said /\ Commanded' = Commanded
  BY <1>1 DEF uiVars, appVars, Said, Commanded
<1>5. CASE attempt.outcome = "Panicked"
  <2>1. /\ UNCHANGED <<active, foreground, pending, latestSeen, retired, retiring>>
        /\ worker' = [worker EXCEPT !.pc = "cleanup", !.drained = 0, !.failed = TRUE]
    BY <1>5 DEF Take, TakeCompletion, Fault, queueVars
  <2>2. worker' \in WorkerStates /\ worker'.pc = "cleanup" /\ worker'.failed
    BY <1>2, <2>1 DEF EngineTypes, WorkerStates, WorkerPcs
  <2>3. Held' = Held /\ Queued' = Queued
    BY <2>1 DEF Held, Queued
  <2> QED BY <1>1, <1>3, <1>4, <2>1, <2>2, <2>3
<1>6. CASE attempt.outcome # "Panicked"
  <2>1. /\ worker' = [worker EXCEPT !.pc = "publish", !.outcome = attempt.outcome]
        /\ RetireActive
    BY <1>6 DEF Take, TakeCompletion
  <2>2. attempt.outcome \in {"Completed", "Cancelled", "Failed"}
    BY <1>3, <1>6 DEF Outcomes
  <2>3. worker' \in WorkerStates /\ worker'.pc = "publish" /\ worker'.outcome = attempt.outcome
        /\ worker'.failed = worker.failed
    BY <1>2, <1>3, <2>1 DEF EngineTypes, WorkerStates, WorkerPcs
  <2>4. /\ UNCHANGED <<foreground, pending, latestSeen, retired>> /\ active' = None
        /\ retiring' = [request |-> active.request, isLatest |-> ActiveIsLatest,
                        requeueEligible |-> ActiveIsEligible]
    BY <2>1 DEF RetireActive, queueVars
  <2>5. retiring' # None
    <3>1. active \in ActiveRequest
      BY <1>2, <1>3 DEF IInv, TypeOK
    <3>2. retiring' \in RetiredActive
      BY <2>4, <3>1 DEF ActiveRequest, RetiredActive, ActiveIsEligible, ActiveIsLatest, PreservedOnPreemption
    <3> QED BY <3>2, NoneIsNoRequest
  <2>6. Held' = Held /\ Queued' = Queued
    BY <1>3, <2>4, <2>5 DEF Held, Queued
  <2> QED BY <1>1, <1>3, <1>4, <2>2, <2>3, <2>4, <2>5, <2>6
<1> QED BY <1>5, <1>6

LEMMA TakeBase ==
    ASSUME EngineBase, Take PROVE EngineBase'
<1>1. EngineTypes /\ IInv /\ WorkerInv /\ RetiringApart
  BY DEF EngineBase
<1>2. EngineTypes'
  BY <1>1, TakeFacts DEF EngineTypes
<1>3. IInv'
  <2>1. CASE attempt.outcome = "Panicked"
    BY <1>1, <2>1, SchedulerKeeps DEF Take, TakeCompletion, vars, queueVars
  <2>2. CASE attempt.outcome # "Panicked"
    <3>1. WorkerRetire
      BY <2>2, TakeFacts DEF Take, TakeCompletion, WorkerRetire
    <3> QED BY <1>1, <3>1, SchedulerKeeps DEF Next
  <2> QED BY <2>1, <2>2
<1>4. WorkerInv'
  BY <1>1, TakeFacts DEF WorkerInv
<1>5. RetiringApart'
  <2> SUFFICES ASSUME retiring' # None PROVE RetiringApart'
    BY DEF RetiringApart
  <2>1. /\ retiring'.request = active.request /\ retiring'.isLatest = ActiveIsLatest
        /\ retiring'.requeueEligible = ActiveIsEligible /\ active # None
        /\ latestSeen' = latestSeen /\ Queued' = Queued
    BY TakeFacts
  <2>2. active.request.runId <= latestSeen[active.request.problem]
    BY <1>1, <2>1, ActiveFields
  <2>3. ActiveIsEligible <=> ActiveIsLatest /\ active.request.kind = "Samples"
    BY DEF ActiveIsEligible, PreservedOnPreemption
  <2> QED BY <1>1, <2>1, <2>2, <2>3, ActiveApart DEF RetiringApart
<1> QED BY <1>2, <1>3, <1>4, <1>5 DEF EngineBase

LEMMA TakePipe ==
    ASSUME EngineBase, PipeInv, Take PROVE PipeInv'
<1> SUFFICES ASSUME ~worker'.failed, NEW p \in Problems
             PROVE /\ RunActive(p) => RunOwed(p)'
                   /\ StressActive(p) => StressOwed(p)'
                   /\ InputActive(p) => InputOwed(p)'
  BY TakeFacts DEF PipeInv, RunActive, StressActive, InputActive
<1>1. /\ worker'.outcome = attempt.outcome /\ ~worker.failed
      /\ attempt.outcome \in {"Completed", "Cancelled", "Failed"}
      /\ retiring' # None /\ retiring'.request = active.request
      /\ retiring'.isLatest = ActiveIsLatest /\ attempt # None
  BY TakeFacts
<1>2. ASSUME NEW id, ActiveLatest(p, id) PROVE RetiringLatest(p, id)'
  <2>1. ActiveIsLatest
    BY <1>2 DEF ActiveLatest, ActiveIsLatest, EngineBase, IInv, InvariantsHold, ActiveAgrees
  <2> QED BY <1>1, <1>2, <2>1 DEF ActiveLatest, RetiringLatest
<1>3. /\ \A id : IsCommanded(p, id)' <=> IsCommanded(p, id)
      /\ \A id : Foreground(p, id)' <=> Foreground(p, id)
      /\ \A id : ~RetiringLatest(p, id)
      /\ \A id, types : Told(p, id, types)' <=> Told(p, id, types)
      /\ Queued' = Queued /\ run' = run /\ stress' = stress /\ userInput' = userInput
  BY TakeFacts DEF IsCommanded, Foreground, RetiringLatest, Told, About
<1>4. /\ RunActive(p) => RunOwed(p)
      /\ StressActive(p) => StressOwed(p)
      /\ InputActive(p) => InputOwed(p)
  BY <1>1 DEF PipeInv
<1>5. RunOwed(p) => RunOwed(p)'
  BY <1>2, <1>3 DEF RunOwed
<1>6. StressOwed(p) => StressOwed(p)'
  BY <1>1, <1>2, <1>3 DEF StressOwed
<1>7. InputOwed(p) => InputOwed(p)'
  BY <1>1, <1>2, <1>3 DEF InputOwed
<1> QED BY <1>4, <1>5, <1>6, <1>7

LEMMA TakeKeeps ==
    ASSUME EngineInv, Take PROVE EngineInv'
<1>1. EngineBase /\ EngineBase'
  BY TakeBase DEF EngineInv
<1> SUFFICES ASSUME ui = "running" PROVE RunningInv'
  BY <1>1, TakeFacts DEF EngineInv, RunningInv
<1>2. IdInv /\ KindInv /\ ScreenInv /\ GateInv /\ SpeechInv /\ AttemptsInv /\ NewestInv /\ PipeInv
  BY DEF EngineInv, RunningInv
<1>3. IdInv' /\ KindInv' /\ ScreenInv' /\ GateInv'
  BY <1>1, <1>2, TakeFacts DEF IdInv, KindInv, ScreenInv, GateInv, RunActive, StressActive, InputActive
<1>4. SpeechInv'
  BY <1>1, <1>2, TakeFacts, QuietSpeech
<1>5. AttemptsInv'
  <2>1. \A p, id : Waits(p, id)' => Waits(p, id)
    BY <1>1, TakeFacts DEF Waits
  <2>2. \A p, id : Tried(p, id)' => Tried(p, id)
    BY <1>1, TakeFacts DEF Tried
  <2>3. retiring' # None => (TriedToTheEnd => TriedToTheEnd')
    BY <1>1, TakeFacts DEF TriedToTheEnd
  <2>4. \A p, id : Tried(p, id)' => retiring' # None
    BY <1>1, TakeFacts DEF Tried
  <2> QED BY <1>1, <1>2, <2>1, <2>2, <2>3, <2>4, QuietAttempts, TakeFacts DEF EngineBase
<1>6. NewestInv'
  BY <1>1, <1>2, TakeFacts DEF NewestInv, RunActive, StressActive, InputActive
<1> QED BY <1>1, <1>2, <1>3, <1>4, <1>5, <1>6, TakePipe, TakeFacts DEF RunningInv

-------------------------------------------------------------------------------
(* The worker starts the next request. *)
LEMMA StartFacts ==
    ASSUME EngineBase, Starts
    PROVE /\ UNCHANGED <<ui, nextRunId, source, revision, run, stress, userInput, uiVars>>
          /\ UNCHANGED <<commands, messages, spawned, stopping, attempt, latestSeen, retired, gate>>
          /\ Said' = Said /\ Commanded' = Commanded
          /\ ~stopping /\ attempt = None /\ active = None /\ retiring = None /\ retiring' = None
          /\ worker.pc = "drain" /\ worker' \in WorkerStates
          /\ worker'.failed = worker.failed /\ worker'.outcome = worker.outcome
          /\ worker'.pc = IF active' = None THEN "wait" ELSE "spawn"
<1>1. EngineTypes /\ WorkerInv
  BY DEF EngineBase
<1>2. /\ worker.pc = "drain" /\ ~stopping /\ attempt = None
      /\ UNCHANGED <<uiVars, commands, messages, spawned, stopping, attempt, latestSeen, retired, retiring, gate>>
      /\ active = None
      /\ worker' = [worker EXCEPT !.pc = IF active' = None THEN "wait" ELSE "spawn", !.drained = 0]
  BY DEF Starts, StartNext, GoTo
<1>3. /\ worker' \in WorkerStates /\ worker'.failed = worker.failed /\ worker'.outcome = worker.outcome
      /\ worker'.pc = IF active' = None THEN "wait" ELSE "spawn"
  BY <1>1, <1>2 DEF EngineTypes, WorkerStates, WorkerPcs
<1>4. retiring = None
  BY <1>1, <1>2 DEF WorkerInv
<1>5. UNCHANGED <<ui, nextRunId, source, revision, run, stress, userInput>>
      /\ Said' = Said /\ Commanded' = Commanded
  BY <1>2 DEF uiVars, appVars, Said, Commanded
<1> QED BY <1>2, <1>3, <1>4, <1>5

LEMMA StartBase ==
    ASSUME EngineBase, Starts PROVE EngineBase'
<1>1. EngineTypes /\ IInv /\ WorkerInv /\ RetiringApart
  BY DEF EngineBase
<1>2. EngineTypes'
  BY <1>1, StartFacts DEF EngineTypes
<1>3. WorkerStart
  BY StartFacts DEF Starts, WorkerStart
<1>4. IInv'
  BY <1>1, <1>3, SchedulerKeeps DEF Next
<1>5. WorkerInv' /\ RetiringApart'
  BY <1>1, StartFacts DEF WorkerInv, RetiringApart
<1> QED BY <1>2, <1>4, <1>5 DEF EngineBase

(* The order of start_next, as a set: the foreground first. *)
LEMMA StartOrderIsQueued ==
    ASSUME IInv
    PROVE /\ StartOrder \in Seq(Request) /\ Len(StartOrder) \in Nat
          /\ DOMAIN StartOrder = 1..Len(StartOrder)
          /\ \A k \in DOMAIN StartOrder : StartOrder[k] \in Queued
          /\ \A x \in Queued : \E k \in DOMAIN StartOrder : StartOrder[k] = x
          /\ foreground # None => 1 \in DOMAIN StartOrder /\ StartOrder[1] = foreground
<1>1. pending \in Seq(Request) /\ foreground \in Request \cup {None}
  BY DEF IInv, TypeOK
<1>2. /\ Len(pending) \in Nat /\ DOMAIN pending = 1..Len(pending)
  BY <1>1, LenProperties
<1>3. CASE foreground = None
  <2>1. StartOrder = pending
    BY <1>1, <1>3, ConcatEmptySeq DEF StartOrder
  <2> QED BY <1>1, <1>2, <1>3, <2>1 DEF Queued, Range
<1>4. CASE foreground # None
  <2> DEFINE f == <<foreground>>
  <2>1. /\ f \in Seq(Request) /\ Len(f) = 1 /\ f[1] = foreground
    BY <1>1, <1>4
  <2>2. StartOrder = f \o pending
    BY <1>4 DEF StartOrder
  <2> HIDE DEF f
  <2>3. /\ StartOrder \in Seq(Request) /\ Len(StartOrder) = 1 + Len(pending)
        /\ \A i \in 1..(1 + Len(pending)) :
              StartOrder[i] = IF i <= 1 THEN f[i] ELSE pending[i - 1]
    BY <1>1, <2>1, <2>2, ConcatProperties
  <2>4. DOMAIN StartOrder = 1..(1 + Len(pending))
    BY <1>2, <2>3, LenProperties
  <2>5. StartOrder[1] = foreground /\ 1 \in DOMAIN StartOrder
    BY <1>2, <2>1, <2>3, <2>4
  <2>6. \A i \in DOMAIN pending : i + 1 \in DOMAIN StartOrder /\ StartOrder[i + 1] = pending[i]
    BY <1>2, <2>3, <2>4
  <2>7. \A i \in DOMAIN StartOrder : i = 1 \/ (i - 1 \in DOMAIN pending /\ StartOrder[i] = pending[i - 1])
    BY <1>2, <2>3, <2>4
  <2>8. \A k \in DOMAIN StartOrder : StartOrder[k] \in Queued
    BY <1>4, <2>5, <2>7 DEF Queued, Range
  <2>9. \A x \in Queued : \E k \in DOMAIN StartOrder : StartOrder[k] = x
    BY <1>4, <2>5, <2>6 DEF Queued, Range
  <2> QED BY <1>2, <2>3, <2>4, <2>5, <2>8, <2>9
<1> QED BY <1>3, <1>4

(* What is started was queued; what may be started is not lost, and the    *)
(* foreground is not put off.                                              *)
LEMMA StartKeepsRequests ==
    ASSUME IInv, StartNext, Len(pending) \in Nat
    PROVE /\ Queued' \subseteq Queued
          /\ active' # None => active'.request \in Queued /\ active'.state = "Latest"
          /\ \A x \in Queued : ~UserInputRetired(x) =>
                \/ active' # None /\ active'.request = x
                \/ x \in Queued' /\ x # foreground
<1> DEFINE order == StartOrder
           n == Len(order)
<1>1. /\ order \in Seq(Request) /\ n \in Nat /\ DOMAIN order = 1..n
      /\ \A k \in DOMAIN order : order[k] \in Queued
      /\ \A x \in Queued : \E k \in DOMAIN order : order[k] = x
      /\ foreground # None => 1 \in DOMAIN order /\ order[1] = foreground
  BY StartOrderIsQueued
<1>2. active = None /\ foreground' = None
  BY DEF StartNext
<1>3. CASE \A i \in DOMAIN order : ~Startable(i)
  <2>1. pending' = <<>> /\ active' = None
    BY <1>2, <1>3 DEF StartNext
  <2>2. Queued' = {}
    BY <1>2, <2>1 DEF Queued, Range
  <2> QED BY <1>1, <1>3, <2>1, <2>2 DEF Startable
<1>4. CASE ~\A i \in DOMAIN order : ~Startable(i)
  <2>1. PICK i \in DOMAIN order :
           /\ Startable(i)
           /\ \A j \in 1..(i - 1) : ~Startable(j)
           /\ active' = [request |-> order[i], state |-> "Latest", cancelRequested |-> FALSE]
           /\ pending' = SubSeq(order, i + 1, n)
    BY <1>4 DEF StartNext
  <2>2. order[i] \in Request /\ i \in 1..n
    BY <1>1, <2>1
  <2>3. active' \in ActiveRequest /\ active'.request = order[i] /\ active'.state = "Latest"
    BY <2>1, <2>2 DEF ActiveRequest, LogicalStates
  <2>4. active' # None
    BY <2>3, NoneIsNoRequest
  <2> HIDE DEF order, n
  <2>5. /\ DOMAIN pending' = 1..(n - i)
        /\ \A k \in 1..(n - i) : pending'[k] = order[k + i] /\ k + i \in DOMAIN order
    BY <1>1, <2>1, <2>2 DEF n
  <2>6. Queued' = {order[k + i] : k \in 1..(n - i)}
    BY <1>2, <2>5 DEF Queued, Range
  <2>7. Queued' \subseteq Queued
    BY <1>1, <2>5, <2>6
  <2>8. ASSUME NEW x \in Queued, ~UserInputRetired(x)
        PROVE active'.request = x \/ (x \in Queued' /\ x # foreground)
    <3>1. CASE x = foreground
      <4>1. foreground # None
        <5>1. x \in Request
          BY <1>1, <2>8, ElementOfSeq
        <5> QED BY <3>1, <5>1, NoneIsNoRequest
      <4>2. Startable(1)
        BY <1>1, <2>8, <3>1, <4>1 DEF Startable, order
      <4>3. i = 1
        BY <1>1, <2>1, <2>2, <4>2
      <4> QED BY <1>1, <2>3, <3>1, <4>1, <4>3
    <3>2. CASE x # foreground
      <4>1. PICK k \in DOMAIN order : order[k] = x
        BY <1>1, <2>8
      <4>2. Startable(k)
        BY <2>8, <4>1 DEF Startable, order
      <4>3. k = i \/ k > i
        BY <1>1, <2>1, <2>2, <4>1, <4>2
      <4>4. CASE k > i
        <5>1. k - i \in 1..(n - i) /\ (k - i) + i = k
          BY <1>1, <2>2, <4>1, <4>4
        <5> QED BY <2>6, <3>2, <4>1, <5>1
      <4> QED BY <2>3, <4>1, <4>3, <4>4
    <3> QED BY <3>1, <3>2
  <2> QED BY <2>1, <2>3, <2>4, <2>7, <2>8, <1>1
<1> QED BY <1>3, <1>4

(* What the screen waits for is never skipped. *)
LEMMA ShownIsNotRetired ==
    ASSUME EngineBase, KindInv, ScreenInv, GateInv, NEW p \in Problems,
           NEW x \in Commanded \cup Held, x.problem = p,
           \/ RunActive(p) /\ x.runId = run[p].id
           \/ StressActive(p) /\ x.runId = stress[p].id
           \/ InputActive(p) /\ x.runId = userInput[p].id
    PROVE ~UserInputRetired(x)
<1>1. CASE x.kind # "UserInput"
  BY <1>1 DEF UserInputRetired
<1>2. CASE InputActive(p) /\ x.runId = userInput[p].id
  <2>1. x.revision = revision[p]
    BY <1>2 DEF KindInv, ScreenInv
  <2>2. gate[p] <= revision[p] /\ retired[p] <= revision[p]
    BY DEF GateInv
  <2>3. gate[p] \in Nat /\ retired[p] \in Nat /\ revision[p] \in Nat
    BY RevisionsAssumption DEF EngineBase, EngineTypes, IInv, TypeOK
  <2> QED BY <2>1, <2>2, <2>3 DEF UserInputRetired
<1>3. CASE \/ RunActive(p) /\ x.runId = run[p].id
           \/ StressActive(p) /\ x.runId = stress[p].id
  <2>1. x.kind # "UserInput"
    BY <1>3 DEF KindInv
  <2> QED BY <1>1, <2>1
<1> QED BY <1>2, <1>3

LEMMA StartPipe ==
    ASSUME EngineBase, KindInv, ScreenInv, GateInv, PipeInv, Starts PROVE PipeInv'
<1>1. /\ IInv /\ StartNext /\ Len(pending) \in Nat
  <2>1. pending \in Seq(Request)
    BY DEF EngineBase, IInv, TypeOK
  <2> QED BY <2>1, LenProperties DEF Starts, EngineBase
<1>2. /\ active' # None => active'.state = "Latest"
      /\ \A x \in Queued : ~UserInputRetired(x) =>
                \/ active' # None /\ active'.request = x
                \/ x \in Queued' /\ x # foreground
  BY <1>1, StartKeepsRequests
<1>3. Queued \subseteq Held /\ (foreground # None => foreground \in Queued)
  BY DEF Held, Queued
<1> SUFFICES ASSUME ~worker.failed, NEW p \in Problems
             PROVE /\ RunActive(p) => RunOwed(p)'
                   /\ StressActive(p) => StressOwed(p)'
                   /\ InputActive(p) => InputOwed(p)'
  BY StartFacts DEF PipeInv, RunActive, StressActive, InputActive
<1>4. /\ \A id : IsCommanded(p, id)' <=> IsCommanded(p, id)
      /\ \A id : ~ActiveLatest(p, id) /\ ~RetiringLatest(p, id)
      /\ \A id, types : Told(p, id, types)' <=> Told(p, id, types)
      /\ run' = run /\ stress' = stress /\ userInput' = userInput /\ attempt' = None
  BY StartFacts DEF IsCommanded, ActiveLatest, RetiringLatest, Told, About
<1>5. ASSUME RunActive(p) PROVE RunOwed(p)'
  <2> DEFINE id == run[p].id
  <2>1. RunOwed(p)
    BY <1>5 DEF PipeInv
  <2>2. CASE \E x \in Queued : x.problem = p /\ x.runId = id
    <3>1. PICK x \in Queued : x.problem = p /\ x.runId = id
      BY <2>2
    <3>2. ~UserInputRetired(x)
      BY <1>3, <1>5, <3>1, ShownIsNotRetired
    <3> QED BY <1>2, <1>4, <3>1, <3>2 DEF RunOwed, ActiveLatest
  <2> QED BY <1>4, <2>1, <2>2 DEF RunOwed
<1>6. ASSUME NEW id, Foreground(p, id),
             \/ StressActive(p) /\ id = stress[p].id
             \/ InputActive(p) /\ id = userInput[p].id
      PROVE ActiveLatest(p, id)'
  <2>1. foreground \in Queued /\ foreground.problem = p /\ foreground.runId = id
    BY <1>3, <1>6 DEF Foreground
  <2>2. ~UserInputRetired(foreground)
    BY <1>3, <1>6, <2>1, ShownIsNotRetired
  <2> QED BY <1>2, <2>1, <2>2 DEF ActiveLatest
<1>7. ASSUME StressActive(p) PROVE StressOwed(p)'
  <2>1. StressOwed(p)
    BY <1>7 DEF PipeInv
  <2> QED BY <1>4, <1>6, <1>7, <2>1 DEF StressOwed
<1>8. ASSUME InputActive(p) PROVE InputOwed(p)'
  <2>1. InputOwed(p)
    BY <1>8 DEF PipeInv
  <2> QED BY <1>4, <1>6, <1>8, <2>1 DEF InputOwed
<1> QED BY <1>5, <1>7, <1>8

LEMMA StartKeeps ==
    ASSUME EngineInv, Starts PROVE EngineInv'
<1>1. EngineBase /\ EngineBase' /\ IInv
  BY StartBase DEF EngineInv, EngineBase
<1> SUFFICES ASSUME ui = "running" PROVE RunningInv'
  BY <1>1, StartFacts DEF EngineInv, RunningInv
<1>2. IdInv /\ KindInv /\ ScreenInv /\ GateInv /\ SpeechInv /\ AttemptsInv /\ NewestInv /\ PipeInv
  BY DEF EngineInv, RunningInv
<1>3. /\ Queued' \subseteq Queued
      /\ active' # None => active'.request \in Queued /\ active'.state = "Latest"
  <2>1. pending \in Seq(Request)
    BY <1>1 DEF IInv, TypeOK
  <2> QED BY <1>1, <2>1, LenProperties, StartKeepsRequests DEF Starts
<1>4. Held' \subseteq Held
  BY <1>1, <1>3, StartFacts DEF Held
<1>5. IdInv' /\ KindInv' /\ ScreenInv' /\ GateInv'
  BY <1>1, <1>2, <1>4, StartFacts DEF IdInv, KindInv, ScreenInv, GateInv, RunActive, StressActive, InputActive
<1>6. SpeechInv'
  BY <1>1, <1>2, StartFacts, QuietSpeech
<1>7. AttemptsInv'
  <2>1. \A p, id : Waits(p, id)' => Waits(p, id)
    BY <1>1, <1>3, StartFacts DEF Waits
  <2>2. \A p, id : ~Tried(p, id)'
    BY <1>1, StartFacts DEF Tried
  <2> QED BY <1>1, <1>2, <2>1, <2>2, QuietAttempts, StartFacts DEF EngineBase
<1>8. NewestInv'
  BY <1>1, <1>2, StartFacts DEF NewestInv, RunActive, StressActive, InputActive
<1> QED BY <1>1, <1>2, <1>5, <1>6, <1>7, <1>8, StartPipe, StartFacts DEF RunningInv

-------------------------------------------------------------------------------
(* The worker spawns the attempt, or gives the request up. *)
LEMMA SpawnFacts ==
    ASSUME EngineBase, SpawnAttempt
    PROVE /\ UNCHANGED <<ui, nextRunId, source, revision, run, stress, userInput, uiVars>>
          /\ UNCHANGED <<commands, messages, stopping, foreground, pending, latestSeen, retired, gate, retiring>>
          /\ Said' = Said /\ Commanded' = Commanded /\ Queued' = Queued /\ Held' \subseteq Held
          /\ ~stopping /\ attempt = None /\ active # None /\ retiring = None /\ worker.pc = "spawn"
          /\ worker' \in WorkerStates /\ worker'.outcome = worker.outcome /\ worker'.pc \in {"top", "cleanup"}
          /\ \/ /\ active' = active /\ spawned' = spawned + 1 /\ worker'.pc = "top"
                /\ worker'.failed = worker.failed
                /\ attempt' \in Attempts /\ attempt'.request = active.request
                /\ attempt'.number = spawned + 1 /\ ~attempt'.cancel
                /\ attempt'.pc # "ended" /\ attempt'.outcome = None
             \/ /\ active' = None /\ attempt' = None /\ spawned' = spawned
                /\ \/ ~StartGateOpen(active.request) /\ worker'.failed = worker.failed /\ worker'.pc = "top"
                   \/ worker'.failed
<1>1. EngineTypes /\ WorkerInv
  BY DEF EngineBase
<1>2. /\ worker.pc = "spawn"
      /\ UNCHANGED <<uiVars, commands, messages, stopping, foreground, pending, latestSeen, retired, retiring, gate>>
  BY DEF SpawnAttempt, queueVars
<1>3. ~stopping /\ attempt = None /\ active # None /\ retiring = None
  BY <1>1, <1>2 DEF WorkerInv
<1>4. UNCHANGED <<ui, nextRunId, source, revision, run, stress, userInput>>
      /\ Said' = Said /\ Commanded' = Commanded /\ Queued' = Queued
  BY <1>2 DEF uiVars, appVars, Said, Commanded, Queued
<1>5. ASSUME GoTo("top")
      PROVE /\ worker' \in WorkerStates /\ worker'.outcome = worker.outcome /\ worker'.pc = "top"
            /\ worker'.failed = worker.failed
  BY <1>1, <1>5 DEF GoTo, EngineTypes, WorkerStates, WorkerPcs
<1>6. ASSUME Fault("cleanup")
      PROVE /\ worker' \in WorkerStates /\ worker'.outcome = worker.outcome /\ worker'.pc = "cleanup"
            /\ worker'.failed
  BY <1>1, <1>6 DEF Fault, EngineTypes, WorkerStates, WorkerPcs
<1>7. active.request \in Request /\ spawned + 1 \in Nat
  BY <1>3, Fields
<1>8. CASE active' = active
  <2>1. CASE /\ attempt' = [request |-> active.request, number |-> spawned + 1, cancel |-> FALSE,
                            pc |-> "spawned", outcome |-> None]
             /\ spawned' = spawned + 1 /\ GoTo("top")
    <3>1. /\ attempt' \in Attempts /\ attempt'.request = active.request
          /\ attempt'.number = spawned + 1 /\ ~attempt'.cancel
          /\ attempt'.pc # "ended" /\ attempt'.outcome = None
      BY <1>7, <2>1 DEF Attempts
    <3>2. Held' = Held
      BY <1>2, <1>4, <1>8 DEF Held
    <3> QED BY <1>2, <1>3, <1>4, <1>5, <1>8, <2>1, <3>1, <3>2
  <2> QED BY <1>3, <1>8, <2>1 DEF SpawnAttempt
<1>9. CASE active' # active
  <2>1. /\ active' = None /\ attempt' = attempt /\ spawned' = spawned
        /\ \/ ~StartGateOpen(active.request) /\ GoTo("top")
           \/ Fault("cleanup")
    BY <1>9 DEF SpawnAttempt
  <2>2. Held' \subseteq Held
    BY <1>2, <1>4, <2>1 DEF Held
  <2> QED BY <1>2, <1>3, <1>4, <1>5, <1>6, <2>1, <2>2
<1> QED BY <1>8, <1>9

LEMMA SpawnBase ==
    ASSUME EngineBase, SpawnAttempt PROVE EngineBase'
<1>1. EngineTypes /\ IInv /\ WorkerInv /\ RetiringApart
  BY DEF EngineBase
<1>2. EngineTypes'
  <2>1. spawned' \in Nat /\ attempt' \in Attempts \cup {None}
    BY <1>1, SpawnFacts DEF EngineTypes
  <2> QED BY <1>1, <2>1, SpawnFacts DEF EngineTypes
<1>3. IInv'
  <2>1. CASE active' = active
    BY <1>1, <2>1, SpawnFacts, SchedulerKeeps DEF vars
  <2>2. CASE active' = None
    BY <1>1, <2>2, SpawnFacts, SchedulerKeeps DEF DropActive, queueVars
  <2> QED BY <2>1, <2>2, SpawnFacts
<1>4. WorkerInv'
  <2>1. (attempt' # None => attempt' \in Attempts) /\ None \notin Attempts
    BY EngineAssumption, SpawnFacts
  <2>2. retiring' = None /\ worker'.pc \in {"top", "cleanup"} /\ (worker'.pc = "cleanup" => worker'.failed)
        /\ stopping' = stopping /\ ui' = ui /\ (attempt' # None \/ active' = None)
    BY <2>1, SpawnFacts
  <2>3. attempt' # None =>
          /\ active' # None /\ attempt'.request = active'.request /\ attempt'.number = spawned'
          /\ attempt'.pc = "ended" <=> attempt'.outcome # None
    BY SpawnFacts
  <2> QED BY <1>1, <2>2, <2>3 DEF WorkerInv
<1>5. RetiringApart'
  BY SpawnFacts DEF RetiringApart
<1> QED BY <1>2, <1>3, <1>4, <1>5 DEF EngineBase

LEMMA SpawnPipe ==
    ASSUME EngineBase, KindInv, ScreenInv, GateInv, PipeInv, SpawnAttempt PROVE PipeInv'
<1> SUFFICES ASSUME ~worker'.failed, NEW p \in Problems
             PROVE /\ RunActive(p) => RunOwed(p)'
                   /\ StressActive(p) => StressOwed(p)'
                   /\ InputActive(p) => InputOwed(p)'
  BY SpawnFacts DEF PipeInv, RunActive, StressActive, InputActive
<1>1. /\ ~worker.failed /\ (attempt' # None => attempt'.outcome = None)
      /\ active' = active \/ ~StartGateOpen(active.request)
  BY SpawnFacts
<1>2. /\ \A id : IsCommanded(p, id)' <=> IsCommanded(p, id)
      /\ \A id : Foreground(p, id)' <=> Foreground(p, id)
      /\ \A id : ~RetiringLatest(p, id)
      /\ \A id, types : Told(p, id, types)' <=> Told(p, id, types)
      /\ run' = run /\ stress' = stress /\ userInput' = userInput /\ Queued' = Queued
  BY SpawnFacts DEF IsCommanded, Foreground, RetiringLatest, Told, About
<1>3. ASSUME NEW id, ActiveLatest(p, id),
             \/ RunActive(p) /\ id = run[p].id
             \/ StressActive(p) /\ id = stress[p].id
             \/ InputActive(p) /\ id = userInput[p].id
      PROVE ActiveLatest(p, id)'
  <2>1. active # None /\ active.request.problem = p /\ active.request.runId = id
    BY <1>3 DEF ActiveLatest
  <2>2. active.request \in Held
    BY <2>1, Fields
  <2>3. ~UserInputRetired(active.request)
    BY <1>3, <2>1, <2>2, ShownIsNotRetired
  <2>4. StartGateOpen(active.request)
    <3>1. active.request.revision \in Nat /\ gate[p] \in Nat
      BY <2>2, Fields, RequestFields, RevisionsAssumption DEF EngineBase, IInv, TypeOK
    <3> QED BY <2>1, <2>3, <3>1 DEF UserInputRetired, StartGateOpen
  <2> QED BY <1>1, <1>3, <2>4 DEF ActiveLatest
<1>4. /\ RunActive(p) => RunOwed(p)
      /\ StressActive(p) => StressOwed(p)
      /\ InputActive(p) => InputOwed(p)
  BY <1>1 DEF PipeInv
<1>5. RunActive(p) => RunOwed(p)'
  BY <1>2, <1>3, <1>4 DEF RunOwed
<1>6. "Cancelled" # None /\ "Completed" # None
  BY EngineAssumption DEF Outcomes
<1>7. StressActive(p) => StressOwed(p)'
  BY <1>1, <1>2, <1>3, <1>4, <1>6 DEF StressOwed
<1>8. InputActive(p) => InputOwed(p)'
  BY <1>1, <1>2, <1>3, <1>4, <1>6 DEF InputOwed
<1> QED BY <1>5, <1>7, <1>8

LEMMA SpawnSpeech ==
    ASSUME EngineBase, SpeechInv, SpawnAttempt PROVE SpeechInv'
<1>1. /\ UNCHANGED <<run, messages>> /\ Said' = Said /\ spawned \in Nat /\ retiring' = None
      /\ \/ spawned' = spawned + 1
         \/ spawned' = spawned /\ attempt' = None
  BY SpawnFacts, Fields
<1>2. \A m \in Said : m.attempt \in Nat
  BY Fields
<1>3. \A m \in Said' : /\ m.attempt <= spawned'
                       /\ (attempt' # None \/ retiring' # None) /\ m.type \in Closing
                            => m.attempt < spawned'
  BY <1>1, <1>2 DEF SpeechInv
<1>4. \A p \in Problems : \A n \in run'[p].attempts : n <= spawned' /\ \A m \in Said' : n <= m.attempt
  <2>1. \A p \in Problems : run[p].attempts \subseteq Nat
    BY DEF EngineBase, EngineTypes, RunStates
  <2> QED BY <1>1, <2>1 DEF SpeechInv
<1> QED BY <1>1, <1>3, <1>4 DEF SpeechInv

(* The run of the new attempt waits no longer, and what earlier attempts   *)
(* of it said was taken back.                                              *)
LEMMA SpawnAttempts ==
    ASSUME EngineBase, IdInv, KindInv, SpeechInv, AttemptsInv, SpawnAttempt PROVE AttemptsInv'
<1>1. CASE spawned' = spawned
  <2>1. /\ Queued' = Queued /\ Commanded' = Commanded /\ retiring' = None /\ attempt' = None
        /\ UNCHANGED uiVars /\ Said' = Said /\ worker'.pc # "spawn"
    BY <1>1, SpawnFacts, Fields
  <2>2. \A p, id : ~Tried(p, id)' /\ (Waits(p, id)' => Waits(p, id))
    BY <2>1 DEF Tried, Waits
  <2> QED BY <1>1, <2>1, <2>2, QuietAttempts DEF EngineBase
<1>2. CASE spawned' # spawned
  <2>1. /\ run' = run /\ spawned' = spawned + 1 /\ spawned \in Nat
        /\ Said' = Said /\ Queued' = Queued /\ Commanded' = Commanded /\ retiring' = None
        /\ worker.pc = "spawn" /\ worker'.pc # "spawn" /\ active # None
        /\ attempt' # None /\ attempt'.request = active.request
    BY <1>2, SpawnFacts, Fields, EngineAssumption
  <2> SUFFICES ASSUME NEW p \in Problems PROVE AttemptsAgree(p)'
    BY DEF AttemptsInv
  <2> DEFINE id == run[p].id
             mine == active.request.problem = p /\ active.request.runId = id
  <2>2. AttemptsAgree(p)
    BY DEF AttemptsInv
  <2>3. /\ About(p, id)' = About(p, id) /\ Known(p)' = Known(p)
        /\ \A n : Requeued(p, id, n)' <=> Requeued(p, id, n)
        /\ \A n : Over(p, n)' <=> Over(p, n)
    BY <2>1 DEF About, Known, Requeued, Over
  <2>4. /\ mine => Waits(p, id)
        /\ Waits(p, id)' => Waits(p, id)
        /\ Tried(p, id)' <=> mine
    BY <2>1 DEF Waits, Tried
  <2>5. /\ \A n \in run[p].attempts : n <= spawned /\ n \in Nat
        /\ \A m \in About(p, id) : m.attempt <= spawned /\ m.attempt \in Nat
    <3>1. run[p].attempts \subseteq Nat
      BY DEF EngineBase, EngineTypes, RunStates
    <3> QED BY <3>1, Fields DEF SpeechInv, About
  <2> SUFFICES ASSUME id # 0
               PROVE /\ ~(Waits(p, id)' /\ Tried(p, id)')
                     /\ \A n \in Known(p)' : Repeated(p, id, n)' => Requeued(p, id, n)'
                     /\ \A n \in Nat : Over(p, n)' =>
                           ~Requeued(p, id, n)' /\ (Tried(p, id)' /\ n = spawned' => TriedToTheEnd')
    BY <2>1, <2>2 DEF AttemptsAgree
  <2>6. ASSUME mine PROVE ~Waits(p, id)'
    <3>1. active.request \in Held /\ IInv /\ active.request.runId <= latestSeen[p]
          /\ latestSeen[p] \in Nat /\ active.request.runId \in Nat
      BY <2>1, <2>6, Fields DEF IdInv, EngineBase
    <3>2. active.request.kind = "Samples"
      BY <2>6, <3>1 DEF KindInv
    <3>3. \A x \in Queued : x.problem # p \/ x.runId # id
      BY <2>1, <2>6, <3>1, <3>2, ActiveApart
    <3>4. \A x \in Commanded : x.runId # id
      BY <2>6, <3>1, Fields DEF IdInv
    <3> QED BY <2>1, <3>3, <3>4 DEF Waits
  <2>7. ASSUME NEW n \in Known(p)', Repeated(p, id, n)' PROVE Requeued(p, id, n)'
    <3>1. Repeated(p, id, n)
      BY <2>1, <2>3, <2>4, <2>7 DEF Repeated
    <3> QED BY <2>2, <2>3, <2>7, <3>1 DEF AttemptsAgree
  <2>8. ASSUME NEW n \in Nat, Over(p, n)'
        PROVE ~Requeued(p, id, n)' /\ (Tried(p, id)' /\ n = spawned' => TriedToTheEnd')
    <3>1. Over(p, n)
      BY <2>3, <2>8
    <3>2. n <= spawned
      BY <2>5, <3>1 DEF Over
    <3>3. ~Requeued(p, id, n)
      BY <2>2, <3>1 DEF AttemptsAgree
    <3> QED BY <2>1, <2>3, <3>2, <3>3
  <2> QED BY <2>4, <2>6, <2>7, <2>8
<1> QED BY <1>1, <1>2

LEMMA SpawnKeeps ==
    ASSUME EngineInv, SpawnAttempt PROVE EngineInv'
<1>1. EngineBase /\ EngineBase'
  BY SpawnBase DEF EngineInv
<1> SUFFICES ASSUME ui = "running" PROVE RunningInv'
  BY <1>1, SpawnFacts DEF EngineInv, RunningInv
<1>2. IdInv /\ KindInv /\ ScreenInv /\ GateInv /\ SpeechInv /\ AttemptsInv /\ NewestInv /\ PipeInv
  BY DEF EngineInv, RunningInv
<1>3. IdInv' /\ KindInv' /\ ScreenInv' /\ GateInv'
  BY <1>1, <1>2, SpawnFacts DEF IdInv, KindInv, ScreenInv, GateInv, RunActive, StressActive, InputActive
<1>4. NewestInv'
  BY <1>1, <1>2, SpawnFacts DEF NewestInv, RunActive, StressActive, InputActive
<1> QED BY <1>1, <1>2, <1>3, <1>4, SpawnSpeech, SpawnAttempts, SpawnPipe, SpawnFacts DEF RunningInv

-------------------------------------------------------------------------------
(* The worker publishes the outcome of the retired attempt. *)
Closes(t) ==
    LET m == Message(t, retiring.request, spawned)
    IN /\ m \in Notes /\ m.type = t /\ m.problem = retiring.request.problem
       /\ m.runId = retiring.request.runId /\ m.revision = retiring.request.revision
       /\ m.attempt = spawned /\ t \in Closing
       /\ messages' = Append(messages, m)
       /\ Said' = Said \cup {m}

LEMMA PublishFacts ==
    ASSUME EngineBase, PublishOutcome
    PROVE /\ UNCHANGED <<ui, nextRunId, source, revision, run, stress, userInput, uiVars>>
          /\ UNCHANGED <<commands, attempt, spawned, stopping, active, foreground, latestSeen, retired, gate>>
          /\ attempt = None /\ active = None /\ retiring # None /\ retiring' = None
          /\ worker.pc = "publish" /\ worker' \in WorkerStates /\ worker'.pc = "top"
          /\ worker'.failed = worker.failed /\ worker.outcome \in {"Completed", "Cancelled", "Failed"}
          /\ Commanded' = Commanded /\ Queued' \subseteq Queued \cup {retiring.request}
          /\ Queued \subseteq Queued'
          /\ \/ Queued' = Queued /\ messages' = messages /\ Said' = Said /\ stopping
             \/ /\ worker.outcome = "Cancelled" /\ RequeueAllowed /\ retiring.request \in Queued'
                /\ Closes("RunRequeued")
             \/ /\ worker.outcome = "Cancelled" /\ ~RequeueAllowed
                /\ Queued' = Queued /\ messages' = messages /\ Said' = Said
             \/ /\ worker.outcome # "Cancelled" /\ Queued' = Queued /\ retiring.isLatest
                /\ Closes(IF worker.outcome = "Completed" THEN "RunCompleted" ELSE "RunFailed")
             \/ /\ worker.outcome # "Cancelled" /\ ~retiring.isLatest
                /\ Queued' = Queued /\ messages' = messages /\ Said' = Said
<1>1. EngineTypes /\ IInv /\ TypeOK /\ WorkerInv
  BY DEF EngineBase, IInv
<1>2. /\ worker.pc = "publish" /\ worker' = [worker EXCEPT !.pc = "top", !.outcome = None]
      /\ UNCHANGED <<uiVars, commands, attempt, spawned, stopping, gate>>
      /\ UNCHANGED <<active, foreground, latestSeen, retired>> /\ retiring' = None
  BY DEF PublishOutcome, DropRetired, RequeueRetired, queueVars
<1>3. /\ retiring # None /\ attempt = None /\ active = None
      /\ worker.outcome \in {"Completed", "Cancelled", "Failed"}
  BY <1>1, <1>2 DEF WorkerInv, IInv, RetiringAgrees
<1>4. worker' \in WorkerStates /\ worker'.pc = "top" /\ worker'.failed = worker.failed
  BY <1>1, <1>2 DEF EngineTypes, WorkerStates, WorkerPcs
<1>5. UNCHANGED <<ui, nextRunId, source, revision, run, stress, userInput>> /\ Commanded' = Commanded
  BY <1>2 DEF uiVars, appVars, Commanded
<1>6. ASSUME NEW t \in Closing, Publish(t) PROVE Closes(t)
  <2> DEFINE m == Message(t, retiring.request, spawned)
  <2>1. retiring.request \in Request /\ spawned \in Nat
    BY <1>3, Fields
  <2>2. /\ m.type = t /\ m.problem = retiring.request.problem
        /\ m.runId = retiring.request.runId /\ m.revision = retiring.request.revision
        /\ m.attempt = spawned /\ m \in Notes
    BY <2>1 DEF Message, Notes, Request, Closing
  <2>3. messages' = Append(messages, m) /\ messages \in Seq(Notes \cup {WorkerFailed})
    BY <1>1, <1>6 DEF Publish, EngineTypes
  <2>4. m.type # "WorkerFailed"
    BY <2>2 DEF Closing
  <2> HIDE DEF m
  <2>5. Range(messages') = Range(messages) \cup {m}
    BY <2>2, <2>3, AppendFacts
  <2>6. Said' = Said \cup {m}
    BY <2>4, <2>5 DEF Said
  <2> QED BY <2>2, <2>3, <2>6 DEF Closes, m
<1>7. pending' = pending => Queued' = Queued
  BY <1>2 DEF Queued
<1>8. messages' = messages => Said' = Said
  BY DEF Said
<1>9. CASE stopping
  <2>1. DropRetired /\ messages' = messages
    BY <1>9 DEF PublishOutcome, MayPublish, Silent
  <2> QED BY <1>2, <1>3, <1>4, <1>5, <1>7, <1>8, <1>9, <2>1 DEF DropRetired, queueVars
<1>10. CASE ~stopping /\ worker.outcome = "Cancelled"
  <2>1. RequeueRetired /\ (IF RequeueAllowed THEN Publish("RunRequeued") ELSE messages' = messages)
    BY <1>10 DEF PublishOutcome, MayPublish, Silent
  <2>2. CASE RequeueAllowed
    <3>1. pending' = Append(pending, retiring.request) /\ Closes("RunRequeued")
      BY <1>6, <2>1, <2>2 DEF RequeueRetired, Closing
    <3>2. retiring.request \in Request /\ pending \in Seq(Request)
      BY <1>1, <1>3, Fields DEF TypeOK
    <3>3. Range(pending') = Range(pending) \cup {retiring.request}
      BY <3>1, <3>2, AppendFacts
    <3>4. Queued' = Queued \cup {retiring.request}
      BY <1>2, <3>3 DEF Queued
    <3> QED BY <1>2, <1>3, <1>4, <1>5, <1>10, <2>2, <3>1, <3>4
  <2>3. CASE ~RequeueAllowed
    BY <1>2, <1>3, <1>4, <1>5, <1>7, <1>8, <1>10, <2>1, <2>3 DEF RequeueRetired
  <2> QED BY <2>2, <2>3
<1>11. CASE ~stopping /\ worker.outcome # "Cancelled"
  <2>1. DropRetired /\ (IF retiring.isLatest
                        THEN Publish(IF worker.outcome = "Completed" THEN "RunCompleted" ELSE "RunFailed")
                        ELSE messages' = messages)
    BY <1>11 DEF PublishOutcome, MayPublish, Silent
  <2>2. Queued' = Queued
    BY <1>7, <2>1 DEF DropRetired, queueVars
  <2>3. retiring.isLatest => Closes(IF worker.outcome = "Completed" THEN "RunCompleted" ELSE "RunFailed")
    BY <1>6, <2>1 DEF Closing
  <2> QED BY <1>2, <1>3, <1>4, <1>5, <1>8, <1>11, <2>1, <2>2, <2>3
<1> QED BY <1>9, <1>10, <1>11

LEMMA PublishBase ==
    ASSUME EngineBase, PublishOutcome PROVE EngineBase'
<1>1. EngineTypes /\ IInv /\ WorkerInv /\ RetiringApart
  BY DEF EngineBase
<1>2. messages' \in Seq(Notes \cup {WorkerFailed})
  <2>1. messages' = messages \/ \E m \in Notes : messages' = Append(messages, m)
    BY PublishFacts DEF Closes
  <2> QED BY <1>1, <2>1, AppendFacts DEF EngineTypes
<1>3. EngineTypes'
  BY <1>1, <1>2, PublishFacts DEF EngineTypes
<1>4. IInv'
  <2>1. WorkerRequeue \/ WorkerDrop
    BY DEF PublishOutcome, WorkerRequeue, WorkerDrop
  <2> QED BY <1>1, <2>1, SchedulerKeeps DEF Next
<1>5. WorkerInv' /\ RetiringApart'
  BY <1>1, PublishFacts DEF WorkerInv, RetiringApart
<1> QED BY <1>3, <1>4, <1>5 DEF EngineBase

LEMMA PublishSpeech ==
    ASSUME EngineBase, SpeechInv, PublishOutcome PROVE SpeechInv'
<1>1. /\ run' = run /\ spawned' = spawned /\ spawned \in Nat /\ attempt' = None /\ retiring' = None
      /\ retiring # None
  BY PublishFacts, Fields
<1>2. CASE messages' = messages
  BY <1>1, <1>2 DEF SpeechInv, Said
<1>3. CASE messages' # messages
  <2>1. PICK t : Closes(t)
    BY <1>3, PublishFacts
  <2> DEFINE m == Message(t, retiring.request, spawned)
             n == Len(messages)
  <2>2. /\ m \in Notes /\ m.attempt = spawned /\ messages' = Append(messages, m)
        /\ Said' = Said \cup {m} /\ messages \in Seq(Notes \cup {WorkerFailed})
    BY <2>1 DEF Closes, EngineBase, EngineTypes
  <2> HIDE DEF m
  <2>3. /\ n \in Nat
        /\ DOMAIN messages = 1..n /\ DOMAIN messages' = 1..(n + 1)
        /\ \A i \in 1..n : messages'[i] = messages[i]
        /\ messages'[n + 1] = m
    BY <2>2, AppendFacts
  <2> HIDE DEF n
  <2>4. ASSUME NEW i \in DOMAIN messages', NEW j \in DOMAIN messages', i < j,
               messages'[i].type # "WorkerFailed", messages'[j].type # "WorkerFailed"
        PROVE /\ messages'[i].attempt <= messages'[j].attempt
              /\ messages'[i].type \in Closing => messages'[i].attempt # messages'[j].attempt
    <3>1. i \in 1..n /\ messages'[i] = messages[i]
      BY <2>3, <2>4
    <3>2. CASE j \in 1..n
      BY <2>3, <2>4, <3>1, <3>2 DEF SpeechInv
    <3>3. CASE j = n + 1
      <4>1. messages[i] \in Said
        BY <2>3, <2>4, <3>1 DEF Said, Range
      <4>2. /\ messages[i].attempt <= spawned /\ messages[i].attempt \in Nat
            /\ messages[i].type \in Closing => messages[i].attempt < spawned
        BY <1>1, <4>1, Fields DEF SpeechInv
      <4> QED BY <1>1, <2>2, <2>3, <3>1, <3>3, <4>2
    <3> QED BY <2>3, <2>4, <3>2, <3>3
  <2>5. \A k \in Said' : k.attempt <= spawned
    BY <1>1, <2>2 DEF SpeechInv
  <2>6. \A p \in Problems : \A k \in run[p].attempts :
          k <= spawned /\ \A c \in Said' : k <= c.attempt
    BY <2>2 DEF SpeechInv
  <2> QED BY <1>1, <2>4, <2>5, <2>6 DEF SpeechInv
<1> QED BY <1>2, <1>3

(* A preempted run waits again, and everything it has said is taken back; *)
(* a run that ended is not tried again.                                    *)
LEMMA PublishAttempts ==
    ASSUME EngineBase, SpeechInv, AttemptsInv, PublishOutcome, ~stopping PROVE AttemptsInv'
<1>1. /\ run' = run /\ spawned' = spawned /\ spawned \in Nat /\ attempt' = None /\ retiring' = None
      /\ attempt = None /\ retiring # None
      /\ worker.pc = "publish" /\ worker'.pc = "top" /\ Commanded' = Commanded
      /\ Queued' \subseteq Queued \cup {retiring.request}
  BY PublishFacts, Fields
<1> SUFFICES ASSUME NEW p \in Problems PROVE AttemptsAgree(p)'
  BY DEF AttemptsInv
<1> DEFINE id == run[p].id
           r == retiring.request
           mine == r.problem = p /\ r.runId = id
<1>2. AttemptsAgree(p)
  BY DEF AttemptsInv
<1>3. /\ ~Tried(p, id)' /\ (Tried(p, id) <=> mine)
      /\ Waits(p, id)' => Waits(p, id) \/ mine
  BY <1>1 DEF Tried, Waits
<1>4. \A m \in About(p, id) : /\ m.attempt \in Nat /\ m.attempt <= spawned
                              /\ m.type \in Closing => m.attempt < spawned
  BY <1>1, Fields DEF SpeechInv, About
<1>5. ~Requeued(p, id, spawned)
  BY <1>1, <1>4 DEF Requeued, Closing
<1> SUFFICES ASSUME id # 0
             PROVE /\ \A n \in Known(p)' : Repeated(p, id, n)' => Requeued(p, id, n)'
                   /\ \A n \in Nat : Over(p, n)' => ~Requeued(p, id, n)'
  BY <1>1, <1>2, <1>3 DEF AttemptsAgree
<1>6. /\ \A n \in Known(p) : Repeated(p, id, n) => Requeued(p, id, n)
      /\ \A n \in Nat : Over(p, n) =>
             ~Requeued(p, id, n) /\ (Tried(p, id) /\ n = spawned => TriedToTheEnd)
  BY <1>2 DEF AttemptsAgree
<1>7. CASE ~mine \/ Said' = Said
  <2>1. About(p, id)' = About(p, id)
    BY <1>1, <1>7, PublishFacts DEF About, Closes
  <2>2. /\ Known(p)' = Known(p)
        /\ \A n : Requeued(p, id, n)' <=> Requeued(p, id, n)
        /\ \A n : Over(p, n)' <=> Over(p, n)
    BY <1>1, <2>1 DEF Known, Requeued, Over
  <2>3. Waits(p, id)' => Waits(p, id)
    <3>1. CASE ~mine
      BY <1>3, <3>1
    <3>2. CASE Said' = Said
      <4>1. Queued' = Queued
        <5>1. ASSUME NEW t, Closes(t) PROVE FALSE
          <6>1. PICK m \in Said' : m.type \in Closing /\ m.attempt = spawned
            BY <5>1 DEF Closes
          <6> QED BY <1>1, <3>2, <6>1 DEF SpeechInv
        <5> QED BY <5>1, PublishFacts
      <4> QED BY <1>1, <4>1 DEF Waits
    <3> QED BY <1>7, <3>1, <3>2
  <2>4. \A n : Repeated(p, id, n)' => Repeated(p, id, n)
    BY <1>1, <1>3, <2>1, <2>3 DEF Repeated
  <2> QED BY <1>6, <2>2, <2>4
<1>8. CASE mine /\ Said' # Said
  <2>1. \/ worker.outcome = "Cancelled" /\ Closes("RunRequeued")
        \/ /\ Queued' = Queued
           /\ \E t \in {"RunCompleted", "RunFailed"} : Closes(t)
    BY <1>8, PublishFacts
  <2>2. CASE worker.outcome = "Cancelled" /\ Closes("RunRequeued")
    <3> DEFINE m == Message("RunRequeued", r, spawned)
    <3>1. About(p, id)' = About(p, id) \cup {m} /\ m.type = "RunRequeued" /\ m.attempt = spawned
      BY <1>1, <1>8, <2>2 DEF About, Closes
    <3> HIDE DEF m
    <3>2. Known(p)' = Known(p)
      BY <1>1, <3>1 DEF Known, Events, TestEvents
    <3>3. \A n : Requeued(p, id, n)' <=> Requeued(p, id, n) \/ n = spawned
      BY <1>1, <3>1 DEF Requeued
    <3>4. \A n : Over(p, n)' <=> Over(p, n)
      BY <1>1, <3>1 DEF Over, Terminal
    <3>5. \A n \in Known(p) : n # spawned => Requeued(p, id, n)
      BY <1>3, <1>6, <1>8 DEF Repeated
    <3>6. ASSUME NEW n \in Nat, Over(p, n) PROVE ~Requeued(p, id, n) /\ n # spawned
      <4>1. ~TriedToTheEnd
        BY <1>1, <2>2 DEF TriedToTheEnd
      <4> QED BY <1>3, <1>6, <1>8, <3>6, <4>1
    <3> QED BY <3>2, <3>3, <3>4, <3>5, <3>6
  <2>3. ASSUME NEW t \in {"RunCompleted", "RunFailed"}, Closes(t), Queued' = Queued
        PROVE /\ \A n \in Known(p)' : Repeated(p, id, n)' => Requeued(p, id, n)'
              /\ \A n \in Nat : Over(p, n)' => ~Requeued(p, id, n)'
    <3> DEFINE m == Message(t, r, spawned)
    <3>1. About(p, id)' = About(p, id) \cup {m} /\ m.type = t /\ m.attempt = spawned
      BY <1>1, <1>8, <2>3 DEF About, Closes
    <3> HIDE DEF m
    <3>2. Known(p)' = Known(p)
      BY <1>1, <3>1 DEF Known, Events, TestEvents
    <3>3. \A n : Requeued(p, id, n)' <=> Requeued(p, id, n)
      BY <1>1, <3>1 DEF Requeued
    <3>4. \A n : Over(p, n)' => Over(p, n) \/ n = spawned
      BY <1>1, <3>1 DEF Over
    <3>5. Waits(p, id)' => Waits(p, id)
      BY <1>1, <2>3 DEF Waits
    <3>6. ASSUME NEW n \in Known(p), Repeated(p, id, n)' PROVE Repeated(p, id, n)
      <4>1. CASE Waits(p, id)'
        BY <3>5, <4>1 DEF Repeated
      <4>2. CASE \E k \in About(p, id)' : n < k.attempt
        <5>1. CASE \E k \in About(p, id) : n < k.attempt
          BY <5>1 DEF Repeated
        <5>2. CASE n < spawned
          <6>1. n # spawned
            BY <1>1, <5>2
          <6> QED BY <1>3, <1>8, <6>1 DEF Repeated
        <5> QED BY <3>1, <4>2, <5>1, <5>2
      <4> QED BY <1>3, <3>6, <4>1, <4>2 DEF Repeated
    <3> QED BY <1>5, <1>6, <3>2, <3>3, <3>4, <3>6
  <2> QED BY <2>1, <2>2, <2>3
<1> QED BY <1>7, <1>8

LEMMA PublishPipe ==
    ASSUME EngineBase, KindInv, PipeInv, PublishOutcome, ~stopping PROVE PipeInv'
<1>1. /\ UNCHANGED <<run, stress, userInput, foreground>> /\ Queued \subseteq Queued'
      /\ Commanded' = Commanded /\ active = None /\ retiring # None /\ Said \subseteq Said'
      /\ worker'.failed = worker.failed
  BY PublishFacts DEF Closes
<1> SUFFICES ASSUME ~worker.failed, NEW p \in Problems
             PROVE /\ RunActive(p) => RunOwed(p)'
                   /\ StressActive(p) => StressOwed(p)'
                   /\ InputActive(p) => InputOwed(p)'
  BY <1>1 DEF PipeInv, RunActive, StressActive, InputActive
<1>2. /\ \A id : IsCommanded(p, id)' <=> IsCommanded(p, id)
      /\ \A id : Foreground(p, id)' <=> Foreground(p, id)
      /\ \A id : ~ActiveLatest(p, id)
      /\ \A id, types : Told(p, id, types) => Told(p, id, types)'
  BY <1>1 DEF IsCommanded, Foreground, ActiveLatest, Told, About
<1>3. ASSUME NEW id, RetiringLatest(p, id)
      PROVE /\ worker.outcome = "Cancelled" /\ retiring.request.kind = "Samples" =>
                  \E x \in Queued' : x.problem = p /\ x.runId = id
            /\ worker.outcome = "Completed" => Told(p, id, {"RunCompleted"})'
            /\ worker.outcome = "Failed" => Told(p, id, {"RunFailed"})'
            /\ worker.outcome \in {"Completed", "Cancelled", "Failed"}
            /\ retiring.request \in Held
  <2>1. retiring.isLatest /\ retiring.request.problem = p /\ retiring.request.runId = id
    BY <1>3 DEF RetiringLatest
  <2>2. ASSUME NEW t, Closes(t) PROVE Told(p, id, {t})'
    BY <2>1, <2>2 DEF Closes, Told, About
  <2>3. retiring.request.kind = "Samples" => RequeueAllowed
    BY <1>1, <2>1 DEF EngineBase, IInv, RetiringAgrees, RetiringApart, RequeueAllowed
  <2>4. worker.outcome = "Cancelled" /\ RequeueAllowed => retiring.request \in Queued'
    BY PublishFacts
  <2>5. worker.outcome # "Cancelled" =>
           Closes(IF worker.outcome = "Completed" THEN "RunCompleted" ELSE "RunFailed")
    BY <2>1, PublishFacts
  <2> QED BY <1>1, <2>1, <2>2, <2>3, <2>4, <2>5, PublishFacts, Fields
<1>4. /\ RunActive(p) => RunOwed(p)
      /\ StressActive(p) => StressOwed(p)
      /\ InputActive(p) => InputOwed(p)
  BY DEF PipeInv
<1>5. ASSUME RunActive(p) PROVE RunOwed(p)'
  <2> DEFINE id == run[p].id
  <2>1. CASE RetiringLatest(p, id)
    <3>1. retiring.request.kind = "Samples"
      BY <1>3, <2>1 DEF KindInv, RetiringLatest
    <3>2. \/ \E x \in Queued' : x.problem = p /\ x.runId = id
          \/ Told(p, id, {"RunCompleted"})' \/ Told(p, id, {"RunFailed"})'
      BY <1>1, <1>3, <2>1, <3>1
    <3> QED BY <1>1, <3>2 DEF RunOwed, Told
  <2>2. CASE ~RetiringLatest(p, id)
    BY <1>1, <1>2, <1>4, <1>5, <2>2 DEF RunOwed
  <2> QED BY <2>1, <2>2
<1>6. ASSUME StressActive(p) PROVE StressOwed(p)'
  <2> DEFINE id == stress[p].id
  <2>1. CASE RetiringLatest(p, id) /\ worker.outcome # "Cancelled"
    <3>1. Told(p, id, {"RunCompleted"})' \/ Told(p, id, {"RunFailed"})'
      BY <1>1, <1>3, <2>1
    <3> QED BY <1>1, <3>1 DEF StressOwed, Told
  <2>2. CASE ~(RetiringLatest(p, id) /\ worker.outcome # "Cancelled")
    BY <1>1, <1>2, <1>4, <1>6, <2>2 DEF StressOwed
  <2> QED BY <2>1, <2>2
<1>7. ASSUME InputActive(p) PROVE InputOwed(p)'
  <2> DEFINE id == userInput[p].id
  <2>1. CASE RetiringLatest(p, id) /\ worker.outcome = "Failed"
    <3>1. Told(p, id, {"RunFailed"})'
      BY <1>1, <1>3, <2>1
    <3> QED BY <1>1, <3>1 DEF InputOwed, Told
  <2>2. CASE ~(RetiringLatest(p, id) /\ worker.outcome = "Failed")
    BY <1>1, <1>2, <1>4, <1>7, <2>2 DEF InputOwed
  <2> QED BY <2>1, <2>2
<1> QED BY <1>5, <1>6, <1>7

LEMMA PublishKeeps ==
    ASSUME EngineInv, PublishOutcome PROVE EngineInv'
<1>1. EngineBase /\ EngineBase'
  BY PublishBase DEF EngineInv
<1> SUFFICES ASSUME ui = "running" PROVE RunningInv'
  BY <1>1, PublishFacts DEF EngineInv, RunningInv
<1>2. IdInv /\ KindInv /\ ScreenInv /\ GateInv /\ SpeechInv /\ AttemptsInv /\ NewestInv /\ PipeInv
  BY DEF EngineInv, RunningInv
<1>3. ~stopping
  BY <1>1 DEF EngineBase, WorkerInv
<1>4. Held' \subseteq Held /\ retiring.request \in Held
  BY <1>1, PublishFacts DEF Held
<1>5. Moved
  <2>1. /\ UNCHANGED <<uiVars, commands, latestSeen, retired, gate>> /\ Commanded' = Commanded
    BY <1>1, PublishFacts
  <2>2. \A m \in Said' : m \in Said \/ \E x \in Held : /\ m.problem = x.problem /\ m.runId = x.runId
                                                       /\ m.revision = x.revision
    BY <1>1, <1>4, PublishFacts DEF Closes
  <2> QED BY <1>1, <1>2, <1>4, <2>1, <2>2, Fields DEF Moved, IdInv, GateInv
<1>6. IdInv' /\ KindInv' /\ ScreenInv' /\ GateInv'
  BY <1>1, <1>2, <1>5, MovedKeeps
<1>7. NewestInv'
  BY <1>1, <1>2, PublishFacts DEF NewestInv, RunActive, StressActive, InputActive
<1> QED BY <1>1, <1>2, <1>3, <1>6, <1>7, PublishSpeech, PublishAttempts, PublishPipe, PublishFacts
        DEF RunningInv

-------------------------------------------------------------------------------
(* The worker cleans up and ends. *)
LEMMA CleanupFacts ==
    ASSUME EngineBase, Cleanup
    PROVE /\ UNCHANGED <<ui, nextRunId, source, revision, run, stress, userInput, uiVars>>
          /\ UNCHANGED <<commands, spawned, stopping, foreground, pending, latestSeen, retired, retiring, gate>>
          /\ Said' = Said /\ Commanded' = Commanded /\ Queued' = Queued /\ Held' \subseteq Held
          /\ retiring = None /\ (stopping \/ worker.failed)
          /\ worker.pc # "spawn" /\ worker'.pc \in {"cleanupJoin", "exited"}
          /\ worker' \in WorkerStates /\ worker'.outcome = worker.outcome
          /\ worker.failed => worker'.failed
          /\ messages' = messages \/ messages' = Append(messages, WorkerFailed)
          /\ active' = active \/ active' = None
          /\ \/ attempt' = None
             \/ /\ attempt # None /\ attempt' \in Attempts /\ active' = active
                /\ attempt'.request = attempt.request /\ attempt'.number = attempt.number
                /\ attempt'.pc = attempt.pc /\ attempt'.outcome = attempt.outcome
<1>1. EngineTypes /\ WorkerInv
  BY DEF EngineBase
<1>2. /\ UNCHANGED <<uiVars, commands, spawned, stopping, foreground, pending, latestSeen, retired, retiring, gate>>
      /\ worker.pc \in {"cleanup", "cleanupJoin"}
  BY DEF Cleanup, CleanupCancels, CleanupJoins, vars, queueVars
<1>3. UNCHANGED <<ui, nextRunId, source, revision, run, stress, userInput>>
      /\ Commanded' = Commanded /\ Queued' = Queued
  BY <1>2 DEF uiVars, appVars, Commanded, Queued
<1>4. retiring = None /\ (stopping \/ worker.failed)
  BY <1>1, <1>2 DEF WorkerInv
<1>5. ASSUME messages' = messages \/ messages' = Append(messages, WorkerFailed) PROVE Said' = Said
  <2>1. WorkerFailed.type = "WorkerFailed" /\ messages \in Seq(Notes \cup {WorkerFailed})
    BY <1>1 DEF WorkerFailed, EngineTypes
  <2> DEFINE S == Notes \cup {WorkerFailed}
  <2>2. Range(messages') = Range(messages) \/ Range(messages') = Range(messages) \cup {WorkerFailed}
    <3>1. messages \in Seq(S) /\ WorkerFailed \in S
      BY <2>1
    <3> HIDE DEF S
    <3>2. Range(Append(messages, WorkerFailed)) = Range(messages) \cup {WorkerFailed}
      BY <3>1, AppendFacts
    <3> QED BY <1>5, <3>2
  <2> QED BY <2>1, <2>2 DEF Said
<1>6. CASE CleanupCancels
  <2>1. /\ worker' = [worker EXCEPT !.pc = "cleanupJoin", !.drained = 0]
        /\ messages' = messages /\ active' = active
        /\ attempt' = IF attempt = None THEN None ELSE [attempt EXCEPT !.cancel = TRUE]
    BY <1>6 DEF CleanupCancels, GoTo, vars
  <2>2. /\ worker' \in WorkerStates /\ worker'.outcome = worker.outcome /\ worker'.pc = "cleanupJoin"
        /\ worker'.failed = worker.failed
    BY <1>1, <2>1 DEF EngineTypes, WorkerStates, WorkerPcs
  <2>3. attempt # None =>
          /\ attempt' \in Attempts /\ attempt'.request = attempt.request /\ attempt'.number = attempt.number
          /\ attempt'.pc = attempt.pc /\ attempt'.outcome = attempt.outcome
    BY <1>1, <2>1 DEF EngineTypes, Attempts
  <2>4. Held' = Held
    BY <1>2, <1>3, <2>1 DEF Held
  <2> QED BY <1>2, <1>3, <1>4, <1>5, <2>1, <2>2, <2>3, <2>4
<1>7. CASE CleanupJoins
  <2> DEFINE failed == worker.failed \/ (Ended /\ attempt.outcome = "Panicked")
  <2>1. /\ worker' = [worker EXCEPT !.pc = "exited", !.failed = failed]
        /\ messages' = IF failed THEN Append(messages, WorkerFailed) ELSE messages
        /\ active' = active \/ active' = None
        /\ attempt' = None
    BY <1>7 DEF CleanupJoins
  <2>2. failed \in BOOLEAN /\ (worker.failed => failed)
    BY <1>1 DEF EngineTypes, WorkerStates
  <2> HIDE DEF failed
  <2>3. /\ worker' \in WorkerStates /\ worker'.outcome = worker.outcome /\ worker'.pc = "exited"
        /\ worker'.failed = failed
    BY <1>1, <2>1, <2>2 DEF EngineTypes, WorkerStates, WorkerPcs
  <2>4. Held' \subseteq Held
    BY <1>2, <1>3, <2>1 DEF Held
  <2> QED BY <1>2, <1>3, <1>4, <1>5, <2>1, <2>2, <2>3, <2>4
<1> QED BY <1>6, <1>7 DEF Cleanup

LEMMA CleanupBase ==
    ASSUME EngineBase, Cleanup PROVE EngineBase'
<1>1. EngineTypes /\ IInv /\ WorkerInv /\ RetiringApart
  BY DEF EngineBase
<1>2. messages' \in Seq(Notes \cup {WorkerFailed})
  <2> DEFINE S == Notes \cup {WorkerFailed}
  <2>1. messages \in Seq(S) /\ WorkerFailed \in S
    BY <1>1 DEF EngineTypes
  <2> HIDE DEF S
  <2>2. messages' \in Seq(S)
    BY <2>1, CleanupFacts, AppendFacts
  <2> QED BY <2>2 DEF S
<1>3. EngineTypes'
  BY <1>1, <1>2, CleanupFacts DEF EngineTypes
<1>4. IInv'
  <2>1. CASE active' = active
    BY <1>1, <2>1, CleanupFacts, SchedulerKeeps DEF vars
  <2>2. CASE active' = None
    BY <1>1, <2>2, CleanupFacts, SchedulerKeeps DEF DropActive, queueVars
  <2> QED BY <2>1, <2>2, CleanupFacts
<1>5. WorkerInv'
  <2>1. /\ retiring' = None /\ worker'.pc \in {"cleanupJoin", "exited"}
        /\ (stopping' \/ worker'.failed) /\ ui' = ui /\ stopping' = stopping
    BY CleanupFacts
  <2>2. attempt' # None =>
          /\ active' # None /\ attempt'.request = active'.request /\ attempt'.number = spawned'
          /\ attempt'.pc = "ended" <=> attempt'.outcome # None
    BY <1>1, CleanupFacts DEF WorkerInv
  <2> QED BY <1>1, <2>1, <2>2 DEF WorkerInv
<1>6. RetiringApart'
  BY CleanupFacts DEF RetiringApart
<1> QED BY <1>3, <1>4, <1>5, <1>6 DEF EngineBase

LEMMA CleanupSpeech ==
    ASSUME EngineBase, SpeechInv, Cleanup PROVE SpeechInv'
<1>1. /\ run' = run /\ spawned' = spawned /\ retiring' = None /\ Said' = Said
      /\ attempt' # None => attempt # None
      /\ messages \in Seq(Notes \cup {WorkerFailed})
  BY CleanupFacts DEF EngineBase, EngineTypes
<1>2. CASE messages' = messages
  BY <1>1, <1>2 DEF SpeechInv
<1>3. CASE messages' = Append(messages, WorkerFailed)
  <2>1. /\ Len(messages) \in Nat
        /\ DOMAIN messages = 1..Len(messages) /\ DOMAIN messages' = 1..(Len(messages) + 1)
        /\ \A i \in 1..Len(messages) : messages'[i] = messages[i]
        /\ messages'[Len(messages) + 1] = WorkerFailed /\ WorkerFailed.type = "WorkerFailed"
    BY <1>1, <1>3, AppendFacts DEF WorkerFailed
  <2>2. \A i \in DOMAIN messages' : messages'[i].type # "WorkerFailed" =>
            i \in DOMAIN messages /\ messages'[i] = messages[i]
    BY <2>1
  <2> QED BY <1>1, <2>2 DEF SpeechInv
<1> QED BY <1>2, <1>3, CleanupFacts

LEMMA CleanupKeeps ==
    ASSUME EngineInv, Cleanup PROVE EngineInv'
<1>1. EngineBase /\ EngineBase' /\ EngineTypes
  BY CleanupBase DEF EngineInv, EngineBase
<1> SUFFICES ASSUME ui = "running" PROVE RunningInv'
  BY <1>1, CleanupFacts DEF EngineInv, RunningInv
<1>2. IdInv /\ KindInv /\ ScreenInv /\ GateInv /\ SpeechInv /\ AttemptsInv /\ NewestInv /\ PipeInv
  BY DEF EngineInv, RunningInv
<1>3. worker.failed /\ worker'.failed
  BY <1>1, CleanupFacts DEF EngineBase, WorkerInv
<1>4. IdInv' /\ KindInv' /\ ScreenInv' /\ GateInv'
  BY <1>1, <1>2, CleanupFacts DEF IdInv, KindInv, ScreenInv, GateInv, RunActive, StressActive, InputActive
<1>5. AttemptsInv'
  <2>1. \A p, id : Waits(p, id)' => Waits(p, id)
    BY <1>1, CleanupFacts DEF Waits
  <2>2. \A p, id : Tried(p, id)' => Tried(p, id)
    BY <1>1, CleanupFacts DEF Tried
  <2>3. attempt' # None => (TriedToTheEnd => TriedToTheEnd')
    BY <1>1, CleanupFacts DEF TriedToTheEnd
  <2>4. \A p, id : Tried(p, id)' => attempt' # None
    BY <1>1, CleanupFacts DEF Tried
  <2> QED BY <1>1, <1>2, <2>1, <2>2, <2>3, <2>4, QuietAttempts, CleanupFacts
<1>6. NewestInv'
  BY <1>1, <1>2, <1>3, CleanupFacts DEF NewestInv, RunActive, StressActive, InputActive
<1>7. PipeInv'
  BY <1>3 DEF PipeInv
<1> QED BY <1>1, <1>2, <1>4, <1>5, <1>6, <1>7, CleanupSpeech, CleanupFacts DEF RunningInv

-------------------------------------------------------------------------------
(* The worker takes a command. *)
LEMMA CommandTaken ==
    ASSUME EngineTypes, commands # << >>, commands' = Tail(commands)
    PROVE LET c == Head(commands)
          IN /\ c \in Range(commands) /\ c \in Commands /\ commands' \in Seq(Commands)
             /\ Range(commands) = {c} \cup Range(commands')
             /\ c.type = "Run" => Commanded = Commanded' \cup {c.request} /\ c.request \in Request
             /\ c.type # "Run" => Commanded' = Commanded
             /\ InOrder(commands) => InOrder(commands')
             /\ InOrder(commands) /\ c.type = "Run" =>
                   \A x \in Commanded' : c.request.runId < x.runId
<1> DEFINE c == Head(commands)
           n == Len(commands)
<1>1. /\ commands' \in Seq(Commands) /\ c \in Commands
      /\ Range(commands) = {c} \cup Range(commands')
      /\ n \in Nat \ {0} /\ c = commands[1]
      /\ DOMAIN commands = 1..n /\ DOMAIN commands' = 1..(n - 1)
      /\ \A i \in 1..(n - 1) : commands'[i] = commands[i + 1]
  BY TailFacts DEF EngineTypes
<1> HIDE DEF c, n
<1>2. /\ c.type = "Run" => Commanded = Commanded' \cup {c.request}
      /\ c.type # "Run" => Commanded' = Commanded
  BY <1>1 DEF Commanded, RunsOf
<1>3. c.type = "Run" => c.request \in Request
  BY <1>1 DEF Commands
<1>4. \A i \in 1..(n - 1) : i + 1 \in 1..n /\ 1 < i + 1 /\ 1 \in 1..n
  BY <1>1
<1>5. ASSUME InOrder(commands) PROVE InOrder(commands')
  <2> SUFFICES ASSUME NEW i \in 1..(n - 1), NEW j \in 1..(n - 1), i < j,
                      commands'[i].type = "Run", commands'[j].type = "Run"
               PROVE commands'[i].request.runId < commands'[j].request.runId
    BY <1>1 DEF InOrder
  <2>1. i + 1 \in 1..n /\ j + 1 \in 1..n /\ i + 1 < j + 1
    BY <1>1
  <2> QED BY <1>1, <1>5, <2>1 DEF InOrder
<1>6. ASSUME InOrder(commands), c.type = "Run", NEW x \in Commanded' PROVE c.request.runId < x.runId
  <2>1. PICK i \in 1..(n - 1) : commands'[i].type = "Run" /\ x = commands'[i].request
    BY <1>1 DEF Commanded, RunsOf, Range
  <2> QED BY <1>1, <1>4, <1>6, <2>1 DEF InOrder
<1> QED BY <1>1, <1>2, <1>3, <1>5, <1>6 DEF c

(* A new request becomes the foreground, and its problem leaves the queue; *)
(* the sample runs of the other problems stay.                             *)
AcceptEffect(x) ==
    /\ x \in Request /\ ~Stale(x)
    /\ latestSeen' = [latestSeen EXCEPT ![x.problem] = x.runId]
    /\ retired' = retired /\ foreground' = x
    /\ Queued' \subseteq Queued \cup {x} /\ x \in Queued'
    /\ \A y \in Queued : y.problem # x.problem /\ y.kind = "Samples" =>
          \E z \in Queued' : z.problem = y.problem /\ z.runId = y.runId
    /\ active = None => active' = None
    /\ active # None => /\ active' # None /\ active'.request = active.request
                        /\ active.request.problem # x.problem => active'.state = active.state

LEMMA AcceptFacts ==
    ASSUME IInv, NEW x \in Request, AcceptRequest(x) PROVE AcceptEffect(x)
<1>1. /\ ~Stale(x) /\ latestSeen' = [latestSeen EXCEPT ![x.problem] = x.runId]
      /\ retired' = retired /\ foreground' = x /\ pending' = QueueWith(x)
      /\ active' = IF active = None THEN None ELSE ActiveAfter(x)
  BY DEF AcceptRequest
<1>2. x # None /\ x \in Queued' /\ Queued' = {x} \cup Range(pending')
  BY <1>1, NoneIsNoRequest DEF Queued
<1>3. Queued' \subseteq Queued \cup {x}
  <2> SUFFICES ASSUME NEW k \in DOMAIN QueueWith(x) PROVE QueueWith(x)[k] \in Queued
    BY <1>1, <1>2 DEF Range
  <2> QED BY QueueWithComesFrom DEF Queued, Range
<1>4. ASSUME NEW y \in Queued, y.problem # x.problem, y.kind = "Samples"
      PROVE \E z \in Queued' : z.problem = y.problem /\ z.runId = y.runId
  <2>1. latestSeen[y.problem] = y.runId
    BY DEF Queued, Range, IInv, InvariantsHold, QueuedAreNewest
  <2>2. PICK k \in DOMAIN QueueWith(x) : QueueWith(x)[k].problem = y.problem
    BY <1>4, QueueWithKeeps DEF Queued, Range
  <2>3. QueueWith(x)[k].runId = y.runId
    BY <2>1, <2>2, QueueWithElements
  <2>4. QueueWith(x)[k] \in Queued'
    BY <1>1, <1>2 DEF Range
  <2> QED BY <2>2, <2>3, <2>4
<1>5. ASSUME active # None
      PROVE /\ active' # None /\ active'.request = active.request
            /\ active.request.problem # x.problem => active'.state = active.state
  <2>1. active \in ActiveRequest
    BY <1>5 DEF IInv, TypeOK
  <2>2. active' = [active EXCEPT
                     !.state = IF active.request.problem = x.problem THEN "Obsolete" ELSE active.state,
                     !.cancelRequested = TRUE]
    BY <1>1, <1>5 DEF ActiveAfter
  <2>3. active' \in ActiveRequest
    BY <2>1, <2>2 DEF ActiveRequest, LogicalStates
  <2> QED BY <2>1, <2>2, <2>3, NoneIsNoRequest DEF ActiveRequest
<1> QED BY <1>1, <1>2, <1>3, <1>4, <1>5 DEF AcceptEffect

(* A stress run is stopped where it is. *)
StopEffect(p, id) ==
    /\ UNCHANGED <<pending, latestSeen, retired>>
    /\ \/ foreground' = foreground
       \/ foreground # None /\ IsStress(foreground, p, id) /\ foreground' = None
    /\ \/ active' = active
       \/ /\ active # None /\ IsStress(active.request, p, id)
          /\ active' # None /\ active'.request = active.request

LEMMA StopFacts ==
    ASSUME IInv, NEW p, NEW id, CancelStress(p, id) PROVE StopEffect(p, id)
<1>1. ~\E i \in DOMAIN pending : IsStress(pending[i], p, id)
  BY DEF IInv, PendingOnlySamples, IsStress
<1>2. UNCHANGED <<pending, latestSeen, retired>>
  BY <1>1 DEF CancelStress
<1>3. ASSUME CancelsActiveStress(p, id),
             active' = [active EXCEPT !.state = "Cancelled", !.cancelRequested = TRUE]
      PROVE /\ active # None /\ IsStress(active.request, p, id)
            /\ active' # None /\ active'.request = active.request
  <2>1. active \in ActiveRequest /\ active # None /\ IsStress(active.request, p, id)
    BY <1>3 DEF IInv, TypeOK, CancelsActiveStress
  <2>2. active' \in ActiveRequest /\ active'.request = active.request
    BY <1>3, <2>1 DEF ActiveRequest, LogicalStates
  <2> QED BY <2>1, <2>2, NoneIsNoRequest
<1> QED BY <1>1, <1>2, <1>3 DEF CancelStress, StopEffect

(* User input of an older revision is dropped from the foreground. *)
DropEffect(p, v) ==
    /\ UNCHANGED <<pending, latestSeen, active>>
    /\ retired' = [retired EXCEPT ![p] = RetiredRevision(p, v)]
    /\ \/ foreground' = foreground
       \/ /\ foreground # None /\ foreground' = None
          /\ foreground.problem = p /\ foreground.kind = "UserInput"
          /\ foreground.revision < RetiredRevision(p, v)

LEMMA DropFacts ==
    ASSUME IInv, NEW p, NEW v, RetireUserInputRuns(p, v) PROVE DropEffect(p, v)
<1>1. \A i \in DOMAIN pending : pending[i].kind # "UserInput"
  BY DEF IInv, PendingOnlySamples
<1> QED BY <1>1 DEF RetireUserInputRuns, DropEffect

ProcessEffect ==
    LET c == Head(commands)
    IN \/ c.type = "Run" /\ AcceptEffect(c.request)
       \/ /\ c.type = "Run" /\ Stale(c.request) /\ attempt' = attempt
          /\ UNCHANGED <<active, foreground, pending, latestSeen, retired>>
       \/ /\ c.type = "CancelStress" /\ StopEffect(c.problem, c.runId)
          /\ attempt' = attempt \/ IsStress(active.request, c.problem, c.runId)
       \/ c.type = "RetireUserInputRuns" /\ DropEffect(c.problem, c.revision) /\ attempt' = attempt

LEMMA ProcessFacts ==
    ASSUME EngineBase, Process
    PROVE /\ UNCHANGED <<ui, nextRunId, source, revision, run, stress, userInput, uiVars>>
          /\ UNCHANGED <<messages, spawned, stopping, retiring, gate>>
          /\ Said' = Said /\ commands # << >> /\ commands' = Tail(commands)
          /\ ~stopping /\ retiring = None /\ worker.pc \in {"wait", "drain"}
          /\ worker'.pc \in {"top", "drain"} /\ worker' \in WorkerStates
          /\ worker'.outcome = worker.outcome /\ worker'.failed = worker.failed
          /\ \/ attempt = None /\ attempt' = None /\ active = None
             \/ /\ attempt # None /\ attempt' # None /\ attempt' \in Attempts
                /\ attempt'.request = attempt.request /\ attempt'.number = attempt.number
                /\ attempt'.pc = attempt.pc /\ attempt'.outcome = attempt.outcome
          /\ ProcessEffect
<1>1. EngineTypes /\ IInv /\ WorkerInv
  BY DEF EngineBase
<1>2. PICK next \in {"top", "drain"} :
         /\ worker.pc \in {"wait", "drain"} /\ ~stopping /\ commands # << >>
         /\ ProcessCommand(next)
  BY DEF Process
<1> DEFINE c == Head(commands)
           cancels == \/ c.type = "Run" /\ ~Stale(c.request) /\ CancelsActive
                      \/ c.type = "CancelStress" /\ CancelsActiveStress(c.problem, c.runId)
                            /\ CancelsActive
<1>3. /\ \/ c.type = "Run" /\ RequestArrived(c.request)
         \/ c.type = "CancelStress" /\ CancelStress(c.problem, c.runId)
         \/ c.type = "RetireUserInputRuns" /\ RetireUserInputRuns(c.problem, c.revision)
      /\ commands' = Tail(commands)
      /\ attempt' = IF cancels THEN [attempt EXCEPT !.cancel = TRUE] ELSE attempt
      /\ worker' = [worker EXCEPT !.pc = next,
                                  !.drained = IF next = "drain" THEN worker.drained + 1 ELSE 0]
      /\ UNCHANGED <<uiVars, messages, spawned, stopping, gate>>
  BY <1>2 DEF ProcessCommand
<1>4. retiring = None /\ retiring' = None
  <2>1. retiring = None
    BY <1>1, <1>2 DEF WorkerInv
  <2> QED BY <1>3, <2>1 DEF RequestArrived, AcceptRequest, CancelStress, RetireUserInputRuns
<1>5. /\ worker'.pc \in {"top", "drain"} /\ worker' \in WorkerStates
      /\ worker'.outcome = worker.outcome /\ worker'.failed = worker.failed
  <2>1. worker \in WorkerStates /\ next \in WorkerPcs
    BY <1>1 DEF EngineTypes, WorkerPcs
  <2>2. (IF next = "drain" THEN worker.drained + 1 ELSE 0) \in Nat
    BY <2>1 DEF WorkerStates
  <2> QED BY <1>3, <2>1, <2>2 DEF WorkerStates
<1>6. UNCHANGED <<ui, nextRunId, source, revision, run, stress, userInput>> /\ Said' = Said
  BY <1>3 DEF uiVars, appVars, Said
<1>7. cancels => active # None
  BY DEF CancelsActive
<1>8. attempt = None => active = None
  BY <1>1, <1>2 DEF WorkerInv
<1>9. attempt = None => attempt' = None
  BY <1>3, <1>7, <1>8
<1>10. ASSUME attempt # None
       PROVE /\ attempt' # None /\ attempt' \in Attempts
             /\ attempt'.request = attempt.request /\ attempt'.number = attempt.number
             /\ attempt'.pc = attempt.pc /\ attempt'.outcome = attempt.outcome
  <2>1. attempt \in Attempts /\ None \notin Attempts
    BY <1>1, <1>10, EngineAssumption DEF EngineTypes
  <2>2. attempt' = attempt \/ attempt' = [attempt EXCEPT !.cancel = TRUE]
    BY <1>3
  <2> QED BY <2>1, <2>2 DEF Attempts
<1>11. ProcessEffect
  <2>1. c \in Commands
    BY <1>1, <1>2, <1>3, CommandTaken
  <2>2. CASE c.type = "Run" /\ RequestArrived(c.request)
    <3>1. c.request \in Request
      BY <2>1, <2>2 DEF Commands
    <3>2. CASE AcceptRequest(c.request)
      BY <1>1, <2>2, <3>1, <3>2, AcceptFacts DEF ProcessEffect
    <3>3. CASE Stale(c.request) /\ UNCHANGED <<active, queueVars, retiring>>
      <4>1. ~cancels
        BY <2>2, <3>3
      <4> QED BY <1>3, <2>2, <3>3, <4>1 DEF ProcessEffect, queueVars
    <3> QED BY <2>2, <3>2, <3>3 DEF RequestArrived
  <2>3. CASE c.type = "CancelStress" /\ CancelStress(c.problem, c.runId)
    <3>1. attempt' = attempt \/ IsStress(active.request, c.problem, c.runId)
      BY <1>3, <2>3 DEF CancelsActiveStress
    <3> QED BY <1>1, <2>3, <3>1, StopFacts DEF ProcessEffect
  <2>4. CASE c.type = "RetireUserInputRuns" /\ RetireUserInputRuns(c.problem, c.revision)
    <3>1. attempt' = attempt
      BY <1>3, <2>4
    <3> QED BY <1>1, <2>4, <3>1, DropFacts DEF ProcessEffect
  <2> QED BY <1>3, <2>2, <2>3, <2>4
<1> HIDE DEF cancels, c
<1> QED BY <1>2, <1>3, <1>4, <1>5, <1>6, <1>8, <1>9, <1>10, <1>11

LEMMA ProcessRequests ==
    ASSUME EngineBase, Process
    PROVE /\ Queued' \subseteq Queued \cup Commanded
          /\ active # None => active' # None /\ active'.request = active.request
          /\ active = None => active' = None
          /\ \A p, id : Tried(p, id)' <=> Tried(p, id)
          /\ \A p, id : Waits(p, id)' => Waits(p, id)
<1>1. /\ Commanded' \subseteq Commanded
      /\ Head(commands).type = "Run" => Head(commands).request \in Commanded
  BY CommandTaken, ProcessFacts DEF EngineBase
<1>2. /\ Queued' \subseteq Queued \cup Commanded
      /\ active # None => active' # None /\ active'.request = active.request
      /\ active = None => active' = None
  <2>1. CASE Head(commands).type = "Run" /\ AcceptEffect(Head(commands).request)
    BY <1>1, <2>1 DEF AcceptEffect
  <2>2. CASE UNCHANGED <<active, foreground, pending>>
    BY <2>2 DEF Queued
  <2>3. ASSUME NEW p, NEW id, StopEffect(p, id)
        PROVE /\ Queued' \subseteq Queued
              /\ (active # None => active' # None /\ active'.request = active.request)
              /\ (active = None => active' = None)
    BY <2>3 DEF StopEffect, Queued
  <2>4. ASSUME NEW p, NEW v, DropEffect(p, v)
        PROVE Queued' \subseteq Queued /\ active' = active
    BY <2>4 DEF DropEffect, Queued
  <2> QED BY <2>1, <2>2, <2>3, <2>4, ProcessFacts DEF ProcessEffect
<1>3. \A p, id : Tried(p, id)' <=> Tried(p, id)
  BY ProcessFacts DEF Tried
<1>4. \A p, id : Waits(p, id)' => Waits(p, id)
  BY <1>1, <1>2, ProcessFacts DEF Waits
<1> QED BY <1>2, <1>3, <1>4

LEMMA ProcessBase ==
    ASSUME EngineBase, Process PROVE EngineBase'
<1>1. EngineTypes /\ IInv /\ WorkerInv /\ RetiringApart
  BY DEF EngineBase
<1>2. EngineTypes'
  BY <1>1, ProcessFacts, CommandTaken DEF EngineTypes
<1>3. IInv'
  <2> DEFINE c == Head(commands)
  <2>1. c \in Commands
    BY <1>1, ProcessFacts, CommandTaken
  <2>2. /\ \/ c.type = "Run" /\ RequestArrived(c.request)
           \/ c.type = "CancelStress" /\ CancelStress(c.problem, c.runId)
           \/ c.type = "RetireUserInputRuns" /\ RetireUserInputRuns(c.problem, c.revision)
        /\ UNCHANGED gate /\ retiring = None
    BY ProcessFacts DEF Process, ProcessCommand
  <2>3. /\ c.type = "Run" => c.request \in Request
        /\ c.type = "CancelStress" => c.problem \in Problems /\ c.runId \in RunIds
        /\ c.type = "RetireUserInputRuns" => c.problem \in Problems /\ c.revision \in Revisions
    BY <2>1 DEF Commands
  <2> HIDE DEF c
  <2>4. Next
    BY <2>2, <2>3 DEF Next, ClientRequest, ClientCancel, ClientRetire
  <2> QED BY <1>1, <2>4, SchedulerKeeps
<1>4. WorkerInv'
  BY <1>1, ProcessFacts, ProcessRequests DEF WorkerInv
<1>5. RetiringApart'
  BY ProcessFacts DEF RetiringApart
<1> QED BY <1>2, <1>3, <1>4, <1>5 DEF EngineBase

LEMMA ProcessMoves ==
    ASSUME EngineBase, IdInv, GateInv, Process PROVE Moved
<1> DEFINE c == Head(commands)
<1>1. /\ Range(commands) = {c} \cup Range(commands') /\ c \in Commands
      /\ InOrder(commands') /\ Commanded' \subseteq Commanded
      /\ c.type = "Run" => /\ c.request \in Commanded
                           /\ \A x \in Commanded' : c.request.runId < x.runId
  BY CommandTaken, ProcessFacts DEF EngineBase, IdInv
<1>2. /\ UNCHANGED uiVars /\ gate' = gate /\ Said' = Said /\ ProcessEffect
      /\ retiring = None /\ retiring' = None
  BY ProcessFacts
<1>3. /\ latestSeen \in [Problems -> RunIds \cup {0}] /\ RunIds \subseteq Nat \ {0}
      /\ retired \in [Problems -> Revisions] /\ Revisions \subseteq Nat
      /\ revision \in [Problems -> Revisions]
  BY RunIdsAssumption, RevisionsAssumption DEF EngineBase, EngineTypes, IInv, TypeOK
<1>4. Held' \subseteq Held \cup Commanded
  BY <1>2, ProcessRequests DEF Held
<1>5. /\ \A q \in Problems : /\ latestSeen[q] <= latestSeen'[q] /\ latestSeen'[q] < nextRunId
                             /\ latestSeen'[q] \in Nat
      /\ \A x \in Commanded' : \A q \in Problems : latestSeen'[q] < x.runId
  <2>0. \A q \in Problems : latestSeen[q] \in Nat
    BY Fields
  <2>1. CASE latestSeen' = latestSeen
    BY <1>1, <2>0, <2>1 DEF IdInv
  <2>2. CASE latestSeen' # latestSeen
    <3>1. c.type = "Run" /\ AcceptEffect(c.request)
      BY <1>2, <2>2 DEF ProcessEffect, StopEffect, DropEffect
    <3>2. /\ c.request \in Request /\ c.request.runId \in Nat /\ c.request.problem \in Problems
          /\ latestSeen' = [latestSeen EXCEPT ![c.request.problem] = c.request.runId]
      BY <3>1, Fields, RequestFields DEF AcceptEffect
    <3>3. c.request.runId < nextRunId /\ \A q \in Problems : latestSeen[q] < c.request.runId
      BY <1>1, <3>1 DEF IdInv
    <3> HIDE DEF c
    <3>4. \A q \in Problems : latestSeen'[q] = latestSeen[q] \/ latestSeen'[q] = c.request.runId
      BY <1>3, <3>2
    <3>5. \A q \in Problems : /\ latestSeen[q] <= latestSeen'[q] /\ latestSeen'[q] < nextRunId
                               /\ latestSeen'[q] \in Nat
      BY <2>0, <3>2, <3>3, <3>4 DEF IdInv
    <3>6. \A x \in Commanded' : \A q \in Problems : latestSeen'[q] < x.runId
      BY <1>1, <3>1, <3>4 DEF IdInv
    <3> QED BY <3>5, <3>6
  <2> QED BY <2>1, <2>2
<1>6. \A q \in Problems : retired'[q] <= revision[q]
  <2>1. CASE retired' = retired
    BY <2>1 DEF GateInv
  <2>2. CASE retired' # retired
    <3>1. c.type = "RetireUserInputRuns" /\ DropEffect(c.problem, c.revision)
      BY <1>2, <2>2 DEF ProcessEffect, StopEffect, AcceptEffect
    <3>2. c \in Range(commands) /\ c.problem \in Problems /\ c.revision \in Nat
      BY <1>1, <1>3, <3>1 DEF Commands
    <3>3. /\ c.revision <= revision[c.problem]
          /\ retired' = [retired EXCEPT ![c.problem] = Newest(retired[c.problem], c.revision)]
      BY <3>1, <3>2 DEF GateInv, DropEffect, RetiredRevision
    <3> QED BY <1>3, <3>2, <3>3 DEF GateInv, Newest
  <2> QED BY <2>1, <2>2
<1>7. \A x \in Held' : x.runId <= latestSeen'[x.problem]
  <2> SUFFICES ASSUME NEW x \in Held' PROVE x.runId <= latestSeen'[x.problem]
    OBVIOUS
  <2>1. x \in Request /\ x.runId \in Nat /\ x.problem \in Problems
    BY <1>4, Fields
  <2>2. CASE x \in Held
    <3>1. /\ x.runId <= latestSeen[x.problem] /\ latestSeen[x.problem] <= latestSeen'[x.problem]
          /\ latestSeen[x.problem] \in Nat /\ latestSeen'[x.problem] \in Nat
      BY <1>5, <2>1, <2>2, Fields DEF IdInv
    <3> QED BY <2>1, <3>1
  <2>3. CASE x \notin Held
    <3>1. CASE c.type = "Run" /\ AcceptEffect(c.request)
      <4>1. x = c.request
        BY <1>2, <2>3, <3>1, ProcessRequests DEF AcceptEffect, Held
      <4> QED BY <1>3, <2>1, <3>1, <4>1 DEF AcceptEffect
    <3>2. CASE UNCHANGED <<active, foreground, pending>>
      BY <1>2, <2>3, <3>2 DEF Held, Queued
    <3>3. ASSUME NEW p, NEW id, StopEffect(p, id) PROVE FALSE
      BY <1>2, <2>3, <3>3 DEF Held, Queued, StopEffect
    <3>4. ASSUME NEW p, NEW v, DropEffect(p, v) PROVE FALSE
      BY <1>2, <2>3, <3>4 DEF Held, Queued, DropEffect
    <3> QED BY <1>2, <3>1, <3>2, <3>3, <3>4 DEF ProcessEffect
  <2> QED BY <2>2, <2>3
<1> QED BY <1>1, <1>2, <1>4, <1>5, <1>6, <1>7 DEF Moved

(* What the screen shows as active is not displaced by a command. *)
LEMMA ShownIsNotDisplaced ==
    ASSUME EngineBase, IdInv, NewestInv, NEW p \in Problems, NEW y \in Held, y.problem = p,
           NEW x \in Commanded, AcceptEffect(x)
    PROVE /\ RunActive(p) /\ y.runId = run[p].id => x.problem # p
          /\ ~(StressActive(p) /\ y.runId = stress[p].id)
          /\ ~(InputActive(p) /\ y.runId = userInput[p].id)
<1>1. /\ y.runId <= latestSeen[p] /\ latestSeen[p] < x.runId
      /\ y.runId \in Nat /\ x.runId \in Nat /\ latestSeen[p] \in Nat
  BY Fields DEF IdInv
<1> QED BY <1>1 DEF NewestInv

LEMMA CommandIsAccepted ==
    ASSUME EngineBase, IdInv, KindInv, ScreenInv, GateInv, Process, NEW p \in Problems,
           Head(commands).type = "Run", Head(commands).request.problem = p,
           \/ RunActive(p) /\ Head(commands).request.runId = run[p].id
           \/ StressActive(p) /\ Head(commands).request.runId = stress[p].id
           \/ InputActive(p) /\ Head(commands).request.runId = userInput[p].id
    PROVE AcceptEffect(Head(commands).request)
<1> DEFINE x == Head(commands).request
<1>1. x \in Commanded
  BY CommandTaken, ProcessFacts DEF EngineBase
<1>2. ~UserInputRetired(x)
  BY <1>1, ShownIsNotRetired
<1>3. latestSeen[p] < x.runId /\ latestSeen[p] \in Nat /\ x.runId \in Nat
  BY <1>1, Fields DEF IdInv
<1>4. ~Stale(x)
  BY <1>2, <1>3 DEF Stale
<1> QED BY <1>4, ProcessFacts DEF ProcessEffect

LEMMA ProcessNewest ==
    ASSUME EngineBase, IdInv, KindInv, NewestInv, Process PROVE NewestInv'
<1> DEFINE c == Head(commands)
<1>1. /\ Range(commands') \subseteq Range(commands) /\ Commanded' \subseteq Commanded
      /\ c.type = "Run" => c.request \in Commanded
  BY CommandTaken, ProcessFacts DEF EngineBase
<1>2. /\ UNCHANGED <<run, stress, userInput>> /\ worker'.failed = worker.failed
      /\ attempt' # None => attempt # None /\ attempt'.request = attempt.request
      /\ ProcessEffect
  BY ProcessFacts
<1>3. ASSUME NEW p \in Problems, InputActive(p), ~worker.failed, attempt' # None,
             attempt.request.problem = p, attempt.request.runId = userInput[p].id
      PROVE ~attempt'.cancel
  <2>1. attempt # None /\ attempt.request \in Held /\ attempt.request = active.request
    BY <1>2, <1>3, Fields
  <2>2. attempt.request.kind = "UserInput"
    BY <1>3, <2>1 DEF KindInv
  <2>3. attempt' = attempt
    <3>1. ~(c.type = "Run" /\ AcceptEffect(c.request))
      BY <1>1, <1>3, <2>1, ShownIsNotDisplaced
    <3>2. ~IsStress(active.request, c.problem, c.runId)
      BY <2>1, <2>2 DEF IsStress
    <3> QED BY <1>2, <3>1, <3>2 DEF ProcessEffect
  <2> QED BY <1>3, <2>1, <2>3 DEF NewestInv
<1>4. ASSUME NEW p \in Problems
      PROVE /\ RunActive(p) => \A x \in Commanded' : x.problem = p => x.runId <= run[p].id
            /\ StressActive(p) =>
                 /\ \A x \in Commanded' : x.runId <= stress[p].id
                 /\ \A k \in Range(commands') :
                       k.type = "CancelStress" /\ k.problem = p => k.runId # stress[p].id
            /\ InputActive(p) =>
                 /\ \A x \in Commanded' : x.runId <= userInput[p].id
                 /\ ~worker.failed /\ attempt' # None /\ attempt'.cancel =>
                       attempt'.request.problem # p \/ attempt'.request.runId # userInput[p].id
  BY <1>1, <1>2, <1>3 DEF NewestInv
<1> HIDE DEF c
<1> QED BY <1>2, <1>4 DEF NewestInv, RunActive, StressActive, InputActive

LEMMA ProcessPipe ==
    ASSUME EngineBase, IdInv, KindInv, ScreenInv, GateInv, NewestInv, PipeInv, Process PROVE PipeInv'
<1> DEFINE c == Head(commands)
<1>1. /\ Range(commands) = {c} \cup Range(commands') /\ Commanded' \subseteq Commanded
      /\ c \in Range(commands)
      /\ c.type = "Run" => c.request \in Commanded /\ Commanded = Commanded' \cup {c.request}
      /\ c.type # "Run" => Commanded' = Commanded
  BY CommandTaken, ProcessFacts DEF EngineBase
<1>2. /\ UNCHANGED <<run, stress, userInput>> /\ worker'.failed = worker.failed
      /\ attempt' # None => attempt # None /\ attempt'.outcome = attempt.outcome
      /\ ProcessEffect /\ Said' = Said /\ retiring = None
  BY ProcessFacts
<1>3. IInv /\ None \notin Request
  BY NoneIsNoRequest DEF EngineBase
<1> SUFFICES ASSUME ~worker.failed, NEW p \in Problems
             PROVE /\ RunActive(p) => RunOwed(p)'
                   /\ StressActive(p) => StressOwed(p)'
                   /\ InputActive(p) => InputOwed(p)'
  BY <1>2 DEF PipeInv, RunActive, StressActive, InputActive
<1> DEFINE Shows(id) == \/ RunActive(p) /\ id = run[p].id
                        \/ StressActive(p) /\ id = stress[p].id
                        \/ InputActive(p) /\ id = userInput[p].id
<1>4. /\ \A id : ~RetiringLatest(p, id)
      /\ \A id, types : Told(p, id, types)' <=> Told(p, id, types)
  BY <1>2 DEF RetiringLatest, Told, About
(* A command that is taken becomes the foreground. *)
<1>5. ASSUME NEW id, Shows(id), IsCommanded(p, id) PROVE IsCommanded(p, id)' \/ Foreground(p, id)'
  <2>1. PICK x \in Commanded : x.problem = p /\ x.runId = id
    BY <1>5 DEF IsCommanded
  <2>2. CASE x \in Commanded'
    BY <2>1, <2>2 DEF IsCommanded
  <2>3. CASE x \notin Commanded'
    <3>1. c.type = "Run" /\ x = c.request
      BY <1>1, <2>1, <2>3
    <3>2. AcceptEffect(x)
      BY <1>5, <2>1, <3>1, CommandIsAccepted
    <3>3. foreground' = x /\ foreground' # None
      BY <1>3, <3>2 DEF AcceptEffect
    <3> QED BY <2>1, <3>3 DEF Foreground
  <2> QED BY <2>2, <2>3
(* The active request stays what it is. *)
<1>6. ASSUME NEW id, Shows(id), ActiveLatest(p, id) PROVE ActiveLatest(p, id)'
  <2>1. /\ active # None /\ active.state = "Latest" /\ active.request.problem = p
        /\ active.request.runId = id /\ active.request \in Held
    BY <1>6, Fields DEF ActiveLatest
  <2>2. active' # None /\ active'.request = active.request
    BY <2>1, ProcessRequests
  <2>3. CASE c.type = "Run" /\ AcceptEffect(c.request)
    <3>1. c.request.problem # p
      BY <1>1, <1>6, <2>1, <2>3, ShownIsNotDisplaced
    <3>2. active'.state = active.state
      BY <2>1, <2>3, <3>1 DEF AcceptEffect
    <3> QED BY <2>1, <2>2, <3>2 DEF ActiveLatest
  <2>4. CASE active' = active
    BY <1>6, <2>4 DEF ActiveLatest
  <2>5. CASE c.type = "CancelStress" /\ IsStress(active.request, c.problem, c.runId)
    <3>1. c.problem = p /\ c.runId = id /\ active.request.kind = "Stress"
      BY <2>1, <2>5 DEF IsStress
    <3>2. StressActive(p) /\ id = stress[p].id
      BY <1>6, <2>1, <3>1 DEF KindInv
    <3> QED BY <1>1, <2>5, <3>1, <3>2 DEF NewestInv
  <2> QED BY <1>2, <2>3, <2>4, <2>5 DEF ProcessEffect, StopEffect, DropEffect
(* And so does the foreground. *)
<1>7. ASSUME NEW id, Shows(id), Foreground(p, id),
             foreground.kind # "Samples" PROVE Foreground(p, id)'
  <2>1. /\ foreground # None /\ foreground.problem = p /\ foreground.runId = id
        /\ foreground \in Held
    BY <1>7 DEF Foreground, Held, Queued
  <2>2. CASE c.type = "Run" /\ AcceptEffect(c.request)
    <3>1. ~RunActive(p) \/ id # run[p].id
      BY <1>7, <2>1 DEF KindInv
    <3> QED BY <1>1, <1>7, <2>1, <2>2, <3>1, ShownIsNotDisplaced
  <2>3. CASE foreground' = foreground
    BY <1>7, <2>3 DEF Foreground
  <2>4. CASE c.type = "CancelStress" /\ IsStress(foreground, c.problem, c.runId)
    <3>1. c.problem = p /\ c.runId = id /\ foreground.kind = "Stress"
      BY <2>1, <2>4 DEF IsStress
    <3>2. StressActive(p) /\ id = stress[p].id
      BY <1>7, <2>1, <3>1 DEF KindInv
    <3> QED BY <1>1, <2>4, <3>1, <3>2 DEF NewestInv
  <2>5. CASE /\ c.type = "RetireUserInputRuns" /\ foreground.problem = c.problem
             /\ foreground.kind = "UserInput"
             /\ foreground.revision < RetiredRevision(c.problem, c.revision)
    <3>1. InputActive(p) /\ id = userInput[p].id
      BY <1>7, <2>1, <2>5 DEF KindInv
    <3>2. foreground.revision = revision[p]
      BY <2>1, <3>1 DEF KindInv, ScreenInv
    <3>3. c.problem = p /\ c.revision <= revision[p] /\ retired[p] <= revision[p]
      BY <1>1, <2>1, <2>5 DEF GateInv
    <3>4. RetiredRevision(p, c.revision) <= revision[p]
      BY <3>3 DEF RetiredRevision, Newest
    <3>5. revision[p] \in Nat /\ RetiredRevision(p, c.revision) \in Nat
      <4>1. retired[p] \in Nat /\ revision[p] \in Nat
        BY RevisionsAssumption DEF EngineBase, EngineTypes, IInv, TypeOK
      <4>2. c.revision \in Nat
        <5>1. c \in Commands
          BY CommandTaken, ProcessFacts DEF EngineBase
        <5> QED BY <2>5, <5>1, RevisionsAssumption DEF Commands
      <4> QED BY <4>1, <4>2 DEF RetiredRevision, Newest
    <3> QED BY <2>5, <3>2, <3>3, <3>4, <3>5
  <2> QED BY <1>2, <2>2, <2>3, <2>4, <2>5 DEF ProcessEffect, StopEffect, DropEffect
(* A queued sample run stays queued. *)
<1>8. ASSUME RunActive(p), NEW y \in Queued, y.problem = p, y.runId = run[p].id
      PROVE \E z \in Queued' : z.problem = p /\ z.runId = run[p].id
  <2>1. y \in Held /\ y.kind = "Samples"
    BY <1>8 DEF Held, KindInv
  <2>2. CASE c.type = "Run" /\ AcceptEffect(c.request)
    <3>1. c.request.problem # p
      BY <1>1, <1>8, <2>1, <2>2, ShownIsNotDisplaced
    <3> QED BY <1>8, <2>1, <2>2, <3>1 DEF AcceptEffect
  <2>3. CASE UNCHANGED <<foreground, pending>>
    BY <1>8, <2>3 DEF Queued
  <2>4. CASE pending' = pending /\ foreground # None /\ foreground.kind # "Samples"
    BY <1>8, <2>1, <2>4 DEF Queued
  <2> QED BY <1>2, <2>2, <2>3, <2>4 DEF ProcessEffect, StopEffect, DropEffect, IsStress
<1>9. /\ RunActive(p) => RunOwed(p)
      /\ StressActive(p) => StressOwed(p)
      /\ InputActive(p) => InputOwed(p)
  BY DEF PipeInv
<1>10. ASSUME RunActive(p) PROVE RunOwed(p)'
  <2>1. run'[p].id = run[p].id /\ Shows(run[p].id)
    BY <1>2, <1>10
  <2>2. ASSUME Foreground(p, run[p].id)' PROVE \E x \in Queued' : x.problem = p /\ x.runId = run[p].id
    BY <1>2, <2>2 DEF Foreground, Queued
  <2> QED BY <1>4, <1>5, <1>6, <1>8, <1>9, <1>10, <2>1, <2>2 DEF RunOwed
<1>11. ASSUME StressActive(p) PROVE StressOwed(p)'
  <2>1. stress'[p].id = stress[p].id /\ Shows(stress[p].id)
    BY <1>2, <1>11
  <2>2. Foreground(p, stress[p].id) => foreground.kind # "Samples"
    BY DEF Foreground, Held, Queued, KindInv
  <2> QED BY <1>2, <1>4, <1>5, <1>6, <1>7, <1>9, <1>11, <2>1, <2>2 DEF StressOwed
<1>12. ASSUME InputActive(p) PROVE InputOwed(p)'
  <2>1. userInput'[p].id = userInput[p].id /\ Shows(userInput[p].id)
    BY <1>2, <1>12
  <2>2. Foreground(p, userInput[p].id) => foreground.kind # "Samples"
    BY DEF Foreground, Held, Queued, KindInv
  <2> QED BY <1>2, <1>4, <1>5, <1>6, <1>7, <1>9, <1>12, <2>1, <2>2 DEF InputOwed
<1> QED BY <1>10, <1>11, <1>12

LEMMA ProcessKeeps ==
    ASSUME EngineInv, Process PROVE EngineInv'
<1>1. EngineBase /\ EngineBase' /\ EngineTypes
  BY ProcessBase DEF EngineInv, EngineBase
<1> SUFFICES ASSUME ui = "running" PROVE RunningInv'
  BY <1>1, ProcessFacts DEF EngineInv, RunningInv
<1>2. IdInv /\ KindInv /\ ScreenInv /\ GateInv /\ SpeechInv /\ AttemptsInv /\ NewestInv /\ PipeInv
  BY DEF EngineInv, RunningInv
<1>3. IdInv' /\ KindInv' /\ ScreenInv' /\ GateInv'
  BY <1>1, <1>2, ProcessMoves, MovedKeeps
<1>4. SpeechInv'
  BY <1>1, <1>2, ProcessFacts, QuietSpeech
<1>5. AttemptsInv'
  <2>1. TriedToTheEnd => TriedToTheEnd'
    BY <1>1, ProcessFacts DEF TriedToTheEnd
  <2> QED BY <1>1, <1>2, <2>1, QuietAttempts, ProcessFacts, ProcessRequests
<1> QED BY <1>1, <1>2, <1>3, <1>4, <1>5, ProcessNewest, ProcessPipe, ProcessFacts DEF RunningInv

-------------------------------------------------------------------------------
(* The steps of the engine. *)
LEMMA UserStepHasEffect ==
    ASSUME EngineInv, UserStep, ~Quit PROVE \E new : UserEffect(new)
<1>1. ASSUME NEW p \in Problems, RunTests(p) \/ SourceChanged(p) \/ OpenSource(p) \/ StartStress(p)
               \/ RunUserInput(p) \/ RunUserInputWithoutSource(p) \/ SourceRemoved(p)
      PROVE \E new : UserEffect(new)
  BY <1>1, RunTestsEffect, SourceChangedEffect, OpenSourceEffect, StartStressEffect,
     RunUserInputEffect, RunUserInputWithoutSourceEffect, SourceRemovedEffect
<1> QED BY <1>1, StopStressEffect DEF UserStep

LEMMA UserStepKeeps ==
    ASSUME EngineInv, UserStep, ~Quit PROVE EngineInv' /\ ui' = "running"
<1>1. \E new : UserEffect(new)
  BY UserStepHasEffect
<1>2. ui' = "running"
  BY <1>1 DEF UserEffect
<1> QED BY <1>1, <1>2, UserKeeps

LEMMA WorkerStepKeeps ==
    ASSUME EngineInv, WorkerStep PROVE EngineInv'
BY WorkerCases, TurnKeeps, TakeKeeps, ProcessKeeps, StartKeeps, SpawnKeeps, PublishKeeps, CleanupKeeps

(* Once the session is left, nothing is on the screen. *)
LeftInv == ui # "running" =>
    /\ nextRunId = 1 /\ run = [p \in Problems |-> NoRun] /\ stress = [p \in Problems |-> NoStress]
    /\ userInput = [p \in Problems |-> NoInput]

EngineAlways == EngineInv /\ LeftInv

LEMMA EngineStarts == EngineInit => EngineAlways
<1> SUFFICES ASSUME EngineInit PROVE EngineAlways
  OBVIOUS
<1>1. /\ ui = "running" /\ nextRunId = 1
      /\ source = [p \in Problems |-> FALSE] /\ revision = [p \in Problems |-> 0]
      /\ run = [p \in Problems |-> NoRun] /\ stress = [p \in Problems |-> NoStress]
      /\ userInput = [p \in Problems |-> NoInput]
      /\ commands = << >> /\ messages = << >> /\ worker = NoFault /\ attempt = None
      /\ stopping = FALSE /\ spawned = 0
      /\ active = None /\ foreground = None /\ pending = << >> /\ retiring = None
      /\ latestSeen = [p \in Problems |-> 0] /\ retired = [p \in Problems |-> 0]
      /\ gate = [p \in Problems |-> 0]
  BY DEF EngineInit, Init
<1>2. IInv
  BY InitIInv DEF EngineInit
<1>3. EngineTypes
  <2>1. /\ 1 \in 1..(MaxRunId + 1) /\ 0 \in Revisions /\ NoRun \in RunStates /\ NoInput \in InputStates
        /\ NoStress \in StressStates
    BY EngineAssumption, RevisionsAssumption, NoInputType DEF NoStress, StressStates, Phases
  <2>2. NoFault \in WorkerStates
    BY DEF NoFault, WorkerStates, WorkerPcs
  <2>3. commands \in Seq(Commands) /\ messages \in Seq(Notes \cup {WorkerFailed})
    BY <1>1
  <2> QED BY <1>1, <2>1, <2>2, <2>3 DEF EngineTypes
<1>4. WorkerInv /\ RetiringApart
  BY <1>1 DEF WorkerInv, RetiringApart, NoFault
<1>5. Range(commands) = {} /\ Range(messages) = {} /\ Range(pending) = {} /\ DOMAIN messages = {}
      /\ DOMAIN commands = {}
  BY <1>1 DEF Range
<1>6. Commanded = {} /\ Queued = {} /\ Held = {} /\ Said = {}
  BY <1>1, <1>5 DEF Commanded, RunsOf, Queued, Held, Said
<1>7. \A p \in Problems : /\ ~RunActive(p) /\ ~StressActive(p) /\ ~InputActive(p)
                          /\ run[p].id = 0 /\ stress[p].id = 0 /\ userInput[p].id = 0
                          /\ run[p].attempts = {} /\ gate[p] = 0 /\ retired[p] = 0 /\ revision[p] = 0
                          /\ latestSeen[p] = 0
  BY <1>1 DEF NoRun, NoStress, NoInput, RunActive, StressActive, InputActive, ActivePhases
<1>8. IdInv /\ KindInv
  BY <1>1, <1>5, <1>6, <1>7 DEF IdInv, KindInv, InOrder
<1>9. ScreenInv /\ GateInv
  BY <1>5, <1>7 DEF ScreenInv, GateInv
<1>10. SpeechInv
  BY <1>5, <1>6, <1>7 DEF SpeechInv
<1>11. AttemptsInv /\ NewestInv /\ PipeInv
  BY <1>7 DEF AttemptsInv, AttemptsAgree, NewestInv, PipeInv
<1> QED BY <1>1, <1>2, <1>3, <1>4, <1>8, <1>9, <1>10, <1>11
        DEF EngineAlways, EngineInv, EngineBase, RunningInv, LeftInv

LEMMA EngineStutters ==
    ASSUME EngineAlways, UNCHANGED engineVars PROVE EngineAlways'
<1>1. /\ UNCHANGED <<ui, nextRunId, source, revision, run, stress, userInput, removed, commands, messages>>
      /\ UNCHANGED <<worker, attempt, spawned, stopping>>
      /\ UNCHANGED <<active, foreground, pending, latestSeen, retired, retiring, gate>>
  BY DEF engineVars, uiVars, appVars, workerVars, vars
<1>2. Commanded' = Commanded /\ Queued' = Queued /\ Held' = Held /\ Said' = Said
  BY <1>1 DEF Commanded, Queued, Held, Said
<1>3. EngineBase'
  <2>1. IInv'
    BY <1>1, SchedulerKeeps DEF EngineAlways, EngineInv, EngineBase, vars
  <2>2. EngineTypes' /\ WorkerInv' /\ RetiringApart'
    BY <1>1, <1>2 DEF EngineAlways, EngineInv, EngineBase, EngineTypes, WorkerInv, RetiringApart
  <2> QED BY <2>1, <2>2 DEF EngineBase
<1>4. CASE ui # "running"
  BY <1>1, <1>3, <1>4 DEF EngineAlways, EngineInv, RunningInv, LeftInv
<1>5. CASE ui = "running"
  <2>1. IdInv /\ KindInv /\ ScreenInv /\ GateInv /\ SpeechInv /\ AttemptsInv /\ NewestInv /\ PipeInv
        /\ EngineTypes
    BY <1>5 DEF EngineAlways, EngineInv, EngineBase, RunningInv
  <2>2. IdInv' /\ KindInv' /\ ScreenInv' /\ GateInv' /\ NewestInv'
    BY <1>1, <1>2, <2>1 DEF IdInv, KindInv, ScreenInv, GateInv, NewestInv, RunActive, StressActive, InputActive
  <2>3. SpeechInv'
    BY <1>1, <1>2, <2>1 DEF SpeechInv
  <2>4. AttemptsInv'
    <3>1. /\ \A p, id : Waits(p, id)' <=> Waits(p, id)
          /\ \A p, id : Tried(p, id)' <=> Tried(p, id)
          /\ TriedToTheEnd' <=> TriedToTheEnd
      BY <1>1, <1>2 DEF Waits, Tried, TriedToTheEnd
    <3>2. UNCHANGED uiVars
      BY <1>1 DEF uiVars, appVars
    <3> QED BY <1>1, <1>2, <2>1, <3>1, <3>2, QuietAttempts
  <2>5. PipeInv'
    BY <1>1, <1>2, <2>1 DEF PipeInv, RunActive, StressActive, InputActive, RunOwed, StressOwed, InputOwed,
       IsCommanded, ActiveLatest, RetiringLatest, Foreground, Told, About
  <2> QED BY <1>1, <1>3, <1>5, <2>2, <2>3, <2>4, <2>5 DEF EngineAlways, EngineInv, RunningInv, LeftInv
<1> QED BY <1>4, <1>5

LEMMA EngineKeeps == EngineAlways /\ [EngineNext]_engineVars => EngineAlways'
<1> SUFFICES ASSUME EngineAlways, [EngineNext]_engineVars PROVE EngineAlways'
  OBVIOUS
<1>1. EngineInv /\ EngineBase /\ LeftInv
  BY DEF EngineAlways, EngineInv
<1>2. CASE UserStep /\ ~Quit
  BY <1>1, <1>2, UserStepKeeps DEF EngineAlways, LeftInv
<1>3. CASE HandleMessage
  BY <1>1, <1>3, HandleKeeps DEF EngineAlways, LeftInv, HandleMessage
<1>4. CASE Leave \/ RequestStop \/ JoinWorker
  <2>1. EngineInv'
    BY <1>1, <1>4, LeaveKeeps DEF EngineInv, RunningInv
  <2>2. CASE Leave
    BY <2>1, <2>2 DEF EngineAlways, LeftInv, Leave
  <2>3. CASE RequestStop \/ JoinWorker
    BY <1>1, <2>1, <2>3 DEF EngineAlways, LeftInv, RequestStop, JoinWorker, uiVars, appVars
  <2> QED BY <1>4, <2>2, <2>3
<1>5. CASE AttemptStep \/ AttemptMishap
  <2>1. AttemptEffect
    BY <1>1, <1>5, AttemptSteps
  <2> QED BY <1>1, <2>1, AttemptKeeps, AttemptFrameFacts DEF EngineAlways, LeftInv
<1>6. CASE WorkerStep
  <2>1. EngineInv'
    BY <1>1, <1>6, WorkerStepKeeps
  <2>2. UNCHANGED uiVars
    <3>1. CASE Turn
      BY <3>1 DEF Turn, NoCompletion
    <3> QED BY <1>1, <1>6, <3>1, WorkerCases, TakeFacts, ProcessFacts, StartFacts, SpawnFacts,
               PublishFacts, CleanupFacts
  <2> QED BY <1>1, <2>1, <2>2 DEF EngineAlways, LeftInv, uiVars, appVars
<1>7. CASE UNCHANGED engineVars
  BY <1>7, EngineStutters
<1> QED BY <1>2, <1>3, <1>4, <1>5, <1>6, <1>7
        DEF EngineNext, UiStep, HandleWorkerFailed, UserStep, Quit, Closed

(* The invariant of the engine holds: the results below are read off it.  *)
THEOREM EngineAlwaysHolds == EngineSpec => []EngineAlways
BY EngineStarts, EngineKeeps, PTL DEF EngineSpec

-------------------------------------------------------------------------------
(* The results. *)

(* Every variable of the session loop, the channels, the worker and the    *)
(* attempt keeps its type.                                                 *)
THEOREM EngineTypeCorrect == EngineSpec => []EngineTypeOK
<1>1. EngineAlways => EngineTypeOK
  <2> SUFFICES ASSUME EngineAlways PROVE EngineTypeOK
    OBVIOUS
  <2>1. EngineTypes /\ TypeOK
    BY DEF EngineAlways, EngineInv, EngineBase, IInv
  <2>2. \A p \in Problems : /\ run[p] \in RunStates /\ stress[p] \in StressStates
                            /\ userInput[p] \in InputStates
    BY <2>1 DEF EngineTypes
  <2>3. \A p \in Problems : /\ run[p].id < nextRunId /\ stress[p].id < nextRunId
                            /\ userInput[p].id < nextRunId
    <3>1. CASE ui = "running"
      BY <3>1 DEF EngineAlways, EngineInv, RunningInv, IdInv
    <3>2. CASE ui # "running"
      BY <3>2 DEF EngineAlways, LeftInv, NoRun, NoStress, NoInput
    <3> QED BY <3>1, <3>2
  <2> QED BY <2>1, <2>2, <2>3 DEF EngineTypes, EngineTypeOK, RunStates, StressStates, InputStates, WorkerStates
<1> QED BY EngineAlwaysHolds, <1>1, PTL

(* What ends a run on the screen. *)
Endings == {"RunCompleted", "RunFailed", "InputFinished", "StressFailed", "StressCancelled"}

(* As long as the worker lives, every run the UI shows as queued,          *)
(* compiling or running is commanded, held by the scheduler, or its        *)
(* outcome is on its way: no run hangs on the screen for ever because its  *)
(* request or its result was lost between the threads.                     *)
THEOREM ShownRunsAreOwed == EngineSpec => []ShownRunsAreInPipeline
<1>1. EngineAlways => ShownRunsAreInPipeline
  <2> SUFFICES ASSUME EngineAlways, ~worker.failed, NEW p \in Problems
               PROVE /\ IsActive(run[p]) => InPipeline(p, run[p].id)
                     /\ IsActive(stress[p]) => InPipeline(p, stress[p].id)
                     /\ userInput[p].status \in ActivePhases => InPipeline(p, userInput[p].id)
    BY DEF ShownRunsAreInPipeline, WorkerAlive
  <2>1. CASE ui # "running"
    BY <2>1 DEF EngineAlways, LeftInv, NoRun, NoStress, NoInput, IsActive, ActivePhases
  <2>2. CASE ui = "running"
    <3>1. PipeInv
      BY <2>2 DEF EngineAlways, EngineInv, RunningInv
    <3>2. \A id : IsCommanded(p, id) => InPipeline(p, id)
      BY DEF IsCommanded, Commanded, RunsOf, Range, InPipeline
    <3>3. Queued \subseteq Logical
      BY DEF Queued, Range, Logical
    <3>4. \A id : (\/ \E x \in Queued : x.problem = p /\ x.runId = id
                   \/ ActiveLatest(p, id) \/ RetiringLatest(p, id))
                     => InPipeline(p, id)
      BY <3>3 DEF ActiveLatest, RetiringLatest, Logical, InPipeline
    <3>5. \A id : Foreground(p, id) => InPipeline(p, id)
      <4> SUFFICES ASSUME NEW id, Foreground(p, id) PROVE InPipeline(p, id)
        OBVIOUS
      <4>1. foreground \in Queued /\ foreground.problem = p /\ foreground.runId = id
        BY DEF Foreground, Queued
      <4> QED BY <3>4, <4>1
    <3>6. \A id, m : m \in About(p, id) /\ m.type \in Endings => InPipeline(p, id)
      BY DEF About, Said, Range, InPipeline, Endings
    <3>7. /\ RunActive(p) => RunOwed(p)
          /\ StressActive(p) => StressOwed(p)
          /\ InputActive(p) => InputOwed(p)
      BY <3>1 DEF PipeInv
    <3>8. IsActive(run[p]) => InPipeline(p, run[p].id)
      <4>1. Told(p, run[p].id, {"RunCompleted", "RunFailed"}) => InPipeline(p, run[p].id)
        BY <3>6 DEF Told, Endings
      <4> QED BY <3>2, <3>4, <3>7, <4>1 DEF RunOwed, IsActive, RunActive
    <3>9. IsActive(stress[p]) => InPipeline(p, stress[p].id)
      <4>1. Told(p, stress[p].id, {"RunCompleted", "RunFailed", "StressCancelled"})
              => InPipeline(p, stress[p].id)
        BY <3>6 DEF Told, Endings
      <4> QED BY <3>2, <3>4, <3>5, <3>7, <4>1 DEF StressOwed, IsActive, StressActive
    <3>10. userInput[p].status \in ActivePhases => InPipeline(p, userInput[p].id)
      <4>1. Told(p, userInput[p].id, {"InputFinished", "RunFailed"}) => InPipeline(p, userInput[p].id)
        BY <3>6 DEF Told, Endings
      <4> QED BY <3>2, <3>4, <3>5, <3>7, <4>1 DEF InputOwed, InputActive
    <3> QED BY <3>8, <3>9, <3>10
  <2> QED BY <2>1, <2>2
<1> QED BY EngineAlwaysHolds, <1>1, PTL

(* Over all problems at most one stress run or user input is shown as      *)
(* active, never beside an active sample run of its problem; and a sample  *)
(* result on the screen stems from one attempt, for run_requeued arrives   *)
(* between what a preempted attempt and its successor have to say.         *)
THEOREM ScreenShowsOneRun == EngineSpec => []OneRunOnScreen
<1>1. EngineAlways => OneRunOnScreen
  <2> SUFFICES ASSUME EngineAlways PROVE OneRunOnScreen
    OBVIOUS
  <2> DEFINE Shown(p) == (IF stress[p].phase \in ActivePhases THEN {<<p, "Stress">>} ELSE {})
                         \cup (IF userInput[p].status \in ActivePhases
                               THEN {<<p, "UserInput">>} ELSE {})
             all == UNION {Shown(p) : p \in Problems}
  <2>1. \A S : (\E x : S \subseteq {x}) => Cardinality(S) <= 1
    <3> SUFFICES ASSUME NEW S, NEW x, S \subseteq {x} PROVE Cardinality(S) <= 1
      OBVIOUS
    <3>1. S = {} \/ S = {x}
      OBVIOUS
    <3>2. Cardinality({}) = 0 /\ Cardinality({x}) = 1
      BY FS_EmptySet, FS_Singleton
    <3> QED BY <3>1, <3>2
  <2>2. ASSUME \A p \in Problems : ~StressActive(p) /\ ~InputActive(p) PROVE all \subseteq {0}
    BY <2>2 DEF StressActive, InputActive
  <2>3. CASE ui # "running"
    <3>1. \A p \in Problems : ~StressActive(p) /\ ~InputActive(p) /\ ~RunActive(p) /\ run[p].attempts = {}
      BY <2>3 DEF EngineAlways, LeftInv, NoRun, NoStress, NoInput, ActivePhases,
                  StressActive, InputActive, RunActive
    <3>2. Cardinality(all) <= 1
      BY <2>1, <2>2, <3>1
    <3>3. \A p \in Problems : Cardinality(run[p].attempts) <= 1
      BY <2>1, <3>1
    <3> QED BY <3>1, <3>2, <3>3 DEF OneRunOnScreen, RunActive
  <2>4. CASE ui = "running"
    <3>1. ScreenInv /\ AttemptsInv
      BY <2>4 DEF EngineAlways, EngineInv, RunningInv
    <3>2. \E x : all \subseteq {x}
      <4>1. ASSUME NEW p \in Problems, StressActive(p) PROVE all \subseteq {<<p, "Stress">>}
        BY <3>1, <4>1 DEF ScreenInv, StressActive, InputActive
      <4>2. ASSUME NEW p \in Problems, InputActive(p) PROVE all \subseteq {<<p, "UserInput">>}
        BY <3>1, <4>2 DEF ScreenInv, StressActive, InputActive
      <4> HIDE DEF all
      <4> QED BY <2>2, <4>1, <4>2
    <3>3. Cardinality(all) <= 1
      BY <2>1, <3>2
    <3>4. \A p \in Problems : run[p].phase \in ActivePhases => Shown(p) = {}
      BY <3>1 DEF ScreenInv, RunActive, StressActive, InputActive
    <3>5. ASSUME NEW p \in Problems PROVE Cardinality(run[p].attempts) <= 1
      <4>1. \A n, k \in run[p].attempts : n = k
        BY <3>1 DEF AttemptsInv, AttemptsAgree
      <4>2. \E x : run[p].attempts \subseteq {x}
        BY <4>1
      <4> QED BY <2>1, <4>2
    <3> QED BY <3>3, <3>4, <3>5 DEF OneRunOnScreen
  <2> QED BY <2>3, <2>4
<1> QED BY EngineAlwaysHolds, <1>1, PTL

(* invariants_hold, the debug assertion of run_scheduler.rs, never fails   *)
(* in the scheduler that the worker drives, faults and shutdown included.  *)
THEOREM EngineAssertionNeverFails == EngineSpec => []InvariantsHold
<1>1. EngineAlways => InvariantsHold
  BY DEF EngineAlways, EngineInv, EngineBase, IInv
<1> QED BY EngineAlwaysHolds, <1>1, PTL

-------------------------------------------------------------------------------
(* What no step of the engine does. *)

(* Once shutdown has won the lifecycle gate, no step publishes an outcome, *)
(* queues a request again or spawns an attempt.                            *)
THEOREM EngineShutsDownSilently == EngineSpec => ShutdownIsSilent
<1> DEFINE Silence == stopping => /\ OutcomesIn(messages') = OutcomesIn(messages)
                                  /\ Len(pending') <= Len(pending)
                                  /\ spawned' = spawned
<1>1. EngineAlways /\ [EngineNext]_engineVars => [Silence]_engineVars
  <2> SUFFICES ASSUME EngineAlways, EngineNext, stopping
               PROVE /\ OutcomesIn(messages') = OutcomesIn(messages)
                     /\ Len(pending') <= Len(pending)
                     /\ spawned' = spawned
    OBVIOUS
  <2>1. EngineBase /\ EngineTypes /\ ui # "running" /\ pending \in Seq(Request)
    BY DEF EngineAlways, EngineInv, EngineBase, WorkerInv, IInv, TypeOK
  <2>2. Len(pending) \in Nat
    BY <2>1, LenProperties
  <2>3. ASSUME UNCHANGED <<messages, pending, spawned>>
        PROVE /\ OutcomesIn(messages') = OutcomesIn(messages)
              /\ Len(pending') <= Len(pending) /\ spawned' = spawned
    BY <2>2, <2>3
  <2>4. ~UserStep /\ ~HandleMessage /\ ~HandleWorkerFailed /\ ~RequestStop
    BY <2>1 DEF UserStep, RunTests, SourceChanged, OpenSource, StartStress, RunUserInput,
       RunUserInputWithoutSource, SourceRemoved, StopStress, Quit, HandleMessage, HandleWorkerFailed,
       RequestStop
  <2>5. CASE JoinWorker \/ Closed
    BY <2>3, <2>5 DEF JoinWorker, Closed, engineVars, workerVars, vars
  <2>6. CASE AttemptStep \/ AttemptMishap
    <3>1. AttemptEffect
      BY <2>1, <2>6, AttemptSteps
    <3>2. messages' = messages
      BY <2>1, <3>1 DEF AttemptEffect
    <3> QED BY <2>1, <2>3, <3>1, <3>2, AttemptFrameFacts
  <2>7. CASE WorkerStep
    <3>1. CASE Turn
      BY <2>3, <3>1 DEF Turn, NoCompletion, vars
    <3>2. CASE Take
      BY <2>1, <2>3, <3>2, TakeFacts
    <3>3. ~Process /\ ~Starts /\ ~SpawnAttempt
      BY <2>1, SpawnFacts DEF Process, Starts
    <3>4. CASE PublishOutcome
      <4>1. DropRetired /\ Silent /\ UNCHANGED spawned
        BY <3>4 DEF PublishOutcome, MayPublish
      <4> QED BY <2>3, <4>1 DEF DropRetired, queueVars, Silent
    <3>5. CASE Cleanup
      <4>1. /\ UNCHANGED <<pending, spawned>>
            /\ messages' = messages \/ messages' = Append(messages, WorkerFailed)
        BY <2>1, <3>5, CleanupFacts
      <4>2. OutcomesIn(Append(messages, WorkerFailed)) = OutcomesIn(messages)
        <5> DEFINE S == Notes \cup {WorkerFailed}
                   t == Append(messages, WorkerFailed)
        <5>1. messages \in Seq(S) /\ WorkerFailed \in S
          BY <2>1 DEF EngineTypes
        <5> HIDE DEF S
        <5>2. /\ Len(messages) \in Nat
              /\ DOMAIN messages = 1..Len(messages) /\ DOMAIN t = 1..(Len(messages) + 1)
              /\ \A i \in 1..Len(messages) : t[i] = messages[i]
              /\ t[Len(messages) + 1] = WorkerFailed
          BY <5>1, AppendFacts
        <5> HIDE DEF t
        <5>3. \A i \in DOMAIN t : (i \in DOMAIN messages /\ t[i] = messages[i])
                                    \/ t[i].type = "WorkerFailed"
          BY <5>2 DEF WorkerFailed
        <5>4. \A i \in DOMAIN messages : i \in DOMAIN t /\ t[i] = messages[i]
          BY <5>2
        <5>5. OutcomesIn(t) = OutcomesIn(messages)
          BY <5>3, <5>4 DEF OutcomesIn
        <5> QED BY <5>5 DEF t
      <4>3. OutcomesIn(messages') = OutcomesIn(messages)
        <5>1. CASE messages' = messages
          BY <5>1
        <5>2. CASE messages' = Append(messages, WorkerFailed)
          BY <4>2, <5>2
        <5> QED BY <4>1, <5>1, <5>2
      <4>4. Len(pending') <= Len(pending) /\ spawned' = spawned
        BY <2>2, <4>1
      <4> QED BY <4>3, <4>4
    <3> QED BY <2>7, <3>1, <3>2, <3>3, <3>4, <3>5, WorkerCases
  <2> QED BY <2>4, <2>5, <2>6, <2>7 DEF EngineNext, UiStep
<1> QED BY EngineAlwaysHolds, <1>1, PTL DEF EngineSpec, ShutdownIsSilent

(* A removal closes the gate for every user input of its problem that was  *)
(* requested before it.  This needs that no request is newer than the      *)
(* revision the screen has, which a removal raises, and lasts because the  *)
(* gate never goes back and later requests carry later identifiers.        *)
Requests == Commanded \cup Held
RemovalInv ==
    /\ removed \in [Problems -> Nat]
    /\ \A x \in Requests : x.kind = "UserInput" /\ x.runId < removed[x.problem] =>
          x.revision < gate[x.problem]
    /\ ui = "running" =>
          /\ \A p \in Problems : removed[p] <= nextRunId
          /\ \A x \in Requests : x.kind = "UserInput" => x.revision <= revision[x.problem]

(* Only the user makes requests and opens or closes gates.                 *)
OthersEffect ==
    /\ UNCHANGED <<removed, gate>>
    /\ Requests' \subseteq Requests
    /\ ui' = "running" => UNCHANGED <<ui, nextRunId, revision>>

LEMMA WorkerRequests ==
    ASSUME EngineBase, WorkerStep PROVE OthersEffect
<1>1. CASE Turn
  BY <1>1 DEF Turn, NoCompletion, uiVars, appVars, vars, OthersEffect, Requests, Commanded, Held, Queued
<1>2. CASE Take
  BY <1>2, TakeFacts DEF OthersEffect, Requests, uiVars, appVars
<1>3. CASE Process
  <2>1. Commanded' \subseteq Commanded
    BY <1>3, CommandTaken, ProcessFacts DEF EngineBase
  <2>2. Held' \subseteq Requests
    BY <1>3, ProcessRequests, ProcessFacts DEF Held, Requests
  <2> QED BY <1>3, <2>1, <2>2, ProcessFacts DEF OthersEffect, Requests, uiVars, appVars
<1>4. CASE Starts
  <2>1. IInv /\ Len(pending) \in Nat
    BY LenProperties DEF EngineBase, IInv, TypeOK
  <2>2. Queued' \subseteq Queued /\ (active' # None => active'.request \in Queued)
    BY <1>4, <2>1, StartKeepsRequests DEF Starts
  <2>3. Held' \subseteq Held
    BY <1>4, <2>2, StartFacts DEF Held
  <2> QED BY <1>4, <2>3, StartFacts DEF OthersEffect, Requests, uiVars, appVars
<1>5. CASE SpawnAttempt
  BY <1>5, SpawnFacts DEF OthersEffect, Requests, uiVars, appVars
<1>6. CASE PublishOutcome
  <2>1. Held' \subseteq Held
    BY <1>6, PublishFacts DEF Held
  <2> QED BY <1>6, <2>1, PublishFacts DEF OthersEffect, Requests, uiVars, appVars
<1>7. CASE Cleanup
  BY <1>7, CleanupFacts DEF OthersEffect, Requests, uiVars, appVars
<1> QED BY <1>1, <1>2, <1>3, <1>4, <1>5, <1>6, <1>7, WorkerCases

LEMMA OthersRequests ==
    ASSUME EngineBase, [EngineNext]_engineVars, ~(UserStep /\ ~Quit) PROVE OthersEffect
<1>1. CASE UNCHANGED <<commands, vars, removed>> /\ (ui' = "running" => UNCHANGED <<ui, nextRunId, revision>>)
  BY <1>1 DEF vars, OthersEffect, Requests, Commanded, Held, Queued
<1>2. CASE HandleMessage
  BY <1>1, <1>2 DEF HandleMessage
<1>3. CASE Leave \/ RequestStop \/ JoinWorker
  BY <1>1, <1>3 DEF Leave, RequestStop, JoinWorker, uiVars, appVars
<1>4. CASE AttemptStep \/ AttemptMishap
  <2>1. AttemptEffect
    BY <1>4, AttemptSteps
  <2> QED BY <1>1, <2>1 DEF AttemptEffect, AttemptFrame, uiVars, appVars
<1>5. CASE WorkerStep
  BY <1>5, WorkerRequests
<1>6. CASE UNCHANGED engineVars
  BY <1>1, <1>6 DEF engineVars, uiVars, appVars
<1> QED BY <1>2, <1>3, <1>4, <1>5, <1>6
        DEF EngineNext, UiStep, HandleWorkerFailed, UserStep, Quit, Closed

LEMMA OthersKeepRemoval ==
    ASSUME RemovalInv, OthersEffect PROVE RemovalInv'
BY DEF RemovalInv, OthersEffect

(* A user action other than a removal: what it requests, if anything, is   *)
(* of the revision on the screen.                                          *)
RequestsOne ==
    /\ UNCHANGED <<removed, gate>>
    /\ \/ Requests' \subseteq Requests
       \/ /\ nextRunId' = nextRunId + 1
          /\ \E x \in Request : /\ Requests' = Requests \cup {x} /\ x.runId = nextRunId
                                /\ x.kind = "UserInput" => x.revision = revision[x.problem]

LEMMA UserRequests ==
    ASSUME EngineInv, NEW p \in Problems,
           RunTests(p) \/ SourceChanged(p) \/ OpenSource(p) \/ StartStress(p)
             \/ RunUserInput(p) \/ RunUserInputWithoutSource(p),
           Held' = Held
    PROVE RequestsOne
<1>1. EngineTypes
  BY DEF EngineInv, EngineBase
<1>2. UNCHANGED <<removed, gate>>
  BY DEF RunTests, SourceChanged, OpenSource, StartStress, RunUserInput, RunUserInputWithoutSource, vars
<1>3. CASE commands' = commands
  BY <1>2, <1>3 DEF RequestsOne, Requests, Commanded
<1>4. ASSUME NEW kind \in Kinds, nextRunId <= MaxRunId, nextRunId' = nextRunId + 1,
             commands' = Append(commands, RunCommand(p, kind))
      PROVE RequestsOne
  <2> DEFINE x == RunCommand(p, kind).request
  <2>1. /\ x \in Request /\ x.runId = nextRunId /\ x.problem = p /\ x.kind = kind
        /\ kind = "UserInput" => x.revision = revision[p]
        /\ Commanded' = Commanded \cup {x}
    BY <1>1, <1>4, RequestSent
  <2> HIDE DEF x
  <2>2. Requests' = Requests \cup {x}
    BY <2>1 DEF Requests
  <2> QED BY <1>2, <1>4, <2>1, <2>2 DEF RequestsOne
<1>5. CASE OpenSource(p) \/ RunUserInputWithoutSource(p)
  BY <1>3, <1>5 DEF OpenSource, RunUserInputWithoutSource
<1>6. CASE RunTests(p) \/ SourceChanged(p)
  BY <1>4, <1>6 DEF RunTests, SourceChanged, QueueRun, Kinds
<1>7. CASE StartStress(p) \/ RunUserInput(p)
  BY <1>4, <1>7 DEF StartStress, RunUserInput, Kinds
<1> QED BY <1>5, <1>6, <1>7

LEMMA UserKeepsRemoval ==
    ASSUME EngineInv, UserStep, ~Quit, RemovalInv PROVE RemovalInv'
<1>1. PICK new : UserEffect(new)
  BY UserStepHasEffect
<1>2. /\ ui = "running" /\ ui' = "running" /\ Held' = Held
      /\ Commanded' = Commanded \cup new /\ (new # {} => nextRunId' = nextRunId + 1)
      /\ nextRunId' \in {nextRunId, nextRunId + 1}
      /\ revision' \in [Problems -> Revisions]
      /\ \A q \in Problems : revision[q] <= revision'[q]
  BY <1>1, UserFrame DEF UserEffect, Sent
<1>3. /\ nextRunId \in Nat /\ Requests \subseteq Request
      /\ \A x \in Request : x.runId \in Nat /\ x.problem \in Problems /\ x.revision \in Nat
  BY Fields, RevisionsAssumption DEF EngineInv, Requests, Request
<1>4. /\ revision \in [Problems -> Nat] /\ revision' \in [Problems -> Nat]
      /\ gate \in [Problems -> Nat]
  BY <1>2, RevisionsAssumption DEF EngineInv, EngineBase, EngineTypes, IInv, TypeOK
<1>5. CASE RequestsOne
  <2>1. removed' = removed /\ gate' = gate /\ removed' \in [Problems -> Nat]
    BY <1>5 DEF RequestsOne, RemovalInv
  <2>2. \A q \in Problems : removed'[q] <= nextRunId'
    BY <1>2, <1>3, <2>1 DEF RemovalInv
  <2>3. ASSUME NEW x \in Requests', x.kind = "UserInput"
        PROVE /\ x.runId < removed'[x.problem] => x.revision < gate'[x.problem]
              /\ x.revision <= revision'[x.problem]
    <3>1. CASE x \in Requests
      BY <1>2, <1>3, <1>4, <2>1, <2>3, <3>1 DEF RemovalInv
    <3>2. CASE x \in Request /\ x.runId = nextRunId /\ x.revision = revision[x.problem]
      BY <1>2, <1>3, <1>4, <2>1, <3>2 DEF RemovalInv
    <3> QED BY <1>5, <2>3, <3>1, <3>2 DEF RequestsOne
  <2> QED BY <1>2, <2>1, <2>2, <2>3 DEF RemovalInv
<1>6. CASE StopStress
  <2>1. Requests' = Requests
    BY <1>2, <1>3, <1>6 DEF StopStress, Requests
  <2> QED BY <1>5, <1>6, <2>1 DEF StopStress, vars, RequestsOne
<1>7. ASSUME NEW p \in Problems, SourceRemoved(p) PROVE RemovalInv'
  <2>1. /\ nextRunId' = nextRunId /\ removed' = [removed EXCEPT ![p] = nextRunId]
        /\ revision' = [revision EXCEPT ![p] = @ + 1]
        /\ gate' = [gate EXCEPT ![p] = Newest(@, revision[p] + 1)]
    BY <1>7 DEF SourceRemoved, RetireBefore
  <2>2. Requests' = Requests
    BY <1>2, <1>3, <2>1 DEF Requests
  <2>3. removed' \in [Problems -> Nat] /\ \A q \in Problems : removed'[q] <= nextRunId'
    BY <1>2, <1>3, <2>1 DEF RemovalInv
  <2>4. ASSUME NEW x \in Requests', x.kind = "UserInput"
        PROVE /\ x.runId < removed'[x.problem] => x.revision < gate'[x.problem]
              /\ x.revision <= revision'[x.problem]
    <3>1. /\ x.problem \in Problems /\ x.revision \in Nat /\ x.runId \in Nat
          /\ x.revision <= revision[x.problem]
          /\ x.runId < removed[x.problem] => x.revision < gate[x.problem]
      BY <1>2, <1>3, <2>2, <2>4 DEF RemovalInv
    <3>2. x.revision <= revision'[x.problem]
      BY <1>2, <1>4, <3>1
    <3>3. CASE x.problem = p
      <4>1. gate'[p] = Newest(gate[p], revision[p] + 1)
        BY <1>4, <2>1
      <4> QED BY <1>4, <3>1, <3>2, <3>3, <4>1 DEF Newest
    <3>4. CASE x.problem # p
      <4>1. removed'[x.problem] = removed[x.problem] /\ gate'[x.problem] = gate[x.problem]
        BY <1>4, <2>1, <3>1, <3>4 DEF RemovalInv
      <4> QED BY <3>1, <3>2, <4>1
    <3> QED BY <3>3, <3>4
  <2> QED BY <1>2, <2>3, <2>4 DEF RemovalInv
<1> QED BY <1>2, <1>5, <1>6, <1>7, UserRequests DEF UserStep

(* A user input that was requested before its source was removed is not    *)
(* spawned, wherever its request was when the watcher reported the removal *)
(* and whether or not a source has been selected again.                    *)
THEOREM RemovedInputIsNotSpawned == EngineSpec => RemovedInputNeverSpawned
<1> DEFINE Good == spawned' # spawned /\ attempt'.request.kind = "UserInput" =>
                      attempt'.request.runId >= removed[attempt'.request.problem]
<1>1. EngineInit => RemovalInv
  <2> SUFFICES ASSUME EngineInit PROVE RemovalInv
    OBVIOUS
  <2>1. /\ removed = [p \in Problems |-> 0] /\ nextRunId = 1 /\ commands = << >>
        /\ active = None /\ foreground = None /\ pending = << >> /\ retiring = None
    BY DEF EngineInit, Init
  <2>2. Requests = {}
    BY <2>1 DEF Requests, Commanded, RunsOf, Held, Queued, Range
  <2> QED BY <2>1, <2>2 DEF RemovalInv
<1>2. EngineAlways /\ RemovalInv /\ [EngineNext]_engineVars => RemovalInv'
  <2> SUFFICES ASSUME EngineAlways, RemovalInv, [EngineNext]_engineVars PROVE RemovalInv'
    OBVIOUS
  <2>1. EngineInv /\ EngineBase
    BY DEF EngineAlways, EngineInv
  <2>2. CASE UserStep /\ ~Quit
    BY <2>1, <2>2, UserKeepsRemoval
  <2>3. CASE ~(UserStep /\ ~Quit)
    BY <2>1, <2>3, OthersRequests, OthersKeepRemoval
  <2> QED BY <2>2, <2>3
<1>3. EngineAlways /\ RemovalInv /\ [EngineNext]_engineVars => [Good]_engineVars
  <2> SUFFICES ASSUME EngineAlways, RemovalInv, EngineNext,
                      spawned' # spawned, attempt'.request.kind = "UserInput"
               PROVE attempt'.request.runId >= removed[attempt'.request.problem]
    OBVIOUS
  <2>1. EngineBase
    BY DEF EngineAlways, EngineInv
  <2>2. ~UserStep /\ ~UiStep /\ ~Closed
    BY DEF UserStep, RunTests, SourceChanged, OpenSource, StartStress, RunUserInput,
       RunUserInputWithoutSource, SourceRemoved, StopStress, Quit, Leave, UiStep, HandleMessage,
       HandleWorkerFailed, RequestStop, JoinWorker, Closed, engineVars, workerVars
  <2>3. ~AttemptStep /\ ~AttemptMishap
    BY <2>1, AttemptSteps, AttemptFrameFacts
  <2>4. SpawnAttempt
    <3>1. ~Turn
      BY DEF Turn, NoCompletion
    <3> QED BY <2>1, <2>2, <2>3, <3>1, WorkerCases, TakeFacts, ProcessFacts, StartFacts, PublishFacts,
               CleanupFacts DEF EngineNext
  <2>5. StartGateOpen(active.request) /\ attempt'.request = active.request
    BY <2>4 DEF SpawnAttempt
  <2> DEFINE x == active.request
  <2>6. x \in Requests /\ x \in Request /\ x.kind = "UserInput"
    BY <2>1, <2>4, <2>5, SpawnFacts, Fields DEF Requests
  <2>7. /\ x.problem \in Problems /\ x.runId \in Nat /\ x.revision \in Nat
        /\ gate[x.problem] \in Nat /\ removed[x.problem] \in Nat
    BY <2>1, <2>6, Fields, RevisionsAssumption DEF EngineBase, IInv, TypeOK, Request, RemovalInv
  <2> HIDE DEF x
  <2>8. x.revision >= gate[x.problem]
    BY <2>5, <2>6 DEF StartGateOpen, x
  <2>9. ~(x.runId < removed[x.problem])
    BY <2>6, <2>7, <2>8 DEF RemovalInv
  <2>10. x.runId >= removed[x.problem]
    BY <2>7, <2>9
  <2> QED BY <2>5, <2>10 DEF x
<1> QED BY EngineAlwaysHolds, <1>1, <1>2, <1>3, PTL DEF EngineSpec, RemovedInputNeverSpawned

-------------------------------------------------------------------------------
(* The engine keeps the promise of its scheduler. *)

(* What a step of the engine does to the scheduler.  Besides the steps of  *)
(* the scheduler there are those that leave it alone and those that drop   *)
(* the active request: the spawn failed, or the thread was joined at the   *)
(* end of the worker.                                                      *)
Still == UNCHANGED <<active, foreground, pending, latestSeen, retiring>>
Dropped == retiring = None /\ DropActive

LEMMA WorkerMovesScheduler ==
    ASSUME EngineBase, WorkerStep PROVE Next \/ Still \/ Dropped
<1>1. EngineTypes /\ WorkerInv
  BY DEF EngineBase
<1>2. CASE Turn
  BY <1>2 DEF Turn, NoCompletion, vars, queueVars, Still
<1>3. CASE Take
  <2>1. CASE attempt.outcome = "Panicked"
    BY <1>3, <2>1 DEF Take, TakeCompletion, queueVars, Still
  <2>2. CASE attempt.outcome # "Panicked"
    BY <1>3, <2>2, TakeFacts DEF Take, TakeCompletion, WorkerRetire, Next
  <2> QED BY <2>1, <2>2
<1>4. CASE Process
  <2> DEFINE c == Head(commands)
  <2>1. c \in Commands
    BY <1>1, <1>4, ProcessFacts, CommandTaken
  <2>2. /\ \/ c.type = "Run" /\ RequestArrived(c.request)
           \/ c.type = "CancelStress" /\ CancelStress(c.problem, c.runId)
           \/ c.type = "RetireUserInputRuns" /\ RetireUserInputRuns(c.problem, c.revision)
        /\ UNCHANGED gate /\ retiring = None
    BY <1>4, ProcessFacts DEF Process, ProcessCommand
  <2>3. /\ c.type = "Run" => c.request \in Request
        /\ c.type = "CancelStress" => c.problem \in Problems /\ c.runId \in RunIds
        /\ c.type = "RetireUserInputRuns" => c.problem \in Problems /\ c.revision \in Revisions
    BY <2>1 DEF Commands
  <2> HIDE DEF c
  <2> QED BY <2>2, <2>3 DEF Next, ClientRequest, ClientCancel, ClientRetire
<1>5. CASE Starts
  BY <1>5, StartFacts DEF Starts, WorkerStart, Next
<1>6. CASE SpawnAttempt
  BY <1>6, SpawnFacts DEF SpawnAttempt, queueVars, DropActive, Still, Dropped
<1>7. CASE PublishOutcome
  BY <1>7 DEF PublishOutcome, WorkerRequeue, WorkerDrop, Next
<1>8. CASE Cleanup
  <2>1. CASE active' = active
    BY <1>8, <2>1, CleanupFacts DEF Still
  <2>2. CASE active' = None
    BY <1>8, <2>2, CleanupFacts DEF DropActive, queueVars, Dropped
  <2> QED BY <1>8, <2>1, <2>2, CleanupFacts
<1> QED BY <1>2, <1>3, <1>4, <1>5, <1>6, <1>7, <1>8, WorkerCases

LEMMA EngineMovesScheduler ==
    ASSUME EngineAlways, [EngineNext]_engineVars PROVE Next \/ Still \/ Dropped
<1>1. EngineInv /\ EngineBase
  BY DEF EngineAlways, EngineInv
<1>2. CASE UserStep /\ ~Quit
  BY <1>1, <1>2, UserStepHasEffect DEF UserEffect, queueVars, Still
<1>3. CASE Leave \/ RequestStop \/ JoinWorker
  BY <1>3 DEF Leave, RequestStop, JoinWorker, vars, queueVars, Still
<1>4. CASE HandleMessage
  BY <1>1, <1>4, HandleFacts DEF Still
<1>5. CASE AttemptStep \/ AttemptMishap
  BY <1>1, <1>5, AttemptSteps, AttemptFrameFacts DEF Still
<1>6. CASE WorkerStep
  BY <1>1, <1>6, WorkerMovesScheduler
<1>7. CASE UNCHANGED engineVars
  BY <1>7 DEF engineVars, vars, queueVars, Still
<1> QED BY <1>2, <1>3, <1>4, <1>5, <1>6, <1>7
        DEF EngineNext, UiStep, HandleWorkerFailed, UserStep, Quit, Closed

LEMMA EngineDutyInv == EngineAlways => DutyInv
BY DEF EngineAlways, EngineInv, EngineBase, RetiringApart, DutyInv, RetiringShape

(* A sample run that is dropped while it is active is no longer owed: its  *)
(* attempt reached its end, or the worker is about to report its own.      *)
LEMMA DroppedKeepsDuty ==
    ASSUME DutyInv, DutyIsNewest, DutyIsNewest', Dropped
    PROVE (\E p \in Problems : Duty!Discharge(p)) \/ UNCHANGED Duty!vars
<1>1. /\ retiring = None /\ retiring' = None /\ active' = None
      /\ UNCHANGED <<foreground, pending, latestSeen>>
  BY DEF Dropped, DropActive, queueVars
<1>2. ExecutedDuty' = None
  BY <1>1 DEF ExecutedDuty
<1>3. CASE active # None /\ active.state = "Latest" /\ active.request.kind = "Samples"
  <2>0. active.request \in Request
    BY <1>3 DEF DutyInv, IInv, TypeOK, ActiveRequest
  <2> PICK p \in Problems : p = active.request.problem
    BY <2>0, RequestFields
  <2>1. p # None /\ ~HasLogicalRequest(p)
    BY <1>3, NoneAssumption DEF DutyInv, IInv, InvariantsHold, ActiveAgrees
  <2>2. ExecutedDuty = p
    BY <1>3 DEF ExecutedDuty
  <2>3. ~Owes(p)'
    BY <1>1, <2>1 DEF Owes, HasLogicalRequest
  <2>4. \A q \in Problems : q # p => (Owes(q)' <=> Owes(q))
    BY <1>1 DEF Owes
  <2>5. \A q \in Problems :
           (IF Owes(q)' THEN latestSeen'[q] ELSE 0)
             = IF q = p THEN 0 ELSE IF Owes(q) THEN latestSeen[q] ELSE 0
    BY <1>1, <2>3, <2>4
  <2>6. [q \in Problems |-> OwedRun(q)]' = [[q \in Problems |-> OwedRun(q)] EXCEPT ![p] = 0]
    <3>1. [q \in Problems |-> OwedRun(q)]' = [q \in Problems |-> IF Owes(q)' THEN latestSeen'[q] ELSE 0]
      BY DEF DutyIsNewest
    <3>2. [q \in Problems |-> OwedRun(q)] = [q \in Problems |-> IF Owes(q) THEN latestSeen[q] ELSE 0]
      BY DEF DutyIsNewest
    <3> QED BY <2>1, <2>5, <3>1, <3>2
  <2>7. Duty!Discharge(p)
    BY <1>1, <1>2, <2>2, <2>6 DEF Duty!Discharge
  <2> QED BY <2>1, <2>7
<1>4. CASE ~(active # None /\ active.state = "Latest" /\ active.request.kind = "Samples")
  <2>1. \A q \in Problems : Owes(q)' <=> Owes(q)
    BY <1>1, <1>4 DEF Owes
  <2>2. ExecutedDuty = None
    BY <1>1, <1>4 DEF ExecutedDuty
  <2> QED BY <1>1, <1>2, <2>1, <2>2, SameDuty
<1> QED BY <1>3, <1>4

(* The engine implements SampleDuty as well: with the UI, the attempts and *)
(* their faults around it, the scheduler's worker still drops no sample    *)
(* run but for a newer one of its problem, or at the end of its execution. *)
THEOREM EngineKeepsSampleDuty == EngineSpec => KeepsSampleDuty
<1>1. EngineInit => Duty!Init
  <2> SUFFICES ASSUME EngineInit PROVE Duty!Init
    OBVIOUS
  <2>0. Init
    BY DEF EngineInit
  <2>1. Logical = {}
    BY <2>0 DEF Init, Logical
  <2>2. \A p : OwedRun(p) = 0
    BY <2>1 DEF OwedRun
  <2>3. ExecutedDuty = None
    BY <2>0 DEF Init, ExecutedDuty
  <2> QED BY <2>0, <2>2, <2>3 DEF Init, Duty!Init
<1>2. EngineAlways /\ EngineAlways' /\ [EngineNext]_engineVars => [Duty!Next]_(Duty!vars)
  <2> SUFFICES ASSUME EngineAlways, EngineAlways', [EngineNext]_engineVars
               PROVE [Duty!Next]_(Duty!vars)
    OBVIOUS
  <2>1. DutyInv /\ DutyInv' /\ DutyIsNewest /\ DutyIsNewest'
    <3>1. DutyInv /\ DutyIsNewest
      BY EngineDutyInv, DutyOfInvariant
    <3>2. (EngineAlways => DutyInv)' /\ (DutyInv => DutyIsNewest)'
      BY EngineDutyInv, DutyOfInvariant, PTL
    <3> QED BY <3>1, <3>2
  <2>2. CASE Next
    BY <2>1, <2>2, StepKeepsDuty
  <2>3. CASE Still
    BY <2>3, StutterKeepsDuty DEF Still
  <2>4. CASE Dropped
    BY <2>1, <2>4, DroppedKeepsDuty DEF Duty!Next
  <2> QED BY <2>2, <2>3, <2>4, EngineMovesScheduler
<1> QED BY <1>1, <1>2, EngineAlwaysHolds, PTL DEF EngineSpec, KeepsSampleDuty, Duty!Spec

===============================================================================
