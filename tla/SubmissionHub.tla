---------------------------- MODULE SubmissionHub ----------------------------
(***************************************************************************)
(* Submitting solutions from the TUI: the hub of src/tui/submission.rs,    *)
(* which lives on the UI thread and keeps one record per problem, and one  *)
(* worker thread per submission running commands/submit.rs and             *)
(* atcoder/{submit,submission_tracking}.rs against the AtCoder server.     *)
(*                                                                         *)
(* A worker reports over one channel; the hub applies at most              *)
(* EventsPerTick reports a tick and then joins the workers that ended.     *)
(* The server is external: it may accept or reject a POST at any time      *)
(* after it was sent, its answer may be lost, and it lists a submission at *)
(* any time after it accepted it, or never.  Others may submit to the same *)
(* problem.                                                                *)
(***************************************************************************)
EXTENDS Integers, Sequences, FiniteSets

CONSTANTS
  Keys,              \* problems: (contest, task) pairs
  MaxGeneration,     \* bound: submissions started in one workspace lifetime
  EventsPerTick,     \* MAX_EVENTS_PER_TICK
  DiscoveryAttempts, \* DISCOVERY_ATTEMPTS
  StatusPolls,       \* STATUS_POLL_ATTEMPTS
  Others,            \* bound: submissions by others, as ids on the list
  MaxPanics,         \* bound: panics of worker threads
  NoKey              \* no problem

Generations == 1 .. MaxGeneration

ASSUME HubAssumption ==
  /\ MaxGeneration \in Nat \ {0}
  /\ EventsPerTick \in Nat \ {0}
  /\ DiscoveryAttempts \in Nat \ {0}
  /\ StatusPolls \in Nat \ {0}
  /\ MaxPanics \in Nat
  /\ IsFiniteSet(Others) /\ Others \cap Generations = {}
  /\ NoKey \notin Keys

VARIABLES
  records,    \* the hub's record of each problem
  history,    \* the hub's history: what it shows of each generation
  next,       \* next_generation
  workers,    \* generations whose thread is not joined yet
  stopping,   \* request_stop was called
  phase,      \* where the UI thread is: free, in a tick, or shutting down
  budget,     \* reports the tick may still apply
  events,     \* the channel from the workers to the hub
  waiting,    \* the generation the Submit modal waits for, 0 for none
  keyOf,      \* the problem of each generation
  worker,     \* the thread of each generation
  server,     \* what became of the POST of each generation
  listed,     \* the submissions the server lists for each problem
  panics      \* panics so far

hub == <<records, history, next, workers, stopping, phase, budget, waiting, keyOf>>
remote == <<server, listed>>
hubVars == <<hub, events, worker, remote, panics>>

Shown == {"Accepted", "Judging", "Finished", "Untracked"}
NoRecord == [generation |-> 0, state |-> "none", pending |-> 0, discovering |-> FALSE,
             unknown |-> 0, failure |-> 0]
(* phase of WorkerProgress: whether Accepted, or a final status, was sent. *)
NoWorker == [pc |-> "none", cancelled |-> FALSE, postStarted |-> FALSE, progress |-> "PreAccepted",
             baseline |-> "none", known |-> {}, attempt |-> 0, found |-> {}, tracked |-> 0,
             previous |-> "none"]

Event(g, kind, value) == [generation |-> g, kind |-> kind, value |-> value]

HubInit ==
  /\ records = [k \in Keys |-> NoRecord]
  /\ history = [g \in Generations |-> "absent"]
  /\ next = 1
  /\ workers = {}
  /\ stopping = FALSE
  /\ phase = "free" /\ budget = 0
  /\ waiting = 0
  /\ events = <<>>
  /\ keyOf = [g \in Generations |-> NoKey]
  /\ worker = [g \in Generations |-> NoWorker]
  /\ server = [g \in Generations |-> "none"]
  /\ listed = [k \in Keys |-> {}]
  /\ panics = 0

-----------------------------------------------------------------------------
(* The hub: starting a submission. *)

(* A bug: an unknown outcome does not keep the user from trying again. *)
MutantForgetsUnknown(k) == records[k].pending = 0 /\ ~records[k].discovering

(* ensure_start_allowed *)
StartAllowed(k) ==
  records[k].pending = 0 /\ ~records[k].discovering /\ records[k].unknown = 0

(* Enter in the Submit modal.  The source is read and a generation taken   *)
(* before the thread is spawned; a spawn that fails leaves a gap in the    *)
(* generations.                                                            *)
Start(k) ==
  /\ phase = "free" /\ ~stopping
  /\ waiting = 0
  /\ StartAllowed(k)
  /\ next <= MaxGeneration
  /\ next' = next + 1
  /\ \/ /\ records' = [records EXCEPT ![k].pending = next]
        /\ history' = [history EXCEPT ![next] = "Submitting"]
        /\ workers' = workers \cup {next}
        /\ keyOf' = [keyOf EXCEPT ![next] = k]
        /\ worker' = [worker EXCEPT ![next].pc = "ready"]
        /\ waiting' = next
     \/ UNCHANGED <<records, history, workers, waiting, keyOf, worker>>
  /\ UNCHANGED <<stopping, phase, budget, events, remote, panics>>

(* Escape closes the modal; the submission goes on. *)
CloseModal ==
  /\ phase = "free" /\ waiting # 0
  /\ waiting' = 0
  /\ UNCHANGED <<records, history, next, workers, stopping, phase, budget, keyOf, events, worker,
                 remote, panics>>

-----------------------------------------------------------------------------
(* The hub: applying a report. *)
Cancel(g) == [worker EXCEPT ![g].cancelled = TRUE]

(* A newly accepted submission replaces the one tracked before, whose      *)
(* worker is cancelled.                                                    *)
CancelReplaced(old, g) ==
  worker' = IF old # 0 /\ old # g /\ old \in workers THEN Cancel(old) ELSE worker

OnAccepted(k, g) ==
  IF records[k].pending = g /\ records[k].unknown = 0
    THEN /\ records' = [records EXCEPT ![k].pending = 0, ![k].generation = g,
                                       ![k].state = "Accepted", ![k].discovering = TRUE,
                                       ![k].failure = 0]
         /\ history' = [history EXCEPT ![g] = "Accepted"]
         /\ CancelReplaced(records[k].generation, g)
    ELSE UNCHANGED <<records, history, worker>>

(* A bug: the status of a submission that was replaced is shown. *)
MutantAnyGeneration(k, g) == records[k].generation # 0

IsCurrent(k, g) == records[k].generation = g

(* A bug: only the first status report ends the discovery. *)
MutantKeepsDiscovering(state) == state = "Judging"

DiscoveryEnds(state) == TRUE

UpdateCurrent(k, g, state) ==
  /\ IF IsCurrent(k, g)
       THEN /\ records' = [records EXCEPT ![k].state = state,
                                          ![k].discovering = @ /\ ~DiscoveryEnds(state)]
            /\ history' = [history EXCEPT ![g] = state]
       ELSE UNCHANGED <<records, history>>
  /\ UNCHANGED worker

(* A bug: a failed attempt is dropped without a message. *)
MutantForgetsFailure(k, g) == records[k].failure

FailureAfter(k, g) == g

(* fail_pending_attempt: the attempt leaves the history. *)
FailPending(k, g) ==
  /\ IF records[k].pending = g
       THEN /\ records' = [records EXCEPT ![k].pending = 0, ![k].failure = FailureAfter(k, g)]
            /\ history' = [history EXCEPT ![g] = "absent"]
       ELSE UNCHANGED <<records, history>>
  /\ UNCHANGED worker

(* A submission cancelled before its POST leaves without a message. *)
OnCancelled(k, g) ==
  /\ IF records[k].pending = g
       THEN /\ records' = [records EXCEPT ![k].pending = 0]
            /\ history' = [history EXCEPT ![g] = "absent"]
       ELSE UNCHANGED <<records, history>>
  /\ UNCHANGED worker

BecomeUnknown(k, g, failure) ==
  /\ IF records[k].pending = g
       THEN /\ records' = [records EXCEPT ![k].pending = 0, ![k].unknown = g,
                                          ![k].failure = failure]
            /\ history' = [history EXCEPT ![g] = "Unknown"]
       ELSE UNCHANGED <<records, history>>
  /\ UNCHANGED worker

(* A bug: a worker that panicked is taken for one that never posted. *)
MutantPanicMeansFailed(k, g, postStarted) == FailPending(k, g)

(* handle_worker_panic: before the answer the POST decides; after it only  *)
(* the tracking is lost, and a final verdict stays.                        *)
OnPanic(k, g, postStarted) ==
  IF records[k].pending = g
    THEN IF postStarted THEN BecomeUnknown(k, g, g) ELSE FailPending(k, g)
    ELSE IF records[k].generation = g /\ records[k].state # "Finished"
      THEN /\ records' = [records EXCEPT ![k].state = "Untracked", ![k].discovering = FALSE,
                                         ![k].failure = g]
           /\ history' = [history EXCEPT ![g] = "Untracked"]
           /\ UNCHANGED worker
      ELSE /\ records' = [records EXCEPT ![k].failure =
                            IF records[k].generation = g THEN g ELSE @]
           /\ UNCHANGED <<history, worker>>

Apply(e) ==
  LET k == keyOf[e.generation]
      g == e.generation
  IN  CASE e.kind = "Accepted" -> OnAccepted(k, g)
        [] e.kind = "TrackingStarted" -> UpdateCurrent(k, g, "Accepted")
        [] e.kind = "Status" -> UpdateCurrent(k, g, e.value)
        [] e.kind = "TrackingUnavailable" -> UpdateCurrent(k, g, "Untracked")
        [] e.kind = "Failed" -> FailPending(k, g)
        [] e.kind = "Cancelled" -> OnCancelled(k, g)
        [] e.kind = "Unknown" -> BecomeUnknown(k, g, records[k].failure)
        [] e.kind = "Panicked" -> OnPanic(k, g, e.value = "posted")

Ended(g) == worker[g].pc \in {"done", "crashed"}

(* handle_events: a tick that finds nothing to do changes nothing. *)
BeginTick ==
  /\ phase = "free" /\ ~stopping
  /\ events # <<>> \/ \E g \in workers : Ended(g)
  /\ phase' = "drain" /\ budget' = EventsPerTick
  /\ UNCHANGED <<records, history, next, workers, stopping, waiting, keyOf, events, worker,
                 remote, panics>>

ApplyEvent ==
  /\ phase = "drain" /\ budget > 0 /\ events # <<>>
  /\ Apply(Head(events))
  /\ events' = Tail(events)
  /\ budget' = budget - 1
  /\ UNCHANGED <<next, workers, stopping, phase, waiting, keyOf, remote, panics>>

EndDrain ==
  /\ phase = "drain" /\ (budget = 0 \/ events = <<>>)
  /\ phase' = "reap" /\ budget' = 0
  /\ UNCHANGED <<records, history, next, workers, stopping, waiting, keyOf, events, worker,
                 remote, panics>>

(* handle_worker_join_panic: the thread died without a last report, some   *)
(* of its earlier ones may still be in the channel; what it had published  *)
(* before sending decides.                                                 *)
OnJoinPanic(k, g) ==
  IF \/ records[k].generation = g /\ records[k].state = "Finished"
     \/ records[k].pending # g /\ records[k].generation # g
    THEN /\ records' = [records EXCEPT ![k].failure = IF records[k].generation = g THEN g ELSE @]
         /\ UNCHANGED <<history, worker>>
    ELSE IF worker[g].progress = "PreAccepted"
      THEN IF ~worker[g].postStarted
             THEN FailPending(k, g)
             ELSE /\ records' = [records EXCEPT ![k].pending = IF @ = g THEN 0 ELSE @,
                                                ![k].unknown = g, ![k].failure = g]
                  /\ history' = [history EXCEPT ![g] = "Unknown"]
                  /\ UNCHANGED worker
      ELSE /\ records' = [records EXCEPT ![k].pending = IF @ = g THEN 0 ELSE @,
                                         ![k].unknown = IF @ = g THEN 0 ELSE @,
                                         ![k].generation = g,
                                         ![k].state = "Untracked", ![k].discovering = FALSE,
                                         ![k].failure = g]
           /\ history' = [history EXCEPT ![g] = "Untracked"]
           /\ CancelReplaced(records[k].generation, g)

(* reap_finished: one ended worker is joined at a time. *)
ReapOne(g) ==
  /\ phase = "reap"
  /\ g \in workers /\ Ended(g)
  /\ workers' = workers \ {g}
  /\ IF worker[g].pc = "crashed"
       THEN OnJoinPanic(keyOf[g], g)
       ELSE UNCHANGED <<records, history, worker>>
  /\ UNCHANGED <<next, stopping, phase, budget, waiting, keyOf, events, remote, panics>>

(* attempt_resolution *)
Resolution(k, g) ==
  IF records[k].pending = g THEN "Pending"
  ELSE IF records[k].unknown = g THEN "Unknown"
  ELSE IF records[k].generation = g THEN "Accepted"
  ELSE IF records[k].failure = g THEN "Failed" ELSE "none"

(* After the tick the modal looks whether its submission is decided. *)
EndTick ==
  /\ phase = "reap" /\ \A g \in workers : ~Ended(g)
  /\ phase' = "free"
  /\ waiting' = IF waiting # 0 /\ Resolution(keyOf[waiting], waiting) \notin {"Pending", "none"}
                  THEN 0 ELSE waiting
  /\ UNCHANGED <<records, history, next, workers, stopping, budget, keyOf, events, worker,
                 remote, panics>>

(* request_stop when the workspace is left, then shutdown joins every      *)
(* thread; no report is applied any more.                                  *)
RequestStop ==
  /\ phase = "free" /\ ~stopping
  /\ stopping' = TRUE
  /\ worker' = [g \in Generations |->
                  IF g \in workers THEN [worker[g] EXCEPT !.cancelled = TRUE] ELSE worker[g]]
  /\ UNCHANGED <<records, history, next, workers, phase, budget, waiting, keyOf, events, remote,
                 panics>>

Shutdown ==
  /\ stopping /\ phase = "free"
  /\ \A g \in workers : Ended(g)
  /\ workers' = {}
  /\ phase' = "closed"
  /\ UNCHANGED <<records, history, next, stopping, budget, waiting, keyOf, events, worker, remote,
                 panics>>

-----------------------------------------------------------------------------
(* A worker. *)
At(g, pc) == worker[g].pc = pc
Step(g, pc) == worker' = [worker EXCEPT ![g].pc = pc]
Send(g, kind, value) == events' = Append(events, Event(g, kind, value))
Silent == UNCHANGED events
Alone == UNCHANGED <<hub, panics>>

(* The result of the executor is reported and the thread ends. *)
Finish(g, kind) == Send(g, kind, "none") /\ Step(g, "done")

(* After a report the worker goes on unless it is cancelled. *)
Unless(g, pc) == IF worker[g].cancelled THEN "done" ELSE pc

(* The submit page is fetched, parsed and the language resolved: any error *)
(* is a failure, cancellation is looked for all along.                     *)
FetchSubmitPage(g) ==
  /\ At(g, "ready")
  /\ \/ worker[g].cancelled /\ Finish(g, "Cancelled")
     \/ Finish(g, "Failed")
     \/ ~worker[g].cancelled /\ Step(g, "baseline") /\ Silent
  /\ Alone /\ UNCHANGED remote

(* Immediately before the POST the submissions listed so far are noted;    *)
(* without them there will be no tracking.                                 *)
CaptureBaseline(g) ==
  /\ At(g, "baseline")
  /\ \/ worker' = [worker EXCEPT ![g].pc = "slot", ![g].baseline = "captured",
                                 ![g].known = listed[keyOf[g]]]
     \/ worker' = [worker EXCEPT ![g].pc = "slot", ![g].baseline = "failed"]
  /\ Silent /\ Alone /\ UNCHANGED remote

(* A bug: the gate does not look at cancellation. *)
MutantOpenGate(g) == ~worker[g].postStarted

(* try_begin_post: one atomic step from "may be cancelled" to "posting". *)
TryBeginPost(g) == ~worker[g].cancelled /\ ~worker[g].postStarted

(* Cancelled while waiting for the request slot or at the gate, refused    *)
(* because the session is gone, or sent once.                              *)
PassGate(g) ==
  /\ At(g, "slot")
  /\ \/ /\ worker[g].cancelled
        /\ Finish(g, "Cancelled")
        /\ UNCHANGED remote
     \/ Finish(g, "Failed") /\ UNCHANGED remote
     \/ /\ TryBeginPost(g)
        /\ worker' = [worker EXCEPT ![g].pc = "answer", ![g].postStarted = TRUE]
        /\ server' = [server EXCEPT ![g] = "sent"]
        /\ Silent /\ UNCHANGED listed
  /\ Alone

(* The answer is lost, late or unintelligible: the outcome is unknown,     *)
(* whatever the server did; a rejection is a failure.                      *)
Answer(g) ==
  /\ At(g, "answer")
  /\ \/ Finish(g, "Unknown")
     \/ server[g] = "rejected" /\ Finish(g, "Failed")
     \/ server[g] = "accepted" /\ Step(g, "tellAccepted") /\ Silent
  /\ Alone /\ UNCHANGED remote

TellAccepted(g) ==
  /\ At(g, "tellAccepted")
  /\ Send(g, "Accepted", "none")
  /\ worker' = [worker EXCEPT
       ![g].progress = "AcceptedKnown",
       ![g].pc = Unless(g, IF worker[g].baseline = "captured" THEN "discover" ELSE "untracked")]
  /\ Alone /\ UNCHANGED remote

TellUntracked(g) ==
  /\ At(g, "untracked")
  /\ Finish(g, "TrackingUnavailable")
  /\ Alone /\ UNCHANGED remote

(* A bug: of several new submissions the last one is taken. *)
MutantTakesAny(found) == found

(* The only new submission of all the looks at the list is one's own. *)
Candidates(found) == IF Cardinality(found) = 1 THEN found ELSE {}

(* The list is read several times, whatever the first looks show.  A       *)
(* cancellation may come while a read is under way: it is noticed after it. *)
Discover(g) ==
  LET found == worker[g].found \cup (listed[keyOf[g]] \ worker[g].known)
  IN  /\ At(g, "discover")
      /\ \/ worker[g].cancelled /\ Step(g, "done")
         \/ Step(g, "untracked")
         \/ /\ worker[g].attempt + 1 < DiscoveryAttempts
            /\ worker' = [worker EXCEPT ![g].found = found, ![g].attempt = @ + 1,
                                        ![g].pc = Unless(g, "discover")]
         \/ /\ worker[g].attempt + 1 = DiscoveryAttempts
            /\ \/ \E id \in Candidates(found) :
                    worker' = [worker EXCEPT ![g].pc = "tellStarted", ![g].tracked = id,
                                             ![g].found = {}, ![g].attempt = 0]
               \/ Candidates(found) = {} /\ Step(g, "untracked")
      /\ Silent /\ Alone /\ UNCHANGED remote

TellStarted(g) ==
  /\ At(g, "tellStarted")
  /\ Send(g, "TrackingStarted", "none")
  /\ Step(g, Unless(g, "poll"))
  /\ Alone /\ UNCHANGED remote

(* The status is polled until it is final; it is reported when it changed, *)
(* also by a worker cancelled during the request.                          *)
Poll(g) ==
  /\ At(g, "poll")
  /\ \/ worker[g].cancelled /\ Step(g, "done") /\ Silent
     \/ Step(g, "untracked") /\ Silent
     \/ /\ Send(g, "Status", "Finished")
        /\ worker' = [worker EXCEPT ![g].pc = "done", ![g].progress = "FinishedKnown"]
     \/ /\ worker' = [worker EXCEPT
             ![g].previous = "Judging", ![g].attempt = @ + 1,
             ![g].pc = Unless(g, IF worker[g].attempt + 1 = StatusPolls THEN "untracked"
                                                                       ELSE "poll")]
        /\ IF worker[g].previous = "Judging" THEN Silent ELSE Send(g, "Status", "Judging")
  /\ Alone /\ UNCHANGED remote

(* A panic is caught and reported after everything sent before it; when    *)
(* even that fails, or the thread panics at its very end, only its join    *)
(* tells.                                                                  *)
Panic(g) ==
  /\ worker[g].pc \notin {"none", "caught", "done", "crashed"}
  /\ panics < MaxPanics /\ panics' = panics + 1
  /\ Step(g, "caught")
  /\ Silent /\ UNCHANGED <<hub, remote>>

ReportPanic(g) ==
  /\ At(g, "caught")
  /\ Send(g, "Panicked", IF worker[g].postStarted THEN "posted" ELSE "none")
  /\ Step(g, "done")
  /\ Alone /\ UNCHANGED remote

ContainmentFails(g) ==
  /\ g \in workers /\ worker[g].pc \in {"caught", "done"}
  /\ panics < MaxPanics /\ panics' = panics + 1
  /\ Step(g, "crashed")
  /\ Silent /\ UNCHANGED <<hub, remote>>

Work(g) ==
  \/ FetchSubmitPage(g) \/ CaptureBaseline(g) \/ PassGate(g) \/ Answer(g) \/ TellAccepted(g)
  \/ TellUntracked(g) \/ Discover(g) \/ TellStarted(g) \/ Poll(g) \/ ReportPanic(g)

-----------------------------------------------------------------------------
(* The server, and submissions by others. *)
ServerAccepts(g) ==
  /\ server[g] = "sent"
  /\ server' = [server EXCEPT ![g] = "accepted"]
  /\ UNCHANGED <<hub, events, worker, listed, panics>>

(* The list may lag behind: discovery looks at it several times for that.  *)
ServerLists(g) ==
  /\ server[g] = "accepted" /\ g \notin listed[keyOf[g]]
  /\ listed' = [listed EXCEPT ![keyOf[g]] = @ \cup {g}]
  /\ UNCHANGED <<hub, events, worker, server, panics>>

ServerRejects(g) ==
  /\ server[g] = "sent"
  /\ server' = [server EXCEPT ![g] = "rejected"]
  /\ UNCHANGED <<hub, events, worker, listed, panics>>

OtherSubmits(k) ==
  /\ \E id \in Others : /\ \A j \in Keys : id \notin listed[j]
                        /\ listed' = [listed EXCEPT ![k] = @ \cup {id}]
  /\ UNCHANGED <<hub, events, worker, server, panics>>

-----------------------------------------------------------------------------
Tick == BeginTick \/ ApplyEvent \/ EndDrain \/ (\E g \in Generations : ReapOne(g)) \/ EndTick

(* The session is over and the threads are gone. *)
Closed == phase = "closed" /\ UNCHANGED hubVars

HubNext ==
  \/ \E k \in Keys : Start(k) \/ OtherSubmits(k)
  \/ Tick \/ CloseModal \/ RequestStop \/ Shutdown \/ Closed
  \/ \E g \in Generations :
       Work(g) \/ Panic(g) \/ ContainmentFails(g)
         \/ ServerAccepts(g) \/ ServerRejects(g) \/ ServerLists(g)

HubSpec == HubInit /\ [][HubNext]_hubVars

(* Every request has a timeout, so a worker never stays where it is; the   *)
(* UI thread goes on ticking and, once stopping, joins.                    *)
Fairness ==
  /\ \A g \in Generations : WF_hubVars(Work(g))
  /\ WF_hubVars(Tick) /\ WF_hubVars(Shutdown)

FairHubSpec == HubSpec /\ Fairness

-----------------------------------------------------------------------------
RecordStates == [generation : 0 .. MaxGeneration, state : Shown \cup {"none"},
                 pending : 0 .. MaxGeneration, discovering : BOOLEAN,
                 unknown : 0 .. MaxGeneration, failure : 0 .. MaxGeneration]
HistoryStates == Shown \cup {"absent", "Submitting", "Unknown"}
ThreadSteps == {"none", "ready", "baseline", "slot", "answer", "tellAccepted", "untracked",
                "discover", "tellStarted", "poll", "caught", "done", "crashed"}
WorkerStates ==
  [pc : ThreadSteps, cancelled : BOOLEAN, postStarted : BOOLEAN,
   progress : {"PreAccepted", "AcceptedKnown", "FinishedKnown"},
   baseline : {"none", "captured", "failed"}, known : SUBSET (Generations \cup Others),
   attempt : Nat, found : SUBSET (Generations \cup Others),
   tracked : {0} \cup Generations \cup Others, previous : {"none", "Judging"}]

Reports == [generation : Generations,
            kind : {"Accepted", "TrackingStarted", "Status", "TrackingUnavailable", "Failed",
                    "Cancelled", "Unknown", "Panicked"},
            value : {"none", "posted", "Judging", "Finished"}]

(* Every variable has its type. *)
HubTypeOK ==
  /\ records \in [Keys -> RecordStates]
  /\ history \in [Generations -> HistoryStates]
  /\ next \in 1 .. MaxGeneration + 1
  /\ workers \subseteq Generations
  /\ stopping \in BOOLEAN
  /\ phase \in {"free", "drain", "reap", "closed"}
  /\ budget \in 0 .. EventsPerTick
  /\ waiting \in 0 .. MaxGeneration
  /\ keyOf \in [Generations -> Keys \cup {NoKey}]
  /\ events \in Seq(Reports)
  /\ worker \in [Generations -> WorkerStates]
  /\ server \in [Generations -> {"none", "sent", "accepted", "rejected"}]
  /\ listed \in [Keys -> SUBSET (Generations \cup Others)]
  /\ panics \in 0 .. MaxPanics

(* A submission the server has, or may still get, is never missing from    *)
(* the history, whatever panicked, was cancelled or was reported late.     *)
AcceptedIsNeverForgotten ==
  \A g \in Generations : server[g] \in {"sent", "accepted"} => history[g] # "absent"

(* No problem ever has two submissions whose outcome the user does not     *)
(* know: a POST begins only when every earlier one is accounted for.       *)
Unaccounted(k) == {g \in Generations : /\ keyOf[g] = k
                                       /\ server[g] \in {"sent", "accepted"}
                                       /\ g > records[k].generation}
NoBlindRetry == \A k \in Keys : Cardinality(Unaccounted(k)) <= 1

(* Between two ticks the Submit modal waits only for a submission the hub  *)
(* still counts as pending: no outcome passes it by.  There is one known   *)
(* way around it: in the tick that brings the failure, the panic of the    *)
(* thread tracking the submission before is recorded over it.              *)
FailureOverwritten(k, g) == panics > 0 /\ records[k].failure \in 1 .. g - 1
ModalNeverHangs ==
  phase = "free" /\ waiting # 0
    => \/ records[keyOf[waiting]].pending = waiting
       \/ FailureOverwritten(keyOf[waiting], waiting)

(* When one's own submission was listed by the last look, no other one is  *)
(* tracked, whoever else submits to the same problem: with a second new    *)
(* submission in any of the looks, nothing is tracked.  More cannot be     *)
(* promised: if the list lags longer and only another's submission shows   *)
(* up, the code takes that one, as a comment in discover_submission says.  *)
TracksOwnSubmission ==
  [][\A g \in Generations :
       worker'[g].tracked # worker[g].tracked /\ g \in listed[keyOf[g]]
         => worker'[g].tracked = g]_hubVars

(* A final verdict is replaced only by a newer submission, and the newest  *)
(* accepted submission is never replaced by an older one.                  *)
VerdictStays ==
  [][\A k \in Keys :
       /\ records'[k].generation >= records[k].generation
       /\ records[k].state = "Finished" /\ records'[k].generation = records[k].generation
            => records'[k].state = "Finished"]_hubVars

(* Once the workspace is being left, no POST begins. *)
StoppedNeverPosts ==
  [][\A g \in Generations : server[g] = "none" /\ server'[g] = "sent" => ~stopping]_hubVars

(* A problem whose submission is being started does not stay locked: in    *)
(* the end its outcome is known, or known to be unknown.                   *)
StartsAreDecided ==
  \A k \in Keys : records[k].pending # 0 \/ records[k].discovering
                    ~> (records[k].pending = 0 /\ ~records[k].discovering) \/ stopping
=============================================================================
