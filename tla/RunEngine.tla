------------------------------- MODULE RunEngine -------------------------------
(***************************************************************************)
(* The run engine of one contest session: the UI thread with its WatchApp, *)
(* the command channel, the worker thread that owns the scheduler, the     *)
(* attempt thread that executes one request, and the message channel back. *)
(*                                                                         *)
(* Threads interleave between the points where they touch shared state.    *)
(* A handler that one thread runs on its own data is one action.           *)
(***************************************************************************)
EXTENDS RunScheduler, FiniteSets, FiniteSetsExt

CONSTANTS
    Cpp,                 \* problems whose source is C++, the others are Python
    MaxRunId,            \* bound: runs requested in a session
    MaxRevision,         \* bound: source notifications in a session
    MaxCommandsPerTick,  \* MAX_RUN_COMMANDS_PER_TICK
    Faults               \* whether attempts panic and threads fail to spawn

(* How an attempt ends, and the attempt the executor holds. *)
Outcomes == {"Completed", "Cancelled", "Failed", "Panicked"}
Attempts == [request : Request, number : Nat, cancel : BOOLEAN,
             pc : {"spawned", "started", "testing", "tested", "ended"},
             outcome : Outcomes \cup {None}]

ASSUME EngineAssumption ==
    /\ None \notin Attempts \cup Outcomes
    /\ Cpp \subseteq Problems
    /\ MaxRunId \in Nat \ {0} /\ MaxRevision \in Nat \ {0}
    /\ MaxCommandsPerTick \in Nat \ {0}
    /\ Faults \in BOOLEAN
    /\ RunIds = 1..MaxRunId /\ Revisions = 0..MaxRevision

VARIABLES
    (* UI thread: WatchApp and the state of the session loop. *)
    ui,          \* "running", "leaving" (the loop ended) or "closed" (joined)
    nextRunId,
    source,      \* for each problem, whether a source is selected
    revision,    \* for each problem, source_revision
    run,         \* for each problem, its sample RunState
    stress,      \* for each problem, its StressState
    userInput,   \* for each problem, the run of its user input
    (* Channels. *)
    commands,    \* UI to worker
    messages,    \* worker and attempt to UI
    (* Worker thread. *)
    worker,      \* its program counter, drain count, outcome and error flag
    stopping,    \* WorkerControl::stopping
    attempt,     \* the physical attempt, or None
    (* History, read by no action. *)
    removed,     \* for each problem, the first run not yet requested when
                 \* its source was last removed, 0 before
    spawned      \* number of attempts spawned so far

appVars == <<nextRunId, source, revision, run, stress, userInput, removed>>
uiVars == <<ui, appVars>>
workerVars == <<worker, attempt, spawned>>
engineVars == <<uiVars, commands, messages, workerVars, stopping, vars>>

ActivePhases == {"Queued", "Compiling", "Running"}
EndPhases == {"Finished", "Failed", "Cancelled"}
NoRun == [id |-> 0, phase |-> "Idle", started |-> FALSE, attempts |-> {}]
NoStress == [id |-> 0, phase |-> "Idle"]
NoInput == [id |-> 0, revision |-> 0, status |-> "Idle"]
NoFault == [pc |-> "top", drained |-> 0, outcome |-> None, failed |-> FALSE]

EngineInit ==
    /\ Init
    /\ ui = "running"
    /\ nextRunId = 1
    /\ source = [p \in Problems |-> FALSE]
    /\ revision = [p \in Problems |-> 0]
    /\ run = [p \in Problems |-> NoRun]
    /\ stress = [p \in Problems |-> NoStress]
    /\ userInput = [p \in Problems |-> NoInput]
    /\ commands = <<>> /\ messages = <<>>
    /\ worker = NoFault /\ attempt = None /\ stopping = FALSE
    /\ spawned = 0 /\ removed = [p \in Problems |-> 0]

RunCommand(p, kind) ==
    [type |-> "Run",
     request |-> [runId |-> nextRunId, problem |-> p, kind |-> kind,
                  revision |-> IF kind = "UserInput" THEN revision[p] ELSE 0]]
CancelCommand(p, id) == [type |-> "CancelStress", problem |-> p, runId |-> id]
RetireCommand(p, v) == [type |-> "RetireUserInputRuns", problem |-> p, revision |-> v]

(* A message about a run.  It also says which attempt sent it, which the   *)
(* program does not know: only the history in run[p].attempts reads it.    *)
Message(type, r, n) ==
    [type |-> type, runId |-> r.runId, problem |-> r.problem,
     revision |-> r.revision, attempt |-> n]
WorkerFailed == [type |-> "WorkerFailed"]

-------------------------------------------------------------------------------
(* UI thread: user actions and watcher notifications.  A notification is   *)
(* handled when it is taken from the message channel; since the watcher    *)
(* may have sent it at any earlier time, it is not kept there.             *)

(* The source notifications so far, over all problems, are bounded, and    *)
(* with them the revision of each problem.                                 *)
Notices == MapThenSumSet(LAMBDA p : revision[p], Problems)
MoreNotices(p) == Notices < MaxRevision /\ revision[p] < MaxRevision

IsActive(state) == state.id # 0 /\ state.phase \in ActivePhases

(* Mutant: user input that is running elsewhere is left alone. *)
MutantKeepsInputs(inputs) == inputs

(* retire_user_input_runs *)
RetireInputs(inputs) ==
    [q \in Problems |-> IF inputs[q].status \in ActivePhases
                        THEN [inputs[q] EXCEPT !.status = "Cancelled"] ELSE inputs[q]]

(* Mutant: a stress run of another problem is left alone. *)
MutantKeepsOtherStress(p) == [stress EXCEPT ![p] = @]

(* retire_other_stress_requests *)
RetireOtherStress(p) ==
    [q \in Problems |-> IF q # p /\ IsActive(stress[q])
                        THEN [id |-> 0, phase |-> "Cancelled"] ELSE stress[q]]

CancelPhase(state) == IF IsActive(state) THEN "Cancelled" ELSE state.phase

(* queue_run, with the user inputs that are left. *)
QueueRun(p, inputs) ==
    /\ nextRunId <= MaxRunId
    /\ nextRunId' = nextRunId + 1
    /\ userInput' = RetireInputs(inputs)
    /\ stress' = [RetireOtherStress(p) EXCEPT
                    ![p] = [id |-> 0, phase |-> CancelPhase(stress[p])]]
    /\ run' = [run EXCEPT ![p] = [NoRun EXCEPT !.id = nextRunId, !.phase = "Queued"]]
    /\ commands' = Append(commands, RunCommand(p, "Samples"))

RunTests(p) ==
    /\ ui = "running" /\ source[p]
    /\ QueueRun(p, userInput)
    /\ UNCHANGED <<ui, source, revision, removed, messages, workerVars, stopping, vars>>

SourceChanged(p) ==
    /\ ui = "running" /\ MoreNotices(p)
    /\ source' = [source EXCEPT ![p] = TRUE]
    /\ revision' = [revision EXCEPT ![p] = @ + 1]
    /\ QueueRun(p, [userInput EXCEPT ![p] = NoInput])
    /\ UNCHANGED <<ui, removed, messages, workerVars, stopping, vars>>

(* select_source: the source is opened without a notification. *)
OpenSource(p) ==
    /\ ui = "running" /\ ~source[p] /\ MoreNotices(p)
    /\ source' = [source EXCEPT ![p] = TRUE]
    /\ revision' = [revision EXCEPT ![p] = @ + 1]
    /\ userInput' = [userInput EXCEPT ![p] = NoInput]
    /\ UNCHANGED <<ui, nextRunId, run, stress, removed, commands, messages,
                   workerVars, stopping, vars>>

StartStress(p) ==
    /\ ui = "running" /\ source[p] /\ nextRunId <= MaxRunId
    /\ nextRunId' = nextRunId + 1
    /\ userInput' = RetireInputs(userInput)
    /\ stress' = [RetireOtherStress(p) EXCEPT ![p] = [id |-> nextRunId, phase |-> "Queued"]]
    /\ run' = [run EXCEPT ![p] = [@ EXCEPT !.id = 0, !.phase = CancelPhase(run[p])]]
    /\ commands' = Append(commands, RunCommand(p, "Stress"))
    /\ UNCHANGED <<ui, source, revision, removed, messages, workerVars, stopping, vars>>

(* enqueue_user_input_snapshot and the flush at the end of the same event. *)
RunUserInput(p) ==
    /\ ui = "running" /\ source[p] /\ nextRunId <= MaxRunId
    /\ nextRunId' = nextRunId + 1
    /\ userInput' = [RetireInputs(userInput) EXCEPT
                       ![p] = [id |-> nextRunId, revision |-> revision[p], status |-> "Queued"]]
    /\ stress' = [RetireOtherStress(p) EXCEPT
                    ![p] = IF stress[p].phase \in ActivePhases
                           THEN [id |-> 0, phase |-> "Cancelled"] ELSE stress[p]]
    /\ run' = [run EXCEPT ![p] = IF run[p].phase \in ActivePhases
                                 THEN [@ EXCEPT !.id = 0, !.phase = "Cancelled"] ELSE @]
    /\ commands' = Append(commands, RunCommand(p, "UserInput"))
    /\ UNCHANGED <<ui, source, revision, removed, messages, workerVars, stopping, vars>>

(* Without a source the input is shown as failed and nothing is requested. *)
RunUserInputWithoutSource(p) ==
    /\ ui = "running" /\ ~source[p] /\ nextRunId <= MaxRunId
    /\ nextRunId' = nextRunId + 1
    /\ userInput' = [userInput EXCEPT
                       ![p] = [id |-> nextRunId, revision |-> revision[p], status |-> "Failed"]]
    /\ UNCHANGED <<ui, source, revision, run, stress, removed, commands, messages,
                   workerVars, stopping, vars>>

(* active_stress_identity: the problems that show an active stress run. *)
StressShown == {p \in Problems : stress[p].phase \in ActivePhases}

StopStress ==
    /\ ui = "running" /\ Cardinality(StressShown) = 1
    /\ \E p \in StressShown :
          /\ stress[p].id # 0
          /\ commands' = Append(commands, CancelCommand(p, stress[p].id))
          /\ stress' = [stress EXCEPT ![p].phase = "Cancelled"]
    /\ UNCHANGED <<ui, nextRunId, source, revision, run, userInput, removed, messages,
                   workerVars, stopping, vars>>

SourceRemoved(p) ==
    /\ ui = "running" /\ source[p] /\ MoreNotices(p)
    /\ source' = [source EXCEPT ![p] = FALSE]
    /\ revision' = [revision EXCEPT ![p] = @ + 1]
    /\ RetireBefore(p, revision[p] + 1)
    /\ removed' = [removed EXCEPT ![p] = nextRunId]
    /\ userInput' = [userInput EXCEPT ![p] = NoInput]
    /\ run' = [run EXCEPT ![p] = NoRun]
    /\ stress' = [stress EXCEPT
                    ![p] = [id |-> 0, phase |-> IF @.phase \in ActivePhases
                                                THEN "Cancelled" ELSE @.phase]]
    /\ commands' = commands \o <<RetireCommand(p, revision[p] + 1)>> \o
                     (IF StressShown = {p} /\ stress[p].id # 0
                      THEN <<CancelCommand(p, stress[p].id)>> ELSE <<>>)
    /\ UNCHANGED <<ui, nextRunId, messages, workerVars, stopping,
                   active, queueVars, retiring>>

-------------------------------------------------------------------------------
(* UI thread: messages of the worker and of the attempt. *)

Started(p) == IF p \in Cpp THEN "Compiling" ELSE "Running"

CurrentInput(m) ==
    /\ userInput[m.problem].id = m.runId
    /\ userInput[m.problem].status \in ActivePhases
    /\ userInput[m.problem].revision = revision[m.problem]
    /\ source[m.problem]

SetInput(m, status) ==
    /\ userInput' = [userInput EXCEPT ![m.problem].status = status]
    /\ UNCHANGED <<run, stress>>
SetRun(m, state) ==
    /\ run' = [run EXCEPT ![m.problem] = state]
    /\ UNCHANGED <<stress, userInput>>
SetStress(m, phase) ==
    /\ stress' = [stress EXCEPT ![m.problem].phase = phase]
    /\ UNCHANGED <<run, userInput>>
Ignored == UNCHANGED <<run, stress, userInput>>

(* run_started: a user-input run first, else the run or the stress run     *)
(* that carries the identifier, and only while it is queued.               *)
OnRunStarted(m) ==
    LET p == m.problem
        mine == IF run[p].id = m.runId THEN run[p].phase
                ELSE IF stress[p].id = m.runId THEN stress[p].phase ELSE "Idle"
    IN IF CurrentInput(m) /\ userInput[p].status = "Queued"
       THEN SetInput(m, Started(p))
       ELSE IF mine # "Queued" THEN Ignored
       ELSE IF run[p].id = m.runId
       THEN SetRun(m, [run[p] EXCEPT !.phase = Started(p), !.attempts = @ \cup {m.attempt}])
       ELSE SetStress(m, Started(p))

(* Mutant: the results of the preempted attempt stay on the screen. *)
MutantKeepsResults(m) ==
    IF run[m.problem].id = m.runId /\ run[m.problem].phase \in {"Compiling", "Running"}
    THEN SetRun(m, [run[m.problem] EXCEPT !.phase = "Queued", !.started = FALSE])
    ELSE Ignored

(* run_requeued forgets everything the preempted attempt had reported. *)
OnRunRequeued(m) ==
    IF run[m.problem].id = m.runId /\ run[m.problem].phase \in {"Compiling", "Running"}
    THEN SetRun(m, [NoRun EXCEPT !.id = m.runId, !.phase = "Queued"])
    ELSE Ignored

(* run_event, by kind of TestEvent; the two compile failures are one. *)
RunEventPhase(m) ==
    LET r == run[m.problem]
    IN CASE m.type = "NoSamples" /\ ~r.started /\ r.phase \in {"Compiling", "Running"} ->
              "NoSamples"
         [] m.type = "CompileFailed" /\ r.phase = "Compiling" -> "CompileError"
         [] m.type = "TestRunStarted" /\ ~r.started /\ r.phase \in {"Compiling", "Running"} ->
              "Running"
         [] m.type = "TestCase" /\ r.started /\ r.phase = "Running" -> "Running"
         [] m.type = "TestRunFinished" /\ r.started /\ r.phase = "Running" -> "Finished"
         [] OTHER -> "Ignored"

OnRunEvent(m) ==
    IF run[m.problem].id = m.runId /\ RunEventPhase(m) # "Ignored"
    THEN SetRun(m, [run[m.problem] EXCEPT
                      !.phase = RunEventPhase(m),
                      !.started = @ \/ m.type = "TestRunStarted",
                      !.attempts = @ \cup {m.attempt}])
    ELSE Ignored

OnStressEvent(m) ==
    LET phase == stress[m.problem].phase
    IN IF stress[m.problem].id # m.runId THEN Ignored
       ELSE CASE m.type = "StressStarted" /\ phase \in ActivePhases -> SetStress(m, "Running")
              [] m.type = "StressFailed" /\ phase \in {"Compiling", "Running"} ->
                    SetStress(m, "Failed")
              [] m.type = "StressCancelled" /\ phase \in ActivePhases ->
                    SetStress(m, "Cancelled")
              [] OTHER -> Ignored

OnUserInputEvent(m) ==
    IF CurrentInput(m) /\ userInput[m.problem].revision = m.revision
    THEN SetInput(m, IF m.type = "InputRunning" THEN "Running" ELSE "Finished")
    ELSE Ignored

(* run_completed leaves user-input runs alone; run_failed ends them too. *)
OnOutcome(m) ==
    LET p == m.problem
        verdict == IF m.type = "RunCompleted" THEN "Finished" ELSE "Failed"
    IN IF m.type = "RunFailed" /\ CurrentInput(m) THEN SetInput(m, "Failed")
       ELSE IF run[p].id = m.runId
       THEN IF run[p].phase \in ActivePhases
            THEN SetRun(m, [run[p] EXCEPT !.phase = verdict]) ELSE Ignored
       ELSE IF stress[p].id = m.runId /\ stress[p].phase \in ActivePhases
       THEN SetStress(m, verdict) ELSE Ignored

TestEvents == {"NoSamples", "CompileFailed", "TestRunStarted", "TestCase", "TestRunFinished"}
StressEvents == {"StressStarted", "StressFailed", "StressCancelled"}
InputEvents == {"InputRunning", "InputFinished"}

HandleMessage ==
    /\ ui = "running" /\ messages # <<>> /\ Head(messages).type # "WorkerFailed"
    /\ LET m == Head(messages)
       IN \/ m.type = "RunStarted" /\ OnRunStarted(m)
          \/ m.type = "RunRequeued" /\ OnRunRequeued(m)
          \/ m.type \in TestEvents /\ OnRunEvent(m)
          \/ m.type \in StressEvents /\ OnStressEvent(m)
          \/ m.type \in InputEvents /\ OnUserInputEvent(m)
          \/ m.type \in {"RunCompleted", "RunFailed"} /\ OnOutcome(m)
    /\ messages' = Tail(messages)
    /\ UNCHANGED <<ui, nextRunId, source, revision, removed, commands,
                   workerVars, stopping, vars>>

(* The session loop ends: on quit, or with the error of the worker.  The   *)
(* WatchApp is dropped, and nothing reads the message channel afterwards.  *)
Leave ==
    /\ ui' = "leaving"
    /\ nextRunId' = 1
    /\ source' = [p \in Problems |-> FALSE]
    /\ revision' = [p \in Problems |-> 0]
    /\ run' = [p \in Problems |-> NoRun]
    /\ stress' = [p \in Problems |-> NoStress]
    /\ userInput' = [p \in Problems |-> NoInput]
    /\ messages' = <<>>
    /\ UNCHANGED <<removed, commands, workerVars, stopping, vars>>

Quit == ui = "running" /\ Leave

HandleWorkerFailed ==
    /\ ui = "running" /\ messages # <<>> /\ Head(messages).type = "WorkerFailed"
    /\ Leave

(* begin_shutdown needs the lifecycle gate, which the worker holds while   *)
(* it selects and spawns.                                                  *)
RequestStop ==
    /\ ui = "leaving" /\ ~stopping /\ worker.pc # "spawn"
    /\ stopping' = TRUE
    /\ UNCHANGED <<uiVars, commands, messages, workerVars, vars>>

JoinWorker ==
    /\ ui = "leaving" /\ stopping /\ worker.pc = "exited"
    /\ ui' = "closed"
    /\ UNCHANGED <<appVars, commands, messages, workerVars, stopping, vars>>

-------------------------------------------------------------------------------
(* Attempt thread: one request from spawn to its outcome.  The last event  *)
(* is sent together with the outcome: nothing can tell them apart before   *)
(* the worker joins the thread.  What an attempt says after the session    *)
(* loop has ended is not kept, for nothing reads it.                       *)

Say(type) ==
    messages' = IF ui = "running"
                THEN Append(messages, Message(type, attempt.request, attempt.number))
                ELSE messages
Silent == UNCHANGED messages
Continue(pc) == attempt' = [attempt EXCEPT !.pc = pc]
End(outcome) == attempt' = [attempt EXCEPT !.pc = "ended", !.outcome = outcome]
At(pc) == attempt # None /\ attempt.pc = pc
Runs(kind) == attempt.request.kind = kind
AttemptFrame == UNCHANGED <<uiVars, commands, worker, spawned, stopping, vars>>

(* run_reported_attempt announces the attempt before anything else. *)
AttemptStarts ==
    /\ At("spawned")
    /\ Say("RunStarted") /\ Continue("started")
    /\ AttemptFrame

(* test_problem_with_cancel: up to the first case. *)
SamplesBegin ==
    /\ At("started") /\ Runs("Samples")
    /\ \/ Say("NoSamples") /\ End("Completed")
       \/ attempt.request.problem \in Cpp /\ Say("CompileFailed") /\ End("Completed")
       \/ Say("TestRunStarted") /\ Continue("testing")
    /\ AttemptFrame

SamplesJudge ==
    /\ At("testing") /\ Runs("Samples")
    /\ Say("TestCase") /\ Continue("tested")
    /\ AttemptFrame

SamplesFinish ==
    /\ At("tested") /\ Runs("Samples")
    /\ Say("TestRunFinished") /\ End("Completed")
    /\ AttemptFrame

(* stress::run without a case limit: it ends by a counterexample, an error *)
(* or a cancellation, and may never end otherwise.                         *)
StressBegins ==
    /\ At("started") /\ Runs("Stress")
    /\ Say("StressStarted") /\ Continue("testing")
    /\ AttemptFrame

StressFindsFailure ==
    /\ At("testing") /\ Runs("Stress")
    /\ Say("StressFailed") /\ End("Completed")
    /\ AttemptFrame

(* user_input_run::run: a compile failure finishes the run as well. *)
InputBegins ==
    /\ At("started") /\ Runs("UserInput")
    /\ \/ Say("InputRunning") /\ Continue("testing")
       \/ attempt.request.problem \in Cpp /\ Say("InputFinished") /\ End("Completed")
    /\ AttemptFrame

InputFinishes ==
    /\ At("testing") /\ Runs("UserInput")
    /\ Say("InputFinished") /\ End("Completed")
    /\ AttemptFrame

(* A requested cancellation is seen at the next poll; a stress run reports *)
(* it.  The attempt may also reach its own end without polling again.      *)
AttemptObservesCancel ==
    /\ attempt # None /\ attempt.pc \in {"started", "testing", "tested"} /\ attempt.cancel
    /\ IF Runs("Stress") THEN Say("StressCancelled") ELSE Silent
    /\ End("Cancelled")
    /\ AttemptFrame

(* An infrastructure error, such as a source file that no longer exists. *)
AttemptFails ==
    /\ attempt # None /\ attempt.pc \in {"started", "testing", "tested"}
    /\ Silent /\ End("Failed")
    /\ AttemptFrame

AttemptPanics ==
    /\ Faults /\ attempt # None /\ attempt.pc \in {"started", "testing", "tested"}
    /\ Silent /\ End("Panicked")
    /\ AttemptFrame

-------------------------------------------------------------------------------
(* Worker thread: scheduler_loop_inner, one action per step of the loop.   *)
(* while_running is atomic with the flag it tests: it holds the lifecycle  *)
(* gate.                                                                   *)

GoTo(pc) == worker' = [worker EXCEPT !.pc = pc, !.drained = 0]
Fault(pc) == worker' = [worker EXCEPT !.pc = pc, !.drained = 0, !.failed = TRUE]
Ended == attempt # None /\ attempt.pc = "ended"

(* complete_attempt: the join returns the outcome, then retire_matching.   *)
(* A panic surfaces from the join, before the scheduler retires anything.  *)
TakeCompletion ==
    /\ Ended
    /\ attempt' = None
    /\ IF attempt.outcome = "Panicked"
       THEN Fault("cleanup") /\ UNCHANGED <<active, queueVars, retiring>>
       ELSE /\ worker' = [worker EXCEPT !.pc = "publish", !.outcome = attempt.outcome]
            /\ RetireActive
    /\ UNCHANGED <<uiVars, commands, messages, spawned, stopping, gate>>

NoCompletion == UNCHANGED <<uiVars, commands, messages, attempt, spawned, stopping, vars>>

LoopTop ==
    /\ worker.pc = "top"
    /\ \/ stopping /\ GoTo("cleanup") /\ NoCompletion
       \/ ~stopping /\ TakeCompletion
       \/ /\ ~stopping /\ ~Ended
          /\ GoTo("drain")
          /\ NoCompletion

(* process_command, with the cancellation the scheduler asks for. *)
ProcessCommand(next) ==
    LET c == Head(commands)
        cancels == \/ c.type = "Run" /\ ~Stale(c.request) /\ CancelsActive
                   \/ c.type = "CancelStress" /\ CancelsActiveStress(c.problem, c.runId)
                         /\ CancelsActive
    IN /\ \/ c.type = "Run" /\ RequestArrived(c.request)
          \/ c.type = "CancelStress" /\ CancelStress(c.problem, c.runId)
          \/ c.type = "RetireUserInputRuns" /\ RetireUserInputRuns(c.problem, c.revision)
       /\ commands' = Tail(commands)
       /\ attempt' = IF cancels THEN [attempt EXCEPT !.cancel = TRUE] ELSE attempt
       /\ worker' = [worker EXCEPT !.pc = next,
                                   !.drained = IF next = "drain" THEN @ + 1 ELSE 0]
       /\ UNCHANGED <<uiVars, messages, spawned, stopping, gate>>

BatchOver == commands = <<>> \/ worker.drained = MaxCommandsPerTick

(* drain_commands; a command that was received is lost when stopping won. *)
DrainCommands ==
    /\ worker.pc = "drain" /\ ~BatchOver
    /\ \/ ~stopping /\ ProcessCommand("drain")
       \/ stopping /\ GoTo("cleanup") /\ NoCompletion

(* The batch is over: look for a completion and for shutdown again, then   *)
(* start_next under the lifecycle gate, which is kept for the spawn.       *)
CheckAgain ==
    /\ worker.pc = "drain" /\ BatchOver
    /\ \/ TakeCompletion
       \/ ~Ended /\ stopping /\ GoTo("cleanup") /\ NoCompletion
       \/ ~Ended /\ ~stopping /\ attempt # None /\ GoTo("wait") /\ NoCompletion
       \/ /\ ~stopping /\ attempt = None
          /\ StartNext
          /\ GoTo(IF active' = None THEN "wait" ELSE "spawn")
          /\ UNCHANGED <<uiVars, commands, messages, attempt, spawned, stopping, gate>>

(* start_if_current: a source removal may have won since start_next. *)
StartGateOpen(r) == r.kind = "UserInput" => r.revision >= gate[r.problem]

SpawnAttempt ==
    /\ worker.pc = "spawn"
    /\ \/ /\ StartGateOpen(active.request)
          /\ attempt' = [request |-> active.request, number |-> spawned + 1, cancel |-> FALSE,
                         pc |-> "spawned", outcome |-> None]
          /\ spawned' = spawned + 1
          /\ GoTo("top")
          /\ UNCHANGED active
       \/ /\ ~StartGateOpen(active.request)
          /\ active' = None
          /\ GoTo("top")
          /\ UNCHANGED <<attempt, spawned>>
       \/ /\ Faults /\ StartGateOpen(active.request)
          /\ active' = None
          /\ Fault("cleanup")
          /\ UNCHANGED <<attempt, spawned>>
    /\ UNCHANGED <<uiVars, commands, messages, stopping, queueVars, retiring, gate>>

(* recv_timeout with at most one command. *)
WaitForCommand ==
    /\ worker.pc = "wait"
    /\ IF commands # <<>>
       THEN \/ ~stopping /\ ProcessCommand("top")
            \/ stopping /\ GoTo("cleanup") /\ NoCompletion
       ELSE GoTo("top") /\ NoCompletion

(* finish_joined_attempt under the lifecycle gate. *)
Publish(type) ==
    messages' = Append(messages, Message(type, retiring.request, spawned))

(* Mutant: shutdown is not checked before the outcome is published. *)
MutantPublishesAnyway == worker.pc = "publish"

MayPublish == ~stopping

PublishOutcome ==
    /\ worker.pc = "publish"
    /\ worker' = [worker EXCEPT !.pc = "top", !.outcome = None]
    /\ \/ ~MayPublish /\ DropRetired /\ Silent
       \/ /\ MayPublish /\ worker.outcome = "Cancelled"
          /\ RequeueRetired
          /\ IF RequeueAllowed THEN Publish("RunRequeued") ELSE Silent
       \/ /\ MayPublish /\ worker.outcome # "Cancelled"
          /\ DropRetired
          /\ IF retiring.isLatest
             THEN Publish(IF worker.outcome = "Completed" THEN "RunCompleted" ELSE "RunFailed")
             ELSE Silent
    /\ UNCHANGED <<uiVars, commands, attempt, spawned, stopping, gate>>

(* Mutant: cleanup joins the attempt without cancelling it. *)
MutantForgetsCancel ==
    /\ worker.pc = "cleanup"
    /\ GoTo("cleanupJoin")
    /\ UNCHANGED <<uiVars, commands, messages, attempt, spawned, stopping, vars>>

(* cleanup_active, then the thread ends; an error is reported on the way. *)
CleanupCancels ==
    /\ worker.pc = "cleanup"
    /\ attempt' = IF attempt = None THEN None ELSE [attempt EXCEPT !.cancel = TRUE]
    /\ GoTo("cleanupJoin")
    /\ UNCHANGED <<uiVars, commands, messages, spawned, stopping, vars>>

CleanupJoins ==
    /\ worker.pc = "cleanupJoin"
    /\ attempt = None \/ Ended
    /\ LET failed == worker.failed \/ (Ended /\ attempt.outcome = "Panicked")
       IN /\ worker' = [worker EXCEPT !.pc = "exited", !.failed = failed]
          /\ messages' = IF failed THEN Append(messages, WorkerFailed) ELSE messages
          /\ active' = IF Ended /\ attempt.outcome # "Panicked" THEN None ELSE active
    /\ attempt' = None
    /\ UNCHANGED <<uiVars, commands, spawned, stopping, queueVars, retiring, gate>>

-------------------------------------------------------------------------------
UserStep ==
    \/ \E p \in Problems :
          RunTests(p) \/ SourceChanged(p) \/ OpenSource(p) \/ StartStress(p)
            \/ RunUserInput(p) \/ RunUserInputWithoutSource(p) \/ SourceRemoved(p)
    \/ StopStress \/ Quit
UiStep == HandleMessage \/ HandleWorkerFailed \/ RequestStop \/ JoinWorker
AttemptStep ==
    \/ AttemptStarts \/ SamplesBegin \/ SamplesJudge \/ SamplesFinish
    \/ StressBegins \/ InputBegins \/ InputFinishes \/ AttemptObservesCancel
AttemptMishap == StressFindsFailure \/ AttemptFails \/ AttemptPanics
WorkerStep ==
    \/ LoopTop \/ DrainCommands \/ CheckAgain \/ SpawnAttempt
    \/ WaitForCommand \/ PublishOutcome \/ CleanupCancels \/ CleanupJoins

(* The session is over: a stopped program is no deadlock. *)
Closed == ui = "closed" /\ UNCHANGED engineVars

EngineNext == UserStep \/ UiStep \/ AttemptStep \/ AttemptMishap \/ WorkerStep \/ Closed

EngineSpec == EngineInit /\ [][EngineNext]_engineVars

(* Every thread keeps running: the UI loop takes messages, the worker loop *)
(* turns, an attempt makes progress because every process it waits for has *)
(* a time limit and every wait polls the cancellation.  Nothing is assumed *)
(* of the user, and a stress run need not find anything.                   *)
FairEngineSpec ==
    /\ EngineSpec
    /\ WF_engineVars(UiStep)
    /\ WF_engineVars(WorkerStep)
    /\ WF_engineVars(AttemptStep)

-------------------------------------------------------------------------------
(* Correctness. *)

Phases == ActivePhases \cup EndPhases \cup {"Idle", "CompileError", "NoSamples"}
WorkerPcs == {"top", "drain", "spawn", "wait", "publish",
              "cleanup", "cleanupJoin", "exited"}

(* Every variable of the engine holds a value of its Rust type. *)
EngineTypeOK ==
    /\ TypeOK
    /\ ui \in {"running", "leaving", "closed"}
    /\ nextRunId \in 1..(MaxRunId + 1)
    /\ source \in [Problems -> BOOLEAN] /\ revision \in [Problems -> Revisions]
    /\ \A p \in Problems :
          /\ run[p].phase \in Phases /\ run[p].id < nextRunId
          /\ stress[p].phase \in Phases /\ stress[p].id < nextRunId
          /\ userInput[p].status \in Phases /\ userInput[p].id < nextRunId
    /\ worker.pc \in WorkerPcs
    /\ attempt \in Attempts \cup {None}

(* The work of a run that the worker still owes to the UI: a command on    *)
(* its way, a request the scheduler holds, or an outcome on its way back.  *)
InPipeline(p, id) ==
    \/ \E i \in DOMAIN commands :
          commands[i].type = "Run" /\ commands[i].request.problem = p
            /\ commands[i].request.runId = id
    \/ \E r \in Logical : r.problem = p /\ r.runId = id
    \/ \E i \in DOMAIN messages :
          /\ messages[i].type \in {"RunCompleted", "RunFailed", "InputFinished",
                                   "StressFailed", "StressCancelled"}
          /\ messages[i].problem = p /\ messages[i].runId = id

WorkerAlive == ~stopping /\ ~worker.failed

(* The UI never shows a run as queued, compiling or running that nobody    *)
(* will ever finish: as long as the session lives, the pipeline holds it.  *)
ShownRunsAreInPipeline ==
    WorkerAlive => \A p \in Problems :
        /\ IsActive(run[p]) => InPipeline(p, run[p].id)
        /\ IsActive(stress[p]) => InPipeline(p, stress[p].id)
        /\ userInput[p].status \in ActivePhases => InPipeline(p, userInput[p].id)

(* At most one stress run or user-input run is shown as active, over all   *)
(* problems, and never together with a sample run of its own problem       *)
(* (the comment on active_stress_identity in tui/app.rs).  And a sample    *)
(* result comes from one attempt: what a preempted attempt reported never  *)
(* mixes with what its successor reports, because the worker joins the     *)
(* thread before RunRequeued (tui/message.rs).                             *)
OneRunOnScreen ==
    LET Shown(p) == (IF stress[p].phase \in ActivePhases THEN {<<p, "Stress">>} ELSE {})
                    \cup (IF userInput[p].status \in ActivePhases
                          THEN {<<p, "UserInput">>} ELSE {})
    IN /\ Cardinality(UNION {Shown(p) : p \in Problems}) <= 1
       /\ \A p \in Problems : run[p].phase \in ActivePhases => Shown(p) = {}
       /\ \A p \in Problems : Cardinality(run[p].attempts) <= 1

(* Once shutdown has won the lifecycle gate, no outcome is published, no   *)
(* request is queued again and no attempt is spawned (watch_worker.rs).    *)
OutcomesIn(seq) ==
    {i \in DOMAIN seq : seq[i].type \in {"RunCompleted", "RunFailed", "RunRequeued"}}
ShutdownIsSilent ==
    [][stopping => /\ OutcomesIn(messages') = OutcomesIn(messages)
                   /\ Len(pending') <= Len(pending)
                   /\ spawned' = spawned]_engineVars

(* A user input that was requested before the source of its problem was    *)
(* removed is never spawned, wherever the request was at that time and     *)
(* though the source may have been selected again since: the removal       *)
(* itself must have closed the way to it (tui/message.rs).                 *)
RemovedInputNeverSpawned ==
    [][spawned' # spawned /\ attempt'.request.kind = "UserInput" =>
         attempt'.request.runId >= removed[attempt'.request.problem]]_engineVars

(* A stress run that executes unhindered is the one Stop Stress would stop *)
(* (docs/tui.md: Stop Stress stops the running stress test).               *)
RunningStressIsStoppable ==
    LET Executes(p) == attempt # None /\ attempt.pc = "testing" /\ Runs("Stress")
                       /\ attempt.request.problem = p
    IN \A p \in Problems :
        Executes(p) /\ ui = "running" /\ WorkerAlive /\ ~attempt.cancel
            /\ commands = <<>> /\ messages = <<>>
        => StressShown = {p} /\ stress[p].id = attempt.request.runId

(* A sample run the UI shows as active is decided, however often it was    *)
(* preempted, unless the session is left or a stress run occupies the      *)
(* worker for ever; and a session that is left is closed, for the worker   *)
(* cancels and joins whatever is running, endless stress runs included.    *)
StressForEver == <>[](ui = "running" /\ attempt # None /\ attempt.request.kind = "Stress")
Unfinished(p) == IsActive(run[p]) \/ ui = "leaving"
Finished(p) == ui = "closed" \/ (ui = "running" /\ ~IsActive(run[p]))
RunAndShutdownComplete(p) == StressForEver \/ (Unfinished(p) ~> Finished(p))

===============================================================================
