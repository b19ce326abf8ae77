# TLA+ models of atc-rs

atc-rs prepares AtCoder contests, runs sample, stress and user-input tests in a
terminal interface, and submits solutions. Much of it is parsing, layout and
file handling in a straight line. The parts where order matters are modelled
here: the watcher that turns a saved source into a test, the run worker behind
the contest screen, the input loop above it, the lifetime of a contest session,
the replacement of a contest's files, the store of user inputs that several
processes share, the saved stress cases, the credential with its rotations, and
the submission of solutions.

Contents: [components](#components), [modules](#modules), [runs](#runs),
[proofs](#proofs), [deviations found](#deviations-found),
[assumptions and limits](#assumptions-and-limits), [not modelled](#not-modelled),
[plan](#plan).

Run a configuration with `tlc -config RunEngine.cfg MCRunEngine.tla` (the
module that goes with each configuration is in the table of runs), and the
proofs with `tlapm <module>Proofs.tla`: `RunEngineProofs` (about `RunScheduler`
and `RunEngine`), `UserInputStoreProofs`, `StressCasesProofs`, `AuthenticationProofs`,
`ContestSessionProofs`, `UiThreadProofs` (about `FrontendInput` and
`SubmissionHub`), `ContestRefreshProofs`, `SourceWatchProofs`.

## Components

Paths are relative to `src/src/`.

| Component | State | Operations | Where it is hard | What makes it correct |
|---|---|---|---|---|
| Run scheduler, `commands/run_scheduler.rs` | the active request and whether it is the latest of its problem, a queue of pending requests, the newest run of each problem, the retired revisions | `request_arrived`, `retire_user_input_runs`, `cancel_stress`, `start_next`, `retire_active`, `requeue_retired` | long sequences of legal calls; preemption and requeueing | its debug assertion; a sample run is owed until it ends or is replaced |
| Run worker, `commands/watch_worker.rs`, `attempt_executor.rs`, `attempt.rs` | the scheduler, the physical attempt, a completion, the lifecycle phase | loop: take a completion, drain commands, spawn, wait; cleanup | three threads and two channels, panics, shutdown at any step | what the UI shows agrees with what runs; leaving ends; nothing is published after |
| Run state of the `WatchApp`, `tui/app.rs`, `tui/app/user_input_run.rs` | sample, stress and user-input run state per problem, the start gate | queue runs, react to messages, follow the sources | messages late by any amount; source notifications | one interactive run; no run shown that nothing will decide |
| Session loop and input layers, `tui/mod.rs`, `tui/refresh_contest.rs`, `tui/switch_contest.rs`, `tui/command_palette.rs` | modals, palette, help, open edits, the batch of events read | dispatch of a batch, look-ahead for a quit, background events | a key whose meaning the keys before it change | a `q` quits only where it is meant to; no edit is lost to a refresh |
| Session lifetime, `commands/watch_tui.rs` | the session's three threads, the operation thread, slots with prepared entries, the terminal | start with rollback, switch, refresh, home, cleanup | every step may fail; stop and join order | one session at a time, nothing runs on files being replaced, every thread is joined |
| Test and stress execution, `commands/test.rs`, `stress.rs`, `commands/user_input_run.rs` | case number, child processes, saved failure | judge cases, search failures, save a failure | cancellation between steps; swap of the saved failure | events in the order the App expects; a saved failure is whole |
| User-input store, `user_input.rs` | files `<id>.in`, `next_id` metadata, a lock file | create, save if unchanged, delete, load | several processes, kills, power loss, I/O errors | ids never reused, no lost update, reported changes durable |
| Submission hub, `tui/submission.rs` | a record and a history entry per submission, worker threads, one channel | start, apply reports, reap, stop, shutdown | replacement, panics, reports late behind a bound per tick | nothing accepted is forgotten, nothing is sent twice blindly |
| Submission protocol, `commands/submit.rs`, `atcoder/submit.rs`, `atcoder/submission_tracking.rs` | cancel and POST bits, the baseline of listed ids | fetch page, gate, POST once, discover, poll | lost answers, others submitting | one POST per attempt; no other submission is tracked when the own one is listed in time |
| AtCoder client, `atcoder.rs` | clients, the time of the last request | get, retry 429, authenticated exchange | shared rate limit, rotated cookies | one credential per exchange |
| Authentication, `auth.rs`, `commands/login.rs`, `tui/authentication_modal.rs` | credential file, lock, in-memory session, the screen and its thread | write, reset, rotate, inspect, verify | two processes, dropped threads, stale responses | a response never undoes an explicit choice; a verdict is about the stored credential |
| Settings, `settings_store.rs`, `settings.rs`, `tui/settings_screen.rs` | the settings file and its snapshot | inspect, replace | changes by others in between | no unseen change is overwritten |
| Workspace, `workspace.rs`, `commands/{refresh,contest,new,create,init}.rs` | contest directories, metadata, tests | create, refresh, repair, roll back | a failing rename in the middle, other programs | all or nothing, user files kept |
| Editor of user inputs, `tui/mod.rs`, `tui/app/user_input_delete.rs` | draft, baseline, armed delete | save, discard, delete | outcomes of the store that are neither success nor failure | a draft is created at most once |
| Watcher, `watcher.rs`, `commands/watch.rs`, watcher thread of `commands/watch_tui.rs` | notifications, the batch of paths | collect, close, resolve, report | bursts; files deleted, renamed or created between collection and resolution | the source saved last is tested; no missing source stays selected |
| Detail analysis, `tui/detail_analysis.rs` | the latest request | build, count, cancel | overtaking requests | the newest request is answered |

The rest is sequential or pure output: rendering (`tui/view.rs`,
`tui/detail_layout.rs`), terminal input, home screens, command line,
configuration, `doctor`, templates, the process runner and the comparator.
`PROJECT.json` lists every part with its status.

How they interact. The root thread of `commands/watch_tui.rs` moves between the
home screen and a contest; it starts and joins a session's three threads
(watcher, run worker, detail analysis) and alone applies what an operation
thread has prepared (a switch, a refresh). Inside a session the loop runs on the
UI thread and owns the App, the hub and the editor. It sends `RunWorkerCommand`s
to the run worker and gets `Message`s back over one channel, which the watcher
and the attempt threads also write to. The App tells the worker thread which
user-input runs are still wanted through the atomics of the start gate, ahead of
the commands in the channel. Each submission has its own thread and reports to
the hub over the hub's channel; the hub applies what came, then joins what
ended. The stores (user inputs, stress cases, credential) have no thread: whoever
calls them locks a file, in this process or in another one. Submissions,
refreshes and the Authentication screen all send requests with the stored
credential and write back the rotations AtCoder answers with.

## Modules

| Module | Models | State | Actions |
|---|---|---|---|
| `SampleDuty` | what the scheduler promises about sample runs (abstract) | `duty`, `seen`, `executing` | `Arrive`, `Start`, `Interrupt`, `Discharge` |
| `RunScheduler` | `commands/run_scheduler.rs` | its fields, and the retired request the worker holds | one action per method |
| `RunEngine` | App, channels, run worker, attempt thread | extends `RunScheduler`; App state, both channels, gate, worker program counter, attempt | user actions, message handlers, worker steps, attempt steps |
| `SourceWatch` | from a changed file to the queued run: `watcher.rs`, the watcher thread, `watch --plain`, source handlers of the App | files, notifications, batch, messages, selected sources | changes by the user, steps of the watcher, handlers |
| `FrontendInput` | the input loop of `tui/mod.rs` with its layers | modals, palette, help, edits; the batch | `Read`, `QuitAhead`, `Dispatch`, background results |
| `ContestSession` | root thread of `commands/watch_tui.rs` | program counter of the root, threads of each session, slots, operation, terminal, versions of the files | one action per step of start, shutdown, switch, refresh, cleanup |
| `ContestRefresh` | `commands/refresh.rs`, repair in `commands/contest.rs`, the three replacements of `workspace.rs` | where each generation of tests and metadata is; the operation | one action per rename or inspection, forward and back |
| `UserInputStore` | `user_input.rs` for one problem | directory in memory and on disk, lock file, one operation per process | one action per system call that others can see |
| `UserInputEditor` | rows, edit, runs and deletes of one problem's user inputs: `tui/app.rs`, `tui/app/user_input_{run,delete}.rs`, the handlers of `tui/mod.rs` | files, list, edit, selection, runs, the handler between two calls | one action per handler, or per call of the store |
| `StressCases` | the saved failing case of one problem, `stress.rs` (`persist_failure`, `load_saved_case`) | where each directory is, the lock, saves, loads | one action per access others can observe |
| `Authentication` | `auth.rs`, `HttpSource::exchange`, `tui/authentication_modal.rs` | cookie file, lock, threads with their `SessionAuth`, the screen | server answers, persisting, explicit changes, the screen's polling |
| `SubmissionHub` | hub, worker threads, and the server as far as they see it | records, history, workers, channel, modal; worker state; what the server did | hub operations, worker steps, server steps |
| `...Proofs` | theorems about `RunScheduler`, `UserInputStore`, `StressCases`, `Authentication`, `ContestSession`, `FrontendInput`, `SubmissionHub`, `ContestRefresh`, `SourceWatch` | | |

`MC*.tla` give the constants values. `PROJECT.json` maps every definition to the
lines it stands for.

`RunScheduler` is used twice: alone, where `Next` lets any client call the
methods in any order the worker's protocol allows, and inside `RunEngine`, where
the same operators are called by the worker. `SampleDuty` is the abstract
specification: a sample run that arrived is owed; it may be taken, interrupted
and taken again, and leaves only when it ended or a newer one of its problem
replaced it. `RunScheduler` implements it under a refinement mapping: `duty` is
the sample run of a problem that is foreground, queued, active as the latest or
just being retired, `executing` the problem of the active one.

`RunEngine` follows the worker loop of `watch_worker.rs` by a program counter
with one step for each place where another thread can see or change something.
`DrainCommands` takes at most `MaxCommandsPerTick` commands, as the code does.
The App's handlers are one action per message; what they store is cut down to
the phases of the three kinds of run, their run identifiers and the revisions of
the start gate. Faults (a spawn that fails, an attempt that panics) are switched
by the constant `Faults`.

`UserInputStore` keeps every directory entry twice: what processes see, and the
set of values the disk may show after a power loss. A change adds a value to the
set and a sync reduces it to the current one; a power loss takes, for each name
on its own, one of its values, kills every process and releases the locks. Every
operation may be killed between any two steps, and every step may fail where the
code has an error path, with the cleanup and the outcome the code reports.

`UserInputEditor` stands on that store: a call is one step with the outcomes
`UserInputStore` is checked for (done, conflict, missing, failed before or after
the installation), and a handler that calls twice, a save and then a load, makes
two steps with changes by others between. `shown` remembers the content the user
was told his edit is based on, `mine` the files the open edit has created and
nobody touched since. A result that arrives for a run no longer shown changes
nothing, because run identifiers are given out once; so a result is the step
`Finish` of a run that is shown.

`SubmissionHub` has the hub's tick in its real parts: at most `EventsPerTick`
reports are applied, then every thread that ended is joined, then the Submit
modal looks at its submission. Each step of a worker is one request or one
report. A panic may come anywhere; it is caught and reported, or the containment
fails too and only the join tells. The server accepts or rejects at any time
after the POST was sent; the answer may be lost.

`StressCases` names each case by the save that makes it and keeps where its
directory is: staged, at the target, put aside by a save, removed, kept for
recovery, or left by a killed save. A save looks at the target, stages, polls for
the lock, looks again, moves the target aside, validates it, installs, inspects
the old case and removes it, and rolls back or keeps what it cannot. A load waits
for the shared lock if the lock file exists and goes on without it otherwise.
The user and another program may add a file to a case, remove the case or put a
directory in its place at any step.

`SourceWatch` produces the messages that `RunEngine` takes as external. It
follows a change through four places: the notification (`events`), the batch of
paths (`batch`, where a repeated path moves to the end), the message that the
watcher sends after it has looked at the file system (`messages`), and the
selected source. The TUI closes a batch at a deadline counted from its first
notification, `watch --plain` after a pause; both are here. Opening a source
looks at the file first and selects it later, with an editor of the terminal
keeping the UI thread away as long as it likes.

`FrontendInput` keeps of the interface which layer is open: which layer takes a
key is the code's order of modals, palette, editor and base. A batch of events
is handled in order (`Dispatch`), with a break for a redraw after any event.
Before that, `contains_global_quit_event` simulates the batch on a copy of a few
flags to find a `q` that quits (`LookAheadQuits`); the simulation is translated
apart from the dispatch, as the code writes it twice.

`ContestSession` has a program counter for the root thread and a state
(`unborn`, `running`, `asked`, `gone`, `crashed`) for each of the three threads
of each session. Threads start one by one and are asked together and joined one
by one; the fault paths are those of the code, which differ by what the start
was for. The contents of a contest are a version number that a create, a repair
or an applied refresh raises.

`ContestRefresh` names a generation of tests and of metadata by the operation
that fetched it and keeps where it is: staged, in the contest directory, put
aside as previous, deleted, kept for recovery, left by a kill. The steps of an
operation are its program counter; every rename fails if it cannot work and may
fail anyway, and what has been moved is moved back in the code's order, each
step of which may fail too. Another program adds entries, removes, breaks or
replaces tests and metadata between any two steps.

`Authentication` has the threads the screen has started, also those it no longer
listens to: the code drops the handle, the thread runs on and may store a
rotation later. A credential is the pasted login and the number under which the
server issued it. `Persist` and `Swap` are the two halves of `mutate_if_current`
around its rename. Other processes change the file under the lock; programs that
ignore the lock change it at any time (`raced` records the ones that hit a
holder of the lock).

## Runs

| Run | Module, configuration | Instance | Shows |
|---|---|---|---|
| `engine` | `MCRunEngine`, `RunEngine.cfg` | two problems (C++ and Python), two runs of any kind, two source notifications, two commands per tick, faults | `ShownRunsAreInPipeline`, `OneRunOnScreen`, the code's assertion `InvariantsHold`, `ShutdownIsSilent`, `RemovedInputNeverSpawned`, `RunOfP1AndShutdownComplete` (liveness), refinement `KeepsSampleDuty` |
| `engine_stress` | `MCRunEngine`, `RunEngineStress.cfg` | one problem, one stress run, one input run | violated, see below |
| `watch` | `SourceWatch`, `SourceWatch.cfg` | one problem with sources in two languages, three changes on their way, either front end | `NoStaleSource`, `LastSaveWins`, `EverySaveIsTested` (liveness) |
| `input` | `FrontendInput`, `FrontendInput.cfg` | in a workspace, every batch of up to four events (the code reads at most 64) | `QuitIsOrderedElsewhere`, `RefreshLosesNoEdit` |
| `session` | `ContestSession`, `ContestSession.cfg` | two contests, three sessions, one change of each contest | `ProducersAreGone`, `OneWholeSession`, `ShownIsOnDisk`, `EveryExitArrives` (liveness) |
| `refresh` | `MCContestRefresh`, `ContestRefresh.cfg` | two operations, two failures, kills or foreign changes | `AllOrNothing`, `OldDataSurvives`, `UnownedSurvives`, `PutsAsidePlannedOnly` |
| `store` | `MCUserInputStore`, `UserInputStore.cfg` | two processes, two contents, `u64::MAX` = 3, files 1 and 3 perhaps there from the start, kills, errors, power losses | `IdsNeverReused`, `NoLostUpdate`, `LoadIsSnapshot`, `ReportedSurvives` |
| `editor` | `MCUserInputEditor`, `UserInputEditor.cfg` | two rows, three contents, two changes by others, one failing call | `ShownIsTrue`, `TextEndsInOneFile` |
| `store_double_fault` | `MCUserInputStore`, `UserInputStoreDoubleFault.cfg` | one process, one input without metadata | violated, see below |
| `stress_cases` | `MCStressCases`, `StressCases.cfg` | two saves, one load, two foreign changes, one failing call, one kill | `OnlySupersededIsDeleted`, `LoadFindsTheNewest`, `OutcomeIsTrue`, `ForeignIsNeverDeleted` |
| `credentials` | `Authentication`, `Authentication.cfg` | two logins, two threads of the screen, two rotations, one trouble (foreign change, failing call, panic or kill) | `OnlySuccessorsReplace`, `VerdictIsAboutStored`, `ScreenSettles` (liveness) |
| `submission` | `MCSubmissionHub`, `SubmissionHub.cfg` | one problem, two submissions, another submitter, one panic, one report per tick | `AcceptedIsNeverForgotten`, `NoBlindRetry`, `ModalNeverHangs`, `TracksOwnSubmission`, `VerdictStays`, `StoppedNeverPosts`, `StartsAreDecided` (liveness) |

Why these bounds. In `RunEngine` every anomaly known to the tests takes two runs
(a preempting and a preempted one) and at most a source that appears and
disappears; two commands per tick with three in the channel make the batch bound
bite. Its safety is proved for every instance. In `SourceWatch` the problems
do not touch each other's sources, so one problem with two languages has every
conflict there is; three changes on their way are one in each of notifications,
batch and messages, or a rename behind a save. In `FrontendInput` a layer needs
one event to open, one to act in and one to close before the `q`: four. Three
sessions of `ContestSession` are one to leave, one to fail in starting and one
more, and a version of each contest's files before and after a change. The two
operations of `ContestRefresh` follow each other, so the second meets what
the first left behind; two troubles are a failing step and a failing step of its
rollback, or a foreign change before either. In the store two processes are
enough for any conflict under one exclusive lock; three ids give a deleted
highest id, a gap below it and the end of the id space; a file found at the start
stands for one made by hand or by an older version. A saved stress case is
swapped by one save at a time; the second one has looked at the target before
the first swapped it, the two foreign changes can defeat both the installation
and its rollback, and the load runs beside both. In
`UserInputEditor` a second row is what a reload, a run or a delete can disturb while
the first is edited, three contents tell the buffer, the baseline and the disk apart,
and of two changes one makes the conflict and one comes before its reload (a third
one reaches the case that `ResultIsForTheText` leaves out, below; the theorems hold
for any number). In
`Authentication` the second
thread is the one the screen has dropped, and two rotations make a credential, its
successor and the successor of that. In the hub a record remembers one current
and one pending submission, so two generations meet every case of its handlers;
one report per tick makes reports wait behind the bound in every possible way
(the code's 256 is a bound of the same kind, reached only under load). Discovery
looks at the list twice, so the own submission and the other's can appear before
the first look, between the two or too late, in either order. The status is polled
once in the run; what more polls report goes the way of the first report, and
`VerdictIsKept` is proved for any number of looks and polls.

`CHECK_DEADLOCK FALSE` stands where the modelled program ends: a session that was
left, operations that happen once, a program that exited.

The type invariants `TypeOK`, `EngineTypeOK`, `StoreTypeOK`, `StressTypeOK`,
`AuthenticationTypeOK`, `SessionTypeOK`, `InputTypeOK`, `HubTypeOK`, `EditorTypeOK`,
`RefreshTypeOK` and `WatchTypeOK` are proved, so no run repeats them.

Properties are state invariants unless they say otherwise; `ShutdownIsSilent`,
`RemovedInputNeverSpawned`, `OnlySuccessorsReplace`, `PutsAsidePlannedOnly`,
the properties of `store`, `TracksOwnSubmission`, `VerdictStays`, `StoppedNeverPosts` and `TextEndsInOneFile` are action
properties or use history variables. Every property is broken by at least one
named mutant of the code (`Mutant...` in the modules, each before the definition
it distorts).

### Fairness

- `FairEngineSpec`: weak fairness of the worker's next step, of the attempt's
  next step and of the UI's handling of messages. Threads are scheduled, channels
  are never closed early, receives time out, and the UI loop polls. It does not
  assume that a stress run ends: an unlimited stress run ends only when it is
  cancelled. No user action is fair.
- `FairSpec` of `SourceWatch`: weak fairness of receiving, of closing a batch (a
  deadline passes by itself) and of sending. Handling a message has strong
  fairness: keys may come at any time, but `handle_background_events`
  (`tui/mod.rs:3245`) takes messages between any two bounded batches of input.
  Leaving the editor is weakly fair: it is an assumption about the user, without
  which nothing behind a terminal editor can be promised.
- `FairSpec` of `ContestSession`: weak fairness of the root, of the operation
  thread (its requests have timeouts), of the shutdown of the submissions, and of
  each thread that was asked to stop. A thread that was not asked need never end.
- `FairSpec` of `Authentication`: weak fairness of the screen's poll and of each
  thread's next step; the server need not rotate anything, but answers or
  times out.
- `FairHubSpec`: weak fairness of each worker, because every HTTP
  request has a timeout and every wait is bounded, and of the hub's tick and
  shutdown. The server, panics and other submitters are not fair.

## Proofs

TLAPS proves, for every value of the constants:

- `RunEngineProofs`, of `RunScheduler`: `TypeCorrect`, `AssertionNeverFails`, `QueueHoldsSamples`,
  `PreemptedIsRequeued`, `StartsOnlyNewest` and the refinement
  `SchedulerKeepsSampleDuty`, from the assumptions of `RunScheduler`:
  run identifiers are positive numbers, revisions are numbers with 0 among them, and
  `None` is none of the values. The inductive invariant is the type invariant
  together with the code's own assertion, plus what the assertion does not say: only
  sample runs are queued, and an eligible request the worker holds between
  `retire_active` and `requeue_retired` is a sample run, still the newest of its
  problem, of which nothing else is waiting. The assertion alone is not inductive,
  because the worker takes the request out of the scheduler before it hands it back.
  The refinement takes as owed the sample runs that are in the foreground,
  queued, active as `Latest` or being retired as such. Its proof adds that the run owed for a
  problem is the newest request of that problem wherever it is (`DutyIsNewest`) and
  what the worker may hold while it retires a run (`RetiringShape`); with them every
  step of the scheduler is an acceptance, an end or a stutter of `SampleDuty`.
- `RunEngineProofs`, of `RunEngine`: `EngineTypeCorrect`, `ShownRunsAreOwed`,
  `ScreenShowsOneRun`, `EngineAssertionNeverFails`, `EngineShutsDownSilently`,
  `RemovedInputIsNotSpawned` and the refinement `EngineKeepsSampleDuty`, for any
  problems and languages and any bounds, from `EngineAssumption`: the bounds are
  positive, the run identifiers and revisions are the numbers they allow, and
  `None` is neither an attempt nor an outcome.
  The inductive invariant (`EngineAlways`) is the scheduler's, together with where
  the worker is and what it holds there (`WorkerInv`), and, while the session runs,
  eight statements about the screen, the two channels and the scheduler together
  (`RunningInv`). The screen lags behind the worker by the message channel and the
  worker behind the screen by the command channel, so both channels are read as sets
  of what is still under way. `IdInv`: identifiers reach the scheduler in the order
  they were given out, so no command on its way is stale. `KindInv`: an identifier
  shown belongs to a request of its kind. `ScreenInv`: what may be shown side by side.
  `GateInv`: nothing the screen shows has been retired at the start gate. `NewestInv`:
  nothing newer than what is shown active is under way, nor a stop of it. `PipeInv`: the
  run shown active is commanded, queued, active as `Latest`, being retired as such, or
  its end is in the channel; for a stress run or a user input, which are not requeued,
  only while its attempt was not cancelled. `SpeechInv` and `AttemptsInv` carry the rule
  about mixed results: attempts speak one after another, and if a run whose results are
  known from attempt *n* waits again, has a later attempt or has messages of one, then
  its `RunRequeued` with number *n* is still in the channel, ahead of the new results; an
  attempt that said its last word is not taken back.
  The proof has two layers. A step of the user, of an attempt, of a handler or of the
  worker is first reduced to its effect on these sets (`UserEffect`, `AttemptEffect`,
  `Handled`, and a lemma of facts for each case of the worker: `Turn`, `Take`,
  `Process`, `Starts`, `SpawnAttempt`, `PublishOutcome`, `Cleanup`); then each part of
  the invariant is shown from the effect alone. `RemovedInputIsNotSpawned` speaks of
  the history: `removed` keeps, for each problem, the first run identifier not yet given
  out at the last removal of its source. `RemovalInv` says of every user-input request,
  in the command channel, in the scheduler or with the attempt, that it is retired at
  the start gate if it was made before the removal, and that its revision is none the
  screen has yet to reach, so that the next removal retires it too. The guard at the
  spawn then refuses it; a gate raised only to the revision of the removed source
  would let it through. The engine also drops the active request
  without retiring it, when a spawn fails or a thread is joined at the end: that
  ends a duty of `SampleDuty` like an execution.
- `UserInputStoreProofs`: `StoreTypeCorrect`, `NeverReused`, `UpdatesSurvive`,
  `LoadsAreSnapshots`, `ReportsAreDurable`. The inductive invariant adds, for each
  process, an agreement between its program counter and the directory
  (`ProcessAgrees`: what it read under the lock is still there while it holds it),
  that created ids lie below every `next_id` the disk may still show
  (`CreatedIdsBurned`), that ids found in use are still in use or below `next_id`
  while no power was lost (`FoundIdsBurned`), and that acknowledged outcomes are on
  the disk (`AckedIsDurable`). Each is needed: an id is safe because `next_id` was
  synced before the file was installed, and that is only visible in the state of the
  process between the two.
- `StressCasesProofs`: `StressTypeCorrect`, `ForeignIsKept`, `CasesAreSuperseded`,
  `LockedReadsAreStable`, `OutcomesAreTrue`, `LoadsFindTheNewest`, from `StressAssumption` alone: any number of saves and
  loads and any bounds. The inductive invariant says for each save where its own
  case and the one it moved away are at every step, that it holds the lock exactly
  while it swaps, and that from its inspection on its case is the last one installed
  (`WriterAgrees`); that an installed case is never again staged (`LogAgrees`); and
  that no load holds the shared lock beside a swap (`ReaderAgrees`). A deleted case
  is superseded because its save installed another one under the same lock, which
  only `WriterAgrees` remembers. Two invariants rest on it. `OutcomeInv` ties what a
  save reports to the log and each staged directory to the save that made it. `LoadInv`
  says where the newest case is: what is at the target, or was taken from it by the
  save that swaps, is the newest one or somebody else's; while nothing has gone wrong it
  is at the target or in the hands of the save that may put it back, so that a load
  which holds the shared lock finds it. Each step of a save has one of six effects
  (`SaveEffect`: it goes on, stages, puts aside, installs, puts back or ends), and both
  invariants are shown from the effects.

- `AuthenticationProofs`: `AuthenticationTypeCorrect`, `VerdictsAreAboutStored`,
  `SuccessorsOnly`. The invariant `StoreInv` says of a thread between the decision
  of `mutate_if_current` and its rename that it holds the lock and that the file
  still holds what it compared, unless a program ignored the lock; without it the
  rename could hit anything. That a verdict is about the stored credential needs
  nothing more than types: the screen compares the snapshot read after the answer.
- `ContestSessionProofs`: `SessionTypeCorrect`, `OneSessionAtATime`,
  `ShowsTheDisk`, `NothingRunsBehindTheRoot`. The invariant
  names the one session that may have living threads at each step of the root
  (`Owner`: shown, being started or being joined), says that of a session being
  joined only the threads still to be joined live (`WorkerInv`), and that every
  version on its way to a frontend, in a slot, an entry or a session, is the one
  on the disk (`FilesInv`).
- `UiThreadProofs`, of `FrontendInput`: `InputTypeCorrect`, `NoEditIsLost`,
  `QuitsInStep`, for batches of any length. The invariant speaks of the interface alone (`SafeUI`); the lemmas show
  layer by layer that a handler which opens an edit never runs under a refresh.
  `QuitsInStep` compares two recursive functions over the batch, the states of the
  simulation (`Simulated`) and those the dispatch can reach (`Dispatched`). Event by
  event, either the simulation is stuck, that is no later key makes it quit (`Stuck`), or
  every state of the dispatch has the same layers (`InStep`), with one lemma per
  layer. The run sees batches of four events; two of the exceptions the property
  names take more than that, and came out of the attempt to prove it without them.
- `UiThreadProofs`, of `SubmissionHub`: `HubTypeCorrect`, `AcceptedIsRemembered`,
  `NoRetryIsBlind`, `ModalIsAnswered`, `TracksOwn`, `VerdictIsKept`,
  `NoPostAfterStop`, for any problems, generations, bound of reports per tick and
  number of panics, looks and polls; the assumption is that the submissions of others are finitely
  many and are not ours. The server may list a submission as late as it likes:
  `TracksOwn` needs it listed by the last look. All six safety properties of the run follow from one
  inductive invariant, `HubInv`. The difficulty is that the record of a problem
  lags behind its threads by whatever is in the channel. So the invariant says what
  a report in the channel still says truly of its thread (`ReportAgrees`: after
  Failed or Cancelled the server took nothing; a verdict is the last report of its
  thread), what the record remembers of each thread (`IsAccounted`: a submission the
  server may have taken is the record's current, pending or unknown one, or an older
  one than the current; a thread that has not posted yet is the pending one), and
  what the modal waits for (`ModalAgrees`, which is weaker while a tick is in
  progress). A step of the hub records a report, a join or a failed start; each
  has one of five effects on the record, and each effect keeps the invariant, so the
  proof argues about five effects and not about every handler in every state.
- `UiThreadProofs`, of `UserInputEditor`: `EditorTypeCorrect`, `TheScreenIsTrue`,
  `TextIsSavedOnce`, for any contents, any largest id, and any number of changes by
  others and of failing calls. `EditorInv` adds to the properties what a handler
  between two calls of the store relies on: the edit and the selection are still those
  it was started with, because no other handler runs in between (`CallAgrees`); and
  the files an edit has created are the one it remembers as installed, or the one of the
  call in progress with the edit's text (`MineAgrees`). Without the second a conflict
  after a create could leave a file of the edit behind that no guard knows of. The
  attempt to prove the first version of `ResultIsForTheText` failed at that same
  conflict and led to the deviation described below, which two changes by others, the
  bound of the run, do not reach.
- `ContestRefreshProofs`: `RefreshTypeCorrect`, `OldDataIsNeverDeleted`,
  `UnownedIsDeletedOnlyLate`, `RefreshIsAllOrNothing`, `OnlyThePlannedIsPutAside`.
  What is deleted is what is in the staging directory
  at the end, so the invariant says what can be there at each step: the old data
  only between its move and its return, or after a return failed, which keeps the
  directory (`PlaceInv`, `BeforeInv`); an entry that is not owned only if it came
  late or with tests a rollback took out (`UnownedInv`). The last two theorems need
  more: a second invariant says, as long as nobody interferes and no undoing has
  failed, exactly where both generations are at each step (`TestsExact`,
  `MetaExact`), that new tests are installed if there are any (`MovedExact`), and
  what the operation found and was planned for (`PlanExact`). A step of the rollback
  that fails ends the exactness, and with it nothing is claimed: the operation then
  keeps its staging directory. Beside it `FilesInv` and `PlanInv` hold whatever
  another program does; the last check of an operation needs them to establish the
  rest anew, because it forgets what was touched before it.
- `SourceWatchProofs`: `WatchTypeCorrect`, `NoSourceIsStale`, `TheLastSaveWins`.
  Both invariants speak of what is on its way: a message or the screen that takes
  a missing file for existing is followed by the news of its removal (`StaleInv`);
  the file saved last is in some place of the way, and what comes after it in that
  place or the ones behind it selects no other existing source of the problem
  (`OrderInv`). That a repeated path moves to the end of the batch is what keeps
  the second.

Only model-checked: liveness, which is out of the prover's reach.

## Deviations found

1. `RunningStressIsStoppable` (`engine_stress`). `docs/tui.md:182` says Stop
   Stress stops the running stress test. When a user-input run is asked for, the
   App forgets the stress run at once and relies on the scheduler to preempt it.
   If the source is removed before the worker takes the request,
   `request_arrived` (`run_scheduler.rs:64`) ignores the stale request and
   preempts nothing: the stress attempt goes on, Stop Stress is not available,
   and only a new run or leaving ends it.
2. `DeletedIdsStayBurned` (`store_double_fault`). `user_input.rs:487-488` says a
   crash after the high-water mark was persisted cannot make the id reusable.
   `reconcile_metadata` (`user_input.rs:760`) returns without a sync if the
   stored number is already right, also when an earlier attempt wrote it and
   failed to sync it. A power loss may then keep the removal and lose the
   metadata. This takes an input without metadata; ids made by a create are safe.

Limits found on the way, without a run of their own:

- `docs/workspace.md:246` says that what atc does not own under `tests/` is not
  deleted and stops the update. If the new tests are in place and the metadata then
  cannot be installed, the rollback (`workspace.rs:1929`) moves `tests/` back into
  the staging directory without looking at it, and that directory is deleted when
  every step of the rollback worked. A file put into the new `tests/` between the two
  renames goes with it; the repair of the tests alone keeps its staging directory in
  the same situation (`workspace.rs:1762-1772`). `UnownedSurvives` excludes it
  (`returned`).
- If the tracking thread of an older submission panics and the tick that records
  it also records the failure of a newer attempt, `last_failure` holds only one of
  them; the Submit modal then shows "starting" until Escape. `ModalNeverHangs`
  excludes exactly this case (`FailureOverwritten`).
- A result can stand under a text it is not for. A draft's create hands out id *n*,
  fails after the install, and before the reload another program puts other content
  there: the edit is moved to row *n*
  (`reconcile_draft_user_input_install_conflict`, `tui/app.rs:1316`). If the list
  already had a row *n* with that very content and a result (its file was put there by
  hand at an id not given out yet, was run, and was removed again while the draft was
  open), `replace_persisted` keeps the result, since the row has not changed, and it
  is shown under the draft's text until a key is typed. Elsewhere the code takes care
  of this: `tui/app/user_input_run.rs:263` drops a completion that is not for the
  buffer, and every mutation of the buffer clears the row's result.
  `ResultIsForTheText` leaves out this row (`taken`) and no other; three changes by
  others are needed to reach it.
- `docs/authentication.md:123` says that an open contest does not overwrite a
  change another application makes to the cookie file. `mutate_if_current` compares
  the file and then renames over it, under a lock that another application does not
  take: a change in between is overwritten. `OnlySuccessorsReplace` holds up to the
  first such change (`raced`).
- The look-ahead for a quit is not in lockstep with the ordered dispatch, as the
  comment at `tui/mod.rs:3774` asks, in four cases:
  - Enter in the contest, source or template modal, which the dispatch may keep
    open (an error, a started operation) while the simulation goes on as the
    modal's state at the start of the batch says;
  - Enter on the palette's refresh after an Escape of the same batch cancelled the
    last edit: the simulation asks the App as it is before the batch
    (`tui/mod.rs:165`), takes the action for unavailable and leaves the palette
    open, while the dispatch starts the refresh. A further Escape closes the
    palette of the simulation, and the `q` behind it quits;
  - a repeated Escape in the editor: `handle_user_input_editor_key` looks at the key
    alone and cancels the edit, the simulation asks for a press and goes on as if
    the editor had the keys. What the dispatch opens with them (the palette, then
    one of its actions) does not exist for the simulation;
  - a selection that moves onto an edit left aside.

  A `q` behind one of these in the same batch can quit where the dispatch would
  have given it to the modal or the edit. It takes keys that are read in one
  batch, for the second and the third more than the four of the run. `QuitIsOrderedElsewhere`
  excludes these events (`OutOfStep`, with `EnterIsUndecided` and
  `RepeatCancels`) and holds for all others.

Limits of the saved stress cases, which the properties spell out: a save that is
killed between its two renames leaves the previous case in its staging directory,
where nothing looks for it; a case saved before there was a lock file is loaded
without a lock, and such a load can miss it while the first save swaps; two saves
that both found no case do not both succeed, the second reports that the
destination changed; a file added between the last inspection and the removal
goes with the old case.

## Assumptions and limits

- The store's proofs assume `StoreAssumption`: at least two ids, nobody among the
  processes is `NoOne`, and no content is `Absent`.
- Store: a process does one operation at a time (the UI thread calls it); staged
  contents are synced before they are published, as the code does; the directory
  itself survives a power loss; each name is independently old or new after one;
  other programs that write the directory take the lock. The unchecked
  `save_user_input` is used by tests only. Deleting the input being edited is
  excluded by `can_delete_user_input`.
- Credential: a change by a program that ignores the lock, between the compare and
  the rename of a rotation, is excluded (`raced`), see above. Left out: the checks
  of directories and permissions, the account label, remains of staging files, power
  loss, a poisoned process mutex, a cookie path that cannot be determined. The key
  that opens a page and the Enter that leaves it are one step. The `SessionAuth` of
  a contest session behaves like that of a thread the screen has dropped.
- Refresh: operations follow each other (two refreshes of one contest at the same
  time are not serialised by the code and not modelled); what another program
  changes between the last check and the rename behind it is moved as it is
  (`docs/workspace.md:248`). `inspect_tests_health` (`workspace.rs:964-978`) is
  one observation, broken or healthy, made when a repair starts: how tests are
  broken, an empty directory or a wrong number of samples, is not
  distinguished. Files of a generation are one value; names that are
  swapped under the operation's open directory are not modelled.
- Session: what a session does inside is in the other modules; a version number
  stands for the contest's files, `SessionBound` and `ChangeBound` for time. Any
  thread may crash at any time, also a watcher that has reported its own error; the
  code joins that one without an error (`watch_tui.rs:303-312`, `:352-355`), so the
  model has failing joins the code has not.
- Watcher: every change of a watched file is notified. If the system's queue
  overflows, notify says so with an event that `collect_result_ordered`
  (`watcher.rs:238`) ignores, and the missed saves are not tested. Changes before
  the session started are not seen (`docs/testing.md:144`); opening a source ends
  the claim of `LastSaveWins` for the saves before it. `--plain` delivers its paths
  sorted by name, here in any order. In `--plain` every notification restarts the
  debounce, also one of a file or of a kind that is ignored (`watcher.rs:204-223`);
  here only those of watched sources do, so the pause that `EverySaveIsTested`
  grants `--plain` has to be one of every file under the watched directory.
- Submission: AtCoder lists a submission at any time after it accepted it, or
  never (`ServerLists`). If it is not listed by the last look and exactly one new
  submission of somebody else is, the code tracks that one: its comment
  (`submission_tracking.rs:752-757`) says that ownership cannot be proved then, and
  `TracksOwnSubmission` claims nothing for that case. A rejection page (200, 4xx)
  means the server did not take the submission. A status page belongs to the id
  asked for.
- Run engine: a message of a user-input run is applied if its run, revision and
  status fit (`CurrentInput`); the comparison of the content and the language the run
  was started with (`tui/app/user_input_run.rs:262-263`) concerns edits of the buffer,
  which are in `UserInputEditor`. An attempt's processes are one step; the watcher's messages are
  external and arrive in any order the file system may produce; sample counts,
  verdicts and rendering are abstracted. A tick takes at most a bounded number of
  commands (`watch_worker.rs:312`); the bound is in the model, no property repeats
  the comparison.
- Threads always start in `SubmissionHub` or the start is refused; in `RunEngine` a
  failed spawn is a fault.

## Not modelled

- The settings store (`settings_store.rs`): inspect, compare, stage, rename under
  a lock, for one file. It is the compare before a rename that `UserInputStore`
  and `Authentication` are checked for; the hazard at `settings_store.rs:622` is
  listed without a property.
- The cursor of the user-input editor, and the first click on a delete button,
  which arms it until any other key or click.
- The request interval and the retry of 429 answers (`atcoder.rs:247`): each
  client counts for itself, and what AtCoder does with it is outside the code.
- Submission diagnostics write files whose failure never reaches a submission.
- Detail analysis answers the latest request; its result is layout.
- The process runner: process groups, pipes and timeouts of the operating system.
- The comparator, the choice of a language and the parsers are functions of texts,
  with unit tests on both sides of every case.
- Rendering, terminal input, mouse geometry, home screens, command line,
  configuration, `doctor`, templates and the launch of an editor: sequential, with
  little state that outlives a call.
- Creating contests and workspaces: one staged directory and one rename.

## Plan

Done: the run worker with its App (`RunScheduler`, `SampleDuty`, `RunEngine`), the
source watcher, the input layers, the session's lifetime, the refresh, the
user-input store and editor, the stress cases, the credential, the submission;
proofs about all of them.

Left, in this order:

1. `UserInputEditor` over the steps of `UserInputStore` instead of its outcomes.
2. The settings store, as a second client of the pattern of `Authentication`.
3. Pure algorithms checked over bounded inputs: the output comparator, the choice
   of the newest language of a family, the geometry of the detail pane's scrollbar.
