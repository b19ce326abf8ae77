--------------------------- MODULE ContestSession ---------------------------
(****************************************************************************)
(* The lifetime of contest sessions (src/commands/watch_tui.rs).  The root *)
(* thread moves between the workspace home and a contest; a contest session *)
(* owns three threads (file watcher, run worker, detail analysis), and the  *)
(* frontend of either place owns at most one operation thread that prepares *)
(* a switch or a refresh and leaves it in a slot.  The root alone applies   *)
(* what was prepared, after it has stopped and joined the old session, and  *)
(* starts the next session.  Every step may fail; every failure has a path  *)
(* of its own through the cleanup.                                          *)
(*                                                                          *)
(* The files of a contest are a version number; what a session does inside  *)
(* is in RunEngine, SubmissionHub and FrontendInput, the replacement of the *)
(* files in ContestRefresh.                                                 *)
(****************************************************************************)
EXTENDS Naturals

CONSTANTS
    Contests,       \* the contests of the workspace
    SessionBound,   \* bound: sessions started
    ChangeBound     \* bound: changes of a contest's files

ASSUME SessionAssumption ==
    /\ Contests # {} /\ "none" \notin Contests
    /\ SessionBound \in Nat \ {0} /\ ChangeBound \in Nat

VARIABLES
    pc,           \* where the root thread is
    for,          \* what the joins or the start it is in are for
    session,      \* the session of RootLocation::Contest, 0 for none
    started,      \* how many sessions were begun
    worker,       \* the three threads of each session
    joining,      \* the session whose threads are joined
    joins,        \* the threads of it still to be joined
    failed,       \* a join reported an error
    input,        \* what the session was loaded from: contest and version
    entry,        \* the same for the session about to start
    op,           \* the operation thread of the frontend
    openSlot, refreshSlot,   \* prepared_switch or prepared_home_open; prepared_refresh
    disk,         \* version of each contest's files
    terminal, submissions

vars == <<pc, for, session, started, worker, joining, joins, failed, input,
          entry, op, openSlot, refreshSlot, disk, terminal, submissions>>

rootVars == <<session, started, joining, input, entry>>

KindSet == {"watcher", "runner", "analysis"}

\* The order of start_entry, and the order in which shutdown joins: the
\* threads that come before each.
StartedBefore == [watcher |-> {}, runner |-> {"watcher"}, analysis |-> {"watcher", "runner"}]
JoinedBefore == [runner |-> {}, watcher |-> {"runner"}, analysis |-> {"runner", "watcher"}]

Sessions == 1..SessionBound
Entries == [contest : Contests, version : 0..ChangeBound]
Empty == [contest |-> "none", version |-> 0]
NoOp == [kind |-> "none", at |-> "idle", contest |-> "none"]

\* A thread that has not ended.
Alive(state) == state \in {"running", "asked"}
LiveWorkers == {t \in Sessions \X KindSet : Alive(worker[t[1]][t[2]])}

\* The threads of a session there are to join: a start that failed has not
\* started all three.
Joinable(s) == {k \in KindSet : worker[s][k] # "unborn"}

\* Mutant: the analysis worker is not told to stop.
MutantAskToStop(s) ==
    [worker EXCEPT ![s] = [k \in KindSet |->
                              IF worker[s][k] = "running" /\ k # "analysis"
                              THEN "asked" ELSE worker[s][k]]]

\* ContestSession::request_stop.
AskToStop(s) ==
    [worker EXCEPT ![s] = [k \in KindSet |->
                              IF worker[s][k] = "running" THEN "asked" ELSE worker[s][k]]]

Unborn == [k \in KindSet |-> "unborn"]

\* `atc c` starts a session before there is a terminal; a bare `atc` opens
\* the terminal at the home screen.
Init ==
    /\ \/ pc = "home" /\ for = "none" /\ terminal = "on" /\ entry = Empty
       \/ /\ pc = "starting" /\ for = "direct" /\ terminal = "off"
          /\ entry \in [contest : Contests, version : {0}]
    /\ session = 0 /\ started = 0
    /\ worker = [s \in Sessions |-> Unborn]
    /\ joining = 0 /\ joins = {} /\ failed = FALSE
    /\ input = Empty
    /\ op = NoOp /\ openSlot = Empty /\ refreshSlot = Empty
    /\ disk = [c \in Contests |-> 0]
    /\ submissions = "running"

(****************************************************************************)
(* Threads                                                                  *)
(****************************************************************************)

\* A worker ends because it was asked to, or by itself: an error it has
\* reported, or a panic that its join reports.
WorkerStops(s, k) ==
    /\ worker[s][k] = "asked"
    /\ worker' = [worker EXCEPT ![s][k] = "gone"]
    /\ UNCHANGED <<pc, for, rootVars, joins, failed, op, openSlot, refreshSlot,
                   disk, terminal, submissions>>

WorkerFails(s, k) ==
    /\ Alive(worker[s][k])
    /\ worker' = [worker EXCEPT ![s][k] = "crashed"]
    /\ UNCHANGED <<pc, for, rootVars, joins, failed, op, openSlot, refreshSlot,
                   disk, terminal, submissions>>

\* contest_open_task: opening loads a contest; creating or repairing it
\* changes its files first.  The prepared entry replaces what the slot holds.
OpenTask ==
    /\ op.kind = "open" /\ op.at = "running"
    /\ \/ /\ \E change \in {0, 1} :
               LET c == op.contest
                   version == disk[c] + change
               IN  /\ change = 1 => /\ disk[c] < ChangeBound
                                    /\ session # 0 => input.contest # c
                   /\ disk' = [disk EXCEPT ![c] = version]
                   /\ openSlot' = [contest |-> c, version |-> version]
          /\ op' = [op EXCEPT !.at = "ok"]
       \/ op' = [op EXCEPT !.at = "error"] /\ UNCHANGED <<openSlot, disk>>
    /\ UNCHANGED <<pc, for, rootVars, worker, joins, failed, refreshSlot,
                   terminal, submissions>>

\* contest_refresh_task: nothing is installed yet; a slot that is taken is an
\* error.
RefreshTask ==
    /\ op.kind = "refresh" /\ op.at = "running"
    /\ \/ /\ refreshSlot = Empty
          /\ refreshSlot' = input
          /\ op' = [op EXCEPT !.at = "ok"]
       \/ op' = [op EXCEPT !.at = "error"] /\ UNCHANGED refreshSlot
    /\ UNCHANGED <<pc, for, rootVars, worker, joins, failed, openSlot, disk,
                   terminal, submissions>>

\* SubmissionHub::shutdown waits for its workers.
SubmissionsStop ==
    /\ submissions = "asked"
    /\ submissions' = "gone"
    /\ UNCHANGED <<pc, for, rootVars, worker, joins, failed, op, openSlot,
                   refreshSlot, disk, terminal>>

(****************************************************************************)
(* The frontends                                                            *)
(****************************************************************************)

\* The operation of a switch (from the home or a contest) and of a refresh;
\* while it runs its modal keeps every other exit away.
StartOpen(c) ==
    /\ pc \in {"home", "contest"} /\ op = NoOp /\ started < SessionBound
    /\ pc = "contest" => input.contest # c
    /\ op' = [kind |-> "open", at |-> "running", contest |-> c]
    /\ UNCHANGED <<pc, for, rootVars, worker, joins, failed, openSlot, refreshSlot,
                   disk, terminal, submissions>>

StartRefresh ==
    /\ pc = "contest" /\ op = NoOp /\ started < SessionBound
    /\ op' = [kind |-> "refresh", at |-> "running", contest |-> input.contest]
    /\ UNCHANGED <<pc, for, rootVars, worker, joins, failed, openSlot, refreshSlot,
                   disk, terminal, submissions>>

\* A failed operation is shown.
OperationFailed ==
    /\ pc \in {"home", "contest"} /\ op.at = "error"
    /\ op' = NoOp
    /\ UNCHANGED <<pc, for, rootVars, worker, joins, failed, openSlot, refreshSlot,
                   disk, terminal, submissions>>

Quit ==
    /\ pc \in {"home", "contest"} /\ op = NoOp
    /\ pc' = "cleanup"
    /\ UNCHANGED <<for, rootVars, worker, joins, failed, op, openSlot, refreshSlot,
                   disk, terminal, submissions>>

\* The frontend returns an error (the terminal, a closed channel): dropping
\* its controllers joins the operation thread.
FrontendFails ==
    /\ pc \in {"home", "contest"}
    /\ pc' = "dropping"
    /\ UNCHANGED <<for, rootVars, worker, joins, failed, op, openSlot, refreshSlot,
                   disk, terminal, submissions>>

\* Mutant: the operation thread is detached instead of joined.
MutantDropOperation ==
    /\ pc = "dropping"
    /\ pc' = "cleanup"
    /\ UNCHANGED <<for, rootVars, worker, joins, failed, op, openSlot, refreshSlot,
                   disk, terminal, submissions>>

DropOperation ==
    /\ pc = "dropping" /\ op.at # "running"
    /\ op' = NoOp
    /\ pc' = "cleanup"
    /\ UNCHANGED <<for, rootVars, worker, joins, failed, openSlot, refreshSlot,
                   disk, terminal, submissions>>

(****************************************************************************)
(* The root                                                                 *)
(****************************************************************************)

\* ContestSession::shutdown: all three are asked, then joined one by one.
Shutdown(s, reason) ==
    /\ pc' = "joining" /\ for' = reason
    /\ worker' = AskToStop(s)
    /\ joining' = s /\ joins' = Joinable(s)
    /\ failed' = FALSE

\* orchestrate_contest_frontend_exit, Return Home.
ReturnHome ==
    /\ pc = "contest" /\ op = NoOp
    /\ Shutdown(session, "home")
    /\ session' = 0
    /\ UNCHANGED <<started, input, entry, op, openSlot, refreshSlot, disk,
                   terminal, submissions>>

\* Mutant: the prepared session starts before the old one is shut down.
MutantSwitchContest ==
    /\ pc = "contest" /\ op.kind = "open" /\ op.at = "ok"
    /\ openSlot # Empty
    /\ pc' = "starting" /\ for' = "switch"
    /\ worker' = AskToStop(session)
    /\ entry' = openSlot /\ openSlot' = Empty
    /\ session' = 0 /\ op' = NoOp
    /\ UNCHANGED <<started, joining, joins, failed, input, refreshSlot, disk,
                   terminal, submissions>>

\* switch_to_prepared_contest: the entry is taken and finalized (is the
\* workspace still routed to it?) before the old session is stopped, which it
\* is in either case.
SwitchContest ==
    /\ pc = "contest" /\ op.kind = "open" /\ op.at = "ok"
    /\ openSlot # Empty
    /\ \E finalized \in BOOLEAN :
         Shutdown(session, IF finalized THEN "switch" ELSE "fail")
    /\ entry' = openSlot /\ openSlot' = Empty
    /\ session' = 0 /\ op' = NoOp
    /\ UNCHANGED <<started, input, refreshSlot, disk, terminal, submissions>>

\* rebuild_active_contest_session_after_refresh.
RefreshContest ==
    /\ pc = "contest" /\ op.kind = "refresh" /\ op.at = "ok"
    /\ refreshSlot # Empty
    /\ Shutdown(session, "refresh")
    /\ refreshSlot' = Empty
    /\ session' = 0 /\ op' = NoOp
    /\ UNCHANGED <<started, input, entry, openSlot, disk, terminal, submissions>>

\* run_home: the prepared entry is taken and finalized; a failure is shown.
OpenFromHome ==
    /\ pc = "home" /\ op.kind = "open" /\ op.at = "ok"
    /\ op' = NoOp /\ openSlot' = Empty
    /\ \/ pc' = "starting" /\ for' = "open" /\ entry' = openSlot
       \/ UNCHANGED <<pc, for, entry>>
    /\ UNCHANGED <<session, started, input, worker, joining, joins, failed, refreshSlot,
                   disk, terminal, submissions>>

\* Mutant: the watcher is told to stop but not waited for.
MutantJoin(k) ==
    /\ pc = "joining" /\ k \in joins
    /\ joins \cap JoinedBefore[k] = {}
    /\ Alive(worker[joining][k]) => k = "watcher"
    /\ joins' = joins \ {k}
    /\ failed' = (failed \/ worker[joining][k] = "crashed")
    /\ UNCHANGED <<pc, for, rootVars, worker, op, openSlot, refreshSlot, disk,
                   terminal, submissions>>

\* One join; a worker that panicked makes the shutdown an error, after the
\* other joins.
Join(k) ==
    /\ pc = "joining" /\ k \in joins
    /\ joins \cap JoinedBefore[k] = {}
    /\ ~Alive(worker[joining][k])
    /\ joins' = joins \ {k}
    /\ failed' = (failed \/ worker[joining][k] = "crashed")
    /\ UNCHANGED <<pc, for, rootVars, worker, op, openSlot, refreshSlot, disk,
                   terminal, submissions>>

\* What follows the joins.
Joined ==
    /\ pc = "joining" /\ joins = {}
    /\ pc' = CASE for = "home" /\ ~failed      -> "home"
               [] for = "switch" /\ ~failed    -> "starting"
               [] for = "refresh" /\ ~failed   -> "apply"
               [] for = "startOpen"            -> "home"
               [] for \in {"startDirect", "noTerminal"} -> "ended"
               [] for = "cleanup"              -> "restore"
               [] OTHER                        -> "cleanup"
    /\ failed' = FALSE
    /\ UNCHANGED <<for, rootVars, worker, joins, op, openSlot, refreshSlot, disk,
                   terminal, submissions>>

\* rebuild_contest_session_after_refresh: apply_refresh, or an error of it.
Apply ==
    /\ pc = "apply"
    /\ LET c == input.contest
       IN  \/ disk[c] < ChangeBound /\ disk' = [disk EXCEPT ![c] = @ + 1]
           \/ UNCHANGED disk
    /\ pc' = "load"
    /\ UNCHANGED <<for, rootVars, worker, joins, failed, op, openSlot, refreshSlot,
                   terminal, submissions>>

\* Mutant: the refreshed session is started from what the old one had loaded.
MutantLoad ==
    /\ pc = "load"
    /\ \/ entry' = input /\ pc' = "starting"
       \/ pc' = "cleanup" /\ UNCHANGED entry
    /\ UNCHANGED <<for, session, started, joining, input, worker, joins, failed, op, openSlot,
                   refreshSlot, disk, terminal, submissions>>

\* PreparedWatchInput::load, from the files as they are after the apply,
\* whether it succeeded or not.
Load ==
    /\ pc = "load"
    /\ \/ /\ entry' = [contest |-> input.contest, version |-> disk[input.contest]]
          /\ pc' = "starting"
       \/ pc' = "cleanup" /\ UNCHANGED entry
    /\ UNCHANGED <<for, session, started, joining, input, worker, joins, failed, op, openSlot,
                   refreshSlot, disk, terminal, submissions>>

\* The threads not started yet of the session about to start, whose number is
\* started + 1.
Unstarted == {k \in KindSet : worker[started + 1][k] = "unborn"}

\* start_entry, one thread.
StartWorker(k) ==
    /\ pc = "starting"
    /\ k \in Unstarted /\ Unstarted \cap StartedBefore[k] = {}
    /\ worker' = [worker EXCEPT ![started + 1][k] = "running"]
    /\ UNCHANGED <<pc, for, rootVars, joins, failed, op, openSlot, refreshSlot,
                   disk, terminal, submissions>>

\* start_entry fails: what was started is stopped and joined; the home shows
\* the error, every other start ends the program.
StartFails ==
    /\ pc = "starting" /\ Unstarted # {}
    /\ Shutdown(started + 1, CASE for = "open"   -> "startOpen"
                               [] for = "direct" -> "startDirect"
                               [] OTHER          -> "fail")
    /\ started' = started + 1
    /\ UNCHANGED <<session, input, entry, op, openSlot, refreshSlot, disk,
                   terminal, submissions>>

\* The session is there; the slots are emptied at the top of the loop.
SessionStarted ==
    /\ pc = "starting" /\ Unstarted = {}
    /\ started' = started + 1 /\ session' = started + 1
    /\ input' = entry
    /\ openSlot' = Empty /\ refreshSlot' = Empty
    /\ pc' = IF for = "direct" THEN "terminal" ELSE "contest"
    /\ UNCHANGED <<for, entry, worker, joining, joins, failed, op, disk, terminal, submissions>>

\* run_root_application: the terminal starts after a direct session; if it
\* does not, the session is shut down.
StartTerminal ==
    /\ pc = "terminal"
    /\ \/ /\ pc' = "contest" /\ terminal' = "on"
          /\ UNCHANGED <<for, worker, joining, joins, failed, session>>
       \/ /\ Shutdown(session, "noTerminal")
          /\ session' = 0
          /\ UNCHANGED terminal
    /\ UNCHANGED <<started, input, entry, op, openSlot, refreshSlot, disk, submissions>>

\* run_root_application after the loop: the session and the submissions are
\* asked first, the submissions are joined, then the session.
Cleanup ==
    /\ pc = "cleanup" /\ submissions = "running"
    /\ submissions' = "asked"
    /\ worker' = IF session = 0 THEN worker ELSE AskToStop(session)
    /\ UNCHANGED <<pc, for, rootVars, joins, failed, op, openSlot, refreshSlot, disk,
                   terminal>>

CleanupSession ==
    /\ pc = "cleanup" /\ submissions = "gone"
    /\ pc' = "joining" /\ for' = "cleanup" /\ failed' = FALSE
    /\ joining' = session
    /\ joins' = IF session = 0 THEN {} ELSE Joinable(session)
    /\ worker' = IF session = 0 THEN worker ELSE AskToStop(session)
    /\ session' = 0
    /\ UNCHANGED <<started, input, entry, op, openSlot, refreshSlot, disk, terminal,
                   submissions>>

RestoreTerminal ==
    /\ pc = "restore"
    /\ terminal' = "restored"
    /\ pc' = "ended"
    /\ UNCHANGED <<for, rootVars, worker, joins, failed, op, openSlot, refreshSlot, disk,
                   submissions>>

\* The steps of the root that no user decides.
Root ==
    \/ OperationFailed \/ DropOperation \/ SwitchContest \/ RefreshContest
    \/ OpenFromHome \/ Joined \/ Apply \/ Load \/ StartFails
    \/ (\E k \in KindSet : Join(k) \/ StartWorker(k))
    \/ SessionStarted \/ StartTerminal \/ Cleanup \/ CleanupSession \/ RestoreTerminal

User == (\E c \in Contests : StartOpen(c)) \/ StartRefresh \/ Quit \/ ReturnHome

Next ==
    \/ Root \/ User \/ FrontendFails
    \/ OpenTask \/ RefreshTask \/ SubmissionsStop
    \/ \E s \in Sessions, k \in KindSet : WorkerStops(s, k) \/ WorkerFails(s, k)

Spec == Init /\ [][Next]_vars

\* The root thread runs; an operation ends (its requests have timeouts); a
\* worker that is asked to stop stops, and none has to end by itself.
Fairness ==
    /\ WF_vars(Root) /\ WF_vars(OpenTask) /\ WF_vars(RefreshTask)
    /\ WF_vars(SubmissionsStop)
    /\ \A s \in Sessions, k \in KindSet : WF_vars(WorkerStops(s, k))

FairSpec == Spec /\ Fairness

-----------------------------------------------------------------------------
(****************************************************************************)
(* Properties                                                               *)
(****************************************************************************)

\* The root's variables keep their types; the session shown, the one being
\* joined and the one about to start are numbers of sessions there are.
SessionTypeOK ==
    /\ pc \in {"home", "contest", "dropping", "joining", "apply", "load", "starting",
               "terminal", "cleanup", "restore", "ended"}
    /\ for \in {"none", "direct", "open", "home", "switch", "refresh", "fail", "cleanup",
                "startOpen", "startDirect", "noTerminal"}
    /\ session \in 0..SessionBound /\ started \in 0..SessionBound
    /\ joining \in 0..SessionBound /\ joins \in SUBSET KindSet
    /\ worker \in [Sessions -> [KindSet -> {"unborn", "running", "asked", "gone", "crashed"}]]
    /\ failed \in BOOLEAN
    /\ input \in Entries \cup {Empty} /\ entry \in Entries \cup {Empty}
    /\ openSlot \in Entries \cup {Empty} /\ refreshSlot \in Entries \cup {Empty}
    /\ op.kind \in {"none", "open", "refresh"}
    /\ op.at \in {"idle", "running", "ok", "error"}
    /\ disk \in [Contests -> 0..ChangeBound]
    /\ terminal \in {"off", "on", "restored"}
    /\ submissions \in {"running", "asked", "gone"}

\* "Keep the terminal managed until every background producer has stopped"
\* (watch_tui.rs:112), and stop them before a contest's files are replaced:
\* while the root replaces the files or loads the result, when the terminal is
\* given back, and when the program ends on any other path, no thread of a
\* session or of an operation is left, whatever failed on the way there; and at
\* the end none of the submissions either.
ProducersAreGone ==
    /\ pc \in {"apply", "load", "restore", "ended"} => LiveWorkers = {} /\ op.at # "running"
    /\ pc \in {"restore", "ended"} /\ terminal # "off" => submissions = "gone"

\* The threads of two sessions never live at the same time, and the frontend
\* runs on a session all three threads of which were started and none of
\* which was told to stop.
OneWholeSession ==
    /\ \A t, u \in LiveWorkers : t[1] = u[1]
    /\ pc = "contest" => \A k \in KindSet : worker[session][k] \in {"running", "crashed"}

\* A session shows the files as they are: what was prepared by an operation,
\* kept in a slot through a shutdown, or loaded again after a refresh, applied
\* or not, is what is on the disk when the frontend comes up.
ShownIsOnDisk ==
    pc = "contest" => input.version = disk[input.contest]

\* The root is never stuck between two screens: from every shutdown, start,
\* refresh or cleanup it comes to the home screen, to a contest or to the end
\* of the program, although it waits for threads that never end unasked.
EveryExitArrives ==
    (pc \notin {"home", "contest", "ended"}) ~> (pc \in {"home", "contest", "ended"})
=============================================================================
