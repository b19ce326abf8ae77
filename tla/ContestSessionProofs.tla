-------------------------- MODULE ContestSessionProofs --------------------------
(****************************************************************************)
(* Proofs about the lifetime of contest sessions, for any contests and any  *)
(* number of sessions and changes of their files.                           *)
(*                                                                          *)
(* The strengthening says who may own living threads: at any time one       *)
(* session, the Owner, whether it is shown, being started or being joined;  *)
(* that of a session being joined only the threads still to be joined live; *)
(* and that every version on its way to a frontend (in a slot, in the entry *)
(* of a start, in the session) is the one on the disk.                      *)
(****************************************************************************)
EXTENDS ContestSession, TLAPS

(* The one session that may have living threads. *)
Owner == IF pc = "joining" THEN joining
         ELSE IF pc = "starting" THEN started + 1 ELSE session

WorkerInv ==
    /\ \A s \in Sessions, k \in KindSet :
          /\ Alive(worker[s][k]) => s = Owner
          /\ Alive(worker[s][k]) /\ pc = "joining" => k \in joins
          /\ s > started => worker[s][k] = "unborn"
                            \/ (pc = "starting" /\ s = started + 1
                                /\ worker[s][k] \in {"running", "crashed"})
          /\ pc \in {"contest", "terminal"} /\ s = session => worker[s][k] \in {"running", "crashed"}

RootInv ==
    /\ session <= started
    /\ pc \in {"contest", "terminal"} => session # 0
    /\ pc \in {"joining", "starting", "apply", "load", "home", "restore", "ended"} => session = 0
    /\ \/ op # NoOp \/ pc \in {"starting", "apply", "load"}
       \/ pc = "joining" /\ for \in {"switch", "refresh"}
       => started < SessionBound

OpInv ==
    /\ op \in [kind : {"none", "open", "refresh"}, at : {"idle", "running", "ok", "error"},
               contest : Contests \cup {"none"}]
    /\ op.kind = "none" <=> op = NoOp
    /\ op.kind = "open" => op.contest \in Contests
    /\ op # NoOp => pc \in {"home", "contest", "dropping"}

TerminalInv ==
    /\ \/ pc = "terminal"
       \/ pc = "starting" /\ for = "direct"
       \/ pc = "joining" /\ for \in {"startDirect", "noTerminal"}
       => terminal = "off"
    /\ pc \in {"apply", "load"} => for = "refresh"
    /\ pc = "restore" \/ (pc = "joining" /\ for = "cleanup") => submissions = "gone"
    /\ pc = "ended" => terminal = "off" \/ submissions = "gone"

(* An entry shows what is on the disk. *)
OnDisk(e) == e \in Entries /\ e.version = disk[e.contest]

FilesInv ==
    /\ pc \in {"contest", "terminal"} => OnDisk(input)
    /\ pc \in {"apply", "load"} \/ (pc = "joining" /\ for = "refresh") => input \in Entries
    /\ pc = "starting" \/ (pc = "joining" /\ for = "switch") => OnDisk(entry)
    /\ op.kind = "open" /\ op.at = "ok" => OnDisk(openSlot)

IInv == SessionTypeOK /\ WorkerInv /\ RootInv /\ OpInv /\ TerminalInv /\ FilesInv

-------------------------------------------------------------------------------
(* Constants and types.                                                      *)
LEMMA Constants ==
    /\ "none" \notin Contests /\ SessionBound \in Nat /\ SessionBound >= 1 /\ ChangeBound \in Nat
    /\ Empty \notin Entries
    /\ \A c \in Contests, v \in 0..ChangeBound : [contest |-> c, version |-> v] \in Entries
  BY SessionAssumption DEF Empty, Entries

LEMMA InitInv == Init => IInv
<1> SUFFICES ASSUME Init PROVE IInv
  OBVIOUS
<1>1. \A s \in Sessions, k \in KindSet : worker[s][k] = "unborn"
  BY DEF Init, Unborn
<1>2. entry \in Entries \cup {Empty} /\ (pc = "starting" => OnDisk(entry))
  BY Constants DEF Init, Entries, OnDisk
<1>3. SessionTypeOK
  <2>1. worker \in [Sessions -> [KindSet -> {"unborn", "running", "asked", "gone", "crashed"}]]
    <3>1. Unborn \in [KindSet -> {"unborn", "running", "asked", "gone", "crashed"}]
      BY DEF Unborn
    <3> QED BY <3>1 DEF Init
  <2>2. disk \in [Contests -> 0..ChangeBound]
    BY Constants DEF Init
  <2>3. session \in 0..SessionBound /\ started \in 0..SessionBound /\ joining \in 0..SessionBound
    BY Constants DEF Init
  <2>4. op.kind = "none" /\ op.at = "idle"
    BY DEF Init, NoOp
  <2> QED BY <1>2, <2>1, <2>2, <2>3, <2>4 DEF Init, SessionTypeOK
<1>4. WorkerInv
  BY <1>1 DEF WorkerInv, Alive, Init
<1>5. RootInv /\ OpInv /\ TerminalInv
  BY Constants DEF Init, RootInv, OpInv, TerminalInv, NoOp
<1>6. FilesInv
  BY <1>2 DEF Init, FilesInv, NoOp
<1> QED BY <1>3, <1>4, <1>5, <1>6 DEF IInv

(* What asking a session to stop does to its threads, and that it asks no    *)
(* other session.                                                            *)
LEMMA AskToStopOne ==
    ASSUME SessionTypeOK, NEW s \in Sessions, worker' = AskToStop(s)
    PROVE /\ worker' \in [Sessions -> [KindSet -> {"unborn", "running", "asked", "gone", "crashed"}]]
          /\ \A u \in Sessions, k \in KindSet :
                /\ Alive(worker'[u][k]) <=> Alive(worker[u][k])
                /\ worker'[u][k] = "unborn" <=> worker[u][k] = "unborn"
                /\ u # s => worker'[u][k] = worker[u][k]
<1>1. worker \in [Sessions -> [KindSet -> {"unborn", "running", "asked", "gone", "crashed"}]]
  BY DEF SessionTypeOK
<1>2. worker' = [worker EXCEPT ![s] = [k \in KindSet |-> IF worker[s][k] = "running"
                                                          THEN "asked" ELSE worker[s][k]]]
  BY DEF AskToStop
<1> QED BY <1>1, <1>2 DEF Alive

(* One thread changes. *)
LEMMA OneWorker ==
    ASSUME SessionTypeOK, NEW s \in Sessions, NEW k \in KindSet,
           NEW state \in {"unborn", "running", "asked", "gone", "crashed"},
           worker' = [worker EXCEPT ![s][k] = state]
    PROVE /\ worker' \in [Sessions -> [KindSet -> {"unborn", "running", "asked", "gone", "crashed"}]]
          /\ worker'[s][k] = state
          /\ \A u \in Sessions, l \in KindSet : <<u, l>> # <<s, k>> => worker'[u][l] = worker[u][l]
  BY DEF SessionTypeOK

-------------------------------------------------------------------------------
(* Steps that leave the threads and the root alone.                          *)
LEMMA WorkerEndsInv ==
    ASSUME IInv, NEW s \in Sessions, NEW k \in KindSet, WorkerStops(s, k) \/ WorkerFails(s, k)
    PROVE IInv'
<1>1. PICK state \in {"gone", "crashed"} :
        /\ worker' = [worker EXCEPT ![s][k] = state]
        /\ Alive(worker[s][k]) /\ ~Alive(state)
        /\ state = "gone" => worker[s][k] = "asked"
  BY DEF WorkerStops, WorkerFails, Alive
<1>2. UNCHANGED <<pc, for, session, started, joining, input, entry, joins, failed, op, openSlot,
                  refreshSlot, disk, terminal, submissions>>
  BY DEF WorkerStops, WorkerFails, rootVars
<1>3. /\ worker' \in [Sessions -> [KindSet -> {"unborn", "running", "asked", "gone", "crashed"}]]
      /\ worker'[s][k] = state
      /\ \A u \in Sessions, l \in KindSet : <<u, l>> # <<s, k>> => worker'[u][l] = worker[u][l]
  BY <1>1, OneWorker DEF IInv
<1>4. SessionTypeOK'
  BY <1>2, <1>3 DEF IInv, SessionTypeOK
<1>5. WorkerInv'
  BY <1>1, <1>2, <1>3 DEF IInv, WorkerInv, Owner, Alive
<1>6. RootInv' /\ OpInv' /\ TerminalInv' /\ FilesInv'
  BY <1>2 DEF IInv, RootInv, OpInv, TerminalInv, FilesInv, OnDisk
<1> QED BY <1>4, <1>5, <1>6 DEF IInv

LEMMA OpenTaskInv ==
    ASSUME IInv, OpenTask
    PROVE IInv'
<1>1. /\ op.kind = "open" /\ op.at = "running" /\ op.contest \in Contests
      /\ pc \in {"home", "contest", "dropping"}
      /\ UNCHANGED <<pc, for, session, started, joining, input, entry, worker, joins, failed,
                     refreshSlot, terminal, submissions>>
  BY DEF OpenTask, IInv, OpInv, rootVars, NoOp
<1>2. WorkerInv' /\ TerminalInv'
  BY <1>1 DEF IInv, WorkerInv, Owner, TerminalInv
<1>3. CASE /\ op' = [op EXCEPT !.at = "ok"]
           /\ \E change \in {0, 1} :
                 LET version == disk[op.contest] + change
                 IN  /\ change = 1 => /\ disk[op.contest] < ChangeBound
                                      /\ session # 0 => input.contest # op.contest
                     /\ disk' = [disk EXCEPT ![op.contest] = version]
                     /\ openSlot' = [contest |-> op.contest, version |-> version]
  <2>1. PICK change \in {0, 1} :
          /\ change = 1 => /\ disk[op.contest] < ChangeBound
                           /\ session # 0 => input.contest # op.contest
          /\ disk' = [disk EXCEPT ![op.contest] = disk[op.contest] + change]
          /\ openSlot' = [contest |-> op.contest, version |-> disk[op.contest] + change]
    BY <1>3
  <2>2. disk \in [Contests -> 0..ChangeBound] /\ disk[op.contest] + change \in 0..ChangeBound
    BY <1>1, <2>1, Constants DEF IInv, SessionTypeOK
  <2>3. disk' \in [Contests -> 0..ChangeBound] /\ OnDisk(openSlot)'
    BY <1>1, <2>1, <2>2, Constants DEF OnDisk, Entries
  <2>4. /\ op' \in [kind : {"none", "open", "refresh"}, at : {"idle", "running", "ok", "error"},
                    contest : Contests \cup {"none"}]
        /\ op'.kind = "open" /\ op'.contest = op.contest /\ op # NoOp /\ op' # NoOp
    BY <1>1, <1>3 DEF IInv, OpInv, NoOp
  <2>5. OpInv' /\ RootInv'
    BY <1>1, <2>4 DEF IInv, OpInv, RootInv, NoOp
  <2>6. pc = "contest" => OnDisk(input)'
    <3>1. pc = "contest" => OnDisk(input) /\ session # 0
      BY DEF IInv, FilesInv, RootInv
    <3>2. pc = "contest" => disk'[input.contest] = disk[input.contest]
      BY <2>1, <2>2, <3>1 DEF OnDisk, Entries
    <3> QED BY <1>1, <3>1, <3>2 DEF OnDisk
  <2>7. FilesInv'
    BY <1>1, <2>3, <2>6 DEF FilesInv
  <2>8. SessionTypeOK'
    BY <1>1, <2>3, <2>4 DEF IInv, SessionTypeOK, OnDisk
  <2> QED BY <1>2, <2>5, <2>7, <2>8 DEF IInv
<1>4. CASE op' = [op EXCEPT !.at = "error"] /\ UNCHANGED <<openSlot, disk>>
  <2>1. /\ op' \in [kind : {"none", "open", "refresh"}, at : {"idle", "running", "ok", "error"},
                    contest : Contests \cup {"none"}]
        /\ op'.kind = "open" /\ op'.at = "error" /\ op'.contest = op.contest /\ op # NoOp /\ op' # NoOp
    BY <1>1, <1>4 DEF IInv, OpInv, NoOp
  <2>2. OpInv' /\ RootInv'
    BY <1>1, <2>1 DEF IInv, OpInv, RootInv, NoOp
  <2>3. FilesInv' /\ SessionTypeOK'
    BY <1>1, <1>4, <2>1 DEF IInv, FilesInv, SessionTypeOK, OnDisk
  <2> QED BY <1>2, <2>2, <2>3 DEF IInv
<1> QED BY <1>3, <1>4 DEF OpenTask

(* The operation goes on, or a slot is filled. *)
LEMMA OperationInv ==
    ASSUME IInv,
           UNCHANGED <<pc, for, session, started, joining, input, entry, worker, joins, failed,
                       openSlot, disk, terminal, submissions>>,
           refreshSlot' \in Entries \cup {Empty},
           op' \in [kind : {"none", "open", "refresh"}, at : {"idle", "running", "ok", "error"},
                    contest : Contests \cup {"none"}],
           op'.kind = "none" <=> op' = NoOp,
           op'.kind = "open" => op'.contest \in Contests /\ op'.at # "ok",
           op' # NoOp => pc \in {"home", "contest", "dropping"} /\ started < SessionBound
    PROVE IInv'
<1>1. SessionTypeOK'
  BY DEF IInv, SessionTypeOK
<1>2. WorkerInv' /\ TerminalInv'
  BY DEF IInv, WorkerInv, Owner, TerminalInv
<1>3. OpInv' /\ RootInv'
  BY DEF IInv, OpInv, RootInv, NoOp
<1>4. FilesInv'
  BY DEF IInv, FilesInv, OnDisk
<1> QED BY <1>1, <1>2, <1>3, <1>4 DEF IInv

LEMMA RefreshTaskInv ==
    ASSUME IInv, RefreshTask
    PROVE IInv'
<1>1. /\ op.kind = "refresh" /\ op # NoOp
      /\ UNCHANGED <<pc, for, session, started, joining, input, entry, worker, joins, failed,
                     openSlot, disk, terminal, submissions>>
  BY DEF RefreshTask, rootVars, NoOp
<1>2. PICK at \in {"ok", "error"} : op' = [op EXCEPT !.at = at]
  BY DEF RefreshTask
<1>3. refreshSlot' \in Entries \cup {Empty}
  BY DEF RefreshTask, IInv, SessionTypeOK
<1>4. /\ op' \in [kind : {"none", "open", "refresh"}, at : {"idle", "running", "ok", "error"},
                  contest : Contests \cup {"none"}]
      /\ op'.kind = "refresh" /\ op' # NoOp
  BY <1>1, <1>2 DEF IInv, OpInv, NoOp
<1>5. pc \in {"home", "contest", "dropping"} /\ started < SessionBound
  BY <1>1 DEF IInv, OpInv, RootInv
<1> QED BY <1>1, <1>3, <1>4, <1>5, OperationInv

LEMMA StartOpenInv ==
    ASSUME IInv, NEW c \in Contests, StartOpen(c)
    PROVE IInv'
<1>1. /\ pc \in {"home", "contest"} /\ started < SessionBound
      /\ UNCHANGED <<pc, for, session, started, joining, input, entry, worker, joins, failed,
                     openSlot, refreshSlot, disk, terminal, submissions>>
      /\ op' = [kind |-> "open", at |-> "running", contest |-> c]
  BY DEF StartOpen, rootVars
<1>2. refreshSlot' \in Entries \cup {Empty}
  BY <1>1 DEF IInv, SessionTypeOK
<1> QED BY <1>1, <1>2, OperationInv DEF NoOp

LEMMA StartRefreshInv ==
    ASSUME IInv, StartRefresh
    PROVE IInv'
<1>1. /\ pc = "contest" /\ started < SessionBound
      /\ UNCHANGED <<pc, for, session, started, joining, input, entry, worker, joins, failed,
                     openSlot, refreshSlot, disk, terminal, submissions>>
      /\ op' = [kind |-> "refresh", at |-> "running", contest |-> input.contest]
  BY DEF StartRefresh, rootVars
<1>2. refreshSlot' \in Entries \cup {Empty}
  BY <1>1 DEF IInv, SessionTypeOK
<1>3. input.contest \in Contests
  BY <1>1 DEF IInv, FilesInv, OnDisk, Entries
<1> QED BY <1>1, <1>2, <1>3, OperationInv DEF NoOp

LEMMA OperationFailedInv ==
    ASSUME IInv, OperationFailed
    PROVE IInv'
<1>1. /\ op' = NoOp
      /\ UNCHANGED <<pc, for, session, started, joining, input, entry, worker, joins, failed,
                     openSlot, refreshSlot, disk, terminal, submissions>>
  BY DEF OperationFailed, rootVars
<1>2. refreshSlot' \in Entries \cup {Empty}
  BY <1>1 DEF IInv, SessionTypeOK
<1> QED BY <1>1, <1>2, OperationInv DEF NoOp

LEMMA SubmissionsStopInv ==
    ASSUME IInv, SubmissionsStop
    PROVE IInv'
<1>1. /\ submissions' = "gone"
      /\ UNCHANGED <<pc, for, session, started, joining, input, entry, worker, joins, failed, op,
                     openSlot, refreshSlot, disk, terminal>>
  BY DEF SubmissionsStop, rootVars
<1>2. SessionTypeOK' /\ WorkerInv'
  BY <1>1 DEF IInv, SessionTypeOK, WorkerInv, Owner
<1>3. RootInv' /\ OpInv' /\ TerminalInv' /\ FilesInv'
  BY <1>1 DEF IInv, RootInv, OpInv, TerminalInv, FilesInv, OnDisk
<1> QED BY <1>2, <1>3 DEF IInv

-------------------------------------------------------------------------------
(* The frontend is left; its session, if any, is still there.                *)
LEMMA LeaveInv ==
    ASSUME IInv, Quit \/ FrontendFails \/ DropOperation
    PROVE IInv'
<1>1. /\ pc \in {"home", "contest", "dropping"} /\ pc' \in {"dropping", "cleanup"}
      /\ op' \in {op, NoOp} /\ (pc' = "cleanup" => op' = NoOp)
      /\ UNCHANGED <<for, session, started, joining, input, entry, worker, joins, failed,
                     openSlot, refreshSlot, disk, terminal, submissions>>
  BY DEF Quit, FrontendFails, DropOperation, rootVars
<1>2. SessionTypeOK' /\ TerminalInv'
  BY <1>1 DEF IInv, SessionTypeOK, TerminalInv, NoOp
<1>3. WorkerInv'
  BY <1>1 DEF IInv, WorkerInv, Owner
<1>4. RootInv' /\ OpInv'
  BY <1>1 DEF IInv, RootInv, OpInv, NoOp
<1>5. FilesInv'
  BY <1>1 DEF IInv, FilesInv, OnDisk, NoOp
<1> QED BY <1>2, <1>3, <1>4, <1>5 DEF IInv

-------------------------------------------------------------------------------
(* ContestSession::shutdown of the Owner, from whatever place: the threads   *)
(* that live are among those to be joined.                                   *)
LEMMA ShutdownInv ==
    ASSUME IInv, NEW s \in Sessions, NEW reason \in {"home", "switch", "refresh", "fail",
                                                     "startOpen", "startDirect", "noTerminal"},
           Shutdown(s, reason), s = Owner, pc # "joining",
           session' = 0, started' \in 0..SessionBound, started <= started', s <= started',
           op' = NoOp, UNCHANGED <<input, disk, terminal, submissions>>,
           openSlot' \in Entries \cup {Empty}, refreshSlot' \in Entries \cup {Empty},
           entry' \in Entries \cup {Empty},
           reason \in {"switch", "refresh"} => started' < SessionBound,
           reason \in {"startDirect", "noTerminal"} => terminal = "off",
           reason = "refresh" => input \in Entries,
           reason = "switch" => OnDisk(entry')
    PROVE IInv'
<1>1. /\ pc' = "joining" /\ for' = reason /\ worker' = AskToStop(s) /\ joining' = s
      /\ joins' = Joinable(s) /\ failed' = FALSE
  BY DEF Shutdown
<1>2. SessionTypeOK
  BY DEF IInv
<1>3. /\ worker' \in [Sessions -> [KindSet -> {"unborn", "running", "asked", "gone", "crashed"}]]
      /\ \A u \in Sessions, k \in KindSet :
            /\ Alive(worker'[u][k]) <=> Alive(worker[u][k])
            /\ worker'[u][k] = "unborn" <=> worker[u][k] = "unborn"
            /\ u # s => worker'[u][k] = worker[u][k]
  BY <1>1, <1>2, AskToStopOne
<1>4. SessionTypeOK'
  <2>1. joining' \in 0..SessionBound /\ joins' \in SUBSET KindSet
    BY <1>1, <1>2 DEF SessionTypeOK, Sessions, Joinable
  <2>2. op'.kind = "none" /\ op'.at = "idle"
    BY DEF NoOp
  <2>3. session' \in 0..SessionBound
    BY Constants
  <2> QED BY <1>1, <1>2, <1>3, <2>1, <2>2, <2>3 DEF SessionTypeOK
<1>5. WorkerInv'
  <2>1. ASSUME NEW u \in Sessions, NEW k \in KindSet
        PROVE /\ Alive(worker'[u][k]) => u = s /\ k \in joins'
              /\ u > started' => worker'[u][k] = "unborn"
    <3>1. Alive(worker[u][k]) => u = s
      BY DEF IInv, WorkerInv
    <3>2. Alive(worker[s][k]) => k \in Joinable(s)
      BY DEF Alive, Joinable
    <3>3. u > started' => worker[u][k] = "unborn"
      <4>1. u > started' => u > started /\ u # s
        BY <1>2 DEF SessionTypeOK, Sessions
      <4> QED BY <4>1 DEF IInv, WorkerInv, Owner
    <3> QED BY <1>1, <1>3, <3>1, <3>2, <3>3
  <2> QED BY <1>1, <2>1 DEF WorkerInv, Owner
<1>6. RootInv'
  BY <1>1 DEF RootInv
<1>7. OpInv' /\ TerminalInv'
  BY <1>1, Constants DEF OpInv, TerminalInv, NoOp
<1>8. FilesInv'
  BY <1>1 DEF FilesInv, OnDisk, NoOp
<1> QED BY <1>4, <1>5, <1>6, <1>7, <1>8 DEF IInv

(* The session that is shown is the Owner. *)
LEMMA ShownIsOwner ==
    ASSUME IInv, pc \in {"contest", "terminal"}
    PROVE /\ session \in Sessions /\ session = Owner /\ session <= started
          /\ started \in 0..SessionBound /\ OnDisk(input)
  BY DEF IInv, SessionTypeOK, RootInv, FilesInv, Owner, Sessions

LEMMA LeaveContestInv ==
    ASSUME IInv, ReturnHome \/ SwitchContest \/ RefreshContest
    PROVE IInv'
<1>1. pc = "contest" /\ session' = 0 /\ op' = NoOp /\ UNCHANGED <<started, input, disk, terminal, submissions>>
  BY DEF ReturnHome, SwitchContest, RefreshContest
<1>2. openSlot' \in Entries \cup {Empty} /\ refreshSlot' \in Entries \cup {Empty}
      /\ entry' \in Entries \cup {Empty}
  BY DEF ReturnHome, SwitchContest, RefreshContest, IInv, SessionTypeOK
<1>3. op # NoOp => started < SessionBound
  BY DEF IInv, RootInv
<1>4. CASE ReturnHome
  <2>1. Shutdown(session, "home")
    BY <1>4 DEF ReturnHome
  <2> QED BY <1>1, <1>2, <2>1, ShownIsOwner, ShutdownInv
<1>5. CASE SwitchContest
  <2>1. PICK reason \in {"switch", "fail"} : Shutdown(session, reason)
    BY <1>5 DEF SwitchContest
  <2>2. OnDisk(entry') /\ op # NoOp
    BY <1>5 DEF SwitchContest, IInv, FilesInv, NoOp
  <2> QED BY <1>1, <1>2, <1>3, <2>1, <2>2, ShownIsOwner, ShutdownInv
<1>6. CASE RefreshContest
  <2>1. Shutdown(session, "refresh") /\ op # NoOp
    BY <1>6 DEF RefreshContest, NoOp
  <2>2. input \in Entries
    BY <1>1, ShownIsOwner DEF OnDisk
  <2> QED BY <1>1, <1>2, <1>3, <2>1, <2>2, ShownIsOwner, ShutdownInv
<1> QED BY <1>4, <1>5, <1>6

LEMMA StartFailsInv ==
    ASSUME IInv, StartFails
    PROVE IInv'
<1>1. /\ pc = "starting" /\ session' = session /\ started' = started + 1
      /\ UNCHANGED <<input, entry, op, openSlot, refreshSlot, disk, terminal, submissions>>
  BY DEF StartFails
<1>2. /\ session = 0 /\ op = NoOp /\ started < SessionBound /\ started \in 0..SessionBound
      /\ (for = "direct" => terminal = "off")
  BY <1>1 DEF IInv, RootInv, OpInv, TerminalInv, SessionTypeOK
<1>3. PICK reason \in {"startOpen", "startDirect", "fail"} :
        Shutdown(started + 1, reason) /\ (reason = "startDirect" => for = "direct")
  BY DEF StartFails
<1>4. started + 1 \in Sessions /\ started + 1 = Owner /\ started' \in 0..SessionBound
  BY <1>1, <1>2, Constants DEF Sessions, Owner
<1>5. openSlot' \in Entries \cup {Empty} /\ refreshSlot' \in Entries \cup {Empty}
      /\ entry' \in Entries \cup {Empty}
  BY <1>1 DEF IInv, SessionTypeOK
<1> QED BY <1>1, <1>2, <1>3, <1>4, <1>5, ShutdownInv

LEMMA StartTerminalInv ==
    ASSUME IInv, StartTerminal
    PROVE IInv'
<1>1. /\ pc = "terminal" /\ terminal = "off"
      /\ UNCHANGED <<started, input, entry, op, openSlot, refreshSlot, disk, submissions>>
  BY DEF StartTerminal, IInv, TerminalInv
<1>2. op = NoOp
  BY <1>1 DEF IInv, OpInv
<1>3. openSlot' \in Entries \cup {Empty} /\ refreshSlot' \in Entries \cup {Empty}
      /\ entry' \in Entries \cup {Empty}
  BY <1>1 DEF IInv, SessionTypeOK
<1>4. CASE /\ pc' = "contest" /\ terminal' = "on"
           /\ UNCHANGED <<for, worker, joining, joins, failed, session>>
  <2>1. SessionTypeOK' /\ TerminalInv'
    BY <1>1, <1>4 DEF IInv, SessionTypeOK, TerminalInv
  <2>2. WorkerInv'
    BY <1>1, <1>4 DEF IInv, WorkerInv, Owner
  <2>3. RootInv' /\ OpInv' /\ FilesInv'
    BY <1>1, <1>2, <1>4 DEF IInv, RootInv, OpInv, FilesInv, OnDisk, NoOp
  <2> QED BY <2>1, <2>2, <2>3 DEF IInv
<1>5. CASE Shutdown(session, "noTerminal") /\ session' = 0 /\ UNCHANGED terminal
  BY <1>1, <1>2, <1>3, <1>5, ShownIsOwner, ShutdownInv
<1> QED BY <1>4, <1>5 DEF StartTerminal

-------------------------------------------------------------------------------
(* The joins, and what follows them. *)
LEMMA JoinInv ==
    ASSUME IInv, NEW k \in KindSet, Join(k)
    PROVE IInv'
<1>1. /\ pc = "joining" /\ ~Alive(worker[joining][k]) /\ joins' = joins \ {k}
      /\ UNCHANGED <<pc, for, session, started, joining, input, entry, worker, op, openSlot,
                     refreshSlot, disk, terminal, submissions>>
  BY DEF Join, rootVars
<1>2. failed' \in BOOLEAN
  <2>1. failed \in BOOLEAN
    BY DEF IInv, SessionTypeOK
  <2>2. failed' = (failed \/ worker[joining][k] = "crashed")
    BY DEF Join
  <2> QED BY <2>1, <2>2
<1>3. SessionTypeOK'
  BY <1>1, <1>2 DEF IInv, SessionTypeOK
<1>4. WorkerInv'
  BY <1>1 DEF IInv, WorkerInv, Owner
<1>5. RootInv' /\ OpInv' /\ TerminalInv' /\ FilesInv'
  BY <1>1 DEF IInv, RootInv, OpInv, TerminalInv, FilesInv, OnDisk
<1> QED BY <1>3, <1>4, <1>5 DEF IInv

(* Nothing lives any more, whatever the root does next. *)
LEMMA NoneLeft ==
    ASSUME IInv, (pc = "joining" /\ joins = {}) \/ pc \in {"apply", "load", "home", "restore", "ended"}
    PROVE \A s \in Sessions, k \in KindSet : ~Alive(worker[s][k])
<1>1. pc # "joining" => session = 0 /\ Owner = 0
  BY DEF IInv, RootInv, Owner
<1>2. \A s \in Sessions : s # 0
  BY DEF Sessions
<1> QED BY <1>1, <1>2 DEF IInv, WorkerInv

LEMMA JoinedInv ==
    ASSUME IInv, Joined
    PROVE IInv'
<1>1. /\ pc = "joining" /\ joins = {} /\ failed' = FALSE
      /\ UNCHANGED <<for, session, started, joining, input, entry, worker, joins, op, openSlot,
                     refreshSlot, disk, terminal, submissions>>
  BY DEF Joined, rootVars
<1>2. /\ pc' \in {"home", "starting", "apply", "ended", "restore", "cleanup"}
      /\ pc' = "starting" => for = "switch"
      /\ pc' = "apply" => for = "refresh"
      /\ pc' = "ended" => for \in {"startDirect", "noTerminal"}
      /\ pc' = "restore" => for = "cleanup"
  BY DEF Joined
<1>3. session = 0 /\ op = NoOp
  BY <1>1 DEF IInv, RootInv, OpInv
<1>4. SessionTypeOK' /\ TerminalInv'
  <2>1. SessionTypeOK'
    <3>1. SessionTypeOK /\ joins' \in SUBSET KindSet /\ failed' \in BOOLEAN
      BY <1>1 DEF IInv, SessionTypeOK
    <3> QED BY <1>1, <1>2, <3>1 DEF SessionTypeOK
  <2>2. TerminalInv'
    BY <1>1, <1>2 DEF IInv, TerminalInv
  <2> QED BY <2>1, <2>2
<1>5. WorkerInv'
  <2>1. \A s \in Sessions, k \in KindSet : ~Alive(worker[s][k])
    BY <1>1, NoneLeft
  <2> QED BY <1>1, <1>2, <2>1 DEF IInv, WorkerInv
<1>6. RootInv'
  BY <1>1, <1>2, <1>3 DEF IInv, RootInv
<1>7. OpInv' /\ FilesInv'
  BY <1>1, <1>2, <1>3 DEF IInv, OpInv, FilesInv, OnDisk, NoOp
<1> QED BY <1>4, <1>5, <1>6, <1>7 DEF IInv

LEMMA ApplyInv ==
    ASSUME IInv, Apply
    PROVE IInv'
<1>1. /\ pc = "apply" /\ pc' = "load"
      /\ UNCHANGED <<for, session, started, joining, input, entry, worker, joins, failed, op,
                     openSlot, refreshSlot, terminal, submissions>>
  BY DEF Apply, rootVars
<1>2. op = NoOp /\ input \in Entries
  BY <1>1 DEF IInv, OpInv, FilesInv
<1>3. disk' \in [Contests -> 0..ChangeBound]
  <2>1. disk \in [Contests -> 0..ChangeBound] /\ input.contest \in Contests
    BY <1>2 DEF IInv, SessionTypeOK, Entries
  <2> QED BY <2>1, Constants DEF Apply
<1>4. SessionTypeOK' /\ TerminalInv'
  BY <1>1, <1>3 DEF IInv, SessionTypeOK, TerminalInv
<1>5. WorkerInv'
  BY <1>1 DEF IInv, WorkerInv, Owner
<1>6. RootInv' /\ OpInv'
  BY <1>1, <1>2 DEF IInv, RootInv, OpInv
<1>7. FilesInv'
  BY <1>1, <1>2 DEF FilesInv, NoOp
<1> QED BY <1>4, <1>5, <1>6, <1>7 DEF IInv

LEMMA LoadInv ==
    ASSUME IInv, Load
    PROVE IInv'
<1>1. /\ pc = "load" /\ pc' \in {"starting", "cleanup"}
      /\ UNCHANGED <<for, session, started, joining, input, worker, joins, failed, op, openSlot,
                     refreshSlot, disk, terminal, submissions>>
  BY DEF Load
<1>2. op = NoOp /\ input \in Entries /\ session = 0
  BY <1>1 DEF IInv, OpInv, FilesInv, RootInv
<1>3. entry' \in Entries \cup {Empty} /\ (pc' = "starting" => OnDisk(entry)')
  <2>1. CASE entry' = [contest |-> input.contest, version |-> disk[input.contest]]
    <3>1. input.contest \in Contests /\ disk[input.contest] \in 0..ChangeBound
      BY <1>2 DEF Entries, IInv, SessionTypeOK
    <3>2. entry' \in Entries
      BY <2>1, <3>1, Constants
    <3> QED BY <1>1, <2>1, <3>2 DEF OnDisk
  <2>2. CASE pc' = "cleanup" /\ UNCHANGED entry
    BY <2>2 DEF IInv, SessionTypeOK
  <2> QED BY <2>1, <2>2 DEF Load
<1>4. for # "direct" \/ pc' # "starting" \/ terminal = "off"
  BY <1>1 DEF IInv, TerminalInv
<1>5. SessionTypeOK'
  BY <1>1, <1>3 DEF IInv, SessionTypeOK
<1>6. TerminalInv'
  BY <1>1, <1>4 DEF IInv, TerminalInv
<1>7. WorkerInv'
  <2>1. \A s \in Sessions, k \in KindSet : ~Alive(worker[s][k])
    BY <1>1, NoneLeft
  <2> QED BY <1>1, <2>1 DEF IInv, WorkerInv
<1>8. RootInv' /\ OpInv'
  BY <1>1, <1>2 DEF IInv, RootInv, OpInv
<1>9. FilesInv'
  BY <1>1, <1>2, <1>3 DEF FilesInv, NoOp
<1> QED BY <1>5, <1>6, <1>7, <1>8, <1>9 DEF IInv

-------------------------------------------------------------------------------
(* A session starts. *)
LEMMA OpenFromHomeInv ==
    ASSUME IInv, OpenFromHome
    PROVE IInv'
<1>1. /\ pc = "home" /\ op.kind = "open" /\ op.at = "ok" /\ op' = NoOp /\ openSlot' = Empty
      /\ UNCHANGED <<session, started, input, worker, joining, joins, failed, refreshSlot, disk,
                     terminal, submissions>>
  BY DEF OpenFromHome
<1>2. OnDisk(openSlot) /\ session = 0 /\ started < SessionBound
  BY <1>1 DEF IInv, FilesInv, RootInv, NoOp
<1>3. \A s \in Sessions, k \in KindSet : ~Alive(worker[s][k])
  BY <1>1, NoneLeft
<1>4. \/ pc' = "starting" /\ for' = "open" /\ entry' = openSlot
      \/ UNCHANGED <<pc, for, entry>>
  BY DEF OpenFromHome
<1>5. SessionTypeOK'
  <2>1. entry' \in Entries \cup {Empty} /\ op'.kind = "none" /\ op'.at = "idle"
    BY <1>1, <1>2, <1>4 DEF IInv, SessionTypeOK, OnDisk, NoOp
  <2> QED BY <1>1, <1>4, <2>1 DEF IInv, SessionTypeOK
<1>6. WorkerInv'
  BY <1>1, <1>3, <1>4 DEF IInv, WorkerInv
<1>7. RootInv' /\ OpInv' /\ TerminalInv'
  BY <1>1, <1>2, <1>4, Constants DEF IInv, RootInv, OpInv, TerminalInv, NoOp
<1>8. FilesInv'
  BY <1>1, <1>2, <1>4 DEF FilesInv, OnDisk, NoOp
<1> QED BY <1>5, <1>6, <1>7, <1>8 DEF IInv

LEMMA StartingIs ==
    ASSUME IInv, pc = "starting"
    PROVE /\ started + 1 \in Sessions /\ started \in Nat /\ started + 1 <= SessionBound
          /\ Owner = started + 1 /\ session = 0 /\ op = NoOp
          /\ \A k \in KindSet : worker[started + 1][k] \in {"unborn", "running", "crashed"}
<1>1. started \in 0..SessionBound /\ started < SessionBound /\ session = 0 /\ op = NoOp
  BY DEF IInv, SessionTypeOK, RootInv, OpInv
<1>2. started + 1 \in Sessions /\ started + 1 > started /\ started + 1 <= SessionBound
  BY <1>1, Constants DEF Sessions
<1> QED BY <1>1, <1>2 DEF IInv, WorkerInv, Owner

LEMMA StartWorkerInv ==
    ASSUME IInv, NEW k \in KindSet, StartWorker(k)
    PROVE IInv'
<1>1. /\ pc = "starting" /\ worker' = [worker EXCEPT ![started + 1][k] = "running"]
      /\ UNCHANGED <<pc, for, session, started, joining, input, entry, joins, failed, op, openSlot,
                     refreshSlot, disk, terminal, submissions>>
  BY DEF StartWorker, rootVars
<1>2. started + 1 \in Sessions /\ Owner = started + 1 /\ session = 0
  BY <1>1, StartingIs
<1>3. /\ worker' \in [Sessions -> [KindSet -> {"unborn", "running", "asked", "gone", "crashed"}]]
      /\ worker'[started + 1][k] = "running"
      /\ \A u \in Sessions, l \in KindSet :
            <<u, l>> # <<started + 1, k>> => worker'[u][l] = worker[u][l]
  BY <1>1, <1>2, OneWorker DEF IInv
<1>4. SessionTypeOK'
  BY <1>1, <1>3 DEF IInv, SessionTypeOK
<1>5. WorkerInv'
  BY <1>1, <1>2, <1>3 DEF IInv, WorkerInv, Owner
<1>6. RootInv' /\ OpInv' /\ TerminalInv' /\ FilesInv'
  BY <1>1 DEF IInv, RootInv, OpInv, TerminalInv, FilesInv, OnDisk
<1> QED BY <1>4, <1>5, <1>6 DEF IInv

LEMMA SessionStartedInv ==
    ASSUME IInv, SessionStarted
    PROVE IInv'
<1>1. /\ pc = "starting" /\ Unstarted = {} /\ started' = started + 1 /\ session' = started + 1
      /\ input' = entry /\ openSlot' = Empty /\ refreshSlot' = Empty
      /\ pc' = IF for = "direct" THEN "terminal" ELSE "contest"
      /\ UNCHANGED <<for, entry, worker, joining, joins, failed, op, disk, terminal, submissions>>
  BY DEF SessionStarted
<1>2. /\ started + 1 \in Sessions /\ started \in Nat /\ started + 1 <= SessionBound /\ op = NoOp
      /\ Owner = started + 1
      /\ \A k \in KindSet : worker[started + 1][k] \in {"running", "crashed"}
  BY <1>1, StartingIs DEF Unstarted
<1>3. OnDisk(entry)
  BY <1>1 DEF IInv, FilesInv
<1>4. SessionTypeOK'
  <2>1. session' \in 0..SessionBound /\ started' \in 0..SessionBound /\ input' \in Entries \cup {Empty}
    BY <1>1, <1>2, <1>3, Constants DEF OnDisk
  <2> QED BY <1>1, <2>1 DEF IInv, SessionTypeOK
<1>5. WorkerInv'
  <2>1. ASSUME NEW s \in Sessions, NEW k \in KindSet
        PROVE /\ Alive(worker[s][k]) => s = started + 1
              /\ s > started + 1 => worker[s][k] = "unborn"
    <3>1. s > started + 1 => s > started /\ s # started + 1
      BY <1>2 DEF Sessions
    <3> QED BY <1>2, <3>1 DEF IInv, WorkerInv
  <2> QED BY <1>1, <1>2, <2>1 DEF WorkerInv, Owner
<1>6. RootInv' /\ OpInv' /\ TerminalInv'
  BY <1>1, <1>2 DEF IInv, RootInv, OpInv, TerminalInv
<1>7. FilesInv'
  BY <1>1, <1>2, <1>3 DEF FilesInv, OnDisk, NoOp
<1> QED BY <1>4, <1>5, <1>6, <1>7 DEF IInv

-------------------------------------------------------------------------------
(* The end of the program. *)
LEMMA CleanupInv ==
    ASSUME IInv, Cleanup
    PROVE IInv'
<1>1. /\ pc = "cleanup" /\ submissions' = "asked"
      /\ UNCHANGED <<pc, for, session, started, joining, input, entry, joins, failed, op, openSlot,
                     refreshSlot, disk, terminal>>
      /\ worker' = worker \/ (session # 0 /\ worker' = AskToStop(session))
  BY DEF Cleanup, rootVars
<1>2. session # 0 => session \in Sessions
  BY DEF IInv, SessionTypeOK, Sessions
<1>3. /\ worker' \in [Sessions -> [KindSet -> {"unborn", "running", "asked", "gone", "crashed"}]]
      /\ \A u \in Sessions, k \in KindSet :
            /\ Alive(worker'[u][k]) <=> Alive(worker[u][k])
            /\ worker'[u][k] = "unborn" <=> worker[u][k] = "unborn"
  <2>1. CASE worker' = worker
    BY <2>1 DEF IInv, SessionTypeOK
  <2>2. CASE session # 0 /\ worker' = AskToStop(session)
    BY <1>2, <2>2, AskToStopOne DEF IInv
  <2> QED BY <1>1, <2>1, <2>2
<1>4. SessionTypeOK'
  BY <1>1, <1>3 DEF IInv, SessionTypeOK
<1>5. WorkerInv'
  BY <1>1, <1>3 DEF IInv, WorkerInv, Owner
<1>6. RootInv' /\ OpInv' /\ TerminalInv' /\ FilesInv'
  BY <1>1 DEF IInv, RootInv, OpInv, TerminalInv, FilesInv, OnDisk
<1> QED BY <1>4, <1>5, <1>6 DEF IInv

LEMMA CleanupSessionInv ==
    ASSUME IInv, CleanupSession
    PROVE IInv'
<1>1. /\ pc = "cleanup" /\ submissions = "gone" /\ pc' = "joining" /\ for' = "cleanup"
      /\ failed' = FALSE /\ joining' = session /\ session' = 0
      /\ joins' = IF session = 0 THEN {} ELSE Joinable(session)
      /\ worker' = IF session = 0 THEN worker ELSE AskToStop(session)
      /\ UNCHANGED <<started, input, entry, op, openSlot, refreshSlot, disk, terminal, submissions>>
  BY DEF CleanupSession
<1>2. (session # 0 => session \in Sessions) /\ session \in 0..SessionBound /\ op = NoOp
  BY <1>1 DEF IInv, SessionTypeOK, Sessions, OpInv
<1>3. /\ worker' \in [Sessions -> [KindSet -> {"unborn", "running", "asked", "gone", "crashed"}]]
      /\ \A u \in Sessions, k \in KindSet :
            /\ Alive(worker'[u][k]) <=> Alive(worker[u][k])
            /\ worker'[u][k] = "unborn" <=> worker[u][k] = "unborn"
  <2>1. CASE session = 0
    BY <1>1, <2>1 DEF IInv, SessionTypeOK
  <2>2. CASE session # 0
    BY <1>1, <1>2, <2>2, AskToStopOne DEF IInv
  <2> QED BY <2>1, <2>2
<1>4. SessionTypeOK'
  <2>1. joins' \in SUBSET KindSet /\ session' \in 0..SessionBound
    BY <1>1, Constants DEF Joinable
  <2> QED BY <1>1, <1>2, <1>3, <2>1 DEF IInv, SessionTypeOK
<1>5. WorkerInv'
  <2>1. ASSUME NEW s \in Sessions, NEW k \in KindSet
        PROVE /\ Alive(worker'[s][k]) => s = session /\ k \in joins'
              /\ s > started => worker'[s][k] = "unborn"
    <3>1. Alive(worker[s][k]) => s = session /\ s # 0
      BY <1>1 DEF IInv, WorkerInv, Owner, Sessions
    <3>2. Alive(worker[s][k]) => k \in joins'
      BY <1>1, <3>1 DEF Alive, Joinable
    <3>3. s > started => worker[s][k] = "unborn"
      BY <1>1 DEF IInv, WorkerInv
    <3> QED BY <1>3, <3>1, <3>2, <3>3
  <2> QED BY <1>1, <2>1 DEF WorkerInv, Owner
<1>6. RootInv' /\ OpInv'
  BY <1>1, <1>2 DEF IInv, RootInv, OpInv, SessionTypeOK
<1>7. TerminalInv' /\ FilesInv'
  BY <1>1, <1>2 DEF IInv, TerminalInv, FilesInv, NoOp
<1> QED BY <1>4, <1>5, <1>6, <1>7 DEF IInv

LEMMA RestoreTerminalInv ==
    ASSUME IInv, RestoreTerminal
    PROVE IInv'
<1>1. /\ pc = "restore" /\ terminal' = "restored" /\ pc' = "ended"
      /\ UNCHANGED <<for, session, started, joining, input, entry, worker, joins, failed, op,
                     openSlot, refreshSlot, disk, submissions>>
  BY DEF RestoreTerminal, rootVars
<1>2. SessionTypeOK' /\ WorkerInv'
  BY <1>1 DEF IInv, SessionTypeOK, WorkerInv, Owner
<1>3. RootInv' /\ OpInv'
  BY <1>1 DEF IInv, RootInv, OpInv
<1>4. TerminalInv' /\ FilesInv'
  BY <1>1 DEF IInv, TerminalInv, FilesInv, OnDisk
<1> QED BY <1>2, <1>3, <1>4 DEF IInv

-------------------------------------------------------------------------------
LEMMA NextInv == IInv /\ [Next]_vars => IInv'
<1> SUFFICES ASSUME IInv, [Next]_vars PROVE IInv'
  OBVIOUS
<1>1. CASE Root
  BY <1>1, OperationFailedInv, LeaveInv, LeaveContestInv, OpenFromHomeInv, JoinedInv, ApplyInv,
     LoadInv, StartFailsInv, JoinInv, StartWorkerInv, SessionStartedInv, StartTerminalInv,
     CleanupInv, CleanupSessionInv, RestoreTerminalInv DEF Root
<1>2. CASE User \/ FrontendFails
  BY <1>2, StartOpenInv, StartRefreshInv, LeaveInv, LeaveContestInv DEF User
<1>3. CASE OpenTask \/ RefreshTask \/ SubmissionsStop
  BY <1>3, OpenTaskInv, RefreshTaskInv, SubmissionsStopInv
<1>4. CASE \E s \in Sessions, k \in KindSet : WorkerStops(s, k) \/ WorkerFails(s, k)
  BY <1>4, WorkerEndsInv
<1>5. CASE UNCHANGED vars
  <2>1. UNCHANGED <<pc, for, session, started, worker, joining, joins, failed, input, entry, op,
                    openSlot, refreshSlot, disk, terminal, submissions>>
    BY <1>5 DEF vars
  <2>2. SessionTypeOK' /\ WorkerInv'
    BY <2>1 DEF IInv, SessionTypeOK, WorkerInv, Owner
  <2>3. RootInv' /\ OpInv' /\ TerminalInv' /\ FilesInv'
    BY <2>1 DEF IInv, RootInv, OpInv, TerminalInv, FilesInv, OnDisk
  <2> QED BY <2>2, <2>3 DEF IInv
<1> QED BY <1>1, <1>2, <1>3, <1>4, <1>5 DEF Next

LEMMA Always == Spec => []IInv
  BY InitInv, NextInv, PTL DEF Spec

(* The root's variables keep their types (RootApplicationController,         *)
(* ContestSession), a run of refreshes or switches included.                 *)
THEOREM SessionTypeCorrect == Spec => []SessionTypeOK
<1>1. IInv => SessionTypeOK
  BY DEF IInv
<1> QED BY <1>1, Always, PTL

(* Threads of two sessions never live together (start_entry, shutdown), and  *)
(* a contest is shown by a session that was started whole and not stopped.   *)
THEOREM OneSessionAtATime == Spec => []OneWholeSession
<1>1. IInv => OneWholeSession
  <2> SUFFICES ASSUME IInv PROVE OneWholeSession
    OBVIOUS
  <2>1. \A t \in LiveWorkers : t[1] = Owner
    BY DEF LiveWorkers, IInv, WorkerInv
  <2>2. pc = "contest" => \A k \in KindSet : worker[session][k] \in {"running", "crashed"}
    <3>1. pc = "contest" => session \in Sessions
      BY ShownIsOwner
    <3> QED BY <3>1 DEF IInv, WorkerInv
  <2> QED BY <2>1, <2>2 DEF OneWholeSession
<1> QED BY <1>1, Always, PTL

(* The frontend of a contest shows the files as they are, whether it came    *)
(* from the command line, the home, a switch or a refresh.                   *)
THEOREM ShowsTheDisk == Spec => []ShownIsOnDisk
<1>1. IInv => ShownIsOnDisk
  BY DEF IInv, FilesInv, OnDisk, ShownIsOnDisk
<1> QED BY <1>1, Always, PTL

(* rebuild_contest_session_after_refresh replaces and loads the files of a   *)
(* contest, and run_root_application gives the terminal back and ends, after *)
(* every thread the root started (watch_tui.rs:112).                         *)
THEOREM NothingRunsBehindTheRoot == Spec => []ProducersAreGone
<1>1. IInv => ProducersAreGone
  <2> SUFFICES ASSUME IInv PROVE ProducersAreGone
    OBVIOUS
  <2>1. pc \in {"apply", "load", "restore", "ended"} => LiveWorkers = {} /\ op.at # "running"
    <3> SUFFICES ASSUME pc \in {"apply", "load", "restore", "ended"}
                 PROVE LiveWorkers = {} /\ op.at # "running"
      OBVIOUS
    <3>1. \A s \in Sessions, k \in KindSet : ~Alive(worker[s][k])
      BY NoneLeft
    <3>2. LiveWorkers = {}
      BY <3>1 DEF LiveWorkers
    <3>3. op = NoOp
      BY DEF IInv, OpInv
    <3> QED BY <3>2, <3>3 DEF NoOp
  <2>2. pc \in {"restore", "ended"} /\ terminal # "off" => submissions = "gone"
    BY DEF IInv, TerminalInv
  <2> QED BY <2>1, <2>2 DEF ProducersAreGone
<1> QED BY <1>1, Always, PTL
=============================================================================
