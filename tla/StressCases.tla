----------------------------- MODULE StressCases -----------------------------
(***************************************************************************)
(* The failing case that `atc stress` keeps for one problem, src/stress.rs *)
(* (persist_failure, load_saved_case): the directory .atc/stress/<index>,  *)
(* the lock file beside it, and the private staging directories in which   *)
(* a save prepares its case and puts the previous one aside.  Several atc  *)
(* processes save and load at once.  A step is one access to a directory   *)
(* entry or to the lock that others can observe.                           *)
(*                                                                         *)
(* A case is known by where it comes from: the writer that saves it, Found *)
(* for the one there from the start, Alien for a directory that another    *)
(* program puts in its place.  What is in a case is abstracted to whether  *)
(* atc owns all of it (`foreign`) and whether it can be replayed (`Bare`   *)
(* has no expected.out).                                                   *)
(*                                                                         *)
(* Faults: a save is killed between two steps, a rename or a write fails,  *)
(* the user or another program changes the directories.                    *)
(***************************************************************************)
EXTENDS Integers, Sequences, FiniteSets

CONSTANTS
  Writers,      \* stress runs that found a failure, each saves it once
  Readers,      \* test runs, each loads the case once
  Found,        \* the case that was there before
  Alien,        \* a directory made by another program
  NoDir,        \* no directory
  NoOne,        \* no process
  MaxMeddling,  \* bound on changes made by the user or another program
  MaxFaults,    \* bound on failing file operations
  MaxKills      \* bound on killed saves

ASSUME StressAssumption ==
  /\ Found # Alien /\ Found \notin Writers /\ Alien \notin Writers
  /\ NoDir \notin Writers \cup {Found, Alien}
  /\ NoOne \notin Writers
  /\ MaxMeddling \in Nat /\ MaxFaults \in Nat /\ MaxKills \in Nat

VARIABLES
  place,      \* where each directory is
  foreign,    \* directories with an entry atc does not own
  bare,       \* the found case has no expected.out
  lockFile,   \* the lock file exists
  exclusive,  \* the writer that holds the lock
  shared,     \* the readers that hold the lock
  writer,     \* what each save is doing
  cancelled,  \* saves whose stress run has been cancelled
  reader,     \* what each load is doing
  meddled, faults, kills,  \* how many of each have happened
  log,        \* history: the cases that became the saved case, in order
  late        \* history: cases changed between their last inspection and removal

files == <<place, foreign, bare, lockFile>>
locks == <<exclusive, shared>>
counts == <<meddled, faults, kills>>
history == <<log, late>>
vars == <<files, locks, writer, cancelled, reader, counts, history>>

Dirs == Writers \cup {Found, Alien}

(* "previous" is in the staging directory of the save that moved it; a     *)
(* staging directory is "deleted" by its owner, "kept" and reported for    *)
(* recovery, or "left" by a save that was killed.                          *)
Places == {"none", "staged", "target", "previous", "deleted", "kept", "left", "removed"}

WriterSteps == {"idle", "look", "validate", "stage", "acquire", "recheck", "moveAway",
                "validateMoved", "install", "rollback", "inspect", "cleanup", "done", "dead"}
Outcomes == {"none", "saved", "cancelled", "failed"}
ReaderSteps == {"idle", "lock", "openDir", "openFiles", "read", "done"}

(* The steps of a save that holds the lock. *)
Swapping == {"recheck", "moveAway", "validateMoved", "install", "rollback", "inspect", "cleanup"}

Init ==
  /\ place \in [Dirs -> {"none", "target"}]
  /\ \A d \in Dirs \ {Found} : place[d] = "none"
  /\ foreign \in {{Alien}, {Alien, Found}}
  /\ bare \in BOOLEAN
  /\ lockFile \in BOOLEAN
  /\ exclusive = NoOne
  /\ shared = {}
  /\ writer = [w \in Writers |-> [step |-> "idle", saw |-> FALSE, moved |-> NoDir,
                                  outcome |-> "none"]]
  /\ cancelled = {}
  /\ reader = [r \in Readers |-> [step |-> "idle", locks |-> FALSE, dir |-> NoDir, owed |-> 0]]
  /\ meddled = 0 /\ faults = 0 /\ kills = 0
  /\ log = IF place[Found] = "target" THEN <<Found>> ELSE <<>>
  /\ late = {}

-----------------------------------------------------------------------------
AtTarget == {d \in Dirs : place[d] = "target"}
TargetExists == AtTarget # {}

(* A rename that does not replace succeeds only onto a free name. *)
NameIsFree == ~TargetExists

(* validate_failure_generation: it reads every entry of the directory. *)
Valid(d) == d \notin foreign

(* A case from which load_saved_case makes a test. *)
Replayable(d) == Valid(d) /\ ~(d = Found /\ bare)

(* What is in the staging directory of a save that has not returned. *)
Staging(w) ==
  IF writer[w].step \in {"done", "dead"} THEN {}
  ELSE {d \in Dirs : \/ d = w /\ place[d] = "staged"
                     \/ d = writer[w].moved /\ place[d] = "previous"}

StagingBecomes(w, where) ==
  place' = [d \in Dirs |-> IF d \in Staging(w) THEN where ELSE place[d]]

(* The staging directory is dropped, and removed with all it holds. *)
MutantForgetsStaging(w) == UNCHANGED place
DropStaging(w) == StagingBecomes(w, "deleted")

(* TempDir::keep *)
MutantDropsAnyway(w) == StagingBecomes(w, "deleted")
KeepStaging(w) == StagingBecomes(w, "kept")

At(w, step) == writer[w].step = step
Goto(w, step) == writer' = [writer EXCEPT ![w].step = step]

(* The save returns; its handle of the lock file is closed last. *)
End(w, outcome) ==
  /\ writer' = [writer EXCEPT ![w].step = "done", ![w].outcome = outcome]
  /\ exclusive' = IF exclusive = w THEN NoOne ELSE exclusive

Rename(d, where) == place' = [place EXCEPT ![d] = where]

Fault == faults < MaxFaults /\ faults' = faults + 1

-----------------------------------------------------------------------------
(* A save: persist_failure. *)

(* Makes the stress directory and the lock file where they are missing. *)
BeginSave(w) ==
  /\ At(w, "idle")
  /\ lockFile' = TRUE
  /\ Goto(w, "look")
  /\ UNCHANGED <<place, foreign, bare, locks, cancelled, reader, counts, history>>

(* target_exists is read without the lock. *)
Look(w) ==
  /\ At(w, "look")
  /\ writer' = [writer EXCEPT ![w].saw = TargetExists,
                              ![w].step = IF TargetExists THEN "validate" ELSE "stage"]
  /\ UNCHANGED <<files, locks, cancelled, reader, counts, history>>

Validate(w) ==
  /\ At(w, "validate")
  /\ \/ /\ \E d \in AtTarget : Valid(d)
        /\ Goto(w, "stage")
        /\ UNCHANGED exclusive
     \/ /\ \A d \in AtTarget : ~Valid(d)
        /\ End(w, "failed")
  /\ UNCHANGED <<files, shared, cancelled, reader, counts, history>>

Stage(w) ==
  /\ At(w, "stage")
  /\ \/ /\ w \in cancelled
        /\ End(w, "cancelled")
        /\ UNCHANGED <<place, faults>>
     \/ /\ w \notin cancelled
        /\ Rename(w, "staged")
        /\ Goto(w, "acquire")
        /\ UNCHANGED <<exclusive, faults>>
     \/ /\ w \notin cancelled /\ Fault
        /\ Rename(w, "deleted")
        /\ End(w, "failed")
  /\ UNCHANGED <<foreign, bare, lockFile, shared, cancelled, reader, meddled, kills, history>>

LockAvailable == exclusive = NoOne /\ shared = {}

(* The try_lock loop; it is the last that looks at the cancellation. *)
Acquire(w) ==
  /\ At(w, "acquire")
  /\ \/ /\ w \in cancelled
        /\ DropStaging(w)
        /\ End(w, "cancelled")
        /\ UNCHANGED faults
     \/ /\ w \notin cancelled /\ LockAvailable
        /\ exclusive' = w
        /\ Goto(w, "recheck")
        /\ UNCHANGED <<place, faults>>
     \/ /\ w \notin cancelled /\ Fault
        /\ DropStaging(w)
        /\ End(w, "failed")
  /\ UNCHANGED <<foreign, bare, lockFile, shared, cancelled, reader, meddled, kills, history>>

Unchanged(w) == TargetExists = writer[w].saw

Recheck(w) ==
  /\ At(w, "recheck")
  /\ \/ /\ Unchanged(w)
        /\ Goto(w, IF writer[w].saw THEN "moveAway" ELSE "install")
        /\ UNCHANGED <<place, exclusive>>
     \/ /\ ~Unchanged(w)
        /\ DropStaging(w)
        /\ End(w, "failed")
  /\ UNCHANGED <<foreign, bare, lockFile, shared, cancelled, reader, counts, history>>

(* Moves whatever is at the target now. *)
MoveAway(w) ==
  /\ At(w, "moveAway")
  /\ \/ /\ \E d \in AtTarget :
             /\ Rename(d, "previous")
             /\ writer' = [writer EXCEPT ![w].step = "validateMoved", ![w].moved = d]
        /\ UNCHANGED <<exclusive, faults>>
     \/ /\ \/ ~TargetExists /\ UNCHANGED faults
           \/ TargetExists /\ Fault
        /\ DropStaging(w)
        /\ End(w, "failed")
  /\ UNCHANGED <<foreign, bare, lockFile, shared, cancelled, reader, meddled, kills, history>>

MutantTrustsMoved(w) == TRUE
MovedIsOwned(w) == Valid(writer[w].moved)

ValidateMoved(w) ==
  /\ At(w, "validateMoved")
  /\ Goto(w, IF MovedIsOwned(w) THEN "install" ELSE "rollback")
  /\ UNCHANGED <<files, locks, cancelled, reader, counts, history>>

Install(w) ==
  /\ At(w, "install")
  /\ \/ /\ NameIsFree
        /\ Rename(w, "target")
        /\ log' = Append(log, w)
        /\ Goto(w, "inspect")
        /\ UNCHANGED <<exclusive, faults>>
     \/ /\ \/ ~NameIsFree /\ UNCHANGED faults
           \/ NameIsFree /\ Fault
        /\ \/ /\ writer[w].moved # NoDir
              /\ Goto(w, "rollback")
              /\ UNCHANGED <<place, exclusive>>
           \/ /\ writer[w].moved = NoDir
              /\ DropStaging(w)
              /\ End(w, "failed")
        /\ UNCHANGED log
  /\ UNCHANGED <<foreign, bare, lockFile, shared, cancelled, reader, meddled, kills, late>>

(* rollback_previous_generation *)
Rollback(w) ==
  /\ At(w, "rollback")
  /\ \/ /\ NameIsFree
        /\ place' = [place EXCEPT ![w] = "deleted", ![writer[w].moved] = "target"]
        /\ UNCHANGED faults
     \/ /\ \/ ~NameIsFree /\ UNCHANGED faults
           \/ NameIsFree /\ Fault
        /\ KeepStaging(w)
  /\ End(w, "failed")
  /\ UNCHANGED <<foreign, bare, lockFile, shared, cancelled, reader, meddled, kills, history>>

(* Looks at the previous case once more before it is removed. *)
Inspect(w) ==
  /\ At(w, "inspect")
  /\ \/ /\ writer[w].moved = NoDir
        /\ End(w, "saved")
        /\ UNCHANGED place
     \/ /\ writer[w].moved # NoDir /\ MovedIsOwned(w)
        /\ Goto(w, "cleanup")
        /\ UNCHANGED <<place, exclusive>>
     \/ /\ writer[w].moved # NoDir /\ ~MovedIsOwned(w)
        /\ KeepStaging(w)
        /\ End(w, "failed")
  /\ UNCHANGED <<foreign, bare, lockFile, shared, cancelled, reader, counts, history>>

(* The staging directory is removed before the lock is given back. *)
Cleanup(w) ==
  /\ At(w, "cleanup")
  /\ DropStaging(w)
  /\ End(w, "saved")
  /\ UNCHANGED <<foreign, bare, lockFile, shared, cancelled, reader, counts, history>>

Cancel(w) ==
  /\ writer[w].step \notin {"done", "dead"}
  /\ w \notin cancelled
  /\ cancelled' = cancelled \cup {w}
  /\ UNCHANGED <<files, locks, writer, reader, counts, history>>

(* The process is killed: its lock is released, its staging directory      *)
(* stays where it is and nothing looks for it later.                       *)
Kill(w) ==
  /\ kills < MaxKills
  /\ writer[w].step \notin {"idle", "done", "dead"}
  /\ StagingBecomes(w, "left")
  /\ Goto(w, "dead")
  /\ exclusive' = IF exclusive = w THEN NoOne ELSE exclusive
  /\ kills' = kills + 1
  /\ UNCHANGED <<foreign, bare, lockFile, shared, cancelled, reader, meddled, faults, history>>

-----------------------------------------------------------------------------
(* A load: load_saved_case. *)

ReaderAt(r, step) == reader[r].step = step

(* Position in the log of the newest case that could be replayed. *)
NewestReplayable ==
  {i \in DOMAIN log : /\ Replayable(log[i])
                      /\ \A j \in DOMAIN log : j > i => ~Replayable(log[j])}
Owed == IF NewestReplayable = {} THEN 0 ELSE CHOOSE i \in NewestReplayable : TRUE

(* The lock file is opened when it exists; without it the load goes on. *)
BeginLoad(r) ==
  /\ ReaderAt(r, "idle")
  /\ reader' = [reader EXCEPT ![r] = [step |-> IF lockFile THEN "lock" ELSE "openDir",
                                      locks |-> lockFile, dir |-> NoDir, owed |-> Owed]]
  /\ UNCHANGED <<files, locks, writer, cancelled, counts, history>>

MutantNeverWaits == TRUE
SharedAvailable == exclusive = NoOne

LockShared(r) ==
  /\ ReaderAt(r, "lock")
  /\ SharedAvailable
  /\ shared' = shared \cup {r}
  /\ reader' = [reader EXCEPT ![r].step = "openDir"]
  /\ UNCHANGED <<files, exclusive, writer, cancelled, counts, history>>

(* The load returns the case d, or none. *)
Answer(r, d) ==
  /\ reader' = [reader EXCEPT ![r].step = "done", ![r].dir = d]
  /\ shared' = shared \ {r}

OpenDir(r) ==
  /\ ReaderAt(r, "openDir")
  /\ \/ /\ \E d \in AtTarget : reader' = [reader EXCEPT ![r].step = "openFiles", ![r].dir = d]
        /\ UNCHANGED shared
     \/ /\ ~TargetExists
        /\ Answer(r, NoDir)
  /\ UNCHANGED <<files, exclusive, writer, cancelled, counts, history>>

(* The entries are listed and the files opened through the directory's     *)
(* handle, wherever the directory has been moved meanwhile.                *)
OpenFiles(r) ==
  LET d == reader[r].dir
      whole == Replayable(d) /\ place[d] \notin {"deleted", "removed"}
  IN  /\ ReaderAt(r, "openFiles")
      /\ \/ /\ whole
            /\ reader' = [reader EXCEPT ![r].step = "read"]
            /\ UNCHANGED shared
         \/ /\ ~whole
            /\ Answer(r, NoDir)
      /\ UNCHANGED <<files, exclusive, writer, cancelled, counts, history>>

(* The lock is released only after the files have been read. *)
Read(r) ==
  /\ ReaderAt(r, "read")
  /\ Answer(r, reader[r].dir)
  /\ UNCHANGED <<files, exclusive, writer, cancelled, counts, history>>

-----------------------------------------------------------------------------
(* The user or another program. *)

Meddle == meddled < MaxMeddling /\ meddled' = meddled + 1

(* Puts an entry of its own into the saved case, or into one that a save   *)
(* has moved away.                                                         *)
AddEntry(d) ==
  /\ Meddle
  /\ place[d] \in {"target", "previous"}
  /\ d \notin foreign
  /\ foreign' = foreign \cup {d}
  /\ late' = IF \E w \in Writers : At(w, "cleanup") /\ writer[w].moved = d
               THEN late \cup {d} ELSE late
  /\ UNCHANGED <<place, bare, lockFile, locks, writer, cancelled, reader, faults, kills, log>>

(* Removes the saved case. *)
RemoveCase(d) ==
  /\ Meddle
  /\ place[d] = "target"
  /\ Rename(d, "removed")
  /\ UNCHANGED <<foreign, bare, lockFile, locks, writer, cancelled, reader, faults, kills, history>>

(* Makes a directory where the saved case would be. *)
Compete ==
  /\ Meddle
  /\ ~TargetExists
  /\ place[Alien] = "none"
  /\ Rename(Alien, "target")
  /\ UNCHANGED <<foreign, bare, lockFile, locks, writer, cancelled, reader, faults, kills, history>>

SaveStep(w) ==
  \/ BeginSave(w) \/ Look(w) \/ Validate(w) \/ Stage(w) \/ Acquire(w) \/ Recheck(w)
  \/ MoveAway(w) \/ ValidateMoved(w) \/ Install(w) \/ Rollback(w) \/ Inspect(w) \/ Cleanup(w)

LoadStep(r) == BeginLoad(r) \/ LockShared(r) \/ OpenDir(r) \/ OpenFiles(r) \/ Read(r)

Next ==
  \/ \E w \in Writers : SaveStep(w) \/ Cancel(w) \/ Kill(w)
  \/ \E r \in Readers : LoadStep(r)
  \/ \E d \in Dirs : AddEntry(d) \/ RemoveCase(d)
  \/ Compete

Spec == Init /\ [][Next]_vars

-----------------------------------------------------------------------------
(* Every variable has its type, and one directory at most has the name of  *)
(* the saved case.                                                         *)
StressTypeOK ==
  /\ place \in [Dirs -> Places]
  /\ foreign \subseteq Dirs /\ bare \in BOOLEAN /\ lockFile \in BOOLEAN
  /\ exclusive \in Writers \cup {NoOne}
  /\ shared \subseteq Readers
  /\ writer \in [Writers -> [step : WriterSteps, saw : BOOLEAN, moved : Dirs \cup {NoDir},
                             outcome : Outcomes]]
  /\ cancelled \subseteq Writers
  /\ reader \in [Readers -> [step : ReaderSteps, locks : BOOLEAN, dir : Dirs \cup {NoDir},
                             owed : Nat]]
  /\ meddled \in 0 .. MaxMeddling /\ faults \in 0 .. MaxFaults /\ kills \in 0 .. MaxKills
  /\ log \in Seq(Dirs) /\ late \subseteq Dirs
  /\ \A d, e \in AtTarget : d = e

(* A directory that atc does not own as a whole is never removed: what the *)
(* user put there is rolled back or kept for recovery, whatever fails.     *)
(* Only an entry added between the last inspection and the removal can go. *)
ForeignIsNeverDeleted == \A d \in foreign \ late : place[d] # "deleted"

(* The case of a problem is removed only once a newer one has taken its    *)
(* place: no error, cancellation or kill on the way loses it.              *)
OnlySupersededIsDeleted ==
  \A i \in DOMAIN log : place[log[i]] = "deleted" => i < Len(log)

(* A load answers with the newest case there was when it began, or with a  *)
(* newer one.  It answers with none only if there was no such case, if     *)
(* there was no lock file to wait on, or after a fault or foreign change.  *)
LoadFindsTheNewest ==
  \A r \in Readers : ReaderAt(r, "done") =>
    IF reader[r].dir = NoDir
      THEN reader[r].owed = 0 \/ ~reader[r].locks \/ meddled + faults + kills > 0
      ELSE \E i \in DOMAIN log : i >= reader[r].owed /\ log[i] = reader[r].dir

(* What a load under the shared lock has opened stays where it is until it *)
(* has been read: no save moves or removes it.                             *)
LockedReadIsUndisturbed ==
  \A r \in shared : reader[r].dir # NoDir => place[reader[r].dir] \in {"target", "removed"}

(* What a save reports is what it did: a saved case was installed, and a   *)
(* cancelled save touched no saved case.  A save that returns leaves       *)
(* nothing in its staging directory that is not reported for recovery.     *)
OutcomeIsTrue ==
  /\ \A w \in Writers :
       LET installed == \E i \in DOMAIN log : log[i] = w
       IN  /\ writer[w].outcome = "saved" => installed
           /\ writer[w].outcome = "cancelled" => ~installed /\ writer[w].moved = NoDir
  /\ \A d \in Dirs : place[d] \in {"staged", "previous"} => \E w \in Writers : d \in Staging(w)
=============================================================================
