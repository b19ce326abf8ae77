--------------------------- MODULE UserInputStore ---------------------------
(***************************************************************************)
(* The files of one problem's user inputs, src/user_input.rs:              *)
(* .atc/user-inputs/<problem>/<id>.in, the next_id of its metadata file    *)
(* and the lock file beside the directory, used by several atc processes   *)
(* at once.  A step is one call that others can observe: taking the lock,  *)
(* scanning the directory, a rename or hard link, the sync of the          *)
(* directory.  A staged file is written and synced before its link or      *)
(* rename, so a name never shows part of a content.                        *)
(*                                                                         *)
(* Faults: a process is killed between two steps, a step fails with an     *)
(* error, and the power is lost.  After a power loss each name of the      *)
(* directory holds its last synced state or one it had since, whatever the *)
(* other names hold.  The directory itself is assumed to survive.          *)
(***************************************************************************)
EXTENDS Integers, FiniteSets

CONSTANTS
  Procs,      \* atc processes; each runs one operation at a time
  Contents,   \* contents of an input, compared for equality only
  MaxId,      \* u64::MAX, the bound of an id and of next_id
  FoundIds,   \* ids whose files may be there from the start
  Absent,     \* no file of that name
  NoOne       \* nobody holds the lock

ASSUME StoreAssumption ==
  /\ MaxId \in Nat \ {0, 1}
  /\ FoundIds \subseteq 1 .. MaxId
  /\ Absent \notin Contents
  /\ NoOne \notin Procs

VARIABLES
  inputs,     \* the content of <id>.in as processes see it
  stored,     \* next_id of the metadata file, 0 when there is none
  diskInputs, \* what a power loss may leave of each input
  diskStored, \* what a power loss may leave of the metadata
  problemDir, \* the problem's directory exists
  lockFile,   \* the lock file exists
  lock,       \* holder of the exclusive lock
  op,         \* what each process is doing
  report,     \* what its last operation returned
  seen,       \* what the load of a process has read so far
  unread,     \* the files its load has still to read
  edit,       \* the input a process edits, with the content it was loaded with
  born,       \* history: how the file of an id first came to be
  acked,      \* history: ids untouched since a success was reported for them
  powerLost   \* history: the power was lost

files == <<inputs, stored, diskInputs, diskStored, problemDir, lockFile>>
reading == <<seen, unread>>
history == <<born, acked, powerLost>>
state == <<files, lock, op, reading, edit, history>>
vars == <<state, report>>

Ids == 1 .. MaxId
MaybeContents == Contents \cup {Absent}
NothingSeen == [i \in Ids |-> Absent]
NoEdit == [id |-> 0, content |-> Absent]

Steps == {"idle", "lock", "scan", "reserve", "syncReserve", "install", "syncInstall",
          "compare", "target", "reconcile", "syncReconcile", "replace", "syncReplace",
          "remove", "syncRemove", "loadLock", "optimistic"}
Reports == {"none", "created", "before", "after", "saved", "unchanged", "conflict",
            "missing", "deleted", "error", "loaded", "killed"}

Idle == [kind |-> "none", step |-> "idle", id |-> 0, content |-> Absent]

(* The steps a process takes while it holds the exclusive lock. *)
Critical == {"scan", "reserve", "syncReserve", "install", "syncInstall", "compare", "target",
             "reconcile", "syncReconcile", "replace", "syncReplace", "remove", "syncRemove"}

(* A directory may have been filled by hand, or its metadata be missing or *)
(* stale, when a process finds it.                                         *)
Init ==
  /\ inputs \in [Ids -> MaybeContents]
  /\ \A i \in Ids \ FoundIds : inputs[i] = Absent
  /\ stored \in 0 .. MaxId
  /\ diskInputs = [i \in Ids |-> {inputs[i]}]
  /\ diskStored = {stored}
  /\ problemDir \in BOOLEAN
  /\ ~problemDir => stored = 0 /\ \A i \in Ids : inputs[i] = Absent
  /\ lockFile \in BOOLEAN
  /\ lock = NoOne
  /\ op = [c \in Procs |-> Idle]
  /\ report = [c \in Procs |-> "none"]
  /\ seen = [c \in Procs |-> NothingSeen]
  /\ unread = [c \in Procs |-> {}]
  /\ edit = [c \in Procs |-> NoEdit]
  /\ born = [i \in Ids |-> IF inputs[i] = Absent THEN "never" ELSE "found"]
  /\ acked = {}
  /\ powerLost = FALSE

-----------------------------------------------------------------------------
Present == {i \in Ids : inputs[i] # Absent}

(* effective_next_id: above every file and not below the stored next_id;   *)
(* no such number when the largest id is in use.                           *)
EffectiveNext(n) ==
  /\ \A i \in Present : i < n
  /\ stored <= n
  /\ n = 1 \/ n = stored \/ n - 1 \in Present

(* sync_directory makes what processes see durable. *)
Sync == /\ diskInputs' = [i \in Ids |-> {inputs[i]}]
        /\ diskStored' = {stored}

(* A bug: success is reported without a sync of the directory. *)
MutantNeverSyncs == UNCHANGED <<diskInputs, diskStored>>

SyncAfterPublish == Sync

WriteStored(n) == stored' = n /\ diskStored' = diskStored \cup {n}
WriteInput(i, content) ==
  /\ inputs' = [inputs EXCEPT ![i] = content]
  /\ diskInputs' = [diskInputs EXCEPT ![i] = @ \cup {content}]
  /\ acked' = acked \ {i}

Start(c, kind, step, id, content) ==
  /\ op' = [op EXCEPT ![c] = [kind |-> kind, step |-> step, id |-> id, content |-> content]]
  /\ report' = [report EXCEPT ![c] = "none"]
Goto(c, step) == op' = [op EXCEPT ![c].step = step] /\ UNCHANGED report

(* The operation returns: the lock is released with its handle. *)
Return(c, result) ==
  /\ op' = [op EXCEPT ![c] = Idle]
  /\ report' = [report EXCEPT ![c] = result]
  /\ lock' = IF lock = c THEN NoOne ELSE lock

-----------------------------------------------------------------------------
(* Opening the lock of a problem creates the file; nothing removes it. *)
BeginCreate(c, content) ==
  /\ op[c].step = "idle"
  /\ lockFile' = TRUE
  /\ Start(c, "create", "lock", 0, content)
  /\ UNCHANGED <<inputs, stored, diskInputs, diskStored, problemDir, lock, reading, edit, history>>

BeginSave(c, content) ==
  /\ op[c].step = "idle"
  /\ edit[c] # NoEdit
  /\ IF problemDir
       THEN /\ lockFile' = TRUE
            /\ Start(c, "save", "lock", edit[c].id, content)
       ELSE /\ report' = [report EXCEPT ![c] = "missing"]
            /\ UNCHANGED <<op, lockFile>>
  /\ UNCHANGED <<inputs, stored, diskInputs, diskStored, problemDir, lock, reading, edit, history>>

BeginDelete(c, id) ==
  /\ op[c].step = "idle"
  /\ edit[c].id # id
  /\ IF problemDir
       THEN /\ lockFile' = TRUE
            /\ Start(c, "delete", "lock", id, Absent)
       ELSE /\ report' = [report EXCEPT ![c] = "missing"]
            /\ UNCHANGED <<op, lockFile>>
  /\ UNCHANGED <<inputs, stored, diskInputs, diskStored, problemDir, lock, reading, edit, history>>

(* A bug: writers take no notice of each other. *)
MutantLockIsShared == TRUE

ExclusiveAvailable == lock = NoOne

AfterLock(kind) == IF kind = "create" THEN "scan" ELSE IF kind = "save" THEN "compare" ELSE "target"

LockExclusive(c) ==
  /\ op[c].step = "lock"
  /\ ExclusiveAvailable
  /\ lock' = c
  /\ Goto(c, AfterLock(op[c].kind))
  /\ UNCHANGED <<files, reading, edit, history>>

-----------------------------------------------------------------------------

(* There is an id after n: next_id does not run over. *)
HasFollowing(n) == n < MaxId

(* Create: the next id is chosen and the input staged, *)
Scan(c) ==
  /\ op[c].step = "scan"
  /\ problemDir' = TRUE
  /\ \/ \E n \in Ids :
          /\ EffectiveNext(n) /\ HasFollowing(n)
          /\ op' = [op EXCEPT ![c].step = "reserve", ![c].id = n]
          /\ UNCHANGED <<lock, report>>
     \/ /\ \A n \in Ids : EffectiveNext(n) => ~HasFollowing(n)   \* id_space_exhausted
        /\ Return(c, "before")
  /\ UNCHANGED <<inputs, stored, diskInputs, diskStored, lockFile, reading, edit, history>>

(* its id burned in the metadata, *)
Reserve(c) ==
  /\ op[c].step = "reserve"
  /\ WriteStored(op[c].id + 1)
  /\ Goto(c, "syncReserve")
  /\ UNCHANGED <<inputs, diskInputs, problemDir, lockFile, lock, reading, edit, history>>

SyncReserve(c) ==
  /\ op[c].step = "syncReserve"
  /\ Sync
  /\ Goto(c, "install")
  /\ UNCHANGED <<inputs, stored, problemDir, lockFile, lock, reading, edit, history>>

(* and the staged file linked to its name unless that is taken. *)
Install(c) ==
  /\ op[c].step = "install"
  /\ IF inputs[op[c].id] = Absent
       THEN /\ WriteInput(op[c].id, op[c].content)
            /\ born' = [born EXCEPT ![op[c].id] = "created"]
            /\ Goto(c, "syncInstall")
            /\ UNCHANGED lock
       ELSE /\ Return(c, "before")
            /\ UNCHANGED <<inputs, diskInputs, born, acked>>
  /\ UNCHANGED <<stored, diskStored, problemDir, lockFile, reading, edit, powerLost>>

SyncInstall(c) ==
  /\ op[c].step = "syncInstall"
  /\ SyncAfterPublish
  /\ Return(c, "created")
  /\ acked' = acked \cup {op[c].id}
  /\ UNCHANGED <<inputs, stored, problemDir, lockFile, reading, edit, born, powerLost>>

-----------------------------------------------------------------------------
MatchesExpected(c) == inputs[op[c].id] = edit[c].content

(* Checked save: Missing, Conflict and Unchanged write nothing. *)
Compare(c) ==
  /\ op[c].step = "compare"
  /\ \/ inputs[op[c].id] = Absent /\ Return(c, "missing")
     \/ inputs[op[c].id] # Absent /\ ~MatchesExpected(c) /\ Return(c, "conflict")
     \/ /\ inputs[op[c].id] # Absent /\ MatchesExpected(c)
        /\ op[c].content = edit[c].content
        /\ Return(c, "unchanged")
     \/ /\ inputs[op[c].id] # Absent /\ MatchesExpected(c)
        /\ op[c].content # edit[c].content
        /\ Goto(c, "reconcile")
        /\ UNCHANGED lock
  /\ UNCHANGED <<files, reading, edit, history>>

(* Delete: the input must be there. *)
Target(c) ==
  /\ op[c].step = "target"
  /\ IF inputs[op[c].id] = Absent
       THEN Return(c, "missing")
       ELSE Goto(c, "reconcile") /\ UNCHANGED lock
  /\ UNCHANGED <<files, reading, edit, history>>

Commit(kind) == IF kind = "save" THEN "replace" ELSE "remove"

(* A bug: save and delete leave the metadata as they find it. *)
MutantSkipsReconcile(c) ==
  Goto(c, Commit(op[c].kind)) /\ UNCHANGED <<stored, diskStored, lock>>

(* reconcile_metadata: a stale or missing next_id is raised above every    *)
(* file before one is replaced or removed.                                 *)
ReconcileMetadata(c) ==
  \/ /\ EffectiveNext(stored) /\ stored # 0
     /\ Goto(c, Commit(op[c].kind))
     /\ UNCHANGED <<stored, diskStored, lock>>
  \/ \E n \in Ids \ {stored} :
       /\ EffectiveNext(n)
       /\ WriteStored(n)
       /\ Goto(c, "syncReconcile")
       /\ UNCHANGED lock
  \/ /\ \A n \in Ids : ~EffectiveNext(n)
     /\ Return(c, "error")
     /\ UNCHANGED <<stored, diskStored>>

Reconcile(c) ==
  /\ op[c].step = "reconcile"
  /\ ReconcileMetadata(c)
  /\ UNCHANGED <<inputs, diskInputs, problemDir, lockFile, reading, edit, history>>

SyncReconcile(c) ==
  /\ op[c].step = "syncReconcile"
  /\ Sync
  /\ Goto(c, Commit(op[c].kind))
  /\ UNCHANGED <<inputs, stored, problemDir, lockFile, lock, reading, edit, history>>

(* The staged file is renamed over the input, or the input removed. *)
Publish(c) ==
  /\ op[c].step \in {"replace", "remove"}
  /\ WriteInput(op[c].id, op[c].content)
  /\ Goto(c, IF op[c].step = "replace" THEN "syncReplace" ELSE "syncRemove")
  /\ UNCHANGED <<stored, diskStored, problemDir, lockFile, lock, reading, edit, born, powerLost>>

SyncPublish(c) ==
  /\ op[c].step \in {"syncReplace", "syncRemove"}
  /\ SyncAfterPublish
  /\ Return(c, IF op[c].step = "syncReplace" THEN "saved" ELSE "deleted")
  /\ edit' = [edit EXCEPT ![c] = IF op[c].step = "syncReplace" THEN NoEdit ELSE @]
  /\ acked' = acked \cup {op[c].id}
  /\ UNCHANGED <<inputs, stored, problemDir, lockFile, reading, born, powerLost>>

-----------------------------------------------------------------------------
(* Load: under the shared lock when the lock file exists.  No writer runs  *)
(* while it is held, so reading the files one by one is one step here.     *)
BeginLoad(c) ==
  /\ op[c].step = "idle"
  /\ Start(c, "load", IF lockFile THEN "loadLock" ELSE "optimistic", 0, Absent)
  /\ unread' = [unread EXCEPT ![c] = IF lockFile THEN {} ELSE Ids]
  /\ UNCHANGED <<files, lock, seen, edit, history>>

(* Without the directory of all user inputs there is nothing to read. *)
LoadMissing(c) ==
  /\ op[c].step = "idle"
  /\ ~problemDir /\ ~lockFile
  /\ report' = [report EXCEPT ![c] = "loaded"]
  /\ edit' = [edit EXCEPT ![c] = NoEdit]
  /\ UNCHANGED <<files, lock, op, reading, history>>

(* The editor opens on one of the loaded inputs, or on none. *)
ReturnLoaded(c, loaded) ==
  /\ Return(c, "loaded")
  /\ \/ edit' = [edit EXCEPT ![c] = NoEdit]
     \/ \E i \in Ids : /\ loaded[i] # Absent
                       /\ edit' = [edit EXCEPT ![c] = [id |-> i, content |-> loaded[i]]]
  /\ seen' = [seen EXCEPT ![c] = NothingSeen]

LoadShared(c) ==
  /\ op[c].step = "loadLock"
  /\ lock = NoOne
  /\ ReturnLoaded(c, inputs)
  /\ UNCHANGED <<files, unread, history>>

(* Without the lock file the directory is read in any order, one file      *)
(* after the other, and the lock file is looked for once more at the end.  *)
ReadFile(c) ==
  /\ op[c].step = "optimistic"
  /\ \E i \in unread[c] :
       /\ seen' = [seen EXCEPT ![c][i] = inputs[i]]
       /\ unread' = [unread EXCEPT ![c] = @ \ {i}]
  /\ UNCHANGED <<files, lock, op, report, edit, history>>

(* A bug: an optimistic read is believed without a second look. *)
MutantBelieves == FALSE

LockAppeared == lockFile

Recheck(c) ==
  /\ op[c].step = "optimistic" /\ unread[c] = {}
  /\ IF LockAppeared
       THEN /\ Goto(c, "loadLock")
            /\ seen' = [seen EXCEPT ![c] = NothingSeen]
            /\ UNCHANGED <<lock, edit>>
       ELSE ReturnLoaded(c, seen[c])
  /\ UNCHANGED <<files, unread, history>>

-----------------------------------------------------------------------------
(* A step fails with an error.  Only a create tells its caller whether the *)
(* input may be installed; a failed sync leaves what it followed.          *)
FailureReport(o) ==
  IF o.kind = "create" THEN IF o.step = "syncInstall" THEN "after" ELSE "before" ELSE "error"

StopLoad(c) ==
  /\ seen' = [seen EXCEPT ![c] = NothingSeen]
  /\ unread' = [unread EXCEPT ![c] = {}]

Fail(c) ==
  /\ op[c].step # "idle"
  /\ Return(c, FailureReport(op[c]))
  /\ StopLoad(c)
  /\ UNCHANGED <<files, edit, history>>

(* The process is killed; the system releases its locks. *)
Kill(c) ==
  /\ op[c].step # "idle"
  /\ Return(c, "killed")
  /\ StopLoad(c)
  /\ edit' = [edit EXCEPT ![c] = NoEdit]
  /\ UNCHANGED <<files, history>>

PowerLoss ==
  /\ inputs' \in {f \in [Ids -> MaybeContents] : \A i \in Ids : f[i] \in diskInputs[i]}
  /\ stored' \in diskStored
  /\ diskInputs' = [i \in Ids |-> {inputs'[i]}]
  /\ diskStored' = {stored'}
  /\ op' = [c \in Procs |-> Idle]
  /\ report' = [c \in Procs |-> "killed"]
  /\ lock' = NoOne
  /\ seen' = [c \in Procs |-> NothingSeen]
  /\ unread' = [c \in Procs |-> {}]
  /\ edit' = [c \in Procs |-> NoEdit]
  /\ powerLost' = TRUE
  /\ UNCHANGED <<problemDir, lockFile, born, acked>>

-----------------------------------------------------------------------------
Writes(c) ==
  \/ \E content \in Contents : BeginCreate(c, content) \/ BeginSave(c, content)
  \/ \E id \in Ids : BeginDelete(c, id)
  \/ LockExclusive(c)
  \/ Scan(c) \/ Reserve(c) \/ SyncReserve(c) \/ Install(c) \/ SyncInstall(c)
  \/ Compare(c) \/ Target(c)
  \/ Reconcile(c) \/ SyncReconcile(c) \/ Publish(c) \/ SyncPublish(c)

Loads(c) ==
  BeginLoad(c) \/ LoadMissing(c) \/ LoadShared(c) \/ ReadFile(c) \/ Recheck(c)

Next == (\E c \in Procs : Writes(c) \/ Loads(c) \/ Fail(c) \/ Kill(c)) \/ PowerLoss

Spec == Init /\ [][Next]_vars

-----------------------------------------------------------------------------
(* Every variable has its type. *)
StoreTypeOK ==
  /\ inputs \in [Ids -> MaybeContents]
  /\ stored \in 0 .. MaxId
  /\ diskInputs \in [Ids -> SUBSET MaybeContents]
  /\ diskStored \in SUBSET (0 .. MaxId)
  /\ problemDir \in BOOLEAN /\ lockFile \in BOOLEAN
  /\ lock \in Procs \cup {NoOne}
  /\ op \in [Procs -> [kind : {"none", "create", "save", "delete", "load"}, step : Steps,
                       id : 0 .. MaxId, content : MaybeContents]]
  /\ report \in [Procs -> Reports]
  /\ seen \in [Procs -> [Ids -> MaybeContents]]
  /\ unread \in [Procs -> SUBSET Ids]
  /\ edit \in [Procs -> [id : 0 .. MaxId, content : MaybeContents]]
  /\ born \in [Ids -> {"never", "found", "created"}]
  /\ acked \in SUBSET Ids
  /\ powerLost \in BOOLEAN

Installs(c) == op[c].step = "install" /\ op'[c].step = "syncInstall"

(* An id a create has installed is never handed out again, whatever was    *)
(* deleted, killed, failed or lost in between; an id found in the          *)
(* directory is not either as long as the power stays on.                  *)
IdsNeverReused ==
  [][\A c \in Procs : Installs(c) =>
       /\ born[op[c].id] # "created"
       /\ born[op[c].id] = "found" => powerLost]_vars

(* The comment before reconcile_metadata in delete_user_input: a crash     *)
(* after it cannot make the deleted id reusable, whoever made the file.    *)
DeletedIdsStayBurned ==
  [][\A c \in Procs : Installs(c) => born[op[c].id] = "never"]_vars

(* A checked save replaces the content its editor was opened on, and no    *)
(* other: an update of another process is never lost, a deleted input      *)
(* never comes back.                                                       *)
NoLostUpdate ==
  [][\A c \in Procs :
       op[c].step = "replace" /\ op'[c].step = "syncReplace"
         => inputs[op[c].id] = edit[c].content /\ op[c].id = edit[c].id]_vars

(* The editor opens on what the directory holds at that moment, although   *)
(* the load read file by file and may have started without a lock.         *)
LoadIsSnapshot ==
  [][\A c \in Procs : edit'[c] # edit[c] /\ edit'[c] # NoEdit
                       => edit'[c].content = inputs[edit'[c].id]]_vars

(* What was reported as created, saved or deleted stays so until another   *)
(* operation touches that id, even if the power is lost.                   *)
ReportedSurvives ==
  [][\A i \in acked \cap acked' : inputs'[i] = inputs[i]]_vars
=============================================================================
