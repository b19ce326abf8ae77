------------------------ MODULE UserInputStoreProofs ------------------------
(***************************************************************************)
(* Proofs about the user input store, for any processes, contents, largest *)
(* id and found files, with processes killed, steps failing and the power  *)
(* lost at any moment.                                                     *)
(*                                                                         *)
(* What the store promises follows from one inductive invariant.  Its      *)
(* heart is CreatedIdsBurned: whatever a power loss may leave of the       *)
(* metadata is above every id ever created.  That survives an install      *)
(* because the reservation before it is synced (ReservationAgrees), and    *)
(* what an operation found out stays true until it acts because only the   *)
(* holder of the lock writes (LockAgrees, OthersAgree).                    *)
(***************************************************************************)
EXTENDS UserInputStore, TLAPS

(* Writers hold the lock, and its file exists from their first step. *)
LockAgrees(c) ==
  /\ op[c].step \in Critical => lock = c
  /\ op[c].step \in Critical \cup {"lock"} => lockFile

(* The steps of each kind of operation. *)
KindAgrees(c) ==
  /\ op[c].step \in {"scan", "reserve", "syncReserve", "install", "syncInstall"} => op[c].kind = "create"
  /\ op[c].step \in {"compare", "replace", "syncReplace"} => op[c].kind = "save"
  /\ op[c].step \in {"target", "remove", "syncRemove"} => op[c].kind = "delete"
  /\ op[c].step \in {"reconcile", "syncReconcile"} => op[c].kind \in {"save", "delete"}
  /\ op[c].step = "lock" => op[c].kind \in {"create", "save", "delete"}
  /\ op[c].step = "idle" => op[c] = Idle

(* An operation that names an input has an id, a save the one edited. *)
IdAgrees(c) ==
  /\ edit[c] # NoEdit => edit[c].id \in Ids
  /\ op[c].kind \in {"save", "delete"} => op[c].id \in Ids
  /\ op[c].kind = "save" => op[c].id = edit[c].id

Unused(i) == born[i] # "created" /\ (born[i] = "found" => powerLost)

(* From the scan to the install an unused id is reserved. *)
ReservationAgrees(c) ==
  /\ op[c].step \in {"reserve", "syncReserve", "install"} =>
       op[c].id \in Ids /\ op[c].id < MaxId /\ Unused(op[c].id)
  /\ op[c].step = "reserve" => stored <= op[c].id
  /\ op[c].step \in {"syncReserve", "install"} => stored = op[c].id + 1
  /\ op[c].step = "install" => diskStored = {stored}
  /\ op[c].step = "syncInstall" => op[c].id \in Ids

(* From the comparison to the rename or removal the input stays as it was  *)
(* found, and before the latter the metadata is above its id.              *)
PublicationAgrees(c) ==
  /\ op[c].step \in {"reconcile", "syncReconcile", "replace", "remove"} =>
       /\ inputs[op[c].id] # Absent
       /\ op[c].kind = "save" => inputs[op[c].id] = edit[c].content
  /\ op[c].step \in {"syncReconcile", "replace", "remove"} => op[c].id < stored

(* As long as there is no lock file, what a load has read stays true. *)
ReadStaysTrue(c) ==
  op[c].step = "optimistic" /\ ~lockFile
     => \A i \in Ids \ unread[c] : seen[c][i] = inputs[i]

ProcessAgrees(c) ==
  /\ LockAgrees(c)
  /\ KindAgrees(c)
  /\ IdAgrees(c)
  /\ ReservationAgrees(c)
  /\ PublicationAgrees(c)
  /\ ReadStaysTrue(c)

CreatedIdsBurned ==
  /\ stored \in diskStored
  /\ \A i \in Ids : born[i] = "created" => \A n \in diskStored : i < n

FoundIdsBurned ==
  ~powerLost => \A i \in Ids : born[i] = "found" => inputs[i] # Absent \/ i < stored

AckedIsDurable == \A i \in acked : diskInputs[i] = {inputs[i]}

IInv ==
  /\ StoreTypeOK
  /\ \A c \in Procs : ProcessAgrees(c)
  /\ CreatedIdsBurned
  /\ FoundIdsBurned
  /\ AckedIsDurable

-----------------------------------------------------------------------------
LEMMA InitEstablishes == Init => IInv
<1> SUFFICES ASSUME Init PROVE IInv
  OBVIOUS
<1> USE StoreAssumption DEF Init
<1>1. StoreTypeOK
  <2>1. diskInputs \in [Ids -> SUBSET MaybeContents] /\ born \in [Ids -> {"never", "found", "created"}]
    OBVIOUS
  <2>2. Idle \in [kind : {"none", "create", "save", "delete", "load"}, step : Steps,
                  id : 0 .. MaxId, content : MaybeContents]
    BY DEF Idle, Steps, MaybeContents
  <2>3. /\ NoEdit \in [id : 0 .. MaxId, content : MaybeContents]
        /\ NothingSeen \in [Ids -> MaybeContents]
        /\ "none" \in Reports
    BY DEF NoEdit, NothingSeen, Reports, MaybeContents
  <2> QED BY <2>1, <2>2, <2>3 DEF StoreTypeOK
<1>2. ASSUME NEW c \in Procs PROVE ProcessAgrees(c)
  BY DEF ProcessAgrees, LockAgrees, KindAgrees, IdAgrees, ReservationAgrees, PublicationAgrees,
        ReadStaysTrue,
         Critical, Idle, NoEdit
<1>3. CreatedIdsBurned /\ FoundIdsBurned /\ AckedIsDurable
  BY DEF CreatedIdsBurned, FoundIdsBurned, AckedIsDurable
<1> QED BY <1>1, <1>2, <1>3 DEF IInv

-----------------------------------------------------------------------------
(* What the three ways to go on do to the operations. *)
Kinds == {"none", "create", "save", "delete", "load"}
Operation == [kind : Kinds, step : Steps, id : 0 .. MaxId, content : MaybeContents]
OperationsTyped == op \in [Procs -> Operation] /\ report \in [Procs -> Reports]
OnlyProceeds(c) == \A d \in Procs \ {c} : op'[d] = op[d]

LEMMA StartEffect ==
  ASSUME StoreTypeOK, NEW c \in Procs, NEW kind \in Kinds, NEW step \in Steps,
         NEW id \in 0 .. MaxId, NEW content \in MaybeContents, Start(c, kind, step, id, content)
  PROVE /\ OperationsTyped'
        /\ OnlyProceeds(c)
        /\ op'[c] = [kind |-> kind, step |-> step, id |-> id, content |-> content]
BY DEF Start, StoreTypeOK, OperationsTyped, Operation, OnlyProceeds, Kinds, Reports

LEMMA GotoEffect ==
  ASSUME StoreTypeOK, NEW c \in Procs, NEW step \in Steps, Goto(c, step)
  PROVE /\ OperationsTyped'
        /\ OnlyProceeds(c)
        /\ op'[c] = [op[c] EXCEPT !.step = step]
BY DEF Goto, StoreTypeOK, OperationsTyped, Operation, OnlyProceeds, Kinds

(* Going on changes the step of the operation and nothing else of it. *)
LEMMA GotoFields ==
  ASSUME StoreTypeOK, NEW c \in Procs, NEW step \in Steps, Goto(c, step)
  PROVE op'[c].kind = op[c].kind /\ op'[c].id = op[c].id /\ op'[c].step = step
<1>1. op'[c] = [op[c] EXCEPT !.step = step]
  BY GotoEffect
<1>2. op[c] \in Operation
  BY DEF StoreTypeOK, OperationsTyped, Operation, Kinds
<1> QED BY <1>1, <1>2 DEF Operation

LEMMA ReturnEffect ==
  ASSUME StoreTypeOK, NEW c \in Procs, NEW result \in Reports, Return(c, result)
  PROVE /\ OperationsTyped'
        /\ OnlyProceeds(c)
        /\ op'[c] = Idle
        /\ lock' \in Procs \cup {NoOne}
        /\ lock' = IF lock = c THEN NoOne ELSE lock
<1>1. Idle \in Operation
  BY StoreAssumption DEF Idle, Operation, Kinds, Steps, MaybeContents
<1> QED BY <1>1 DEF Return, StoreTypeOK, OperationsTyped, Operation, OnlyProceeds, Kinds

(* An idle process agrees with anything as long as its editor does. *)
LEMMA IdleAgrees ==
  ASSUME NEW c \in Procs, op'[c] = Idle, edit'[c] # NoEdit => edit'[c].id \in Ids
  PROVE ProcessAgrees(c)'
BY DEF Idle, ProcessAgrees, LockAgrees, KindAgrees, IdAgrees, ReservationAgrees, PublicationAgrees,
      ReadStaysTrue, Critical

(* A step of one process leaves the agreements of the others alone: it     *)
(* writes only while it holds the lock, and then no other one relies on    *)
(* the files.                                                              *)
LockStep(c) == lock' = lock \/ (lock = NoOne /\ lock' = c) \/ (lock = c /\ lock' = NoOne)
StepFrame(c) ==
  /\ OnlyProceeds(c)
  /\ \A d \in Procs \ {c} : edit'[d] = edit[d] /\ seen'[d] = seen[d] /\ unread'[d] = unread[d]
  /\ op[c].step \in Critical \/ UNCHANGED <<inputs, stored, diskStored, born>>
  /\ lockFile => lockFile'
  /\ UNCHANGED powerLost
  /\ LockStep(c)

LEMMA OthersAgree ==
  ASSUME IInv, NEW c \in Procs, StepFrame(c), ProcessAgrees(c)'
  PROVE \A d \in Procs : ProcessAgrees(d)'
<1> SUFFICES ASSUME NEW d \in Procs, d # c PROVE ProcessAgrees(d)'
  OBVIOUS
<1>1. /\ ProcessAgrees(d) /\ ProcessAgrees(c)
      /\ op'[d] = op[d] /\ edit'[d] = edit[d] /\ seen'[d] = seen[d] /\ unread'[d] = unread[d]
  BY DEF IInv, StepFrame, OnlyProceeds
<1>2. LockAgrees(d)'
  BY <1>1, StoreAssumption DEF ProcessAgrees, LockAgrees, StepFrame, LockStep
<1>3. KindAgrees(d)' /\ IdAgrees(d)'
  BY <1>1 DEF ProcessAgrees, KindAgrees, IdAgrees
<1>4. op[d].step \in Critical => UNCHANGED <<inputs, stored, diskStored, born>>
  BY <1>1 DEF ProcessAgrees, LockAgrees, StepFrame
<1>5. ReservationAgrees(d)'
  BY <1>1, <1>4 DEF ProcessAgrees, ReservationAgrees, Unused, StepFrame, Critical
<1>6. PublicationAgrees(d)'
  BY <1>1, <1>4 DEF ProcessAgrees, PublicationAgrees, Critical
<1>7. ReadStaysTrue(d)'
  BY <1>1 DEF ProcessAgrees, LockAgrees, ReadStaysTrue, StepFrame
<1> QED BY <1>2, <1>3, <1>5, <1>6, <1>7 DEF ProcessAgrees

(* Steps that leave the files and the histories alone. *)
LEMMA QuietKeeps ==
  ASSUME IInv, StoreTypeOK', NEW c \in Procs, StepFrame(c), ProcessAgrees(c)',
         UNCHANGED <<inputs, stored, diskInputs, diskStored, born, acked>>
  PROVE IInv'
<1>1. CreatedIdsBurned' /\ FoundIdsBurned' /\ AckedIsDurable'
  BY DEF IInv, CreatedIdsBurned, FoundIdsBurned, AckedIsDurable, StepFrame
<1> QED BY <1>1, OthersAgree DEF IInv

(* Returning without touching a file keeps the invariant. *)
LEMMA QuietReturnKeeps ==
  ASSUME IInv, NEW c \in Procs, NEW result \in Reports, Return(c, result),
         UNCHANGED <<inputs, stored, diskInputs, diskStored, born, acked, powerLost>>,
         problemDir' \in BOOLEAN, lockFile' = lockFile,
         seen' \in [Procs -> [Ids -> MaybeContents]], unread' \in [Procs -> SUBSET Ids],
         edit' \in [Procs -> [id : 0 .. MaxId, content : MaybeContents]],
         edit'[c] # NoEdit => edit'[c].id \in Ids,
         \A d \in Procs \ {c} : edit'[d] = edit[d] /\ seen'[d] = seen[d] /\ unread'[d] = unread[d]
  PROVE IInv'
<1>1. /\ OperationsTyped' /\ OnlyProceeds(c) /\ op'[c] = Idle
      /\ lock' \in Procs \cup {NoOne} /\ lock' = IF lock = c THEN NoOne ELSE lock
  BY ReturnEffect DEF IInv
<1>2. StoreTypeOK'
  BY <1>1 DEF IInv, StoreTypeOK, OperationsTyped, Operation, Kinds
<1>3. ProcessAgrees(c)'
  BY <1>1, IdleAgrees
<1>4. StepFrame(c)
  BY <1>1 DEF StepFrame, LockStep
<1> QED BY <1>2, <1>3, <1>4, QuietKeeps

(* What a process knows of its own operation. *)
LEMMA Known ==
  ASSUME IInv, NEW c \in Procs
  PROVE /\ StoreTypeOK /\ op[c] \in Operation /\ ProcessAgrees(c)
        /\ edit[c] # NoEdit => edit[c].id \in Ids
BY DEF IInv, StoreTypeOK, Operation, Kinds, ProcessAgrees, IdAgrees

-----------------------------------------------------------------------------
(* One lemma per action: it preserves the invariant. *)
LEMMA BeginCreateKeeps ==
  ASSUME IInv, NEW c \in Procs, NEW content \in Contents, BeginCreate(c, content)
  PROVE IInv'
<1> USE DEF files, reading, history
<1>1. /\ Start(c, "create", "lock", 0, content)
      /\ lockFile' = TRUE
      /\ UNCHANGED <<edit, inputs, stored, diskInputs, diskStored, problemDir, lock, seen, unread,
                     born, acked, powerLost>>
  BY Known DEF BeginCreate
<1>2. /\ "create" \in Kinds /\ "lock" \in Steps
      /\ 0 \in 0 .. MaxId /\ content \in MaybeContents
  BY Known, StoreAssumption DEF Kinds, Steps, MaybeContents, StoreTypeOK, Ids
<1>3. /\ OperationsTyped' /\ OnlyProceeds(c)
      /\ op'[c] = [kind |-> "create", step |-> "lock", id |-> 0, content |-> content]
  BY <1>1, <1>2, Known, StartEffect
<1>4. StoreTypeOK'
  BY <1>1, <1>3, Known DEF StoreTypeOK, OperationsTyped, Operation, Kinds
<1>5. ProcessAgrees(c)'
  BY <1>1, <1>3, Known DEF ProcessAgrees, LockAgrees, KindAgrees, IdAgrees, ReservationAgrees,
        PublicationAgrees, ReadStaysTrue,
         Critical
<1>6. StepFrame(c)
  BY <1>1, <1>3 DEF StepFrame, LockStep
<1> QED BY <1>1, <1>4, <1>5, <1>6, QuietKeeps

LEMMA BeginSaveKeeps ==
  ASSUME IInv, NEW c \in Procs, NEW content \in Contents, BeginSave(c, content)
  PROVE IInv'
<1> USE DEF files, reading, history
<1>1. CASE ~problemDir
  <2>1. /\ UNCHANGED <<op, edit, inputs, stored, diskInputs, diskStored, problemDir, lock, lockFile,
                     seen, unread, born, acked, powerLost>>
        /\ report' = [report EXCEPT ![c] = "missing"]
    BY <1>1 DEF BeginSave
  <2>2. StoreTypeOK'
    BY <2>1, Known DEF StoreTypeOK, Reports
  <2>3. ProcessAgrees(c)'
    BY <2>1, Known DEF ProcessAgrees, LockAgrees, KindAgrees, IdAgrees, ReservationAgrees,
          PublicationAgrees, ReadStaysTrue,
           Critical, Unused
  <2>4. StepFrame(c)
    BY <2>1 DEF StepFrame, LockStep, OnlyProceeds
  <2> QED BY <2>1, <2>2, <2>3, <2>4, QuietKeeps
<1>2. CASE problemDir
  <2>1. /\ Start(c, "save", "lock", edit[c].id, content)
        /\ lockFile' = TRUE
        /\ UNCHANGED <<edit, inputs, stored, diskInputs, diskStored, problemDir, lock, seen, unread,
                       born, acked, powerLost>>
    BY <1>2, Known DEF BeginSave
  <2>2. /\ "save" \in Kinds /\ "lock" \in Steps
        /\ edit[c].id \in 0 .. MaxId /\ content \in MaybeContents
    BY <1>2, Known, StoreAssumption DEF Kinds, Steps, MaybeContents, StoreTypeOK, Ids, BeginSave
  <2>3. /\ OperationsTyped' /\ OnlyProceeds(c)
        /\ op'[c] = [kind |-> "save", step |-> "lock", id |-> edit[c].id, content |-> content]
    BY <2>1, <2>2, Known, StartEffect
  <2>4. StoreTypeOK'
    BY <2>1, <2>3, Known DEF StoreTypeOK, OperationsTyped, Operation, Kinds
  <2>5. ProcessAgrees(c)'
    BY <2>1, <2>3, Known DEF ProcessAgrees, LockAgrees, KindAgrees, IdAgrees, ReservationAgrees,
          PublicationAgrees, ReadStaysTrue,
           Critical, BeginSave
  <2>6. StepFrame(c)
    BY <2>1, <2>3 DEF StepFrame, LockStep
  <2> QED BY <2>1, <2>4, <2>5, <2>6, QuietKeeps
<1> QED BY <1>1, <1>2

LEMMA BeginDeleteKeeps ==
  ASSUME IInv, NEW c \in Procs, NEW id \in Ids, BeginDelete(c, id)
  PROVE IInv'
<1> USE DEF files, reading, history
<1>1. CASE ~problemDir
  <2>1. /\ UNCHANGED <<op, edit, inputs, stored, diskInputs, diskStored, problemDir, lock, lockFile,
                     seen, unread, born, acked, powerLost>>
        /\ report' = [report EXCEPT ![c] = "missing"]
    BY <1>1 DEF BeginDelete
  <2>2. StoreTypeOK'
    BY <2>1, Known DEF StoreTypeOK, Reports
  <2>3. ProcessAgrees(c)'
    BY <2>1, Known DEF ProcessAgrees, LockAgrees, KindAgrees, IdAgrees, ReservationAgrees,
          PublicationAgrees, ReadStaysTrue,
           Critical, Unused
  <2>4. StepFrame(c)
    BY <2>1 DEF StepFrame, LockStep, OnlyProceeds
  <2> QED BY <2>1, <2>2, <2>3, <2>4, QuietKeeps
<1>2. CASE problemDir
  <2>1. /\ Start(c, "delete", "lock", id, Absent)
        /\ lockFile' = TRUE
        /\ UNCHANGED <<edit, inputs, stored, diskInputs, diskStored, problemDir, lock, seen, unread,
                       born, acked, powerLost>>
    BY <1>2, Known DEF BeginDelete
  <2>2. /\ "delete" \in Kinds /\ "lock" \in Steps
        /\ id \in 0 .. MaxId /\ Absent \in MaybeContents
    BY <1>2, Known, StoreAssumption DEF Kinds, Steps, MaybeContents, StoreTypeOK, Ids
  <2>3. /\ OperationsTyped' /\ OnlyProceeds(c)
        /\ op'[c] = [kind |-> "delete", step |-> "lock", id |-> id, content |-> Absent]
    BY <2>1, <2>2, Known, StartEffect
  <2>4. StoreTypeOK'
    BY <2>1, <2>3, Known DEF StoreTypeOK, OperationsTyped, Operation, Kinds
  <2>5. ProcessAgrees(c)'
    BY <2>1, <2>3, Known DEF ProcessAgrees, LockAgrees, KindAgrees, IdAgrees, ReservationAgrees,
          PublicationAgrees, ReadStaysTrue,
           Critical
  <2>6. StepFrame(c)
    BY <2>1, <2>3 DEF StepFrame, LockStep
  <2> QED BY <2>1, <2>4, <2>5, <2>6, QuietKeeps
<1> QED BY <1>1, <1>2

LEMMA LockExclusiveKeeps ==
  ASSUME IInv, NEW c \in Procs, LockExclusive(c)
  PROVE IInv'
<1> USE DEF files, reading, history
<1>1. /\ AfterLock(op[c].kind) \in Steps /\ Goto(c, AfterLock(op[c].kind))
      /\ op[c].step = "lock" /\ lock = NoOne /\ lock' = c
      /\ UNCHANGED <<edit, inputs, stored, diskInputs, diskStored, problemDir, lockFile, seen, unread,
                     born, acked, powerLost>>
  BY DEF LockExclusive, ExclusiveAvailable, AfterLock, Steps
<1>2. OperationsTyped' /\ OnlyProceeds(c) /\ op'[c] = [op[c] EXCEPT !.step = AfterLock(op[c].kind)]
  BY <1>1, Known, GotoEffect
<1>3. StoreTypeOK'
  BY <1>1, <1>2, Known DEF StoreTypeOK, OperationsTyped, Operation, Kinds
<1>4. /\ op'[c].kind = op[c].kind /\ op'[c].id = op[c].id
      /\ op'[c].step = AfterLock(op[c].kind)
  BY <1>2, Known DEF Operation
<1>5. ProcessAgrees(c)'
  BY <1>1, <1>4, Known DEF ProcessAgrees, LockAgrees, KindAgrees, IdAgrees, ReservationAgrees,
        PublicationAgrees, ReadStaysTrue,
         Critical, AfterLock
<1>6. StepFrame(c)
  BY <1>1, <1>2 DEF StepFrame, LockStep
<1> QED BY <1>1, <1>3, <1>5, <1>6, QuietKeeps

LEMMA ScanKeeps ==
  ASSUME IInv, NEW c \in Procs, Scan(c)
  PROVE IInv'
<1> USE DEF files, reading, history
<1>1. /\ op[c].step = "scan" /\ problemDir' = TRUE
      /\ UNCHANGED <<inputs, stored, diskInputs, diskStored, lockFile, seen, unread, edit, born, acked,
            powerLost>>
  BY DEF Scan
<1>2. CASE Return(c, "before")
  BY <1>1, <1>2, Known, QuietReturnKeeps DEF StoreTypeOK, Reports
<1>3. ASSUME NEW n \in Ids, EffectiveNext(n), HasFollowing(n),
             op' = [op EXCEPT ![c].step = "reserve", ![c].id = n], UNCHANGED <<lock, report>>
      PROVE IInv'
  <2>1. /\ op'[c].step = "reserve" /\ op'[c].id = n /\ op'[c].kind = op[c].kind
        /\ OnlyProceeds(c)
    BY <1>3, Known DEF StoreTypeOK, Operation, OnlyProceeds
  <2>2. op' \in [Procs -> Operation]
    <3>1. "reserve" \in Steps /\ n \in 0 .. MaxId
      BY StoreAssumption DEF Steps, Ids
    <3> QED BY <1>3, <3>1, Known DEF StoreTypeOK, Operation, Kinds
  <2>3. StoreTypeOK'
    BY <1>1, <1>3, <2>2, Known DEF StoreTypeOK, Operation, Kinds
  <2>4. Unused(n)
    BY <1>3, Known DEF IInv, EffectiveNext, Present, CreatedIdsBurned, FoundIdsBurned, Unused,
          StoreTypeOK, Ids
  <2>5. ProcessAgrees(c)'
    BY <1>1, <1>3, <2>1, <2>4, Known
    DEF ProcessAgrees, LockAgrees, KindAgrees, IdAgrees, ReservationAgrees, PublicationAgrees,
    ReadStaysTrue,
           Critical, Unused, EffectiveNext, HasFollowing
  <2>6. StepFrame(c)
    BY <1>1, <1>3, <2>1 DEF StepFrame, LockStep
  <2> QED BY <1>1, <2>3, <2>5, <2>6, QuietKeeps
<1> QED BY <1>2, <1>3 DEF Scan

LEMMA ReserveKeeps ==
  ASSUME IInv, NEW c \in Procs, Reserve(c)
  PROVE IInv'
<1> USE DEF files, reading, history
<1>1. /\ op[c].step = "reserve" /\ WriteStored(op[c].id + 1) /\ Goto(c, "syncReserve")
      /\ UNCHANGED <<inputs, diskInputs, problemDir, lockFile, lock, seen, unread, edit, born, acked,
            powerLost>>
  BY DEF Reserve
<1>2. OperationsTyped' /\ OnlyProceeds(c) /\ op'[c] = [op[c] EXCEPT !.step = "syncReserve"]
  BY <1>1, Known, GotoEffect DEF Steps
<1>3. /\ op'[c].kind = op[c].kind /\ op'[c].id = op[c].id /\ op'[c].step = "syncReserve"
      /\ op[c].id \in Ids /\ op[c].id < MaxId /\ Unused(op[c].id) /\ stored <= op[c].id
  BY <1>1, <1>2, Known DEF Operation, ProcessAgrees, ReservationAgrees
<1>4. stored' = op[c].id + 1 /\ stored' \in 0 .. MaxId /\ diskStored' = diskStored \cup {stored'}
  BY <1>1, <1>3, StoreAssumption DEF WriteStored, Ids
<1>5. StoreTypeOK'
  BY <1>1, <1>2, <1>4, Known DEF StoreTypeOK, OperationsTyped, Operation, Kinds
<1>6. ProcessAgrees(c)'
  BY <1>1, <1>3, <1>4, Known DEF ProcessAgrees, LockAgrees, KindAgrees, IdAgrees, ReservationAgrees,
        PublicationAgrees, ReadStaysTrue,
         Critical, Unused
<1>7. StepFrame(c)
  BY <1>1, <1>2 DEF StepFrame, LockStep, Critical
<1>8. CreatedIdsBurned'
  BY <1>1, <1>3, <1>4, Known DEF IInv, CreatedIdsBurned, StoreTypeOK, Ids
<1>9. FoundIdsBurned' /\ AckedIsDurable'
  BY <1>1, <1>3, <1>4, Known DEF IInv, FoundIdsBurned, AckedIsDurable, StoreTypeOK, Ids
<1> QED BY <1>5, <1>6, <1>7, <1>8, <1>9, OthersAgree DEF IInv

(* A sync makes the disk agree with what processes see. *)
LEMMA SyncEffect ==
  ASSUME IInv, Sync, UNCHANGED <<inputs, stored, born, powerLost>>, acked' \in SUBSET Ids
  PROVE /\ diskInputs' \in [Ids -> SUBSET MaybeContents]
        /\ diskStored' \in SUBSET (0 .. MaxId) /\ diskStored' = {stored'}
        /\ CreatedIdsBurned' /\ FoundIdsBurned' /\ AckedIsDurable'
BY DEF Sync, IInv, StoreTypeOK, CreatedIdsBurned, FoundIdsBurned, AckedIsDurable

LEMMA SyncReserveKeeps ==
  ASSUME IInv, NEW c \in Procs, SyncReserve(c)
  PROVE IInv'
<1> USE DEF files, reading, history
<1>1. /\ op[c].step = "syncReserve" /\ Sync /\ Goto(c, "install")
      /\ UNCHANGED <<inputs, stored, problemDir, lockFile, lock, seen, unread, edit, born, acked,
            powerLost>>
  BY DEF SyncReserve
<1>2. OperationsTyped' /\ OnlyProceeds(c) /\ op'[c] = [op[c] EXCEPT !.step = "install"]
  BY <1>1, Known, GotoEffect DEF Steps
<1>3. /\ diskInputs' \in [Ids -> SUBSET MaybeContents]
      /\ diskStored' \in SUBSET (0 .. MaxId) /\ diskStored' = {stored'}
      /\ CreatedIdsBurned' /\ FoundIdsBurned' /\ AckedIsDurable'
  BY <1>1, Known, SyncEffect DEF StoreTypeOK
<1>4. StoreTypeOK'
  BY <1>1, <1>2, <1>3, Known DEF StoreTypeOK, OperationsTyped, Operation, Kinds
<1>5. op'[c].kind = op[c].kind /\ op'[c].id = op[c].id /\ op'[c].step = "install"
  BY <1>2, Known DEF Operation
<1>6. ProcessAgrees(c)'
  BY <1>1, <1>3, <1>5, Known DEF ProcessAgrees, LockAgrees, KindAgrees, IdAgrees, ReservationAgrees,
        PublicationAgrees, ReadStaysTrue,
         Critical, Unused
<1>7. StepFrame(c)
  BY <1>1, <1>2 DEF StepFrame, LockStep, Critical
<1> QED BY <1>3, <1>4, <1>6, <1>7, OthersAgree DEF IInv

(* Writing an input: its type, and what stays durable. *)
LEMMA WriteInputEffect ==
  ASSUME IInv, NEW i \in Ids, NEW content \in MaybeContents, WriteInput(i, content)
  PROVE /\ inputs' \in [Ids -> MaybeContents] /\ inputs'[i] = content
        /\ \A j \in Ids \ {i} : inputs'[j] = inputs[j]
        /\ diskInputs' \in [Ids -> SUBSET MaybeContents]
        /\ acked' \in SUBSET Ids
        /\ AckedIsDurable'
BY DEF WriteInput, IInv, StoreTypeOK, AckedIsDurable

LEMMA InstallKeeps ==
  ASSUME IInv, NEW c \in Procs, Install(c)
  PROVE IInv'
<1> USE DEF files, reading, history
<1>1. /\ op[c].step = "install"
      /\ UNCHANGED <<stored, diskStored, problemDir, lockFile, seen, unread, edit, powerLost>>
  BY DEF Install
<1>2. /\ op[c].id \in Ids /\ op[c].content \in MaybeContents
      /\ stored = op[c].id + 1 /\ diskStored = {stored}
  BY <1>1, Known DEF ProcessAgrees, ReservationAgrees, Operation
<1>3. CASE inputs[op[c].id] = Absent
  <2>1. /\ WriteInput(op[c].id, op[c].content) /\ Goto(c, "syncInstall")
        /\ born' = [born EXCEPT ![op[c].id] = "created"] /\ lock' = lock
    BY <1>3 DEF Install
  <2>2. OperationsTyped' /\ OnlyProceeds(c) /\ op'[c] = [op[c] EXCEPT !.step = "syncInstall"]
    BY <2>1, Known, GotoEffect DEF Steps
  <2>3. /\ inputs' \in [Ids -> MaybeContents] /\ inputs'[op[c].id] = op[c].content
        /\ \A j \in Ids \ {op[c].id} : inputs'[j] = inputs[j]
        /\ diskInputs' \in [Ids -> SUBSET MaybeContents] /\ acked' \in SUBSET Ids
        /\ AckedIsDurable'
    BY <1>2, <2>1, WriteInputEffect
  <2>4. StoreTypeOK'
    BY <1>1, <2>1, <2>2, <2>3, Known DEF StoreTypeOK, OperationsTyped, Operation, Kinds
  <2>5. op'[c].kind = op[c].kind /\ op'[c].id = op[c].id /\ op'[c].step = "syncInstall"
    BY <2>2, Known DEF Operation
  <2>6. ProcessAgrees(c)'
    BY <1>1, <1>2, <2>1, <2>5, Known DEF ProcessAgrees, LockAgrees, KindAgrees, IdAgrees,
          ReservationAgrees, PublicationAgrees, ReadStaysTrue,
           Critical
  <2>7. StepFrame(c)
    BY <1>1, <2>1, <2>2 DEF StepFrame, LockStep, Critical
  <2>8. CreatedIdsBurned'
    BY <1>1, <1>2, <2>1, Known DEF IInv, CreatedIdsBurned, StoreTypeOK, Ids
  <2>9. FoundIdsBurned'
    BY <1>1, <1>2, <2>1, <2>3, Known DEF IInv, FoundIdsBurned, StoreTypeOK
  <2> QED BY <2>3, <2>4, <2>6, <2>7, <2>8, <2>9, OthersAgree DEF IInv
<1>4. CASE inputs[op[c].id] # Absent
  <2>1. Return(c, "before") /\ UNCHANGED <<inputs, diskInputs, born, acked>>
    BY <1>4 DEF Install
  <2> QED BY <1>1, <2>1, Known, QuietReturnKeeps DEF StoreTypeOK, Reports
<1> QED BY <1>3, <1>4

LEMMA SyncInstallKeeps ==
  ASSUME IInv, NEW c \in Procs, SyncInstall(c)
  PROVE IInv'
<1> USE DEF files, reading, history
<1>1. /\ op[c].step = "syncInstall" /\ Sync /\ Return(c, "created")
      /\ acked' = acked \cup {op[c].id}
      /\ UNCHANGED <<inputs, stored, problemDir, lockFile, seen, unread, edit, born, powerLost>>
  BY DEF SyncInstall, SyncAfterPublish
<1>2. /\ OperationsTyped' /\ OnlyProceeds(c) /\ op'[c] = Idle
      /\ lock' \in Procs \cup {NoOne} /\ lock' = IF lock = c THEN NoOne ELSE lock
  BY <1>1, Known, ReturnEffect DEF Reports
<1>3. op[c].id \in Ids /\ acked' \in SUBSET Ids
  BY <1>1, Known DEF ProcessAgrees, ReservationAgrees, StoreTypeOK
<1>4. /\ diskInputs' \in [Ids -> SUBSET MaybeContents] /\ diskStored' \in SUBSET (0 .. MaxId)
      /\ CreatedIdsBurned' /\ FoundIdsBurned' /\ AckedIsDurable'
  BY <1>1, <1>3, SyncEffect
<1>5. StoreTypeOK'
  BY <1>1, <1>2, <1>3, <1>4, Known DEF StoreTypeOK, OperationsTyped, Operation, Kinds
<1>6. ProcessAgrees(c)'
  BY <1>1, <1>2, Known, IdleAgrees
<1>7. StepFrame(c)
  BY <1>1, <1>2 DEF StepFrame, LockStep, Critical
<1> QED BY <1>4, <1>5, <1>6, <1>7, OthersAgree DEF IInv

(* Going on without touching a file keeps the invariant when the process *)
(* agrees with its next step.                                             *)
LEMMA QuietGotoKeeps ==
  ASSUME IInv, NEW c \in Procs, NEW step \in Steps, Goto(c, step), ProcessAgrees(c)',
         UNCHANGED <<inputs, stored, diskInputs, diskStored, problemDir, lockFile, lock, unread, edit,
                     born, acked, powerLost>>,
         seen' \in [Procs -> [Ids -> MaybeContents]], \A d \in Procs \ {c} : seen'[d] = seen[d]
  PROVE IInv'
<1>1. OperationsTyped' /\ OnlyProceeds(c)
  BY Known, GotoEffect
<1>2. StoreTypeOK'
  BY <1>1, Known DEF StoreTypeOK, OperationsTyped, Operation, Kinds
<1>3. StepFrame(c)
  BY <1>1 DEF StepFrame, LockStep
<1> QED BY <1>2, <1>3, QuietKeeps

LEMMA CompareKeeps ==
  ASSUME IInv, NEW c \in Procs, Compare(c)
  PROVE IInv'
<1> USE DEF files, reading, history
<1>1. op[c].step = "compare" /\ UNCHANGED <<inputs, stored, diskInputs, diskStored, problemDir, lockFile,
                                         seen, unread, edit, born, acked, powerLost>>
  BY DEF Compare
<1>2. ASSUME NEW result \in Reports, Return(c, result) PROVE IInv'
  BY <1>1, <1>2, Known, QuietReturnKeeps DEF StoreTypeOK
<1>3. ASSUME Goto(c, "reconcile"), UNCHANGED lock,
             inputs[op[c].id] # Absent, MatchesExpected(c)
      PROVE IInv'
  <2>1. Goto(c, "reconcile") /\ UNCHANGED lock
    BY <1>3
  <2>2. /\ op'[c].kind = op[c].kind /\ op'[c].id = op[c].id
        /\ op'[c].step = "reconcile"
    <3>1. StoreTypeOK
      BY Known
    <3>2. "reconcile" \in Steps
      BY DEF Steps
    <3> QED BY <2>1, <3>1, <3>2, GotoFields
  <2>3. ProcessAgrees(c)'
    BY <1>1, <1>3, <2>1, <2>2, Known DEF ProcessAgrees, LockAgrees, KindAgrees, IdAgrees,
          ReservationAgrees, PublicationAgrees, ReadStaysTrue,
           Critical, MatchesExpected
  <2> QED BY <1>1, <1>3, <2>1, <2>3, Known, QuietGotoKeeps DEF StoreTypeOK, Steps
<1> QED BY <1>1, <1>2, <1>3, Known DEF Compare, Reports

LEMMA TargetKeeps ==
  ASSUME IInv, NEW c \in Procs, Target(c)
  PROVE IInv'
<1> USE DEF files, reading, history
<1>1. op[c].step = "target" /\ UNCHANGED <<inputs, stored, diskInputs, diskStored, problemDir, lockFile,
                                         seen, unread, edit, born, acked, powerLost>>
  BY DEF Target
<1>2. ASSUME NEW result \in Reports, Return(c, result) PROVE IInv'
  BY <1>1, <1>2, Known, QuietReturnKeeps DEF StoreTypeOK
<1>3. ASSUME Goto(c, "reconcile"), UNCHANGED lock,
             inputs[op[c].id] # Absent, op[c].kind = "delete"
      PROVE IInv'
  <2>1. Goto(c, "reconcile") /\ UNCHANGED lock
    BY <1>3
  <2>2. /\ op'[c].kind = op[c].kind /\ op'[c].id = op[c].id
        /\ op'[c].step = "reconcile"
    <3>1. StoreTypeOK
      BY Known
    <3>2. "reconcile" \in Steps
      BY DEF Steps
    <3> QED BY <2>1, <3>1, <3>2, GotoFields
  <2>3. ProcessAgrees(c)'
    BY <1>1, <1>3, <2>1, <2>2, Known DEF ProcessAgrees, LockAgrees, KindAgrees, IdAgrees,
          ReservationAgrees, PublicationAgrees, ReadStaysTrue,
           Critical
  <2> QED BY <1>1, <1>3, <2>1, <2>3, Known, QuietGotoKeeps DEF StoreTypeOK, Steps
<1> QED BY <1>1, <1>2, <1>3, Known DEF Target, Reports, ProcessAgrees, KindAgrees

(* What raises the metadata keeps the other facts about it. *)
LEMMA WriteStoredEffect ==
  ASSUME IInv, NEW n \in Ids, stored <= n, WriteStored(n),
         UNCHANGED <<inputs, diskInputs, born, acked, powerLost>>
  PROVE /\ stored' = n /\ stored' \in 0 .. MaxId /\ diskStored' \in SUBSET (0 .. MaxId)
        /\ CreatedIdsBurned' /\ FoundIdsBurned' /\ AckedIsDurable'
<1>1. stored \in Nat /\ n \in Nat /\ stored' = n /\ n \in 0 .. MaxId
  BY StoreAssumption DEF IInv, StoreTypeOK, WriteStored, Ids
<1>2. CreatedIdsBurned'
  BY <1>1 DEF IInv, CreatedIdsBurned, WriteStored, Ids
<1>3. FoundIdsBurned' /\ AckedIsDurable'
  BY <1>1 DEF IInv, FoundIdsBurned, AckedIsDurable, WriteStored, Ids
<1> QED BY <1>1, <1>2, <1>3 DEF WriteStored, IInv, StoreTypeOK

LEMMA CommitIsStep == ASSUME NEW kind PROVE Commit(kind) \in Steps
BY DEF Commit, Steps

LEMMA ReconcileKeeps ==
  ASSUME IInv, NEW c \in Procs, Reconcile(c)
  PROVE IInv'
<1> USE DEF files, reading, history
<1>1. /\ op[c].step = "reconcile"
      /\ UNCHANGED <<inputs, diskInputs, problemDir, lockFile, seen, unread, edit, born, acked, powerLost>>
  BY DEF Reconcile
<1>2. /\ op[c].id \in Ids /\ op[c].id \in Present /\ op[c].kind \in {"save", "delete"}
      /\ stored \in Nat
  BY <1>1, Known DEF ProcessAgrees, KindAgrees, IdAgrees, PublicationAgrees, Present, StoreTypeOK
<1>3. CASE /\ EffectiveNext(stored) /\ Goto(c, Commit(op[c].kind))
           /\ UNCHANGED <<stored, diskStored, lock>>
  <2>1. Goto(c, Commit(op[c].kind)) /\ UNCHANGED lock /\ op[c].id < stored /\ Commit(op[c].kind) \in Steps
    BY <1>2, <1>3, CommitIsStep DEF EffectiveNext
  <2>2. /\ op'[c].kind = op[c].kind /\ op'[c].id = op[c].id
        /\ op'[c].step = Commit(op[c].kind)
    BY <2>1, Known, GotoEffect DEF Operation
  <2>3. ProcessAgrees(c)'
    BY <1>1, <1>2, <1>3, <2>1, <2>2, Known DEF ProcessAgrees, LockAgrees, KindAgrees, IdAgrees,
          ReservationAgrees, PublicationAgrees, ReadStaysTrue,
           Critical, Commit
  <2> QED BY <1>1, <1>2, <1>3, <2>1, <2>3, Known, QuietGotoKeeps DEF StoreTypeOK
<1>4. ASSUME NEW n \in Ids, EffectiveNext(n), WriteStored(n), Goto(c, "syncReconcile"), UNCHANGED lock
      PROVE IInv'
  <2>1. op[c].id < n /\ stored <= n
    BY <1>2, <1>4 DEF EffectiveNext
  <2>2. /\ stored' = n /\ stored' \in 0 .. MaxId /\ diskStored' \in SUBSET (0 .. MaxId)
        /\ CreatedIdsBurned' /\ FoundIdsBurned' /\ AckedIsDurable'
    BY <1>1, <1>4, <2>1, WriteStoredEffect
  <2>3. OperationsTyped' /\ OnlyProceeds(c) /\ op'[c] = [op[c] EXCEPT !.step = "syncReconcile"]
    BY <1>4, Known, GotoEffect DEF Steps
  <2>4. op'[c].kind = op[c].kind /\ op'[c].id = op[c].id /\ op'[c].step = "syncReconcile"
    BY <2>3, Known DEF Operation
  <2>5. StoreTypeOK'
    BY <1>1, <1>4, <2>2, <2>3, Known DEF StoreTypeOK, OperationsTyped, Operation, Kinds
  <2>6. ProcessAgrees(c)'
    BY <1>1, <1>2, <1>4, <2>1, <2>2, <2>4, Known DEF ProcessAgrees, LockAgrees, KindAgrees, IdAgrees,
          ReservationAgrees, PublicationAgrees, ReadStaysTrue,
           Critical
  <2>7. StepFrame(c)
    BY <1>1, <1>4, <2>3 DEF StepFrame, LockStep, Critical
  <2> QED BY <2>2, <2>5, <2>6, <2>7, OthersAgree DEF IInv
<1>5. CASE Return(c, "error") /\ UNCHANGED <<stored, diskStored>>
  BY <1>1, <1>5, Known, QuietReturnKeeps DEF StoreTypeOK, Reports
<1> QED BY <1>3, <1>4, <1>5 DEF Reconcile, ReconcileMetadata

LEMMA SyncReconcileKeeps ==
  ASSUME IInv, NEW c \in Procs, SyncReconcile(c)
  PROVE IInv'
<1> USE DEF files, reading, history
<1>1. /\ op[c].step = "syncReconcile" /\ Sync /\ Goto(c, Commit(op[c].kind))
      /\ UNCHANGED <<inputs, stored, problemDir, lockFile, lock, seen, unread, edit, born, acked,
            powerLost>>
  BY DEF SyncReconcile
<1>2. OperationsTyped' /\ OnlyProceeds(c) /\ op'[c] = [op[c] EXCEPT !.step = Commit(op[c].kind)]
  BY <1>1, Known, CommitIsStep, GotoEffect
<1>3. /\ diskInputs' \in [Ids -> SUBSET MaybeContents]
      /\ diskStored' \in SUBSET (0 .. MaxId) /\ diskStored' = {stored'}
      /\ CreatedIdsBurned' /\ FoundIdsBurned' /\ AckedIsDurable'
  BY <1>1, Known, SyncEffect DEF StoreTypeOK
<1>4. StoreTypeOK'
  BY <1>1, <1>2, <1>3, Known DEF StoreTypeOK, OperationsTyped, Operation, Kinds
<1>5. op'[c].kind = op[c].kind /\ op'[c].id = op[c].id /\ op'[c].step = Commit(op[c].kind)
  BY <1>2, Known DEF Operation
<1>6. ProcessAgrees(c)'
  BY <1>1, <1>5, Known DEF ProcessAgrees, LockAgrees, KindAgrees, IdAgrees, ReservationAgrees,
        PublicationAgrees, ReadStaysTrue,
         Critical, Commit
<1>7. StepFrame(c)
  BY <1>1, <1>2 DEF StepFrame, LockStep, Critical
<1> QED BY <1>3, <1>4, <1>6, <1>7, OthersAgree DEF IInv

LEMMA PublishKeeps ==
  ASSUME IInv, NEW c \in Procs, Publish(c)
  PROVE IInv'
<1> USE DEF files, reading, history
<1> DEFINE next == IF op[c].step = "replace" THEN "syncReplace" ELSE "syncRemove"
<1>1. /\ op[c].step \in {"replace", "remove"} /\ WriteInput(op[c].id, op[c].content)
      /\ Goto(c, next)
      /\ UNCHANGED <<stored, diskStored, problemDir, lockFile, lock, seen, unread, edit, born, powerLost>>
  BY DEF Publish
<1>2. /\ op[c].id \in Ids /\ op[c].content \in MaybeContents /\ op[c].id < stored
      /\ op[c].kind \in {"save", "delete"}
  BY <1>1, Known DEF ProcessAgrees, KindAgrees, IdAgrees, PublicationAgrees, Operation
<1>3. next \in Steps
  BY DEF Steps
<1>4. OperationsTyped' /\ OnlyProceeds(c) /\ op'[c] = [op[c] EXCEPT !.step = next]
  BY <1>1, <1>3, Known, GotoEffect
<1>5. /\ inputs' \in [Ids -> MaybeContents] /\ inputs'[op[c].id] = op[c].content
      /\ \A j \in Ids \ {op[c].id} : inputs'[j] = inputs[j]
      /\ diskInputs' \in [Ids -> SUBSET MaybeContents] /\ acked' \in SUBSET Ids
      /\ AckedIsDurable'
  BY <1>1, <1>2, WriteInputEffect
<1>6. StoreTypeOK'
  BY <1>1, <1>4, <1>5, Known DEF StoreTypeOK, OperationsTyped, Operation, Kinds
<1>7. op'[c].kind = op[c].kind /\ op'[c].id = op[c].id /\ op'[c].step = next
  BY <1>4, Known DEF Operation
<1>8. ProcessAgrees(c)'
  BY <1>1, <1>2, <1>7, Known DEF ProcessAgrees, LockAgrees, KindAgrees, IdAgrees, ReservationAgrees,
        PublicationAgrees, ReadStaysTrue,
         Critical
<1>9. StepFrame(c)
  BY <1>1, <1>4 DEF StepFrame, LockStep, Critical
<1>10. CreatedIdsBurned' /\ FoundIdsBurned'
  BY <1>1, <1>2, <1>5, Known DEF IInv, CreatedIdsBurned, FoundIdsBurned
<1> QED BY <1>5, <1>6, <1>8, <1>9, <1>10, OthersAgree DEF IInv

LEMMA SyncPublishKeeps ==
  ASSUME IInv, NEW c \in Procs, SyncPublish(c)
  PROVE IInv'
<1> USE DEF files, reading, history
<1> DEFINE result == IF op[c].step = "syncReplace" THEN "saved" ELSE "deleted"
<1>1. /\ op[c].step \in {"syncReplace", "syncRemove"} /\ Sync /\ Return(c, result)
      /\ edit' = [edit EXCEPT ![c] = IF op[c].step = "syncReplace" THEN NoEdit ELSE @]
      /\ acked' = acked \cup {op[c].id}
      /\ UNCHANGED <<inputs, stored, problemDir, lockFile, seen, unread, born, powerLost>>
  BY DEF SyncPublish, SyncAfterPublish
<1>2. /\ OperationsTyped' /\ OnlyProceeds(c) /\ op'[c] = Idle
      /\ lock' \in Procs \cup {NoOne} /\ lock' = IF lock = c THEN NoOne ELSE lock
  BY <1>1, Known, ReturnEffect DEF Reports
<1>3. op[c].id \in Ids /\ acked' \in SUBSET Ids
  BY <1>1, Known DEF ProcessAgrees, KindAgrees, IdAgrees, StoreTypeOK
<1>4. /\ diskInputs' \in [Ids -> SUBSET MaybeContents] /\ diskStored' \in SUBSET (0 .. MaxId)
      /\ CreatedIdsBurned' /\ FoundIdsBurned' /\ AckedIsDurable'
  BY <1>1, <1>3, SyncEffect
<1>5. /\ edit' \in [Procs -> [id : 0 .. MaxId, content : MaybeContents]]
      /\ edit'[c] # NoEdit => edit'[c].id \in Ids
      /\ \A d \in Procs \ {c} : edit'[d] = edit[d]
  BY <1>1, Known, StoreAssumption DEF StoreTypeOK, NoEdit, MaybeContents
<1>6. StoreTypeOK'
  BY <1>1, <1>2, <1>3, <1>4, <1>5, Known DEF StoreTypeOK, OperationsTyped, Operation, Kinds
<1>7. ProcessAgrees(c)'
  BY <1>2, <1>5, IdleAgrees
<1>8. StepFrame(c)
  BY <1>1, <1>2, <1>5 DEF StepFrame, LockStep, Critical
<1> QED BY <1>4, <1>6, <1>7, <1>8, OthersAgree DEF IInv

LEMMA BeginLoadKeeps ==
  ASSUME IInv, NEW c \in Procs, BeginLoad(c)
  PROVE IInv'
<1> USE DEF files, reading, history
<1> DEFINE step == IF lockFile THEN "loadLock" ELSE "optimistic"
<1>1. /\ Start(c, "load", step, 0, Absent)
      /\ unread' = [unread EXCEPT ![c] = IF lockFile THEN {} ELSE Ids]
      /\ UNCHANGED <<inputs, stored, diskInputs, diskStored, problemDir, lockFile, lock, seen, edit,
            born, acked, powerLost>>
  BY DEF BeginLoad
<1>2. "load" \in Kinds /\ step \in Steps /\ 0 \in 0 .. MaxId /\ Absent \in MaybeContents
  BY StoreAssumption DEF Kinds, Steps, MaybeContents
<1>3. /\ OperationsTyped' /\ OnlyProceeds(c)
      /\ op'[c] = [kind |-> "load", step |-> step, id |-> 0, content |-> Absent]
  BY <1>1, <1>2, Known, StartEffect
<1>4. StoreTypeOK'
  BY <1>1, <1>3, Known DEF StoreTypeOK, OperationsTyped, Operation, Kinds
<1>5. ProcessAgrees(c)'
  BY <1>1, <1>3, Known DEF ProcessAgrees, LockAgrees, KindAgrees, IdAgrees, ReservationAgrees,
        PublicationAgrees, ReadStaysTrue,
         Critical, StoreTypeOK
<1>6. StepFrame(c)
  BY <1>1, <1>3, Known DEF StepFrame, LockStep, StoreTypeOK
<1> QED BY <1>1, <1>4, <1>5, <1>6, QuietKeeps

LEMMA LoadMissingKeeps ==
  ASSUME IInv, NEW c \in Procs, LoadMissing(c)
  PROVE IInv'
<1> USE DEF files, reading, history
<1>1. /\ op[c].step = "idle" /\ report' = [report EXCEPT ![c] = "loaded"]
      /\ edit' = [edit EXCEPT ![c] = NoEdit]
      /\ UNCHANGED <<inputs, stored, diskInputs, diskStored, problemDir, lockFile, lock, op, seen, unread,
                     born, acked, powerLost>>
  BY DEF LoadMissing
<1>2. StoreTypeOK'
  BY <1>1, Known, StoreAssumption DEF StoreTypeOK, Reports, NoEdit, MaybeContents
<1>3. op[c].kind # "save"
  BY <1>1, Known DEF ProcessAgrees, KindAgrees, Idle
<1>4. ProcessAgrees(c)'
  BY <1>1, <1>3, Known DEF ProcessAgrees, LockAgrees, KindAgrees, IdAgrees, ReservationAgrees,
        PublicationAgrees,
         ReadStaysTrue, Critical, StoreTypeOK
<1>5. StepFrame(c)
  BY <1>1, Known DEF StepFrame, LockStep, OnlyProceeds, StoreTypeOK
<1> QED BY <1>1, <1>2, <1>4, <1>5, QuietKeeps

LEMMA ReturnLoadedKeeps ==
  ASSUME IInv, NEW c \in Procs, NEW loaded \in [Ids -> MaybeContents], ReturnLoaded(c, loaded),
         UNCHANGED <<inputs, stored, diskInputs, diskStored, problemDir, lockFile, unread,
                     born, acked, powerLost>>
  PROVE IInv'
<1>1. /\ Return(c, "loaded") /\ "loaded" \in Reports /\ NothingSeen \in [Ids -> MaybeContents]
      /\ seen' = [seen EXCEPT ![c] = NothingSeen]
  BY DEF ReturnLoaded, Reports, NothingSeen, MaybeContents
<1> DEFINE Opened(new) == /\ new \in [id : 0 .. MaxId, content : MaybeContents]
                          /\ edit' = [edit EXCEPT ![c] = new]
                          /\ new # NoEdit => new.id \in Ids
<1>2. \E new : Opened(new)
  <2>1. CASE edit' = [edit EXCEPT ![c] = NoEdit]
    <3>1. Opened(NoEdit)
      BY <2>1, StoreAssumption DEF NoEdit, MaybeContents
    <3> QED BY <3>1
  <2>2. ASSUME NEW i \in Ids, edit' = [edit EXCEPT ![c] = [id |-> i, content |-> loaded[i]]]
        PROVE \E new : Opened(new)
    <3>1. Opened([id |-> i, content |-> loaded[i]])
      BY <2>2, StoreAssumption DEF Ids
    <3> QED BY <3>1
  <2> QED BY <2>1, <2>2 DEF ReturnLoaded
<1>3. /\ edit' \in [Procs -> [id : 0 .. MaxId, content : MaybeContents]]
      /\ edit'[c] # NoEdit => edit'[c].id \in Ids
      /\ seen' \in [Procs -> [Ids -> MaybeContents]] /\ unread' \in [Procs -> SUBSET Ids]
      /\ problemDir' \in BOOLEAN
  BY <1>1, <1>2, Known DEF StoreTypeOK
<1>4. \A d \in Procs \ {c} : edit'[d] = edit[d] /\ seen'[d] = seen[d] /\ unread'[d] = unread[d]
  BY <1>1, <1>2, Known DEF StoreTypeOK
<1> QED BY <1>1, <1>3, <1>4, QuietReturnKeeps

LEMMA LoadSharedKeeps ==
  ASSUME IInv, NEW c \in Procs, LoadShared(c)
  PROVE IInv'
<1> USE DEF files, reading, history
<1> QED BY Known, ReturnLoadedKeeps DEF LoadShared, StoreTypeOK

LEMMA ReadFileKeeps ==
  ASSUME IInv, NEW c \in Procs, ReadFile(c)
  PROVE IInv'
<1> USE DEF files, reading, history
<1>1. PICK i \in unread[c] :
        /\ seen' = [seen EXCEPT ![c][i] = inputs[i]]
        /\ unread' = [unread EXCEPT ![c] = @ \ {i}]
  BY DEF ReadFile
<1>2. op[c].step = "optimistic" /\ UNCHANGED <<inputs, stored, diskInputs, diskStored, problemDir,
lockFile, lock, op, report, edit, born, acked, powerLost>>
  BY DEF ReadFile
<1>3. i \in Ids
  BY Known DEF StoreTypeOK
<1>4. StoreTypeOK'
  BY <1>1, <1>2, <1>3, Known DEF StoreTypeOK
<1>5. ProcessAgrees(c)'
  <2>1. ReadStaysTrue(c)'
    BY <1>1, <1>2, <1>3, Known DEF ProcessAgrees, ReadStaysTrue, StoreTypeOK
  <2> QED BY <1>2, <2>1, Known DEF ProcessAgrees, LockAgrees, KindAgrees, IdAgrees, ReservationAgrees,
          PublicationAgrees, Critical, Unused
<1>6. StepFrame(c)
  BY <1>1, <1>2, Known DEF StepFrame, LockStep, OnlyProceeds, StoreTypeOK
<1> QED BY <1>2, <1>4, <1>5, <1>6, QuietKeeps

LEMMA RecheckKeeps ==
  ASSUME IInv, NEW c \in Procs, Recheck(c)
  PROVE IInv'
<1> USE DEF files, reading, history
<1>1. op[c].step = "optimistic" /\ UNCHANGED <<inputs, stored, diskInputs, diskStored, problemDir,
lockFile, unread, born, acked, powerLost>>
  BY DEF Recheck
<1>2. CASE lockFile
  <2>1. /\ Goto(c, "loadLock") /\ seen' = [seen EXCEPT ![c] = NothingSeen] /\ UNCHANGED <<lock, edit>>
    BY <1>2 DEF Recheck, LockAppeared
  <2>2. NothingSeen \in [Ids -> MaybeContents] /\ "loadLock" \in Steps
    BY DEF NothingSeen, MaybeContents, Steps
  <2>3. op'[c].kind = op[c].kind /\ op'[c].id = op[c].id /\ op'[c].step = "loadLock"
    BY <2>1, <2>2, Known, GotoEffect DEF Operation
  <2>4. ProcessAgrees(c)'
    BY <1>1, <2>1, <2>3, Known DEF ProcessAgrees, LockAgrees, KindAgrees, IdAgrees, ReservationAgrees,
          PublicationAgrees, ReadStaysTrue,
           Critical
  <2>5. seen' \in [Procs -> [Ids -> MaybeContents]] /\ \A d \in Procs \ {c} : seen'[d] = seen[d]
    BY <2>1, <2>2, Known DEF StoreTypeOK
  <2> QED BY <1>1, <2>1, <2>2, <2>4, <2>5, QuietGotoKeeps
<1>3. CASE ~lockFile
  BY <1>1, <1>3, Known, ReturnLoadedKeeps DEF Recheck, LockAppeared, StoreTypeOK
<1> QED BY <1>2, <1>3

LEMMA FailKeeps ==
  ASSUME IInv, NEW c \in Procs, Fail(c)
  PROVE IInv'
<1> USE DEF files, reading, history
<1>1. NothingSeen \in [Ids -> MaybeContents] /\ NoEdit \in [id : 0 .. MaxId, content : MaybeContents]
  BY StoreAssumption DEF NothingSeen, MaybeContents, NoEdit
<1>2. /\ Return(c, FailureReport(op[c])) /\ FailureReport(op[c]) \in Reports
      /\ seen' = [seen EXCEPT ![c] = NothingSeen] /\ unread' = [unread EXCEPT ![c] = {}]
      /\ UNCHANGED edit
      /\ UNCHANGED <<inputs, stored, diskInputs, diskStored, problemDir, lockFile, born, acked, powerLost>>
  BY DEF Fail, StopLoad, FailureReport, Reports
<1>3. /\ edit' \in [Procs -> [id : 0 .. MaxId, content : MaybeContents]]
      /\ edit'[c] # NoEdit => edit'[c].id \in Ids
      /\ seen' \in [Procs -> [Ids -> MaybeContents]] /\ unread' \in [Procs -> SUBSET Ids]
      /\ problemDir' \in BOOLEAN
      /\ \A d \in Procs \ {c} : edit'[d] = edit[d] /\ seen'[d] = seen[d] /\ unread'[d] = unread[d]
  BY <1>1, <1>2, Known DEF StoreTypeOK
<1> QED BY <1>2, <1>3, QuietReturnKeeps

LEMMA KillKeeps ==
  ASSUME IInv, NEW c \in Procs, Kill(c)
  PROVE IInv'
<1> USE DEF files, reading, history
<1>1. NothingSeen \in [Ids -> MaybeContents] /\ NoEdit \in [id : 0 .. MaxId, content : MaybeContents]
  BY StoreAssumption DEF NothingSeen, MaybeContents, NoEdit
<1>2. /\ Return(c, "killed") /\ "killed" \in Reports
      /\ seen' = [seen EXCEPT ![c] = NothingSeen] /\ unread' = [unread EXCEPT ![c] = {}]
      /\ edit' = [edit EXCEPT ![c] = NoEdit]
      /\ UNCHANGED <<inputs, stored, diskInputs, diskStored, problemDir, lockFile, born, acked, powerLost>>
  BY DEF Kill, StopLoad, Reports
<1>3. /\ edit' \in [Procs -> [id : 0 .. MaxId, content : MaybeContents]]
      /\ edit'[c] # NoEdit => edit'[c].id \in Ids
      /\ seen' \in [Procs -> [Ids -> MaybeContents]] /\ unread' \in [Procs -> SUBSET Ids]
      /\ problemDir' \in BOOLEAN
      /\ \A d \in Procs \ {c} : edit'[d] = edit[d] /\ seen'[d] = seen[d] /\ unread'[d] = unread[d]
  BY <1>1, <1>2, Known DEF StoreTypeOK
<1> QED BY <1>2, <1>3, QuietReturnKeeps

LEMMA PowerLossKeeps ==
  ASSUME IInv, PowerLoss
  PROVE IInv'
<1>1. /\ inputs' \in [Ids -> MaybeContents] /\ \A i \in Ids : inputs'[i] \in diskInputs[i]
      /\ stored' \in diskStored
      /\ diskInputs' = [i \in Ids |-> {inputs'[i]}] /\ diskStored' = {stored'}
      /\ op' = [c \in Procs |-> Idle] /\ report' = [c \in Procs |-> "killed"] /\ lock' = NoOne
      /\ seen' = [c \in Procs |-> NothingSeen] /\ unread' = [c \in Procs |-> {}]
      /\ edit' = [c \in Procs |-> NoEdit] /\ powerLost' = TRUE
      /\ UNCHANGED <<problemDir, lockFile, born, acked>>
  BY DEF PowerLoss
<1>2. StoreTypeOK'
  <2>1. Idle \in [kind : {"none", "create", "save", "delete", "load"}, step : Steps,
                  id : 0 .. MaxId, content : MaybeContents]
    BY StoreAssumption DEF Idle, Steps, MaybeContents
  <2>2. /\ NoEdit \in [id : 0 .. MaxId, content : MaybeContents]
        /\ NothingSeen \in [Ids -> MaybeContents] /\ "killed" \in Reports
    BY StoreAssumption DEF NoEdit, NothingSeen, MaybeContents, Reports
  <2> QED BY <1>1, <2>1, <2>2 DEF IInv, StoreTypeOK
<1>3. \A c \in Procs : ProcessAgrees(c)'
  BY <1>1, IdleAgrees
<1>4. CreatedIdsBurned' /\ FoundIdsBurned' /\ AckedIsDurable'
  BY <1>1, <1>2 DEF IInv, CreatedIdsBurned, FoundIdsBurned, AckedIsDurable, StoreTypeOK
<1> QED BY <1>2, <1>3, <1>4 DEF IInv

LEMMA StutterKeeps ==
  ASSUME IInv, UNCHANGED vars
  PROVE IInv'
<1>1. StoreTypeOK'
  BY DEF IInv, StoreTypeOK, vars, state, files, reading, history
<1>2. \A c \in Procs : ProcessAgrees(c)'
  BY DEF IInv, ProcessAgrees, LockAgrees, KindAgrees, IdAgrees, ReservationAgrees, PublicationAgrees,
         ReadStaysTrue, Unused, vars, state, files, reading, history
<1>3. CreatedIdsBurned' /\ FoundIdsBurned' /\ AckedIsDurable'
  BY DEF IInv, CreatedIdsBurned, FoundIdsBurned, AckedIsDurable, vars, state, files, reading, history
<1> QED BY <1>1, <1>2, <1>3 DEF IInv

LEMMA NextKeeps ==
  ASSUME IInv, [Next]_vars
  PROVE IInv'
<1>1. ASSUME NEW c \in Procs, Writes(c) PROVE IInv'
  BY <1>1, BeginCreateKeeps, BeginSaveKeeps, BeginDeleteKeeps, LockExclusiveKeeps, ScanKeeps, ReserveKeeps,
     SyncReserveKeeps, InstallKeeps, SyncInstallKeeps, CompareKeeps, TargetKeeps, ReconcileKeeps,
     SyncReconcileKeeps, PublishKeeps, SyncPublishKeeps
  DEF Writes
<1>2. ASSUME NEW c \in Procs, Loads(c) PROVE IInv'
  BY <1>2, BeginLoadKeeps, LoadMissingKeeps, LoadSharedKeeps, ReadFileKeeps, RecheckKeeps DEF Loads
<1> QED BY <1>1, <1>2, FailKeeps, KillKeeps, PowerLossKeeps, StutterKeeps DEF Next

-----------------------------------------------------------------------------
(* The inductive invariant holds in every reachable state. *)
THEOREM IInvAlways == Spec => []IInv
<1>1. Init => IInv
  BY InitEstablishes
<1>2. IInv /\ [Next]_vars => IInv'
  BY NextKeeps
<1> QED BY <1>1, <1>2, PTL DEF Spec

(* Every variable of the store keeps its type: next_id and ids never pass  *)
(* u64::MAX.                                                               *)
THEOREM StoreTypeCorrect == Spec => []StoreTypeOK
<1>1. IInv => StoreTypeOK
  BY DEF IInv
<1> QED BY <1>1, IInvAlways, PTL

(* create_user_input never hands out an id that it handed out before, nor  *)
(* one it found in use unless the power was lost since.                    *)
THEOREM NeverReused == Spec => IdsNeverReused
<1> DEFINE Fresh == \A c \in Procs : Installs(c) =>
                      /\ born[op[c].id] # "created"
                      /\ born[op[c].id] = "found" => powerLost
<1>1. IInv => [Fresh]_vars
  <2>1. ASSUME IInv, NEW c \in Procs, Installs(c)
        PROVE born[op[c].id] # "created" /\ (born[op[c].id] = "found" => powerLost)
    BY <2>1, Known DEF Installs, ProcessAgrees, ReservationAgrees, Unused
  <2> QED BY <2>1
<1> QED BY <1>1, IInvAlways, PTL DEF IdsNeverReused

(* save_user_input_if_unchanged replaces only the content it expected,     *)
(* whatever other processes do meanwhile.                                  *)
THEOREM UpdatesSurvive == Spec => NoLostUpdate
<1> DEFINE Expected == \A c \in Procs :
                         op[c].step = "replace" /\ op'[c].step = "syncReplace"
                           => inputs[op[c].id] = edit[c].content /\ op[c].id = edit[c].id
<1>1. IInv => [Expected]_vars
  <2>1. ASSUME IInv, NEW c \in Procs, op[c].step = "replace"
        PROVE inputs[op[c].id] = edit[c].content /\ op[c].id = edit[c].id
    BY <2>1, Known DEF ProcessAgrees, KindAgrees, IdAgrees, PublicationAgrees
  <2> QED BY <2>1
<1> QED BY <1>1, IInvAlways, PTL DEF NoLostUpdate

(* An outcome that was reported is on disk: no crash takes it back.        *)
THEOREM ReportsAreDurable == Spec => ReportedSurvives
<1> DEFINE Survives == \A i \in acked \cap acked' : inputs'[i] = inputs[i]
<1>1. ASSUME IInv, [Next]_vars PROVE [Survives]_vars
  <2>1. ASSUME PowerLoss PROVE Survives
    BY <1>1, <2>1 DEF PowerLoss, IInv, StoreTypeOK, AckedIsDurable
  <2>2. ASSUME NEW c \in Procs, NEW i \in Ids, NEW content \in MaybeContents, WriteInput(i, content)
        PROVE Survives
    BY <1>1, <2>2 DEF WriteInput, IInv, StoreTypeOK
  <2>3. ASSUME NEW c \in Procs, Install(c) \/ Publish(c) PROVE Survives
    <3>1. op[c].id \in Ids /\ op[c].content \in MaybeContents
      BY <1>1, <2>3, Known DEF Install, Publish, ProcessAgrees, KindAgrees, IdAgrees, ReservationAgrees,
            Operation
    <3>2. WriteInput(op[c].id, op[c].content) \/ UNCHANGED inputs
      BY <2>3 DEF Install, Publish
    <3> QED BY <2>2, <3>1, <3>2
  <2>4. ASSUME UNCHANGED inputs PROVE Survives
    BY <2>4
  <2>5. ASSUME NEW c \in Procs, Writes(c) PROVE Survives
    BY <2>3, <2>4, <2>5 DEF Writes, BeginCreate, BeginSave, BeginDelete, LockExclusive, Scan, Reserve,
          SyncReserve,
       SyncInstall, Compare, Target, Reconcile, SyncReconcile, SyncPublish, files
  <2>6. ASSUME NEW c \in Procs, Loads(c) \/ Fail(c) \/ Kill(c) PROVE Survives
    BY <2>4, <2>6 DEF Loads, BeginLoad, LoadMissing, LoadShared, ReadFile, Recheck, Fail, Kill, files
  <2> QED BY <1>1, <2>1, <2>5, <2>6 DEF Next
<1> QED BY <1>1, IInvAlways, PTL DEF Spec, ReportedSurvives

(* The editor opens on what the directory holds: the optimistic load is    *)
(* believed only if no writer can have started.                            *)
THEOREM LoadsAreSnapshots == Spec => LoadIsSnapshot
<1> DEFINE Opens == \A c \in Procs : edit'[c] # edit[c] /\ edit'[c] # NoEdit
                       => edit'[c].content = inputs[edit'[c].id]
<1>1. ASSUME IInv, [Next]_vars PROVE [Opens]_vars
  <2>1. ASSUME UNCHANGED edit PROVE Opens
    BY <2>1
  <2>2. ASSUME NEW c \in Procs, NEW loaded, ReturnLoaded(c, loaded), \A i \in Ids : loaded[i] = inputs[i]
        PROVE Opens
    BY <1>1, <2>2 DEF ReturnLoaded, IInv, StoreTypeOK
  <2>3. ASSUME NEW c \in Procs, LoadShared(c) PROVE Opens
    BY <2>2, <2>3 DEF LoadShared
  <2>4. ASSUME NEW c \in Procs, Recheck(c) PROVE Opens
    <3>1. ~lockFile => \A i \in Ids : seen[c][i] = inputs[i]
      BY <1>1, <2>4, Known DEF Recheck, ProcessAgrees, ReadStaysTrue
    <3> QED BY <2>1, <2>2, <2>4, <3>1 DEF Recheck, LockAppeared
  <2>5. ASSUME NEW c \in Procs, NEW d \in Procs, edit' = [edit EXCEPT ![d] = NoEdit] PROVE Opens
    BY <1>1, <2>5 DEF IInv, StoreTypeOK
  <2>6. ASSUME PowerLoss PROVE Opens
    BY <2>6 DEF PowerLoss
  <2>7. ASSUME NEW c \in Procs, SyncPublish(c) PROVE Opens
    BY <1>1, <2>7 DEF SyncPublish, IInv, StoreTypeOK
  <2>8. ASSUME NEW c \in Procs, Writes(c) PROVE Opens
    BY <2>1, <2>7, <2>8 DEF Writes, BeginCreate, BeginSave, BeginDelete, LockExclusive, Scan, Reserve,
          SyncReserve,
       Install, SyncInstall, Compare, Target, Reconcile, SyncReconcile, Publish
  <2>9. ASSUME NEW c \in Procs, Loads(c) \/ Fail(c) \/ Kill(c) PROVE Opens
    BY <2>1, <2>3, <2>4, <2>5, <2>9 DEF Loads, BeginLoad, LoadMissing, ReadFile, Fail, Kill
  <2> QED BY <1>1, <2>6, <2>8, <2>9 DEF Next
<1> QED BY <1>1, IInvAlways, PTL DEF Spec, LoadIsSnapshot
=============================================================================
