-------------------------- MODULE StressCasesProofs --------------------------
(***************************************************************************)
(* What StressCases keeps for any number of saves and loads and any bound  *)
(* of faults, kills and foreign changes.  The inductive invariant says of  *)
(* each save where its own case and the one it moved are at each of its    *)
(* steps.  Another save cannot disturb that: without the lock a save       *)
(* changes nothing but its own staging directory (`Frame`).                *)
(*                                                                         *)
(* Two more invariants rest on it.  `OutcomeInv` is about what a save      *)
(* reports, `LoadInv` about what a load finds at the target: the newest    *)
(* case or one made by another program.  For both, every step of a save is *)
(* first classed as one of six (`SaveEffect`).                             *)
(***************************************************************************)
EXTENDS StressCases, TLAPS

Save == [step : WriterSteps, saw : BOOLEAN, moved : Dirs \cup {NoDir}, outcome : Outcomes]
Load == [step : ReaderSteps, locks : BOOLEAN, dir : Dirs \cup {NoDir}, owed : Nat]

Unstaged == {"idle", "look", "validate", "stage"}
Staged == {"acquire", "recheck", "moveAway", "validateMoved", "install", "rollback"}
Ended == {"done", "dead"}

WriterAgrees(w) ==
  LET step == writer[w].step
      moved == writer[w].moved
  IN  /\ exclusive = w <=> step \in Swapping
      /\ step \in Unstaged => place[w] = "none"
      /\ step \in Staged => place[w] = "staged"
      /\ step \in Unstaged \cup Staged => w \notin foreign
      /\ step \in {"inspect", "cleanup"} => log # <<>> /\ log[Len(log)] = w
      /\ step \notin Ended /\ moved # NoDir =>
           /\ step \in {"validateMoved", "install", "rollback", "inspect", "cleanup"}
           /\ moved # w /\ place[moved] = "previous"
      /\ step \in {"validateMoved", "rollback", "cleanup"} => moved # NoDir
      /\ step = "cleanup" => moved \notin foreign \ late

LogAgrees ==
  /\ \A i \in DOMAIN log : place[log[i]] \notin {"none", "staged"}
  /\ OnlySupersededIsDeleted

ReaderAgrees ==
  /\ exclusive # NoOne => shared = {}
  /\ \A r \in Readers : reader[r].step \in {"idle", "lock", "openDir"} => reader[r].dir = NoDir
  /\ LockedReadIsUndisturbed

IInv ==
  /\ StressTypeOK
  /\ \A w \in Writers : WriterAgrees(w)
  /\ LogAgrees
  /\ ReaderAgrees
  /\ ForeignIsNeverDeleted

-----------------------------------------------------------------------------
LEMMA OneCase == ASSUME NEW D, NEW d \in D PROVE <<d>> \in Seq(D)
OBVIOUS

LEMMA InitEstablishes == Init => IInv
<1> SUFFICES ASSUME Init PROVE IInv
  OBVIOUS
<1> USE StressAssumption DEF Init, Dirs
<1>1. StressTypeOK
  <2>1. place \in [Dirs -> Places] /\ \A d, e \in AtTarget : d = e
    BY DEF Places, AtTarget
  <2>2. writer \in [Writers -> Save] /\ reader \in [Readers -> Load]
    BY DEF Save, Load, WriterSteps, ReaderSteps, Outcomes
  <2>3. log \in Seq(Dirs)
    <3>1. CASE place[Found] = "target"
      <4>1. log = <<Found>>
        BY <3>1
      <4>2. <<Found>> \in Seq(Dirs)
        BY OneCase DEF Dirs
      <4> HIDE DEF Init, Dirs
      <4> QED BY <4>1, <4>2
    <3>2. CASE place[Found] # "target"
      BY <3>2
    <3> QED BY <3>1, <3>2
  <2>4. foreign \subseteq Dirs /\ late \subseteq Dirs
    OBVIOUS
  <2> QED BY <2>1, <2>2, <2>3, <2>4 DEF StressTypeOK, Save, Load
<1>2. ASSUME NEW w \in Writers PROVE WriterAgrees(w)
  <2>1. writer[w].step = "idle" /\ writer[w].moved = NoDir /\ place[w] = "none" /\ w \notin foreign
    OBVIOUS
  <2> QED BY <2>1 DEF WriterAgrees, Unstaged, Staged, Swapping, Ended
<1>3. LogAgrees
  BY DEF LogAgrees, OnlySupersededIsDeleted
<1>4. ReaderAgrees
  BY DEF ReaderAgrees, LockedReadIsUndisturbed
<1>5. ForeignIsNeverDeleted
  BY DEF ForeignIsNeverDeleted
<1> QED BY <1>1, <1>2, <1>3, <1>4, <1>5 DEF IInv

-----------------------------------------------------------------------------
(* What a step of the save w may change. *)
PlaceFrame(w) ==
  /\ \A d \in Dirs : place'[d] # place[d] =>
       \/ d = w /\ place[d] \in {"none", "staged"}
       \/ exclusive = w /\ place[d] \in {"target", "previous"}
  /\ \A d \in Dirs : place'[d] \in {"none", "staged"} => place[d] \in {"none", place'[d]}
  /\ \A d \in Dirs : place'[d] = "deleted" /\ place[d] # "deleted" =>
       /\ d \notin foreign \ late
       /\ \A i \in DOMAIN log : log[i] = d => i < Len(log)

Frame(w) ==
  /\ \A v \in Writers \ {w} : writer'[v] = writer[v]
  /\ PlaceFrame(w)
  /\ \/ exclusive' = exclusive
     \/ exclusive = w /\ exclusive' = NoOne
     \/ LockAvailable /\ exclusive' = w
  /\ \/ log' = log
     \/ exclusive = w /\ log' = Append(log, w) /\ place'[w] = "target"
  /\ UNCHANGED <<foreign, late, shared, reader>>

LEMMA FrameKeeps ==
  ASSUME IInv, NEW w \in Writers, Frame(w), StressTypeOK', WriterAgrees(w)'
  PROVE IInv'
<1> USE StressAssumption DEF Dirs
<1>1. ASSUME NEW v \in Writers \ {w} PROVE WriterAgrees(v)'
  <2>1. WriterAgrees(v) /\ writer'[v] = writer[v] /\ writer[v].moved \in Dirs \cup {NoDir}
    BY DEF IInv, Frame, StressTypeOK
  <2>2. exclusive' = v <=> exclusive = v
    BY DEF Frame, PlaceFrame, LockAvailable
  <2>3. place[v] \in {"none", "staged"} => place'[v] = place[v]
    BY DEF Frame, PlaceFrame
  <2>4. ASSUME exclusive = v, NEW d \in Dirs, place[d] = "previous" PROVE place'[d] = "previous"
    BY <2>4 DEF Frame, PlaceFrame
  <2>5. exclusive = v => log' = log
    BY DEF Frame, PlaceFrame
  <2>6. foreign' = foreign /\ late' = late
    BY DEF Frame, PlaceFrame
  <2>7. writer[v].step \in {"validateMoved", "install", "rollback", "inspect", "cleanup"} => exclusive = v
    BY <2>1 DEF WriterAgrees, Swapping
  <2> QED BY <2>1, <2>2, <2>3, <2>4, <2>5, <2>6, <2>7 DEF WriterAgrees
<1>2. LogAgrees'
  <2>1. LogAgrees /\ log \in Seq(Dirs)
    BY DEF IInv, StressTypeOK
  <2>2. ASSUME NEW i \in DOMAIN log PROVE /\ place'[log[i]] \notin {"none", "staged"}
                                          /\ place'[log[i]] = "deleted" => i < Len(log)
    <3>1. log[i] \in Dirs /\ place[log[i]] \notin {"none", "staged"}
      BY <2>1 DEF LogAgrees
    <3>2. place[log[i]] = "deleted" => i < Len(log)
      BY <2>1 DEF LogAgrees, OnlySupersededIsDeleted
    <3> QED BY <3>1, <3>2 DEF Frame, PlaceFrame
  <2>3. CASE log' = log
    BY <2>2, <2>3 DEF LogAgrees, OnlySupersededIsDeleted
  <2>4. CASE log' = Append(log, w) /\ place'[w] = "target"
    <3>1. /\ DOMAIN log' = 1 .. Len(log) + 1 /\ Len(log') = Len(log) + 1 /\ log'[Len(log) + 1] = w
          /\ DOMAIN log = 1 .. Len(log) /\ \A i \in 1 .. Len(log) : log'[i] = log[i]
      BY <2>1, <2>4
    <3>2. Len(log) \in Nat
      BY <2>1
    <3> QED BY <2>2, <2>4, <3>1, <3>2 DEF LogAgrees, OnlySupersededIsDeleted
  <2> QED BY <2>3, <2>4 DEF Frame, PlaceFrame
<1>3. ReaderAgrees'
  <2>1. exclusive' # NoOne => shared' = {}
    BY DEF Frame, PlaceFrame, IInv, ReaderAgrees, LockAvailable
  <2>2. ASSUME NEW r \in shared, reader[r].dir # NoDir
        PROVE place'[reader[r].dir] \in {"target", "removed"}
    <3>1. place[reader[r].dir] \in {"target", "removed"} /\ exclusive = NoOne
      BY <2>2 DEF IInv, ReaderAgrees, LockedReadIsUndisturbed
    <3>2. reader[r].dir \in Dirs
      BY <2>2 DEF IInv, StressTypeOK
    <3> QED BY <3>1, <3>2 DEF Frame, PlaceFrame
  <2> QED BY <2>1, <2>2 DEF Frame, PlaceFrame, IInv, ReaderAgrees, LockedReadIsUndisturbed
<1>4. ForeignIsNeverDeleted'
  BY DEF Frame, PlaceFrame, IInv, StressTypeOK, ForeignIsNeverDeleted
<1> QED BY <1>1, <1>2, <1>3, <1>4 DEF IInv

-----------------------------------------------------------------------------
(* What a save knows of itself. *)
LEMMA Known ==
  ASSUME IInv, NEW w \in Writers
  PROVE /\ StressTypeOK /\ WriterAgrees(w)
        /\ writer[w] \in Save /\ writer[w].moved \in Dirs \cup {NoDir}
        /\ w \in Dirs /\ NoDir \notin Dirs
BY StressAssumption DEF IInv, StressTypeOK, Save, Dirs

(* A case that is staged never was the saved one. *)
LEMMA StagedIsNew ==
  ASSUME IInv, NEW d \in Dirs, place[d] \in {"none", "staged"}
  PROVE \A i \in DOMAIN log : log[i] # d
BY DEF IInv, LogAgrees

(* What the ways to go on do to the saves. *)
OnlySaves(w) == writer' \in [Writers -> Save] /\ \A v \in Writers \ {w} : writer'[v] = writer[v]

LEMMA GotoEffect ==
  ASSUME writer \in [Writers -> Save], NEW w \in Writers, NEW step \in WriterSteps, Goto(w, step)
  PROVE /\ OnlySaves(w)
        /\ writer'[w].step = step /\ writer'[w].saw = writer[w].saw
        /\ writer'[w].moved = writer[w].moved /\ writer'[w].outcome = writer[w].outcome
<1>1. writer[w] \in Save
  OBVIOUS
<1>2. writer'[w] = [writer[w] EXCEPT !.step = step]
  BY DEF Goto
<1>3. writer'[w] \in Save
  BY <1>1, <1>2 DEF Save
<1>4. writer' = [writer EXCEPT ![w] = writer'[w]]
  BY DEF Goto
<1>5. OnlySaves(w)
  BY <1>3, <1>4 DEF OnlySaves
<1> QED BY <1>1, <1>2, <1>5 DEF Save

LEMMA EndEffect ==
  ASSUME writer \in [Writers -> Save], exclusive \in Writers \cup {NoOne},
         NEW w \in Writers, NEW outcome \in Outcomes, End(w, outcome)
  PROVE /\ OnlySaves(w)
        /\ writer'[w].step = "done" /\ writer'[w].moved = writer[w].moved
        /\ writer'[w].outcome = outcome
        /\ exclusive' \in Writers \cup {NoOne} /\ exclusive' # w
        /\ exclusive' = IF exclusive = w THEN NoOne ELSE exclusive
<1>1. writer[w] \in Save
  OBVIOUS
<1>2. writer'[w] = [writer[w] EXCEPT !.step = "done", !.outcome = outcome]
  BY DEF End
<1>3. writer'[w] \in Save
  BY <1>1, <1>2 DEF Save, WriterSteps
<1>4. writer' = [writer EXCEPT ![w] = writer'[w]]
  BY DEF End
<1>5. OnlySaves(w)
  BY <1>3, <1>4 DEF OnlySaves
<1> QED BY <1>1, <1>2, <1>5, StressAssumption DEF Save, End

(* A save that has ended has nothing to agree with but the lock. *)
LEMMA EndedAgrees ==
  ASSUME NEW w \in Writers, writer'[w].step \in Ended, exclusive' # w
  PROVE WriterAgrees(w)'
BY DEF WriterAgrees, Ended, Unstaged, Staged, Swapping

(* The steps of a save that change no directory. *)
LEMMA QuietKeeps ==
  ASSUME IInv, NEW w \in Writers, OnlySaves(w),
         exclusive' \in Writers \cup {NoOne}, lockFile' \in BOOLEAN,
         faults' \in 0 .. MaxFaults,
         \/ exclusive' = exclusive
         \/ exclusive = w /\ exclusive' = NoOne
         \/ LockAvailable /\ exclusive' = w,
         UNCHANGED <<place, foreign, bare, shared, cancelled, reader, meddled, kills, log, late>>,
         WriterAgrees(w)'
  PROVE IInv'
<1>1. StressTypeOK'
  BY Known DEF StressTypeOK, OnlySaves, Save, AtTarget
<1>2. Frame(w)
  <2>1. place' = place /\ log' = log /\ UNCHANGED <<foreign, late, shared, reader>>
    OBVIOUS
  <2>2. \A v \in Writers \ {w} : writer'[v] = writer[v]
    BY DEF OnlySaves
  <2> QED BY <2>1, <2>2 DEF Frame, PlaceFrame
<1> QED BY <1>1, <1>2, FrameKeeps

LEMMA BeginSaveKeeps ==
  ASSUME IInv, NEW w \in Writers, BeginSave(w)
  PROVE IInv'
<1> USE DEF files, locks, counts, history
<1>1. /\ writer[w].step = "idle" /\ lockFile' = TRUE /\ Goto(w, "look")
      /\ UNCHANGED <<place, foreign, bare, exclusive, shared, cancelled, reader, faults, meddled, kills,
                     log, late>>
  BY DEF BeginSave, At
<1>2. /\ OnlySaves(w) /\ writer'[w].step = "look" /\ writer'[w].moved = writer[w].moved
  BY <1>1, Known, GotoEffect DEF StressTypeOK, WriterSteps, Save
<1>3. WriterAgrees(w)'
  BY <1>1, <1>2, Known DEF WriterAgrees, Unstaged, Staged, Swapping, Ended
<1> QED BY <1>1, <1>2, <1>3, Known, QuietKeeps DEF StressTypeOK

(* The steps with which a save ends. *)
LEMMA LeaveKeeps ==
  ASSUME IInv, NEW w \in Writers, OnlySaves(w), writer'[w].step \in Ended,
         exclusive' = IF exclusive = w THEN NoOne ELSE exclusive,
         place' \in [Dirs -> Places], AtTarget' \subseteq AtTarget \/ \E d \in Dirs : AtTarget' = {d},
         PlaceFrame(w),
         faults' \in 0 .. MaxFaults, kills' \in 0 .. MaxKills,
         UNCHANGED <<foreign, bare, lockFile, shared, cancelled, reader, meddled, log, late>>
  PROVE IInv'
<1>1. exclusive' \in Writers \cup {NoOne} /\ exclusive' # w
  BY Known, StressAssumption DEF StressTypeOK
<1>2. \A d, e \in AtTarget' : d = e
  BY Known DEF StressTypeOK
<1>3. StressTypeOK'
  BY <1>1, <1>2, Known DEF StressTypeOK, OnlySaves, Save
<1>4. Frame(w)
  BY DEF Frame, OnlySaves
<1> QED BY <1>1, <1>3, <1>4, EndedAgrees, FrameKeeps

(* What becomes of a staging directory; it is removed only before the swap *)
(* or when the new case is installed and the old one is found to be atc's. *)
LEMMA StagingEffect ==
  ASSUME IInv, NEW w \in Writers, writer[w].step \notin Ended,
         NEW where \in {"deleted", "kept", "left"}, StagingBecomes(w, where),
         where = "deleted" => writer[w].moved = NoDir \/ writer[w].step = "cleanup"
  PROVE place' \in [Dirs -> Places] /\ AtTarget' \subseteq AtTarget /\ PlaceFrame(w)
<1> DEFINE Mine(d) == \/ d = w /\ place[d] = "staged"
                      \/ d = writer[w].moved /\ place[d] = "previous"
<1>1. \A d \in Dirs : place'[d] = IF Mine(d) THEN where ELSE place[d]
  BY DEF StagingBecomes, Staging, Ended
<1>2. place' \in [Dirs -> Places]
  BY Known DEF StagingBecomes, StressTypeOK, Places
<1>3. AtTarget' \subseteq AtTarget
  BY <1>1 DEF AtTarget
<1>4. ASSUME NEW d \in Dirs, d = writer[w].moved, place[d] = "previous"
      PROVE exclusive = w /\ writer[w].moved # NoDir
  BY <1>4, Known DEF WriterAgrees, Swapping
<1>5. ASSUME NEW d \in Dirs, place'[d] = "deleted", place[d] # "deleted"
      PROVE d \notin foreign \ late /\ \A i \in DOMAIN log : log[i] = d => i < Len(log)
  <2>1. Mine(d) /\ where = "deleted"
    BY <1>1, <1>5
  <2>2. CASE d = w /\ place[d] = "staged"
    <3>1. \A i \in DOMAIN log : log[i] # d
      BY <2>2, StagedIsNew
    <3>2. log # <<>> => Len(log) \in DOMAIN log
      BY Known DEF StressTypeOK
    <3>3. writer[w].step \in Unstaged \cup Staged
      BY <2>2, <3>1, <3>2, Known DEF WriterAgrees, Unstaged, Staged, Ended, Save, WriterSteps
    <3> QED BY <2>2, <3>1, <3>3, Known DEF WriterAgrees
  <2>3. CASE d = writer[w].moved /\ place[d] = "previous"
    <3>1. writer[w].step = "cleanup"
      BY <1>4, <2>1, <2>3
    <3>2. d # w /\ d \notin foreign \ late /\ log # <<>> /\ log[Len(log)] = w
      BY <1>4, <2>3, <3>1, Known DEF WriterAgrees
    <3>3. Len(log) \in Nat /\ DOMAIN log = 1 .. Len(log)
      BY Known DEF StressTypeOK
    <3> QED BY <3>2, <3>3
  <2> QED BY <2>1, <2>2, <2>3
<1>6. PlaceFrame(w)
  BY <1>1, <1>4, <1>5 DEF PlaceFrame
<1> QED BY <1>2, <1>3, <1>6

(* A save that ends before or during the swap, its staging directory gone  *)
(* or kept.                                                                *)
LEMMA DisposeKeeps ==
  ASSUME IInv, NEW w \in Writers, writer[w].step \notin Ended,
         NEW where \in {"deleted", "kept"}, StagingBecomes(w, where),
         where = "deleted" => writer[w].moved = NoDir \/ writer[w].step = "cleanup",
         NEW outcome \in Outcomes, End(w, outcome),
         faults' \in 0 .. MaxFaults,
         UNCHANGED <<foreign, bare, lockFile, shared, cancelled, reader, meddled, kills, log, late>>
  PROVE IInv'
<1>1. place' \in [Dirs -> Places] /\ AtTarget' \subseteq AtTarget /\ PlaceFrame(w)
  BY StagingEffect
<1>2. writer \in [Writers -> Save] /\ exclusive \in Writers \cup {NoOne} /\ kills \in 0 .. MaxKills
  BY Known DEF StressTypeOK, Save
<1>3. /\ OnlySaves(w) /\ writer'[w].step \in Ended
      /\ exclusive' = IF exclusive = w THEN NoOne ELSE exclusive
  BY <1>2, EndEffect DEF Ended
<1> QED BY <1>1, <1>2, <1>3, LeaveKeeps

(* A save that ends without changing a directory. *)
LEMMA QuietEndKeeps ==
  ASSUME IInv, NEW w \in Writers, NEW outcome \in Outcomes, End(w, outcome),
         UNCHANGED <<place, foreign, bare, lockFile, shared, cancelled, reader, faults, meddled,
                     kills, log, late>>
  PROVE IInv'
<1>1. /\ writer \in [Writers -> Save] /\ exclusive \in Writers \cup {NoOne}
      /\ kills \in 0 .. MaxKills /\ faults \in 0 .. MaxFaults /\ place \in [Dirs -> Places]
  BY Known DEF StressTypeOK, Save
<1>2. /\ OnlySaves(w) /\ writer'[w].step \in Ended
      /\ exclusive' = IF exclusive = w THEN NoOne ELSE exclusive
  BY <1>1, EndEffect DEF Ended
<1>3. AtTarget' = AtTarget /\ PlaceFrame(w)
  BY DEF AtTarget, PlaceFrame
<1> QED BY <1>1, <1>2, <1>3, LeaveKeeps

(* A save that goes on without changing a directory. *)
LEMMA QuietGotoKeeps ==
  ASSUME IInv, NEW w \in Writers, NEW step \in WriterSteps, Goto(w, step),
         exclusive' = exclusive \/ (LockAvailable /\ exclusive' = w),
         faults' \in 0 .. MaxFaults,
         UNCHANGED <<place, foreign, bare, lockFile, shared, cancelled, reader, meddled, kills,
                     log, late>>,
         WriterAgrees(w)'
  PROVE IInv'
<1>1. /\ writer \in [Writers -> Save] /\ exclusive' \in Writers \cup {NoOne} /\ lockFile' \in BOOLEAN
  BY Known DEF StressTypeOK, Save
<1>2. OnlySaves(w)
  BY <1>1, GotoEffect
<1> QED BY <1>1, <1>2, QuietKeeps

(* The effect of Goto on a save that is known. *)
LEMMA GotoFields ==
  ASSUME IInv, NEW w \in Writers, NEW step \in WriterSteps, Goto(w, step)
  PROVE OnlySaves(w) /\ writer'[w].step = step /\ writer'[w].moved = writer[w].moved
<1>1. writer \in [Writers -> Save]
  BY Known DEF StressTypeOK, Save
<1> QED BY <1>1, GotoEffect

LEMMA FaultTyped == ASSUME IInv, Fault \/ UNCHANGED faults PROVE faults' \in 0 .. MaxFaults
BY StressAssumption DEF IInv, StressTypeOK, Fault

LEMMA LookKeeps ==
  ASSUME IInv, NEW w \in Writers, Look(w)
  PROVE IInv'
<1> USE DEF files, locks, counts, history
<1>1. /\ writer[w].step = "look"
      /\ UNCHANGED <<place, foreign, bare, lockFile, exclusive, shared, cancelled, reader, faults,
                     meddled, kills, log, late>>
  BY DEF Look, At
<1> DEFINE next == IF TargetExists THEN "validate" ELSE "stage"
<1>2. writer'[w] = [writer[w] EXCEPT !.saw = TargetExists, !.step = next]
      /\ writer' = [writer EXCEPT ![w] = writer'[w]]
  BY Known DEF Look, StressTypeOK
<1>3. next \in WriterSteps /\ TargetExists \in BOOLEAN
  BY DEF WriterSteps, TargetExists
<1> HIDE DEF next
<1>4. writer'[w] \in Save /\ writer'[w].step = next /\ writer'[w].moved = writer[w].moved
  BY <1>2, <1>3, Known DEF Save
<1>5. OnlySaves(w)
  BY <1>2, <1>4, Known DEF OnlySaves, StressTypeOK, Save
<1>6. WriterAgrees(w)'
  BY <1>1, <1>4, Known DEF next, WriterAgrees, Unstaged, Staged, Swapping, Ended
<1> QED BY <1>1, <1>5, <1>6, Known, QuietKeeps DEF StressTypeOK

LEMMA ValidateKeeps ==
  ASSUME IInv, NEW w \in Writers, Validate(w)
  PROVE IInv'
<1> USE DEF files, locks, counts, history
<1>1. /\ writer[w].step = "validate"
      /\ UNCHANGED <<place, foreign, bare, lockFile, shared, cancelled, reader, faults, meddled,
                     kills, log, late>>
  BY DEF Validate, At
<1>2. CASE Goto(w, "stage") /\ UNCHANGED exclusive
  <2>1. /\ writer'[w].step = "stage" /\ writer'[w].moved = writer[w].moved
        /\ exclusive' = exclusive
    BY <1>2, GotoFields DEF WriterSteps
  <2>2. writer[w].moved = NoDir /\ place[w] = "none" /\ exclusive # w /\ w \notin foreign
    BY <1>1, Known DEF WriterAgrees, Unstaged, Swapping, Ended
  <2>3. WriterAgrees(w)'
    BY <1>1, <2>1, <2>2 DEF WriterAgrees, Unstaged, Staged, Swapping, Ended
  <2>4. faults' \in 0 .. MaxFaults /\ "stage" \in WriterSteps /\ exclusive' = exclusive
    BY <1>1, <1>2, FaultTyped DEF WriterSteps
  <2> QED BY <1>1, <1>2, <2>3, <2>4, QuietGotoKeeps
<1>3. CASE End(w, "failed")
  BY <1>1, <1>3, QuietEndKeeps DEF Outcomes
<1> QED BY <1>2, <1>3 DEF Validate

LEMMA StageKeeps ==
  ASSUME IInv, NEW w \in Writers, Stage(w)
  PROVE IInv'
<1> USE DEF files, locks, counts, history
<1>1. /\ writer[w].step = "stage" /\ place[w] = "none" /\ w \notin foreign /\ w \in Dirs
      /\ UNCHANGED <<foreign, bare, lockFile, shared, cancelled, reader, meddled, kills, log, late>>
  BY Known DEF Stage, At, WriterAgrees, Unstaged
<1>2. CASE End(w, "cancelled") /\ UNCHANGED <<place, faults>>
  BY <1>1, <1>2, QuietEndKeeps DEF Outcomes
<1>3. ASSUME NEW where \in {"staged", "deleted"}, Rename(w, where)
      PROVE /\ place' \in [Dirs -> Places] /\ AtTarget' \subseteq AtTarget /\ PlaceFrame(w)
            /\ place'[w] = where
  <2>1. place' \in [Dirs -> Places] /\ place'[w] = where
        /\ \A d \in Dirs \ {w} : place'[d] = place[d]
    BY <1>1, <1>3, Known DEF Rename, StressTypeOK, Places
  <2>2. \A i \in DOMAIN log : log[i] # w
    BY <1>1, StagedIsNew
  <2> QED BY <1>1, <2>1, <2>2 DEF AtTarget, PlaceFrame
<1>4. CASE Rename(w, "staged") /\ Goto(w, "acquire") /\ UNCHANGED <<exclusive, faults>>
  <2>1. OnlySaves(w) /\ writer'[w].step = "acquire" /\ writer'[w].moved = writer[w].moved
    BY <1>4, GotoFields DEF WriterSteps
  <2>2. WriterAgrees(w)'
    BY <1>1, <1>3, <1>4, <2>1, Known DEF WriterAgrees, Unstaged, Staged, Swapping, Ended
  <2>3. Frame(w)
    BY <1>1, <1>3, <1>4, <2>1 DEF Frame, OnlySaves
  <2>4. StressTypeOK'
    BY <1>1, <1>3, <1>4, <2>1, Known DEF StressTypeOK, OnlySaves, Save
  <2> QED BY <2>2, <2>3, <2>4, FrameKeeps
<1>5. CASE Fault /\ Rename(w, "deleted") /\ End(w, "failed")
  <2>1. /\ writer \in [Writers -> Save] /\ exclusive \in Writers \cup {NoOne} /\ kills \in 0 .. MaxKills
    BY Known DEF StressTypeOK, Save
  <2>2. /\ OnlySaves(w) /\ writer'[w].step \in Ended
        /\ exclusive' = IF exclusive = w THEN NoOne ELSE exclusive
    BY <1>5, <2>1, EndEffect DEF Ended, Outcomes
  <2> QED BY <1>1, <1>3, <1>5, <2>1, <2>2, FaultTyped, LeaveKeeps
<1> QED BY <1>2, <1>4, <1>5 DEF Stage

LEMMA AcquireKeeps ==
  ASSUME IInv, NEW w \in Writers, Acquire(w)
  PROVE IInv'
<1> USE DEF files, locks, counts, history
<1>1. /\ writer[w].step = "acquire" /\ writer[w].moved = NoDir
      /\ UNCHANGED <<foreign, bare, lockFile, shared, cancelled, reader, meddled, kills, log, late>>
  BY Known DEF Acquire, At, WriterAgrees, Ended
<1>2. ASSUME NEW outcome \in Outcomes, DropStaging(w), End(w, outcome), Fault \/ UNCHANGED faults
      PROVE IInv'
  BY <1>1, <1>2, FaultTyped, DisposeKeeps DEF DropStaging, Ended
<1>3. CASE LockAvailable /\ exclusive' = w /\ Goto(w, "recheck") /\ UNCHANGED <<place, faults>>
  <2>1. /\ writer'[w].step = "recheck" /\ writer'[w].moved = writer[w].moved
        /\ exclusive' = w /\ place' = place
    BY <1>3, GotoFields DEF WriterSteps
  <2>2. WriterAgrees(w)'
    BY <1>1, <2>1, Known DEF WriterAgrees, Unstaged, Staged, Swapping, Ended
  <2> QED BY <1>1, <1>3, <2>2, FaultTyped, QuietGotoKeeps DEF WriterSteps
<1> QED BY <1>2, <1>3 DEF Acquire, Outcomes

LEMMA RecheckKeeps ==
  ASSUME IInv, NEW w \in Writers, Recheck(w)
  PROVE IInv'
<1> USE DEF files, locks, counts, history
<1>1. /\ writer[w].step = "recheck" /\ writer[w].moved = NoDir
      /\ UNCHANGED <<foreign, bare, lockFile, shared, cancelled, reader, faults, meddled, kills,
                     log, late>>
  BY Known DEF Recheck, At, WriterAgrees, Ended
<1>2. CASE DropStaging(w) /\ End(w, "failed")
  BY <1>1, <1>2, FaultTyped, DisposeKeeps DEF DropStaging, Ended, Outcomes
<1>3. ASSUME NEW next \in {"moveAway", "install"}, Goto(w, next), UNCHANGED <<place, exclusive>>
      PROVE IInv'
  <2>1. /\ writer'[w].step = next /\ writer'[w].moved = writer[w].moved
        /\ exclusive' = exclusive /\ place' = place
    BY <1>3, GotoFields DEF WriterSteps
  <2>2. place[w] = "staged" /\ exclusive = w /\ w \notin foreign
    BY <1>1, Known DEF WriterAgrees, Staged, Swapping
  <2>3. WriterAgrees(w)'
    BY <1>1, <2>1, <2>2 DEF WriterAgrees, Unstaged, Staged, Swapping, Ended
  <2>4. faults' \in 0 .. MaxFaults /\ next \in WriterSteps /\ exclusive' = exclusive
    BY <1>1, <1>3, FaultTyped DEF WriterSteps
  <2> QED BY <1>1, <1>3, <2>3, <2>4, QuietGotoKeeps
<1> QED BY <1>2, <1>3 DEF Recheck

LEMMA MoveAwayKeeps ==
  ASSUME IInv, NEW w \in Writers, MoveAway(w)
  PROVE IInv'
<1> USE DEF files, locks, counts, history
<1>1. /\ writer[w].step = "moveAway" /\ writer[w].moved = NoDir /\ place[w] = "staged"
      /\ exclusive = w /\ w \notin foreign
      /\ UNCHANGED <<foreign, bare, lockFile, shared, cancelled, reader, meddled, kills, log, late>>
  BY Known DEF MoveAway, At, WriterAgrees, Ended, Staged, Swapping
<1>2. ASSUME NEW d \in AtTarget, Rename(d, "previous"),
             writer' = [writer EXCEPT ![w].step = "validateMoved", ![w].moved = d],
             UNCHANGED <<exclusive, faults>>
      PROVE IInv'
  <2>1. d \in Dirs /\ place[d] = "target" /\ d # w /\ d # NoDir
    BY <1>1, Known DEF AtTarget
  <2>2. /\ place' \in [Dirs -> Places] /\ place'[d] = "previous"
        /\ \A e \in Dirs \ {d} : place'[e] = place[e]
    BY <1>2, <2>1, Known DEF Rename, StressTypeOK, Places
  <2>3. writer'[w] = [writer[w] EXCEPT !.step = "validateMoved", !.moved = d]
        /\ writer' = [writer EXCEPT ![w] = writer'[w]]
    BY <1>2, Known DEF StressTypeOK
  <2>4. writer'[w] \in Save /\ writer'[w].step = "validateMoved" /\ writer'[w].moved = d
    BY <2>1, <2>3, Known DEF Save, WriterSteps
  <2>5. OnlySaves(w)
    BY <2>3, <2>4, Known DEF OnlySaves, StressTypeOK, Save
  <2>6. WriterAgrees(w)'
    <3>1. exclusive' = w /\ place'[w] = "staged" /\ w \notin foreign'
      BY <1>1, <1>2, <2>1, <2>2, Known
    <3> QED BY <2>1, <2>2, <2>4, <3>1 DEF WriterAgrees, Unstaged, Staged, Swapping, Ended
  <2>7. PlaceFrame(w)
    BY <1>1, <2>1, <2>2 DEF PlaceFrame
  <2>8. Frame(w)
    BY <1>1, <1>2, <2>5, <2>7 DEF Frame, OnlySaves
  <2>9. \A e, g \in AtTarget' : e = g
    BY <2>1, <2>2, Known DEF StressTypeOK, AtTarget
  <2>10. StressTypeOK'
    BY <1>1, <1>2, <2>2, <2>5, <2>9, Known DEF StressTypeOK, OnlySaves, Save
  <2> QED BY <2>6, <2>8, <2>10, FrameKeeps
<1>3. CASE (Fault \/ UNCHANGED faults) /\ DropStaging(w) /\ End(w, "failed")
  BY <1>1, <1>3, FaultTyped, DisposeKeeps DEF DropStaging, Ended, Outcomes
<1> QED BY <1>2, <1>3 DEF MoveAway

LEMMA ValidateMovedKeeps ==
  ASSUME IInv, NEW w \in Writers, ValidateMoved(w)
  PROVE IInv'
<1> USE DEF files, locks, counts, history
<1>1. /\ writer[w].step = "validateMoved"
      /\ UNCHANGED <<place, foreign, bare, lockFile, exclusive, shared, cancelled, reader, faults,
                     meddled, kills, log, late>>
  BY DEF ValidateMoved, At
<1>2. ASSUME NEW next \in {"install", "rollback"}, Goto(w, next)
      PROVE IInv'
  <2>1. writer'[w].step = next /\ writer'[w].moved = writer[w].moved
    BY <1>2, GotoFields DEF WriterSteps
  <2>2. /\ place[w] = "staged" /\ exclusive = w /\ w \notin foreign
        /\ writer[w].moved # NoDir /\ writer[w].moved # w /\ place[writer[w].moved] = "previous"
    BY <1>1, Known DEF WriterAgrees, Staged, Swapping, Ended
  <2>3. WriterAgrees(w)'
    BY <1>1, <2>1, <2>2 DEF WriterAgrees, Unstaged, Staged, Swapping, Ended
  <2>4. faults' \in 0 .. MaxFaults /\ next \in WriterSteps /\ exclusive' = exclusive
    BY <1>1, <1>2, FaultTyped DEF WriterSteps
  <2> QED BY <1>1, <1>2, <2>3, <2>4, QuietGotoKeeps
<1> QED BY <1>2 DEF ValidateMoved

LEMMA InstallKeeps ==
  ASSUME IInv, NEW w \in Writers, Install(w)
  PROVE IInv'
<1> USE DEF files, locks, counts, history
<1>1. /\ writer[w].step = "install" /\ place[w] = "staged" /\ exclusive = w /\ w \notin foreign
      /\ writer[w].moved # NoDir => writer[w].moved # w /\ place[writer[w].moved] = "previous"
      /\ UNCHANGED <<foreign, bare, lockFile, shared, cancelled, reader, meddled, kills, late>>
  BY Known DEF Install, At, WriterAgrees, Ended, Staged, Swapping
<1>2. ASSUME NameIsFree, Rename(w, "target"), log' = Append(log, w), Goto(w, "inspect"),
             UNCHANGED <<exclusive, faults>>
      PROVE IInv'
  <2>1. /\ place' \in [Dirs -> Places] /\ place'[w] = "target"
        /\ \A d \in Dirs \ {w} : place'[d] = place[d]
    BY <1>2, Known DEF Rename, StressTypeOK, Places
  <2>2. OnlySaves(w) /\ writer'[w].step = "inspect" /\ writer'[w].moved = writer[w].moved
    BY <1>2, GotoFields DEF WriterSteps
  <2>3. log' \in Seq(Dirs) /\ log' # <<>> /\ log'[Len(log')] = w
    BY <1>2, Known DEF StressTypeOK
  <2>4. writer'[w].moved # NoDir => place'[writer'[w].moved] = "previous" /\ writer'[w].moved # w
    BY <1>1, <2>1, <2>2, Known
  <2>5. WriterAgrees(w)'
    BY <1>1, <1>2, <2>2, <2>3, <2>4 DEF WriterAgrees, Unstaged, Staged, Swapping, Ended
  <2>6. PlaceFrame(w)
    BY <1>1, <2>1 DEF PlaceFrame
  <2>7. Frame(w)
    BY <1>1, <1>2, <2>1, <2>2, <2>6 DEF Frame, OnlySaves
  <2>8. \A d, e \in AtTarget' : d = e
    BY <1>2, <2>1 DEF NameIsFree, TargetExists, AtTarget
  <2>9. StressTypeOK'
    BY <1>1, <1>2, <2>1, <2>2, <2>3, <2>8, Known DEF StressTypeOK, OnlySaves, Save
  <2> QED BY <2>5, <2>7, <2>9, FrameKeeps
<1>3. ASSUME writer[w].moved # NoDir, Goto(w, "rollback"), UNCHANGED <<place, exclusive, log>>,
             Fault \/ UNCHANGED faults
      PROVE IInv'
  <2>1. /\ writer'[w].step = "rollback" /\ writer'[w].moved = writer[w].moved
    BY <1>3, GotoFields DEF WriterSteps
  <2>2. WriterAgrees(w)'
    BY <1>1, <1>3, <2>1 DEF WriterAgrees, Unstaged, Staged, Swapping, Ended
  <2>3. faults' \in 0 .. MaxFaults /\ "rollback" \in WriterSteps
    BY <1>3, FaultTyped DEF WriterSteps
  <2> QED BY <1>1, <1>3, <2>2, <2>3, QuietGotoKeeps
<1>4. ASSUME writer[w].moved = NoDir, DropStaging(w), End(w, "failed"), UNCHANGED log,
             Fault \/ UNCHANGED faults
      PROVE IInv'
  BY <1>1, <1>4, FaultTyped, DisposeKeeps DEF DropStaging, Ended, Outcomes
<1> QED BY <1>2, <1>3, <1>4 DEF Install

LEMMA RollbackKeeps ==
  ASSUME IInv, NEW w \in Writers, Rollback(w)
  PROVE IInv'
<1> USE DEF files, locks, counts, history
<1> DEFINE moved == writer[w].moved
<1>1. /\ writer[w].step = "rollback" /\ place[w] = "staged" /\ exclusive = w /\ w \notin foreign
      /\ moved \in Dirs /\ moved # w /\ place[moved] = "previous"
      /\ End(w, "failed")
      /\ UNCHANGED <<foreign, bare, lockFile, shared, cancelled, reader, meddled, kills, log, late>>
  BY Known DEF Rollback, At, WriterAgrees, Ended, Staged, Swapping
<1>2. ASSUME NameIsFree, UNCHANGED faults,
             place' = [place EXCEPT ![w] = "deleted", ![moved] = "target"]
      PROVE IInv'
  <2>1. /\ place' \in [Dirs -> Places] /\ place'[w] = "deleted" /\ place'[moved] = "target"
        /\ \A d \in Dirs \ {w, moved} : place'[d] = place[d]
    BY <1>1, <1>2, Known DEF StressTypeOK, Places
  <2>2. AtTarget' = {moved}
    BY <1>1, <1>2, <2>1 DEF NameIsFree, TargetExists, AtTarget
  <2>3. \A i \in DOMAIN log : log[i] # w
    BY <1>1, StagedIsNew, Known
  <2>4. PlaceFrame(w)
    BY <1>1, <2>1, <2>3 DEF PlaceFrame
  <2>5. /\ writer \in [Writers -> Save] /\ exclusive \in Writers \cup {NoOne}
        /\ kills \in 0 .. MaxKills /\ faults \in 0 .. MaxFaults
    BY Known DEF StressTypeOK, Save
  <2>6. /\ OnlySaves(w) /\ writer'[w].step \in Ended
        /\ exclusive' = IF exclusive = w THEN NoOne ELSE exclusive
    BY <1>1, <2>5, EndEffect DEF Ended, Outcomes
  <2> QED BY <1>1, <1>2, <2>1, <2>2, <2>4, <2>5, <2>6, LeaveKeeps
<1>3. ASSUME KeepStaging(w), Fault \/ UNCHANGED faults
      PROVE IInv'
  BY <1>1, <1>3, FaultTyped, DisposeKeeps DEF KeepStaging, Ended, Outcomes
<1> QED BY <1>2, <1>3 DEF Rollback

LEMMA InspectKeeps ==
  ASSUME IInv, NEW w \in Writers, Inspect(w)
  PROVE IInv'
<1> USE DEF files, locks, counts, history
<1>1. /\ writer[w].step = "inspect"
      /\ UNCHANGED <<foreign, bare, lockFile, shared, cancelled, reader, faults, meddled, kills,
                     log, late>>
  BY DEF Inspect, At
<1>2. CASE End(w, "saved") /\ UNCHANGED place
  BY <1>1, <1>2, QuietEndKeeps DEF Outcomes
<1>3. ASSUME writer[w].moved # NoDir, MovedIsOwned(w), Goto(w, "cleanup"), UNCHANGED <<place, exclusive>>
      PROVE IInv'
  <2>1. writer'[w].step = "cleanup" /\ writer'[w].moved = writer[w].moved
    BY <1>3, GotoFields DEF WriterSteps
  <2>2. /\ exclusive = w /\ log # <<>> /\ log[Len(log)] = w
        /\ writer[w].moved # w /\ place[writer[w].moved] = "previous" /\ writer[w].moved \notin foreign
    BY <1>1, <1>3, Known DEF WriterAgrees, Swapping, Ended, MovedIsOwned, Valid
  <2>3. WriterAgrees(w)'
    BY <1>1, <1>3, <2>1, <2>2 DEF WriterAgrees, Unstaged, Staged, Swapping, Ended
  <2>4. faults' \in 0 .. MaxFaults /\ "cleanup" \in WriterSteps
    BY <1>1, FaultTyped DEF WriterSteps
  <2> QED BY <1>1, <1>3, <2>3, <2>4, QuietGotoKeeps
<1>4. CASE KeepStaging(w) /\ End(w, "failed")
  BY <1>1, <1>4, FaultTyped, DisposeKeeps DEF KeepStaging, Ended, Outcomes
<1> QED BY <1>2, <1>3, <1>4 DEF Inspect

LEMMA CleanupKeeps ==
  ASSUME IInv, NEW w \in Writers, Cleanup(w)
  PROVE IInv'
<1> USE DEF files, locks, counts, history
<1>1. /\ writer[w].step = "cleanup" /\ StagingBecomes(w, "deleted") /\ End(w, "saved")
      /\ UNCHANGED <<foreign, bare, lockFile, shared, cancelled, reader, faults, meddled, kills,
                     log, late>>
  BY DEF Cleanup, At, DropStaging
<1> QED BY <1>1, FaultTyped, DisposeKeeps DEF Ended, Outcomes

LEMMA KillKeeps ==
  ASSUME IInv, NEW w \in Writers, Kill(w)
  PROVE IInv'
<1> USE DEF files, locks, counts, history
<1>1. /\ writer[w].step \notin Ended /\ StagingBecomes(w, "left") /\ Goto(w, "dead")
      /\ exclusive' = IF exclusive = w THEN NoOne ELSE exclusive
      /\ kills < MaxKills /\ kills' = kills + 1
      /\ UNCHANGED <<foreign, bare, lockFile, shared, cancelled, reader, faults, meddled, log, late>>
  BY DEF Kill, Ended
<1>2. place' \in [Dirs -> Places] /\ AtTarget' \subseteq AtTarget /\ PlaceFrame(w)
  BY <1>1, StagingEffect
<1>3. OnlySaves(w) /\ writer'[w].step \in Ended
  BY <1>1, GotoFields DEF Ended, WriterSteps
<1>4. kills' \in 0 .. MaxKills /\ faults' \in 0 .. MaxFaults
  BY <1>1, Known, FaultTyped, StressAssumption DEF StressTypeOK
<1> QED BY <1>1, <1>2, <1>3, <1>4, LeaveKeeps

LEMMA CancelKeeps ==
  ASSUME IInv, NEW w \in Writers, Cancel(w)
  PROVE IInv'
<1>1. cancelled' \subseteq Writers
  BY DEF Cancel, IInv, StressTypeOK
<1>2. UNCHANGED <<place, foreign, bare, lockFile, exclusive, shared, writer, reader, meddled, faults,
                  kills, log, late>>
  BY DEF Cancel, files, locks, counts, history
<1>3. StressTypeOK'
  BY <1>1, <1>2 DEF IInv, StressTypeOK, AtTarget
<1>4. \A v \in Writers : WriterAgrees(v)'
  BY <1>2 DEF IInv, WriterAgrees
<1>5. LogAgrees' /\ ReaderAgrees' /\ ForeignIsNeverDeleted'
  BY <1>2 DEF IInv, LogAgrees, OnlySupersededIsDeleted, ReaderAgrees, LockedReadIsUndisturbed,
        ForeignIsNeverDeleted
<1> QED BY <1>3, <1>4, <1>5 DEF IInv

-----------------------------------------------------------------------------
(* The steps of a load change nothing but the load and its lock. *)
LEMMA ReadKeeps ==
  ASSUME IInv, NEW r \in Readers, NEW rec \in Load,
         reader' = [reader EXCEPT ![r] = rec],
         shared' \in {shared, shared \ {r}} \/ (exclusive = NoOne /\ shared' = shared \cup {r}),
         rec.step \in {"idle", "lock", "openDir"} => rec.dir = NoDir,
         r \in shared' /\ rec.dir # NoDir => place[rec.dir] \in {"target", "removed"},
         UNCHANGED <<files, exclusive, writer, cancelled, counts, history>>
  PROVE IInv'
<1>1. UNCHANGED <<place, foreign, bare, lockFile, exclusive, writer, cancelled, meddled, faults, kills,
                  log, late>>
  BY DEF files, counts, history
<1>2. /\ reader' \in [Readers -> Load] /\ reader'[r] = rec
      /\ \A q \in Readers \ {r} : reader'[q] = reader[q]
  BY Known DEF IInv, StressTypeOK, Load
<1>3. shared' \subseteq shared \cup {r} /\ shared' \subseteq Readers
  BY DEF IInv, StressTypeOK
<1>4. StressTypeOK'
  BY <1>1, <1>2, <1>3 DEF IInv, StressTypeOK, AtTarget, Load
<1>5. \A v \in Writers : WriterAgrees(v)'
  BY <1>1 DEF IInv, WriterAgrees
<1>6. LogAgrees' /\ ForeignIsNeverDeleted'
  BY <1>1 DEF IInv, LogAgrees, OnlySupersededIsDeleted, ForeignIsNeverDeleted
<1>7. exclusive' # NoOne => shared' = {}
  BY <1>1 DEF IInv, ReaderAgrees
<1>8. ReaderAgrees'
  BY <1>1, <1>2, <1>3, <1>7 DEF IInv, ReaderAgrees, LockedReadIsUndisturbed
<1> QED BY <1>4, <1>5, <1>6, <1>8 DEF IInv

LEMMA OwedTyped == ASSUME IInv PROVE Owed \in Nat
<1>1. \A i \in NewestReplayable : i \in Nat
  BY DEF IInv, StressTypeOK, NewestReplayable
<1> QED BY <1>1 DEF Owed

LEMMA LoadKeeps ==
  ASSUME IInv, NEW r \in Readers, LoadStep(r)
  PROVE IInv'
<1>1. /\ reader[r] \in Load /\ reader \in [Readers -> Load]
      /\ reader[r].step \in {"idle", "lock", "openDir"} => reader[r].dir = NoDir
      /\ r \in shared /\ reader[r].dir # NoDir => place[reader[r].dir] \in {"target", "removed"}
  BY DEF IInv, StressTypeOK, Load, ReaderAgrees, LockedReadIsUndisturbed
<1>2. NoDir \notin Dirs
  BY StressAssumption DEF Dirs
<1>3. CASE BeginLoad(r)
  <2> DEFINE rec == [step |-> IF lockFile THEN "lock" ELSE "openDir", locks |-> lockFile,
                     dir |-> NoDir, owed |-> Owed]
  <2>1. rec \in Load
    BY OwedTyped DEF Load, ReaderSteps, IInv, StressTypeOK
  <2>2. reader' = [reader EXCEPT ![r] = rec] /\ shared' = shared /\ rec.dir = NoDir
        /\ UNCHANGED <<files, exclusive, writer, cancelled, counts, history>>
    BY <1>3 DEF BeginLoad, locks
  <2> HIDE DEF rec
  <2> QED BY <2>1, <2>2, ReadKeeps
<1>4. CASE LockShared(r)
  <2> DEFINE rec == [reader[r] EXCEPT !.step = "openDir"]
  <2>1. rec \in Load /\ rec.dir = NoDir
    BY <1>1, <1>4 DEF Load, ReaderSteps, LockShared, ReaderAt
  <2>2. reader' = [reader EXCEPT ![r] = rec] /\ exclusive = NoOne /\ shared' = shared \cup {r}
        /\ UNCHANGED <<files, exclusive, writer, cancelled, counts, history>>
    BY <1>1, <1>4 DEF LockShared, SharedAvailable
  <2> HIDE DEF rec
  <2> QED BY <2>1, <2>2, ReadKeeps
<1>5. ASSUME NEW d \in Dirs \cup {NoDir}, Answer(r, d),
             UNCHANGED <<files, exclusive, writer, cancelled, counts, history>>
      PROVE IInv'
  <2> DEFINE rec == [reader[r] EXCEPT !.step = "done", !.dir = d]
  <2>1. rec \in Load /\ rec.step = "done"
    BY <1>1 DEF Load, ReaderSteps
  <2>2. reader' = [reader EXCEPT ![r] = rec] /\ shared' = shared \ {r}
    BY <1>1, <1>5 DEF Answer
  <2> HIDE DEF rec
  <2> QED BY <1>5, <2>1, <2>2, ReadKeeps
<1>6. CASE OpenDir(r)
  <2>1. ASSUME NEW d \in AtTarget, UNCHANGED <<shared, files, exclusive, writer, cancelled, counts, history>>,
               reader' = [reader EXCEPT ![r].step = "openFiles", ![r].dir = d]
        PROVE IInv'
    <3> DEFINE rec == [reader[r] EXCEPT !.step = "openFiles", !.dir = d]
    <3>1. d \in Dirs /\ place[d] = "target"
      BY DEF AtTarget
    <3>2. rec \in Load /\ rec.step = "openFiles" /\ rec.dir = d
      BY <1>1, <3>1 DEF Load, ReaderSteps
    <3>3. reader' = [reader EXCEPT ![r] = rec]
      BY <1>1, <2>1
    <3> HIDE DEF rec
    <3> QED BY <2>1, <3>1, <3>2, <3>3, ReadKeeps
  <2> QED BY <1>5, <1>6, <2>1 DEF OpenDir
<1>7. CASE OpenFiles(r)
  <2>1. ASSUME UNCHANGED <<shared, files, exclusive, writer, cancelled, counts, history>>,
               reader' = [reader EXCEPT ![r].step = "read"]
        PROVE IInv'
    <3> DEFINE rec == [reader[r] EXCEPT !.step = "read"]
    <3>1. rec \in Load /\ rec.step = "read" /\ rec.dir = reader[r].dir
      BY <1>1 DEF Load, ReaderSteps
    <3>2. reader' = [reader EXCEPT ![r] = rec]
      BY <1>1, <2>1
    <3> HIDE DEF rec
    <3> QED BY <1>1, <2>1, <3>1, <3>2, ReadKeeps
  <2> QED BY <1>5, <1>7, <2>1 DEF OpenFiles
<1>8. CASE Read(r)
  <2>1. reader[r].dir \in Dirs \cup {NoDir}
    BY <1>1 DEF Load
  <2> QED BY <1>5, <1>8, <2>1 DEF Read
<1> QED BY <1>3, <1>4, <1>6, <1>7, <1>8 DEF LoadStep

-----------------------------------------------------------------------------
(* What the user and another program do leaves alone what is staged, put   *)
(* aside or deleted.                                                       *)
LEMMA AddEntryKeeps ==
  ASSUME IInv, NEW d \in Dirs, AddEntry(d)
  PROVE IInv'
<1>1. /\ place[d] \in {"target", "previous"} /\ foreign' = foreign \cup {d} /\ Meddle
      /\ UNCHANGED <<place, bare, lockFile, exclusive, shared, writer, cancelled, reader, faults, kills, log>>
  BY DEF AddEntry, locks
<1>2. /\ late \subseteq late' /\ late' \subseteq Dirs
      /\ (\E w \in Writers : At(w, "cleanup") /\ writer[w].moved = d) => d \in late'
  BY DEF AddEntry, IInv, StressTypeOK
<1>3. StressTypeOK'
  BY <1>1, <1>2, StressAssumption DEF IInv, StressTypeOK, Meddle, AtTarget
<1>4. ASSUME NEW v \in Writers PROVE WriterAgrees(v)'
  <2>1. writer[v].step \in Unstaged \cup Staged => v \notin foreign'
    BY <1>1, Known DEF WriterAgrees
  <2>2. writer[v].step = "cleanup" => writer[v].moved \notin foreign' \ late'
    BY <1>1, <1>2, Known DEF WriterAgrees, At
  <2> QED BY <1>1, <2>1, <2>2, Known DEF WriterAgrees
<1>5. LogAgrees' /\ ReaderAgrees'
  BY <1>1 DEF IInv, LogAgrees, OnlySupersededIsDeleted, ReaderAgrees, LockedReadIsUndisturbed
<1>6. ForeignIsNeverDeleted'
  BY <1>1, <1>2 DEF IInv, ForeignIsNeverDeleted
<1> QED BY <1>3, <1>4, <1>5, <1>6 DEF IInv

LEMMA PlaceByOthersKeeps ==
  ASSUME IInv, NEW d \in Dirs, NEW where \in {"target", "removed"}, Rename(d, where),
         place[d] = "target" \/ (d = Alien /\ place[d] = "none"),
         where = "target" => ~TargetExists, Meddle,
         where = "target" => d = Alien,
         UNCHANGED <<foreign, bare, lockFile, exclusive, shared, writer, cancelled, reader, faults, kills,
                     log, late>>
  PROVE IInv'
<1>1. /\ place' \in [Dirs -> Places] /\ place'[d] = where
      /\ \A e \in Dirs \ {d} : place'[e] = place[e]
  BY DEF Rename, IInv, StressTypeOK, Places
<1>2. \A e, g \in AtTarget' : e = g
  BY <1>1 DEF IInv, StressTypeOK, TargetExists, AtTarget
<1>3. StressTypeOK'
  BY <1>1, <1>2, StressAssumption DEF IInv, StressTypeOK, Meddle
<1>4. ASSUME NEW v \in Writers PROVE WriterAgrees(v)'
  <2>1. place[v] \in {"none", "staged"} => place'[v] = place[v]
    BY <1>1, StressAssumption DEF Dirs
  <2>2. \A e \in Dirs : place[e] = "previous" => place'[e] = "previous"
    BY <1>1
  <2> QED BY <2>1, <2>2, Known DEF WriterAgrees
<1>5. LogAgrees'
  <2>1. \A i \in DOMAIN log : log[i] \in Dirs
    BY DEF IInv, StressTypeOK
  <2> QED BY <1>1, <2>1 DEF IInv, LogAgrees, OnlySupersededIsDeleted
<1>6. ReaderAgrees'
  BY <1>1 DEF IInv, StressTypeOK, ReaderAgrees, LockedReadIsUndisturbed
<1>7. ForeignIsNeverDeleted'
  BY <1>1 DEF IInv, StressTypeOK, ForeignIsNeverDeleted
<1> QED BY <1>3, <1>4, <1>5, <1>6, <1>7 DEF IInv

-----------------------------------------------------------------------------
THEOREM IInvAlways == Spec => []IInv
<1>1. ASSUME IInv, NEW w \in Writers, SaveStep(w) PROVE IInv'
  BY <1>1, BeginSaveKeeps, LookKeeps, ValidateKeeps, StageKeeps, AcquireKeeps, RecheckKeeps, MoveAwayKeeps,
     ValidateMovedKeeps, InstallKeeps, RollbackKeeps, InspectKeeps, CleanupKeeps DEF SaveStep
<1>2. ASSUME IInv, NEW d \in Dirs, RemoveCase(d) PROVE IInv'
  <2>1. /\ Rename(d, "removed") /\ place[d] = "target" /\ Meddle
        /\ UNCHANGED <<foreign, bare, lockFile, exclusive, shared, writer, cancelled, reader, faults, kills,
                       log, late>>
    BY <1>2 DEF RemoveCase, locks, history
  <2> DEFINE where == "removed"
  <2>2. where \in {"target", "removed"} /\ where # "target"
    OBVIOUS
  <2> QED BY <1>2, <2>1, <2>2, PlaceByOthersKeeps
<1>3. ASSUME IInv, Compete PROVE IInv'
  <2>1. /\ Rename(Alien, "target") /\ place[Alien] = "none" /\ ~TargetExists /\ Meddle
        /\ UNCHANGED <<foreign, bare, lockFile, exclusive, shared, writer, cancelled, reader, faults, kills,
                       log, late>>
    BY <1>3 DEF Compete, locks, history
  <2>2. Alien \in Dirs
    BY DEF Dirs
  <2> QED BY <1>3, <2>1, <2>2, PlaceByOthersKeeps
<1>4. ASSUME IInv, UNCHANGED vars PROVE IInv'
  <2>1. UNCHANGED <<place, foreign, bare, lockFile, exclusive, shared, writer, cancelled, reader, meddled,
                    faults, kills, log, late>>
    BY <1>4 DEF vars, files, locks, counts, history
  <2>2. StressTypeOK'
    BY <1>4, <2>1 DEF IInv, StressTypeOK, AtTarget
  <2>3. \A v \in Writers : WriterAgrees(v)'
    BY <1>4, <2>1 DEF IInv, WriterAgrees
  <2>4. LogAgrees' /\ ReaderAgrees' /\ ForeignIsNeverDeleted'
    BY <1>4, <2>1 DEF IInv, LogAgrees, OnlySupersededIsDeleted, ReaderAgrees, LockedReadIsUndisturbed,
          ForeignIsNeverDeleted
  <2> QED BY <2>2, <2>3, <2>4 DEF IInv
<1>5. IInv /\ [Next]_vars => IInv'
  BY <1>1, <1>2, <1>3, <1>4, CancelKeeps, KillKeeps, LoadKeeps, AddEntryKeeps DEF Next
<1> QED BY <1>5, InitEstablishes, PTL DEF Spec

(* Every variable keeps its type and no two directories are the saved case. *)
THEOREM StressTypeCorrect == Spec => []StressTypeOK
<1>1. IInv => StressTypeOK
  BY DEF IInv
<1> QED BY <1>1, IInvAlways, PTL

(* persist_failure removes no directory that holds something atc does not  *)
(* own, except an entry added after its last inspection.                   *)
THEOREM ForeignIsKept == Spec => []ForeignIsNeverDeleted
<1>1. IInv => ForeignIsNeverDeleted
  BY DEF IInv
<1> QED BY <1>1, IInvAlways, PTL

(* persist_failure removes a saved case only after a newer one was         *)
(* installed, for any errors, kills and cancellations.                     *)
THEOREM CasesAreSuperseded == Spec => []OnlySupersededIsDeleted
<1>1. IInv => OnlySupersededIsDeleted
  BY DEF IInv, LogAgrees
<1> QED BY <1>1, IInvAlways, PTL

(* No save moves the directory load_saved_case reads under the shared lock. *)
THEOREM LockedReadsAreStable == Spec => []LockedReadIsUndisturbed
<1>1. IInv => LockedReadIsUndisturbed
  BY DEF IInv, ReaderAgrees
<1> QED BY <1>1, IInvAlways, PTL

-----------------------------------------------------------------------------
(* A save that has moved a case away and may put it back. *)
Swapped(w) == writer[w].step \in {"validateMoved", "install", "rollback"} /\ writer[w].moved # NoDir

(* Nothing has failed and nobody else has changed a directory. *)
Calm == meddled + faults + kills = 0

(* What every step of a save leaves alone.  It is one of six: the save goes *)
(* on, stages its case, puts the previous one aside, installs its own, puts *)
(* the previous one back, or ends.                                          *)
Alone(w) ==
  /\ \A v \in Writers \ {w} : writer'[v] = writer[v]
  /\ writer[w].step \notin Ended
  /\ faults' \in {faults, faults + 1} /\ kills' \in {kills, kills + 1}
  /\ UNCHANGED <<foreign, bare, shared, reader, meddled>>

SameSave(w) ==
  /\ writer'[w].step \notin Ended
  /\ writer'[w].moved = writer[w].moved /\ writer'[w].outcome = writer[w].outcome

GoesOn(w) ==
  /\ Alone(w) /\ SameSave(w)
  /\ Swapped(w)' <=> Swapped(w)
  /\ UNCHANGED <<place, log>>

Stages(w) ==
  /\ Alone(w) /\ SameSave(w)
  /\ writer[w].step = "stage" /\ writer'[w].step = "acquire"
  /\ place' = [place EXCEPT ![w] = "staged"]
  /\ UNCHANGED log

PutsAside(w) ==
  /\ Alone(w)
  /\ writer[w].step = "moveAway" /\ writer'[w].step = "validateMoved"
  /\ writer'[w].outcome = writer[w].outcome
  /\ writer'[w].moved \in AtTarget
  /\ place' = [place EXCEPT ![writer'[w].moved] = "previous"]
  /\ UNCHANGED log

Installs(w) ==
  /\ Alone(w) /\ SameSave(w)
  /\ writer[w].step = "install" /\ writer'[w].step = "inspect"
  /\ ~TargetExists
  /\ place' = [place EXCEPT ![w] = "target"]
  /\ log' = Append(log, w)

PutsBack(w) ==
  /\ Alone(w)
  /\ writer[w].step = "rollback" /\ writer'[w].step = "done" /\ writer'[w].outcome = "failed"
  /\ ~TargetExists
  /\ place' = [place EXCEPT ![w] = "deleted", ![writer[w].moved] = "target"]
  /\ UNCHANGED log

Ends(w) ==
  /\ Alone(w)
  /\ writer'[w].step \in Ended /\ writer'[w].moved = writer[w].moved
  /\ \/ writer'[w].step = "done" /\ writer'[w].outcome = "failed"
     \/ writer'[w].step = "done" /\ writer'[w].outcome = "saved" /\ writer[w].step \in {"inspect", "cleanup"}
     \/ writer'[w].step = "done" /\ writer'[w].outcome = "cancelled" /\ writer[w].step \in {"stage", "acquire"}
     \/ writer'[w].step = "dead" /\ writer'[w].outcome = writer[w].outcome
  /\ Swapped(w) => TargetExists \/ ~Calm'
  /\ \A d \in Staging(w) : place'[d] \notin {"staged", "previous"}
  /\ \A d \in Dirs : place'[d] # place[d] =>
       /\ d = w \/ place[d] = "previous"
       /\ place[d] # "target" /\ place'[d] \in {"deleted", "kept", "left"}
  /\ UNCHANGED log

SaveEffect(w) ==
  GoesOn(w) \/ Stages(w) \/ PutsAside(w) \/ Installs(w) \/ PutsBack(w) \/ Ends(w)

(* Where a save stands before it acts. *)
LEMMA Stance ==
  ASSUME IInv, NEW w \in Writers
  PROVE /\ writer \in [Writers -> Save] /\ exclusive \in Writers \cup {NoOne}
        /\ place \in [Dirs -> Places] /\ faults \in Nat /\ kills \in Nat /\ meddled \in Nat
        /\ writer[w].step \notin Ended /\ writer[w].moved # NoDir =>
             /\ writer[w].step \in {"validateMoved", "install", "rollback", "inspect", "cleanup"}
             /\ writer[w].moved # w /\ place[writer[w].moved] = "previous"
        /\ writer[w].step \in {"validateMoved", "rollback", "cleanup"} => writer[w].moved # NoDir
BY StressAssumption, Known DEF StressTypeOK, WriterAgrees, Save

(* A step after which the save goes on and no directory has changed. *)
LEMMA GotoGoesOn ==
  ASSUME IInv, NEW w \in Writers, NEW step \in WriterSteps \ Ended, Goto(w, step),
         writer[w].step \notin Ended,
         writer[w].moved = NoDir \/
           (step \in {"install", "rollback"} <=> writer[w].step \in {"validateMoved", "install"}),
         step # "validateMoved", writer[w].step # "rollback",
         faults' \in {faults, faults + 1},
         UNCHANGED <<place, foreign, bare, shared, reader, meddled, kills, log>>
  PROVE GoesOn(w)
<1>1. /\ OnlySaves(w) /\ writer'[w].step = step /\ writer'[w].moved = writer[w].moved
      /\ writer'[w].outcome = writer[w].outcome
  BY Stance, GotoEffect
<1> QED BY <1>1 DEF GoesOn, Alone, SameSave, Swapped, OnlySaves

(* A step with which the save ends, its staging directory gone or kept. *)
LEMMA DisposeEnds ==
  ASSUME IInv, NEW w \in Writers, NEW where \in {"deleted", "kept", "left"}, StagingBecomes(w, where),
         NEW outcome \in {"failed", "saved", "cancelled"}, End(w, outcome),
         writer[w].step \notin Ended,
         outcome = "saved" => writer[w].step \in {"inspect", "cleanup"},
         outcome = "cancelled" => writer[w].step \in {"stage", "acquire"},
         Swapped(w) => TargetExists \/ faults' = faults + 1,
         faults' \in {faults, faults + 1},
         UNCHANGED <<foreign, bare, shared, reader, meddled, kills, log>>
  PROVE Ends(w)
<1>1. /\ OnlySaves(w) /\ writer'[w].step = "done" /\ writer'[w].moved = writer[w].moved
      /\ writer'[w].outcome = outcome
  BY Stance, EndEffect DEF Outcomes
<1>2. Alone(w)
  BY <1>1 DEF Alone, OnlySaves
<1>3. \A d \in Dirs : place'[d] = IF d \in Staging(w) THEN where ELSE place[d]
  BY DEF StagingBecomes
<1>4. \A d \in Staging(w) : /\ d \in Dirs /\ place[d] \in {"staged", "previous"}
                            /\ d = w \/ place[d] = "previous"
  BY DEF Staging
<1>5. \A d \in Staging(w) : place'[d] \notin {"staged", "previous"}
  BY <1>3, <1>4
<1>6. Swapped(w) => TargetExists \/ ~Calm'
  BY Stance DEF Calm
<1>7. \A d \in Dirs : place'[d] # place[d] =>
        /\ d = w \/ place[d] = "previous"
        /\ place[d] # "target" /\ place'[d] \in {"deleted", "kept", "left"}
  BY <1>3, <1>4
<1> QED BY <1>1, <1>2, <1>5, <1>6, <1>7 DEF Ends, Ended

(* A save that has nothing in its staging directory ends. *)
LEMMA PlainEnds ==
  ASSUME IInv, NEW w \in Writers, NEW outcome \in {"failed", "saved", "cancelled"}, End(w, outcome),
         writer[w].step \in Unstaged \cup {"inspect"}, writer[w].moved = NoDir,
         outcome = "saved" => writer[w].step \in {"inspect", "cleanup"},
         outcome = "cancelled" => writer[w].step \in {"stage", "acquire"},
         faults' \in {faults, faults + 1},
         place' = place \/ (place[w] = "none" /\ Rename(w, "deleted")),
         UNCHANGED <<foreign, bare, shared, reader, meddled, kills, log>>
  PROVE Ends(w)
<1>1. /\ OnlySaves(w) /\ writer'[w].step = "done" /\ writer'[w].moved = writer[w].moved
      /\ writer'[w].outcome = outcome
  BY Stance, EndEffect DEF Outcomes
<1>2. Alone(w)
  BY <1>1 DEF Alone, OnlySaves, Unstaged, Ended
<1>3. place[w] # "staged"
  <2>1. CASE writer[w].step \in Unstaged
    BY <2>1, Known DEF WriterAgrees
  <2>2. CASE writer[w].step = "inspect"
    <3>1. log # <<>> /\ log[Len(log)] = w /\ Len(log) \in DOMAIN log
      BY <2>2, Known DEF WriterAgrees, StressTypeOK
    <3> QED BY <3>1, StagedIsNew, Known
  <2> QED BY <2>1, <2>2
<1>4. Staging(w) = {}
  BY <1>3, Known DEF Staging
<1>5. \A d \in Dirs : place'[d] # place[d] => d = w /\ place[d] = "none" /\ place'[d] = "deleted"
  BY Stance DEF Rename
<1>6. ~Swapped(w)
  BY DEF Swapped
<1> QED BY <1>1, <1>2, <1>4, <1>5, <1>6 DEF Ends, Ended

LEMMA EffectBeforeLock ==
  ASSUME IInv, NEW w \in Writers, BeginSave(w) \/ Look(w) \/ Validate(w)
  PROVE SaveEffect(w)
<1> USE DEF files, locks, counts, history
<1>1. CASE BeginSave(w)
  <2>1. /\ Goto(w, "look") /\ writer[w].step = "idle"
        /\ UNCHANGED <<place, foreign, bare, shared, reader, meddled, kills, log, faults>>
    BY <1>1 DEF BeginSave, At
  <2>2. writer[w].moved = NoDir
    BY <2>1, Stance DEF Ended
  <2> QED BY <2>1, <2>2, GotoGoesOn DEF SaveEffect, WriterSteps, Ended
<1>2. CASE Look(w)
  <2> DEFINE next == IF TargetExists THEN "validate" ELSE "stage"
  <2>1. /\ writer' = [writer EXCEPT ![w].saw = TargetExists, ![w].step = next]
        /\ writer[w].step = "look"
        /\ UNCHANGED <<place, foreign, bare, shared, reader, meddled, kills, log, faults>>
    BY <1>2 DEF Look, At
  <2>2. writer[w] \in Save /\ writer'[w] = [writer[w] EXCEPT !.saw = TargetExists, !.step = next]
        /\ \A v \in Writers \ {w} : writer'[v] = writer[v]
    BY <2>1, Stance
  <2>3. /\ writer'[w].step = next /\ writer'[w].moved = writer[w].moved
        /\ writer'[w].outcome = writer[w].outcome
    BY <2>2 DEF Save
  <2>4. next \in {"validate", "stage"}
    OBVIOUS
  <2> HIDE DEF next
  <2> QED BY <2>1, <2>2, <2>3, <2>4 DEF SaveEffect, GoesOn, Alone, SameSave, Swapped, Ended
<1>3. CASE Validate(w)
  <2>1. /\ writer[w].step = "validate"
        /\ UNCHANGED <<place, foreign, bare, shared, reader, meddled, kills, log, faults>>
        /\ Goto(w, "stage") \/ End(w, "failed")
    BY <1>3 DEF Validate, At
  <2>2. writer[w].moved = NoDir
    BY <2>1, Stance DEF Ended
  <2> QED BY <2>1, <2>2, GotoGoesOn, PlainEnds DEF SaveEffect, WriterSteps, Ended, Unstaged
<1> QED BY <1>1, <1>2, <1>3

LEMMA EffectOfStage ==
  ASSUME IInv, NEW w \in Writers, Stage(w)
  PROVE SaveEffect(w)
<1> USE DEF files, locks, counts, history
<1>1. /\ writer[w].step = "stage"
      /\ UNCHANGED <<foreign, bare, shared, reader, meddled, kills, log>>
  BY DEF Stage, At
<1>2. writer[w].moved = NoDir /\ place[w] = "none"
  BY <1>1, Stance, Known DEF Ended, WriterAgrees, Unstaged
<1>3. CASE End(w, "cancelled") /\ UNCHANGED <<place, faults>>
  BY <1>1, <1>2, <1>3, PlainEnds DEF SaveEffect, Unstaged
<1>4. CASE Rename(w, "staged") /\ Goto(w, "acquire") /\ UNCHANGED faults
  <2>1. /\ OnlySaves(w) /\ writer'[w].step = "acquire" /\ writer'[w].moved = writer[w].moved
        /\ writer'[w].outcome = writer[w].outcome
    BY <1>4, Stance, GotoEffect DEF WriterSteps
  <2> QED BY <1>1, <1>4, <2>1 DEF SaveEffect, Stages, Alone, SameSave, OnlySaves, Ended, Rename
<1>5. CASE Fault /\ Rename(w, "deleted") /\ End(w, "failed")
  BY <1>1, <1>2, <1>5, PlainEnds DEF SaveEffect, Unstaged, Fault
<1> QED BY <1>3, <1>4, <1>5 DEF Stage

LEMMA EffectOfAcquire ==
  ASSUME IInv, NEW w \in Writers, Acquire(w) \/ Recheck(w)
  PROVE SaveEffect(w)
<1> USE DEF files, locks, counts, history
<1>1. /\ writer[w].step \in {"acquire", "recheck"}
      /\ UNCHANGED <<foreign, bare, shared, reader, meddled, kills, log>>
  BY DEF Acquire, Recheck, At
<1>2. writer[w].moved = NoDir /\ ~Swapped(w)
  BY <1>1, Stance DEF Ended, Swapped
<1>3. ASSUME StagingBecomes(w, "deleted"), End(w, "failed"), faults' \in {faults, faults + 1}
      PROVE SaveEffect(w)
  BY <1>1, <1>2, <1>3, DisposeEnds DEF SaveEffect, Ended
<1>4. ASSUME NEW step \in {"recheck", "moveAway", "install"}, Goto(w, step), UNCHANGED <<place, faults>>
      PROVE SaveEffect(w)
  BY <1>1, <1>2, <1>4, GotoGoesOn DEF SaveEffect, Ended, WriterSteps
<1>5. CASE Acquire(w)
  <2>1. CASE DropStaging(w) /\ End(w, "cancelled") /\ UNCHANGED faults
    BY <1>1, <1>2, <1>5, <2>1, DisposeEnds DEF SaveEffect, Ended, DropStaging, Acquire, At
  <2>2. CASE Goto(w, "recheck") /\ UNCHANGED <<place, faults>>
    BY <1>4, <2>2
  <2>3. CASE Fault /\ DropStaging(w) /\ End(w, "failed")
    BY <1>3, <2>3 DEF DropStaging, Fault
  <2> QED BY <1>5, <2>1, <2>2, <2>3 DEF Acquire
<1>6. CASE Recheck(w)
  <2>1. UNCHANGED faults
    BY <1>6 DEF Recheck
  <2>2. CASE Goto(w, IF writer[w].saw THEN "moveAway" ELSE "install") /\ UNCHANGED place
    <3>1. CASE Goto(w, "moveAway")
      BY <1>4, <2>1, <2>2, <3>1
    <3>2. CASE Goto(w, "install")
      BY <1>4, <2>1, <2>2, <3>2
    <3> QED BY <2>2, <3>1, <3>2
  <2>3. CASE DropStaging(w) /\ End(w, "failed")
    BY <1>3, <2>1, <2>3 DEF DropStaging
  <2> QED BY <1>6, <2>2, <2>3 DEF Recheck
<1> QED BY <1>5, <1>6

LEMMA EffectOfMoveAway ==
  ASSUME IInv, NEW w \in Writers, MoveAway(w)
  PROVE SaveEffect(w)
<1> USE DEF files, locks, counts, history
<1>1. /\ writer[w].step = "moveAway"
      /\ UNCHANGED <<foreign, bare, shared, reader, meddled, kills, log>>
  BY DEF MoveAway, At
<1>2. writer[w].moved = NoDir /\ ~Swapped(w)
  BY <1>1, Stance DEF Ended, Swapped
<1>3. ASSUME NEW d \in AtTarget, Rename(d, "previous"), UNCHANGED faults,
             writer' = [writer EXCEPT ![w].step = "validateMoved", ![w].moved = d]
      PROVE SaveEffect(w)
  <2>1. /\ writer[w] \in Save /\ writer'[w] = [writer[w] EXCEPT !.step = "validateMoved", !.moved = d]
        /\ \A v \in Writers \ {w} : writer'[v] = writer[v]
    BY <1>3, Stance
  <2>2. /\ writer'[w].step = "validateMoved" /\ writer'[w].moved = d
        /\ writer'[w].outcome = writer[w].outcome
    BY <2>1 DEF Save
  <2> QED BY <1>1, <1>3, <2>1, <2>2 DEF SaveEffect, PutsAside, Alone, Ended, Rename
<1>4. CASE (Fault \/ UNCHANGED faults) /\ DropStaging(w) /\ End(w, "failed")
  BY <1>1, <1>2, <1>4, DisposeEnds DEF SaveEffect, Ended, DropStaging, Fault
<1> QED BY <1>3, <1>4 DEF MoveAway

LEMMA EffectOfSwap ==
  ASSUME IInv, NEW w \in Writers, ValidateMoved(w) \/ Install(w)
  PROVE SaveEffect(w)
<1> USE DEF files, locks, counts, history
<1>1. /\ writer[w].step \in {"validateMoved", "install"}
      /\ UNCHANGED <<foreign, bare, shared, reader, meddled, kills>>
  BY DEF ValidateMoved, Install, At
<1>2. ASSUME NEW step \in {"install", "rollback"}, Goto(w, step), UNCHANGED <<place, log>>,
             faults' \in {faults, faults + 1}
      PROVE SaveEffect(w)
  BY <1>1, <1>2, GotoGoesOn DEF SaveEffect, Ended, WriterSteps
<1>3. CASE ValidateMoved(w)
  <2>1. UNCHANGED <<place, log, faults>>
    BY <1>3 DEF ValidateMoved
  <2>2. Goto(w, "install") \/ Goto(w, "rollback")
    BY <1>3 DEF ValidateMoved
  <2> QED BY <1>2, <2>1, <2>2
<1>4. CASE Install(w)
  <2>1. ASSUME NameIsFree, Rename(w, "target"), log' = Append(log, w), Goto(w, "inspect"),
               UNCHANGED faults
        PROVE SaveEffect(w)
    <3>1. /\ OnlySaves(w) /\ writer'[w].step = "inspect" /\ writer'[w].moved = writer[w].moved
          /\ writer'[w].outcome = writer[w].outcome
      BY <2>1, Stance, GotoEffect DEF WriterSteps
    <3>2. writer[w].step = "install"
      BY <1>4 DEF Install, At
    <3> QED BY <1>1, <2>1, <3>1, <3>2
            DEF SaveEffect, Installs, Alone, SameSave, OnlySaves, Ended, Rename, NameIsFree
  <2>2. CASE (Fault \/ UNCHANGED faults) /\ Goto(w, "rollback") /\ UNCHANGED <<place, log>>
    BY <1>2, <2>2 DEF Fault
  <2>3. CASE (Fault \/ UNCHANGED faults) /\ writer[w].moved = NoDir /\ DropStaging(w) /\ End(w, "failed")
             /\ UNCHANGED log
    BY <1>1, <2>3, DisposeEnds DEF SaveEffect, Ended, DropStaging, Fault, Swapped
  <2> QED BY <1>4, <2>1, <2>2, <2>3 DEF Install
<1> QED BY <1>3, <1>4

LEMMA EffectOfRollback ==
  ASSUME IInv, NEW w \in Writers, Rollback(w)
  PROVE SaveEffect(w)
<1> USE DEF files, locks, counts, history
<1>1. /\ writer[w].step = "rollback" /\ End(w, "failed")
      /\ UNCHANGED <<foreign, bare, shared, reader, meddled, kills, log>>
  BY DEF Rollback, At
<1>2. CASE NameIsFree /\ UNCHANGED faults
           /\ place' = [place EXCEPT ![w] = "deleted", ![writer[w].moved] = "target"]
  <2>1. OnlySaves(w) /\ writer'[w].step = "done" /\ writer'[w].outcome = "failed"
    BY <1>1, Stance, EndEffect DEF Outcomes
  <2> QED BY <1>1, <1>2, <2>1 DEF SaveEffect, PutsBack, Alone, OnlySaves, Ended, NameIsFree
<1>3. CASE KeepStaging(w) /\ ((~NameIsFree /\ UNCHANGED faults) \/ Fault)
  BY <1>1, <1>3, DisposeEnds DEF SaveEffect, Ended, KeepStaging, Fault, NameIsFree
<1> QED BY <1>2, <1>3 DEF Rollback

LEMMA EffectOfCleanup ==
  ASSUME IInv, NEW w \in Writers, Inspect(w) \/ Cleanup(w)
  PROVE SaveEffect(w)
<1> USE DEF files, locks, counts, history
<1>1. /\ writer[w].step \in {"inspect", "cleanup"} /\ ~Swapped(w)
      /\ UNCHANGED <<foreign, bare, shared, reader, meddled, kills, log, faults>>
  BY DEF Inspect, Cleanup, At, Swapped
<1>2. CASE Inspect(w)
  <2>1. writer[w].step = "inspect"
    BY <1>2 DEF Inspect, At
  <2>2. CASE writer[w].moved = NoDir /\ End(w, "saved") /\ UNCHANGED place
    BY <1>1, <2>1, <2>2, PlainEnds DEF SaveEffect
  <2>3. CASE Goto(w, "cleanup") /\ UNCHANGED place
    BY <1>1, <2>1, <2>3, GotoGoesOn DEF SaveEffect, Ended, WriterSteps
  <2>4. CASE KeepStaging(w) /\ End(w, "failed")
    BY <1>1, <2>4, DisposeEnds DEF SaveEffect, Ended, KeepStaging
  <2> QED BY <1>2, <2>2, <2>3, <2>4 DEF Inspect
<1>3. CASE Cleanup(w)
  BY <1>1, <1>3, DisposeEnds DEF SaveEffect, Ended, DropStaging, Cleanup
<1> QED BY <1>2, <1>3

LEMMA EffectOfKill ==
  ASSUME IInv, NEW w \in Writers, Kill(w)
  PROVE SaveEffect(w)
<1> USE DEF files, locks, counts, history
<1>1. /\ writer[w].step \notin Ended /\ StagingBecomes(w, "left") /\ Goto(w, "dead")
      /\ kills' = kills + 1
      /\ UNCHANGED <<foreign, bare, shared, reader, meddled, faults, log>>
  BY DEF Kill, Ended
<1>2. /\ OnlySaves(w) /\ writer'[w].step = "dead" /\ writer'[w].moved = writer[w].moved
      /\ writer'[w].outcome = writer[w].outcome
  BY <1>1, Stance, GotoEffect DEF WriterSteps
<1>3. Alone(w)
  BY <1>1, <1>2 DEF Alone, OnlySaves
<1>4. ~Calm'
  BY <1>1, Stance DEF Calm
<1>5. \A d \in Dirs : place'[d] = IF d \in Staging(w) THEN "left" ELSE place[d]
  BY <1>1 DEF StagingBecomes
<1>6. \A d \in Staging(w) : /\ d \in Dirs /\ place[d] \in {"staged", "previous"}
                            /\ d = w \/ place[d] = "previous"
  BY DEF Staging
<1>7. /\ \A d \in Staging(w) : place'[d] \notin {"staged", "previous"}
      /\ \A d \in Dirs : place'[d] # place[d] =>
           /\ d = w \/ place[d] = "previous"
           /\ place[d] # "target" /\ place'[d] \in {"deleted", "kept", "left"}
  BY <1>5, <1>6
<1> QED BY <1>1, <1>2, <1>3, <1>4, <1>7 DEF SaveEffect, Ends, Ended

(* Each step of a save, or its end by a kill, is one of the six. *)
LEMMA SaveHasEffect ==
  ASSUME IInv, NEW w \in Writers, SaveStep(w) \/ Kill(w)
  PROVE SaveEffect(w)
BY EffectBeforeLock, EffectOfStage, EffectOfAcquire, EffectOfMoveAway, EffectOfSwap, EffectOfRollback,
   EffectOfCleanup, EffectOfKill DEF SaveStep

-----------------------------------------------------------------------------
(* What a save reports agrees with the log, at each of its steps. *)
OutcomeAgrees(w) ==
  /\ writer[w].step # "done" => writer[w].outcome = "none"
  /\ writer[w].outcome = "saved" => \E i \in DOMAIN log : log[i] = w
  /\ writer[w].outcome = "cancelled" =>
       writer[w].moved = NoDir /\ \A i \in DOMAIN log : log[i] # w

StagingIsOwned ==
  \A d \in Dirs : place[d] \in {"staged", "previous"} => \E w \in Writers : d \in Staging(w)

OutcomeInv ==
  /\ \A w \in Writers : OutcomeAgrees(w)
  /\ StagingIsOwned

(* The lock is held by one save at most, and none is at a step of the swap *)
(* without it.                                                             *)
LEMMA OneSwaps ==
  ASSUME IInv, NEW v \in Writers, NEW w \in Writers,
         writer[v].step \in Swapping, writer[w].step \in Swapping
  PROVE v = w
BY Known DEF WriterAgrees

(* The log grows by the case that a save has installed.                    *)
LEMMA LogGrows ==
  ASSUME IInv, NEW w \in Writers, SaveEffect(w)
  PROVE /\ log \in Seq(Dirs) /\ Len(log) \in Nat /\ DOMAIN log = 1 .. Len(log)
        /\ Len(log') \in Nat /\ DOMAIN log' = 1 .. Len(log') /\ Len(log) <= Len(log')
        /\ \A i \in DOMAIN log : i \in DOMAIN log' /\ log'[i] = log[i]
        /\ ~Installs(w) => log' = log
        /\ Installs(w) => Len(log') = Len(log) + 1 /\ log'[Len(log')] = w
<1>1. log \in Seq(Dirs) /\ w \in Dirs
  BY Known DEF StressTypeOK
<1>2. CASE Installs(w)
  <2>1. log' = Append(log, w)
    BY <1>2 DEF Installs
  <2> QED BY <1>1, <1>2, <2>1
<1>3. CASE ~Installs(w)
  <2>1. log' = log
    BY <1>3 DEF SaveEffect, GoesOn, Stages, PutsAside, PutsBack, Ends
  <2> QED BY <1>1, <1>3, <2>1
<1> QED BY <1>2, <1>3

(* A case is in the log of another save after a step only if it was before. *)
LEMMA OutcomesOfOthers ==
  ASSUME IInv, NEW w \in Writers, SaveEffect(w), NEW v \in Writers \ {w}, OutcomeAgrees(v)
  PROVE OutcomeAgrees(v)'
<1>1. writer'[v] = writer[v]
  BY DEF SaveEffect, GoesOn, Stages, PutsAside, Installs, PutsBack, Ends, Alone
<1>2. (\E i \in DOMAIN log' : log'[i] = v) <=> (\E i \in DOMAIN log : log[i] = v)
  <2>1. CASE Installs(w)
    BY <2>1, LogGrows
  <2>2. CASE ~Installs(w)
    BY <2>2, LogGrows
  <2> QED BY <2>1, <2>2
<1> QED BY <1>1, <1>2 DEF OutcomeAgrees

(* A save that has not installed its case is not in the log; one that      *)
(* inspects or cleans up is.                                               *)
LEMMA InstalledOrNot ==
  ASSUME IInv, NEW w \in Writers
  PROVE /\ writer[w].step \in Unstaged \cup Staged => \A i \in DOMAIN log : log[i] # w
        /\ writer[w].step \in {"inspect", "cleanup"} => \E i \in DOMAIN log : log[i] = w
<1>1. ASSUME writer[w].step \in Unstaged \cup Staged PROVE \A i \in DOMAIN log : log[i] # w
  BY <1>1, Known, StagedIsNew DEF WriterAgrees
<1>2. ASSUME writer[w].step \in {"inspect", "cleanup"} PROVE \E i \in DOMAIN log : log[i] = w
  <2>1. log # <<>> /\ log[Len(log)] = w /\ Len(log) \in DOMAIN log
    BY <1>2, Known DEF WriterAgrees, StressTypeOK
  <2> QED BY <2>1
<1> QED BY <1>1, <1>2

LEMMA OutcomeOfOwn ==
  ASSUME IInv, NEW w \in Writers, SaveEffect(w), OutcomeAgrees(w)
  PROVE OutcomeAgrees(w)'
<1>1. writer[w].step \notin Ended
  BY DEF SaveEffect, GoesOn, Stages, PutsAside, Installs, PutsBack, Ends, Alone
<1>2. writer[w].outcome = "none"
  BY <1>1 DEF OutcomeAgrees, Ended
<1>3. CASE GoesOn(w) \/ Stages(w) \/ PutsAside(w) \/ Installs(w)
  BY <1>2, <1>3 DEF OutcomeAgrees, GoesOn, Stages, PutsAside, Installs, SameSave
<1>4. CASE PutsBack(w)
  BY <1>4 DEF OutcomeAgrees, PutsBack
<1>5. CASE Ends(w)
  <2>1. log' = log /\ writer'[w].moved = writer[w].moved
    BY <1>5 DEF Ends
  <2>2. writer[w].step \in {"stage", "acquire"} => writer[w].moved = NoDir
    BY <1>1, Stance
  <2> QED BY <1>2, <1>5, <2>1, <2>2, InstalledOrNot DEF OutcomeAgrees, Ends, Unstaged, Staged
<1> QED BY <1>3, <1>4, <1>5 DEF SaveEffect

(* A directory that a step stages or puts aside is in the staging          *)
(* directory of the save that did it, and what was there stays there or is *)
(* moved on.                                                               *)
LEMMA OwnStaging ==
  ASSUME IInv, NEW w \in Writers, SaveEffect(w)
  PROVE /\ \A d \in Dirs : place'[d] \in {"staged", "previous"} /\ place'[d] # place[d] => d \in Staging(w)'
        /\ \A d \in Staging(w) : place'[d] \in {"staged", "previous"} => d \in Staging(w)'
<1>1. /\ place \in [Dirs -> Places] /\ w \in Dirs /\ NoDir \notin Dirs
  BY Stance, Known
<1>2. Staging(w)' = IF writer'[w].step \in Ended THEN {}
                    ELSE {d \in Dirs : \/ d = w /\ place'[d] = "staged"
                                       \/ d = writer'[w].moved /\ place'[d] = "previous"}
  BY DEF Staging, Ended
<1>3. \A d \in Staging(w) : /\ d \in Dirs
                            /\ (d = w /\ place[d] = "staged") \/ (d = writer[w].moved /\ place[d] = "previous")
  BY DEF Staging
<1>4. CASE GoesOn(w)
  BY <1>2, <1>3, <1>4 DEF GoesOn, SameSave
<1>5. CASE Stages(w) \/ Installs(w)
  BY <1>1, <1>2, <1>3, <1>5 DEF Stages, Installs, SameSave, Ended
<1>6. CASE PutsAside(w)
  <2>1. writer[w].moved = NoDir
    BY <1>6, Stance DEF PutsAside, Ended
  <2>2. writer'[w].moved \in Dirs
    BY <1>6 DEF PutsAside, AtTarget
  <2> QED BY <1>1, <1>2, <1>3, <1>6, <2>1, <2>2 DEF PutsAside, Ended
<1>7. CASE PutsBack(w)
  <2>1. writer[w].moved \in Dirs /\ writer[w].moved # w
    BY <1>7, Stance, Known DEF PutsBack, Ended
  <2>2. /\ place'[w] = "deleted" /\ place'[writer[w].moved] = "target"
        /\ \A d \in Dirs \ {w, writer[w].moved} : place'[d] = place[d]
    BY <1>1, <1>7, <2>1 DEF PutsBack
  <2> QED BY <1>3, <2>2
<1>8. CASE Ends(w)
  BY <1>3, <1>8 DEF Ends
<1> QED BY <1>4, <1>5, <1>6, <1>7, <1>8 DEF SaveEffect

LEMMA SaveKeepsOutcomes ==
  ASSUME IInv, OutcomeInv, NEW w \in Writers, SaveEffect(w)
  PROVE OutcomeInv'
<1>1. ASSUME NEW v \in Writers PROVE OutcomeAgrees(v)'
  BY OutcomesOfOthers, OutcomeOfOwn DEF OutcomeInv
<1>2. ASSUME NEW d \in Dirs, place'[d] \in {"staged", "previous"}
      PROVE \E v \in Writers : d \in Staging(v)'
  <2>1. CASE place'[d] # place[d]
    BY <1>2, <2>1, OwnStaging
  <2>2. CASE place'[d] = place[d]
    <3>1. PICK v \in Writers : d \in Staging(v)
      BY <1>2, <2>2 DEF OutcomeInv, StagingIsOwned
    <3>2. CASE v = w
      BY <1>2, <3>1, <3>2, OwnStaging
    <3>3. CASE v # w
      <4>1. writer'[v] = writer[v]
        BY <3>3 DEF SaveEffect, GoesOn, Stages, PutsAside, Installs, PutsBack, Ends, Alone
      <4> QED BY <2>2, <3>1, <4>1 DEF Staging
    <3> QED BY <3>2, <3>3
  <2> QED BY <2>1, <2>2
<1> QED BY <1>1, <1>2 DEF OutcomeInv, StagingIsOwned

(* Nobody else stages a directory or touches what is staged. *)
LEMMA OthersKeepOutcomes ==
  ASSUME IInv, OutcomeInv, UNCHANGED <<writer, log>>,
         \A d \in Dirs : place'[d] \in {"staged", "previous"} => place'[d] = place[d]
  PROVE OutcomeInv'
<1>1. \A w \in Writers : OutcomeAgrees(w)'
  BY DEF OutcomeInv, OutcomeAgrees
<1>2. StagingIsOwned'
  BY DEF OutcomeInv, StagingIsOwned, Staging
<1> QED BY <1>1, <1>2 DEF OutcomeInv

LEMMA NextKeepsOutcomes ==
  ASSUME IInv, OutcomeInv, [Next]_vars
  PROVE OutcomeInv'
<1> USE DEF files, locks, counts, history
<1>1. ASSUME NEW w \in Writers, SaveStep(w) \/ Kill(w) PROVE OutcomeInv'
  BY <1>1, SaveHasEffect, SaveKeepsOutcomes
<1>2. ASSUME NEW w \in Writers, Cancel(w) PROVE OutcomeInv'
  BY <1>2, OthersKeepOutcomes DEF Cancel
<1>3. ASSUME NEW r \in Readers, LoadStep(r) PROVE OutcomeInv'
  BY <1>3, OthersKeepOutcomes DEF LoadStep, BeginLoad, LockShared, OpenDir, OpenFiles, Read
<1>4. ASSUME NEW d \in Dirs, AddEntry(d) PROVE OutcomeInv'
  BY <1>4, OthersKeepOutcomes DEF AddEntry
<1>5. ASSUME NEW d \in Dirs, RemoveCase(d) PROVE OutcomeInv'
  BY <1>5, OthersKeepOutcomes, Stance DEF RemoveCase, Rename, IInv, StressTypeOK
<1>6. ASSUME Compete PROVE OutcomeInv'
  <2>1. place' = [place EXCEPT ![Alien] = "target"] /\ UNCHANGED <<writer, log>>
    BY <1>6 DEF Compete, Rename
  <2> QED BY <2>1, OthersKeepOutcomes DEF IInv, StressTypeOK
<1>7. ASSUME UNCHANGED vars PROVE OutcomeInv'
  BY <1>7, OthersKeepOutcomes DEF vars
<1> QED BY <1>1, <1>2, <1>3, <1>4, <1>5, <1>6, <1>7 DEF Next

LEMMA InitOutcomes == Init => OutcomeInv
<1> SUFFICES ASSUME Init PROVE OutcomeInv
  OBVIOUS
<1>1. \A w \in Writers : writer[w].step = "idle" /\ writer[w].outcome = "none"
  BY DEF Init
<1>2. \A d \in Dirs : place[d] \in {"none", "target"}
  BY DEF Init
<1> QED BY <1>1, <1>2 DEF OutcomeInv, OutcomeAgrees, StagingIsOwned

(* What persist_failure reports is what it did, and it leaves no staging   *)
(* directory behind that it does not report.                               *)
THEOREM OutcomesAreTrue == Spec => []OutcomeIsTrue
<1>1. OutcomeInv => OutcomeIsTrue
  BY DEF OutcomeInv, OutcomeAgrees, StagingIsOwned, OutcomeIsTrue
<1>2. IInv /\ OutcomeInv /\ [Next]_vars => OutcomeInv'
  BY NextKeepsOutcomes
<1> QED BY <1>1, <1>2, InitOutcomes, IInvAlways, PTL DEF Spec

-----------------------------------------------------------------------------
(* What a load finds: the newest case. *)
Newest(d) == log # <<>> /\ d = log[Len(log)]

(* The case at the target, or in the hands of a save that may put it back, *)
(* is the newest one unless another program made it.                       *)
TargetAgrees ==
  /\ Alien \in foreign
  /\ \A i \in DOMAIN log : log[i] \in Writers \/ (i = 1 /\ log[i] = Found)
  /\ \A d \in AtTarget : d = Alien \/ Newest(d)
  /\ \A w \in Writers : Swapped(w) => writer[w].moved = Alien \/ Newest(writer[w].moved)

(* While nothing has gone wrong the newest case is in one of these places. *)
CalmAgrees ==
  Calm => /\ place[Alien] = "none" /\ \A d \in Dirs : place[d] # "removed"
          /\ foreign \subseteq {Alien, Found}
          /\ log # <<>> => \/ place[log[Len(log)]] = "target"
                           \/ \E w \in Writers : Swapped(w) /\ writer[w].moved = log[Len(log)]

(* A load has opened nothing older than it is owed, and what it is owed can *)
(* still be replayed while nothing has gone wrong.                          *)
LoadAgrees(r) ==
  LET step == reader[r].step
      dir == reader[r].dir
      owed == reader[r].owed
  IN  /\ owed <= Len(log)
      /\ Calm /\ owed > 0 => Replayable(log[owed])
      /\ dir \notin {NoDir, Alien} => \E i \in DOMAIN log : i >= owed /\ log[i] = dir
      /\ step \in {"openFiles", "read"} => dir # NoDir
      /\ step \in {"read", "done"} => dir # Alien
      /\ reader[r].locks /\ step \in {"openDir", "openFiles", "read"} => r \in shared
      /\ step = "done" /\ dir = NoDir => owed = 0 \/ ~reader[r].locks \/ ~Calm

LoadInv == TargetAgrees /\ CalmAgrees /\ \A r \in Readers : LoadAgrees(r)

(* What the six have in common. *)
LEMMA AloneEffect ==
  ASSUME IInv, NEW w \in Writers, SaveEffect(w)
  PROVE /\ Alone(w)
        /\ UNCHANGED <<foreign, bare, shared, reader>>
        /\ Calm' => Calm
<1>1. Alone(w)
  BY DEF SaveEffect, GoesOn, Stages, PutsAside, Installs, PutsBack, Ends
<1>2. Calm' => Calm
  BY <1>1, Stance DEF Alone, Calm
<1> QED BY <1>1, <1>2 DEF Alone

(* The directories at the target after a step of a save. *)
LEMMA TargetEffect ==
  ASSUME IInv, NEW w \in Writers, SaveEffect(w)
  PROVE /\ AtTarget' = IF Installs(w) THEN {w} ELSE IF PutsBack(w) THEN {writer[w].moved}
                       ELSE IF PutsAside(w) THEN {} ELSE AtTarget
        /\ PutsAside(w) => AtTarget = {writer'[w].moved}
<1>1. place \in [Dirs -> Places] /\ w \in Dirs /\ (\A d, e \in AtTarget : d = e)
  BY Stance, Known DEF StressTypeOK
<1>2. CASE Installs(w)
  <2>1. AtTarget' = {w}
    <3>1. \A d \in Dirs : place'[d] = IF d = w THEN "target" ELSE place[d]
      BY <1>1, <1>2 DEF Installs
    <3>2. \A d \in Dirs : place[d] # "target"
      BY <1>2 DEF Installs, TargetExists, AtTarget
    <3> QED BY <1>1, <3>1, <3>2 DEF AtTarget
  <2>2. ~PutsAside(w)
    BY <1>2 DEF Installs, PutsAside
  <2> QED BY <1>2, <2>1, <2>2
<1>3. CASE PutsBack(w)
  <2>1. writer[w].moved \in Dirs /\ writer[w].moved # w
    BY <1>3, Stance, Known DEF PutsBack, Ended
  <2>2. AtTarget' = {writer[w].moved}
    BY <1>1, <1>3, <2>1 DEF PutsBack, TargetExists, AtTarget
  <2> QED BY <1>3, <2>2 DEF PutsBack, Installs, PutsAside
<1>4. CASE PutsAside(w)
  <2>1. AtTarget = {writer'[w].moved}
    BY <1>1, <1>4 DEF PutsAside
  <2>2. AtTarget' = {}
    BY <1>1, <1>4, <2>1 DEF PutsAside, AtTarget
  <2> QED BY <1>4, <2>1, <2>2 DEF PutsBack, Installs, PutsAside
<1>5. CASE GoesOn(w) \/ Stages(w)
  <2>1. writer[w].step = "stage" => place[w] = "none"
    BY Known DEF WriterAgrees, Unstaged
  <2>2. AtTarget' = AtTarget
    BY <1>1, <1>5, <2>1 DEF GoesOn, Stages, AtTarget
  <2>3. ~Installs(w) /\ ~PutsBack(w) /\ ~PutsAside(w)
    <3>1. ~Installs(w)
      <4>1. ASSUME Installs(w) PROVE FALSE
        <5>1. place'[w] = "target" /\ place[w] # "target"
          BY <1>1, <4>1 DEF Installs, TargetExists, AtTarget
        <5>2. w \in AtTarget' /\ w \notin AtTarget
          BY <1>1, <5>1 DEF AtTarget
        <5> QED BY <2>2, <5>2
      <4> QED BY <4>1
    <3>2. ~PutsBack(w)
      BY <1>5 DEF GoesOn, Stages, PutsBack, SameSave, Ended
    <3>3. ~PutsAside(w)
      <4>1. writer[w].step = "moveAway" => writer[w].moved = NoDir
        BY Stance DEF Ended
      <4>2. writer'[w].moved = writer[w].moved /\ NoDir \notin AtTarget
        BY <1>5, Known DEF GoesOn, Stages, SameSave, AtTarget
      <4> QED BY <4>1, <4>2 DEF PutsAside
    <3> QED BY <3>1, <3>2, <3>3
  <2> QED BY <2>2, <2>3
<1>6. CASE Ends(w) /\ ~PutsBack(w)
  <2>1. AtTarget' = AtTarget
    BY <1>6 DEF Ends, AtTarget
  <2>2. ~Installs(w) /\ ~PutsAside(w)
    BY <1>6 DEF Ends, Installs, PutsAside, SameSave, Ended
  <2> QED BY <1>6, <2>1, <2>2
<1> QED BY <1>2, <1>3, <1>4, <1>5, <1>6 DEF SaveEffect

(* Which save may put a case back after the step. *)
LEMMA SwapEffect ==
  ASSUME IInv, NEW w \in Writers, SaveEffect(w)
  PROVE /\ \A v \in Writers \ {w} : Swapped(v)' = Swapped(v) /\ writer'[v] = writer[v]
        /\ Swapped(w)' => PutsAside(w) \/ (GoesOn(w) /\ Swapped(w) /\ writer'[w].moved = writer[w].moved)
        /\ Swapped(w) => GoesOn(w) \/ Installs(w) \/ PutsBack(w) \/ Ends(w)
        /\ PutsAside(w) \/ Installs(w) \/ PutsBack(w) => writer[w].step \in Swapping
        /\ \A v \in Writers : Swapped(v) => writer[v].step \in Swapping
<1>1. \A v \in Writers \ {w} : writer'[v] = writer[v]
  BY AloneEffect DEF Alone
<1>2. ASSUME Swapped(w)'
      PROVE PutsAside(w) \/ (GoesOn(w) /\ Swapped(w) /\ writer'[w].moved = writer[w].moved)
  BY <1>2 DEF SaveEffect, GoesOn, Stages, PutsAside, Installs, PutsBack, Ends, Ended, Swapped, SameSave
<1>3. Swapped(w) => GoesOn(w) \/ Installs(w) \/ PutsBack(w) \/ Ends(w)
  BY DEF SaveEffect, Stages, PutsAside, Swapped
<1>4. PutsAside(w) \/ Installs(w) \/ PutsBack(w) => writer[w].step \in Swapping
  BY DEF PutsAside, Installs, PutsBack, Swapping
<1>5. \A v \in Writers : Swapped(v) => writer[v].step \in Swapping
  BY DEF Swapped, Swapping
<1>6. \A v \in Writers \ {w} : Swapped(v)' = Swapped(v)
  BY <1>1 DEF Swapped
<1> QED BY <1>1, <1>2, <1>3, <1>4, <1>5, <1>6

LEMMA NewestEffect ==
  ASSUME IInv, NEW w \in Writers, SaveEffect(w)
  PROVE /\ ~Installs(w) => \A d : Newest(d)' <=> Newest(d)
        /\ Installs(w) => Newest(w)'
<1>1. CASE ~Installs(w)
  BY <1>1, LogGrows DEF Newest
<1>2. CASE Installs(w)
  <2>1. log' # <<>> /\ log'[Len(log')] = w
    BY <1>2, LogGrows, Known DEF Installs, StressTypeOK
  <2> QED BY <1>2, <2>1 DEF Newest
<1> QED BY <1>1, <1>2

LEMMA SaveKeepsTarget ==
  ASSUME IInv, LoadInv, NEW w \in Writers, SaveEffect(w)
  PROVE TargetAgrees'
<1>1. TargetAgrees
  BY DEF LoadInv
<1>2. Alien \in foreign'
  BY <1>1, AloneEffect DEF TargetAgrees
<1>3. ASSUME NEW i \in DOMAIN log' PROVE log'[i] \in Writers \/ (i = 1 /\ log'[i] = Found)
  <2>1. CASE i \in DOMAIN log
    BY <1>1, <2>1, LogGrows DEF TargetAgrees
  <2>2. CASE i \notin DOMAIN log
    <3>1. Installs(w) /\ i = Len(log')
      BY <2>2, LogGrows
    <3> QED BY <3>1, LogGrows
  <2> QED BY <2>1, <2>2
<1>4. ASSUME NEW d \in AtTarget' PROVE d = Alien \/ Newest(d)'
  <2>1. CASE Installs(w)
    BY <1>4, <2>1, TargetEffect, NewestEffect
  <2>2. CASE ~Installs(w) /\ PutsBack(w)
    <3>1. Swapped(w)
      BY <2>2, Stance DEF PutsBack, Swapped
    <3>2. writer[w].moved = Alien \/ Newest(writer[w].moved)
      BY <1>1, <3>1 DEF TargetAgrees
    <3> QED BY <1>4, <2>2, <3>2, TargetEffect, NewestEffect
  <2>3. CASE ~Installs(w) /\ ~PutsBack(w)
    <3>1. d \in AtTarget
      BY <1>4, <2>3, TargetEffect
    <3> QED BY <1>1, <2>3, <3>1, NewestEffect DEF TargetAgrees
  <2> QED BY <2>1, <2>2, <2>3
<1>5. ASSUME NEW v \in Writers, Swapped(v)' PROVE (writer[v].moved = Alien \/ Newest(writer[v].moved))'
  <2>1. CASE v # w
    <3>1. Swapped(v) /\ writer'[v] = writer[v]
      BY <1>5, <2>1, SwapEffect
    <3>2. ~Installs(w)
      BY <2>1, <3>1, SwapEffect, OneSwaps
    <3> QED BY <1>1, <3>1, <3>2, NewestEffect DEF TargetAgrees
  <2>2. CASE v = w /\ PutsAside(w)
    <3>1. ~Installs(w) /\ writer'[w].moved \in AtTarget
      BY <2>2 DEF PutsAside, Installs
    <3> QED BY <1>1, <2>2, <3>1, NewestEffect DEF TargetAgrees
  <2>3. CASE v = w /\ GoesOn(w) /\ Swapped(w) /\ writer'[w].moved = writer[w].moved
    <3>1. ~Installs(w)
      BY <2>3, TargetEffect DEF GoesOn, Installs, SameSave, Swapped
    <3> QED BY <1>1, <2>3, <3>1, NewestEffect DEF TargetAgrees
  <2> QED BY <1>5, <2>1, <2>2, <2>3, SwapEffect
<1> QED BY <1>2, <1>3, <1>4, <1>5 DEF TargetAgrees

(* Without a fault, the newest case stays at the target or in the hands of *)
(* the save that has moved it and may put it back.                         *)
LEMMA SaveKeepsCalm ==
  ASSUME IInv, LoadInv, NEW w \in Writers, SaveEffect(w)
  PROVE CalmAgrees'
<1> SUFFICES ASSUME Calm' PROVE /\ place'[Alien] = "none" /\ \A d \in Dirs : place'[d] # "removed"
                                /\ foreign' \subseteq {Alien, Found}
                                /\ log' # <<>> =>
                                     \/ place'[log'[Len(log')]] = "target"
                                     \/ \E v \in Writers : Swapped(v)' /\ writer'[v].moved = log'[Len(log')]
  BY DEF CalmAgrees
<1>1. /\ Calm /\ place[Alien] = "none" /\ \A d \in Dirs : place[d] # "removed"
      /\ foreign \subseteq {Alien, Found}
  BY AloneEffect DEF LoadInv, CalmAgrees
<1>2. /\ place \in [Dirs -> Places] /\ w \in Dirs /\ Alien \in Dirs /\ w # Alien
  BY Stance, Known, StressAssumption DEF Dirs
<1>3. place'[Alien] = "none" /\ \A d \in Dirs : place'[d] # "removed"
  <2>1. CASE GoesOn(w) \/ Stages(w) \/ Installs(w)
    BY <1>1, <1>2, <2>1 DEF GoesOn, Stages, Installs
  <2>2. CASE PutsAside(w)
    BY <1>1, <1>2, <2>2 DEF PutsAside, AtTarget
  <2>3. CASE PutsBack(w)
    <3>1. writer[w].moved \in Dirs /\ place[writer[w].moved] = "previous"
      BY <2>3, Stance, Known DEF PutsBack, Ended
    <3> QED BY <1>1, <1>2, <2>3, <3>1 DEF PutsBack
  <2>4. CASE Ends(w)
    BY <1>1, <1>2, <2>4 DEF Ends
  <2> QED BY <2>1, <2>2, <2>3, <2>4 DEF SaveEffect
<1>4. foreign' \subseteq {Alien, Found}
  BY <1>1, AloneEffect
<1>5. ASSUME log' # <<>>
      PROVE \/ place'[log'[Len(log')]] = "target"
            \/ \E v \in Writers : Swapped(v)' /\ writer'[v].moved = log'[Len(log')]
  <2>1. CASE Installs(w)
    <3>1. log'[Len(log')] = w /\ place'[w] = "target"
      BY <1>2, <2>1, LogGrows DEF Installs
    <3> QED BY <3>1
  <2>2. CASE ~Installs(w)
    <3> DEFINE last == log[Len(log)]
    <3>1. log' = log /\ log # <<>> /\ last \in Dirs
      BY <1>5, <2>2, LogGrows
    <3>2. \/ place[last] = "target"
          \/ \E v \in Writers : Swapped(v) /\ writer[v].moved = last
      BY <1>1, <3>1 DEF LoadInv, CalmAgrees
    <3>3. CASE place[last] = "target"
      <4>1. last \in AtTarget
        BY <3>1, <3>3 DEF AtTarget
      <4>2. ~PutsBack(w)
        BY <4>1 DEF PutsBack, TargetExists
      <4>3. CASE PutsAside(w)
        <5>1. writer'[w].moved = last /\ last # NoDir
          BY <3>1, <4>1, <4>3, TargetEffect, Known
        <5>2. Swapped(w)'
          BY <4>3, <5>1 DEF PutsAside, Swapped
        <5> QED BY <3>1, <5>1, <5>2
      <4>4. CASE ~PutsAside(w)
        <5>1. last \in AtTarget'
          BY <2>2, <4>1, <4>2, <4>4, TargetEffect
        <5> QED BY <3>1, <5>1 DEF AtTarget
      <4> QED BY <4>3, <4>4
    <3>4. ASSUME NEW v \in Writers, Swapped(v), writer[v].moved = last
          PROVE \/ place'[last] = "target"
                \/ \E u \in Writers : Swapped(u)' /\ writer'[u].moved = last
      <4>1. CASE v # w
        BY <3>4, <4>1, SwapEffect
      <4>2. CASE v = w /\ GoesOn(w)
        BY <3>4, <4>2 DEF GoesOn, SameSave
      <4>3. CASE v = w /\ PutsBack(w)
        <5>1. place'[last] = "target"
          BY <1>2, <3>1, <3>4, <4>3 DEF PutsBack
        <5> QED BY <5>1
      <4>4. CASE v = w /\ Ends(w)
        <5>1. TargetExists
          BY <3>4, <4>4 DEF Ends
        <5>2. PICK d \in AtTarget : TRUE
          BY <5>1 DEF TargetExists
        <5>3. d = Alien \/ Newest(d)
          BY <5>2 DEF LoadInv, TargetAgrees
        <5>4. d # Alien
          BY <1>1, <5>2 DEF AtTarget
        <5>5. place[last] = "target"
          BY <5>2, <5>3, <5>4 DEF Newest, AtTarget
        <5>6. place[last] = "previous"
          BY <3>1, <3>4, <4>4, Stance, AloneEffect, Known DEF Alone
        <5> QED BY <5>5, <5>6
      <4> QED BY <2>2, <3>4, <4>1, <4>2, <4>3, <4>4, SwapEffect
    <3> QED BY <3>1, <3>2, <3>3, <3>4
  <2> QED BY <2>1, <2>2
<1> QED BY <1>3, <1>4, <1>5

LEMMA SaveKeepsLoads ==
  ASSUME IInv, LoadInv, NEW w \in Writers, SaveEffect(w), NEW r \in Readers
  PROVE LoadAgrees(r)'
<1>1. LoadAgrees(r) /\ reader[r].owed \in Nat
  BY DEF LoadInv, IInv, StressTypeOK
<1>2. UNCHANGED <<foreign, bare, shared, reader>> /\ (Calm' => Calm)
  BY AloneEffect
<1>3. reader[r].owed <= Len(log')
  BY <1>1, LogGrows DEF LoadAgrees
<1>4. ASSUME Calm', reader[r].owed > 0 PROVE Replayable(log[reader[r].owed])'
  <2>1. Replayable(log[reader[r].owed])
    BY <1>1, <1>2, <1>4 DEF LoadAgrees
  <2>2. log'[reader[r].owed] = log[reader[r].owed]
    BY <1>1, <1>4, LogGrows DEF LoadAgrees
  <2> QED BY <1>2, <2>1, <2>2 DEF Replayable, Valid
<1>5. ASSUME NEW d, \E i \in DOMAIN log : i >= reader[r].owed /\ log[i] = d
      PROVE \E i \in DOMAIN log' : i >= reader[r].owed /\ log'[i] = d
  BY <1>5, LogGrows
<1> QED BY <1>1, <1>2, <1>3, <1>4, <1>5 DEF LoadAgrees

-----------------------------------------------------------------------------
(* What a load can rely on at the target. *)
LEMMA TargetIsNewest ==
  ASSUME IInv, LoadInv, NEW d \in AtTarget, d # Alien
  PROVE Len(log) \in DOMAIN log /\ log[Len(log)] = d
<1>1. Newest(d) /\ log \in Seq(Dirs)
  BY DEF LoadInv, TargetAgrees, IInv, StressTypeOK
<1> QED BY <1>1 DEF Newest

(* What is owed is still at the target while a load holds the lock.        *)
LEMMA OwedIsThere ==
  ASSUME IInv, LoadInv, NEW r \in Readers, r \in shared, Calm, reader[r].owed > 0
  PROVE \E d \in AtTarget : Replayable(d)
<1> DEFINE owed == reader[r].owed
<1> DEFINE last == log[Len(log)]
<1>1. log \in Seq(Dirs) /\ owed \in Nat /\ owed <= Len(log) /\ Replayable(log[owed])
  BY DEF LoadInv, LoadAgrees, IInv, StressTypeOK
<1>2. log # <<>> /\ Len(log) \in Nat /\ Len(log) \in DOMAIN log /\ last \in Dirs
  BY <1>1
<1>3. exclusive = NoOne
  BY DEF IInv, ReaderAgrees
<1>4. \A v \in Writers : ~Swapped(v)
  BY <1>3, Known, StressAssumption DEF Swapped, WriterAgrees, Swapping
<1>5. place[last] = "target"
  BY <1>2, <1>4 DEF LoadInv, CalmAgrees
<1>6. Replayable(last)
  <2>1. CASE owed = Len(log)
    BY <1>1, <2>1
  <2>2. CASE owed # Len(log)
    <3>1. last \in Writers
      BY <1>1, <1>2, <2>2 DEF LoadInv, TargetAgrees
    <3> QED BY <3>1, StressAssumption DEF LoadInv, CalmAgrees, Replayable, Valid
  <2> QED BY <2>1, <2>2
<1> QED BY <1>2, <1>5, <1>6 DEF AtTarget

(* A load changes only itself and its hold on the lock. *)
OnlyLoads(r) ==
  /\ UNCHANGED <<place, foreign, bare, writer, counts, log>>
  /\ \A q \in Readers \ {r} : reader'[q] = reader[q] /\ (q \in shared => q \in shared')

LEMMA LoadKeepsOthers ==
  ASSUME IInv, LoadInv, NEW r \in Readers, OnlyLoads(r), LoadAgrees(r)'
  PROVE LoadInv'
<1>1. UNCHANGED <<place, foreign, bare, writer, meddled, faults, kills, log>>
  BY DEF OnlyLoads, counts
<1>2. TargetAgrees' /\ CalmAgrees'
  BY <1>1 DEF LoadInv, TargetAgrees, CalmAgrees, AtTarget, Newest, Swapped, Calm
<1>3. ASSUME NEW q \in Readers \ {r} PROVE LoadAgrees(q)'
  <2>1. LoadAgrees(q) /\ reader'[q] = reader[q] /\ (q \in shared => q \in shared')
    BY DEF OnlyLoads, LoadInv
  <2> QED BY <1>1, <2>1 DEF LoadAgrees, Calm, Replayable, Valid
<1> QED BY <1>2, <1>3 DEF LoadInv

LEMMA AnswerKeepsLoad ==
  ASSUME IInv, LoadInv, NEW r \in Readers, NEW d \in Dirs \cup {NoDir}, Answer(r, d),
         UNCHANGED <<files, exclusive, writer, cancelled, counts, history>>,
         d # Alien, d \in {NoDir, reader[r].dir},
         d = NoDir => reader[r].owed = 0 \/ ~reader[r].locks \/ ~Calm
  PROVE LoadInv'
<1>1. UNCHANGED <<place, foreign, bare, writer, meddled, faults, kills, log>>
  BY DEF files, counts, history
<1>2. reader[r] \in Load /\ reader \in [Readers -> Load] /\ LoadAgrees(r)
  BY DEF IInv, StressTypeOK, Load, LoadInv
<1>3. /\ reader'[r] = [reader[r] EXCEPT !.step = "done", !.dir = d]
      /\ \A q \in Readers \ {r} : reader'[q] = reader[q]
      /\ shared' = shared \ {r}
  BY <1>2 DEF Answer
<1>4. /\ reader'[r].step = "done" /\ reader'[r].dir = d /\ reader'[r].owed = reader[r].owed
      /\ reader'[r].locks = reader[r].locks
  BY <1>2, <1>3 DEF Load
<1>5. LoadAgrees(r)'
  BY <1>1, <1>2, <1>4 DEF LoadAgrees, Calm, Replayable, Valid
<1>6. OnlyLoads(r)
  BY <1>1, <1>3 DEF OnlyLoads, counts
<1> QED BY <1>5, <1>6, LoadKeepsOthers

(* What is owed when a load begins. *)
LEMMA OwedIsReplayable ==
  ASSUME IInv
  PROVE Owed \in Nat /\ Owed <= Len(log) /\ (Owed > 0 => Replayable(log[Owed]))
<1>1. log \in Seq(Dirs)
  BY DEF IInv, StressTypeOK
<1>2. CASE NewestReplayable = {}
  BY <1>1, <1>2 DEF Owed
<1>3. CASE NewestReplayable # {}
  <2>1. Owed \in NewestReplayable
    BY <1>3 DEF Owed
  <2> QED BY <1>1, <2>1 DEF NewestReplayable
<1> QED BY <1>2, <1>3

LEMMA LoadKeepsLoads ==
  ASSUME IInv, LoadInv, NEW r \in Readers, LoadStep(r)
  PROVE LoadInv'
<1>1. /\ reader[r] \in Load /\ reader \in [Readers -> Load] /\ LoadAgrees(r)
      /\ reader[r].step \in {"idle", "lock", "openDir"} => reader[r].dir = NoDir
      /\ Alien \in Dirs /\ NoDir \notin Dirs
  BY StressAssumption DEF IInv, StressTypeOK, Load, LoadInv, ReaderAgrees, Dirs
<1>2. ASSUME NEW rec \in Load, reader' = [reader EXCEPT ![r] = rec],
             shared' = shared \/ shared' = shared \cup {r},
             UNCHANGED <<files, exclusive, writer, cancelled, counts, history>>,
             LoadAgrees(r)'
      PROVE LoadInv'
  <2>1. UNCHANGED <<place, foreign, bare, writer, counts, log>>
    BY <1>2 DEF files, history
  <2>2. OnlyLoads(r)
    BY <1>1, <1>2, <2>1 DEF OnlyLoads
  <2> QED BY <1>2, <2>2, LoadKeepsOthers
<1>3. CASE BeginLoad(r)
  <2> DEFINE rec == [step |-> IF lockFile THEN "lock" ELSE "openDir", locks |-> lockFile,
                     dir |-> NoDir, owed |-> Owed]
  <2>1. rec \in Load
    BY OwedIsReplayable DEF Load, ReaderSteps, IInv, StressTypeOK
  <2>2. reader' = [reader EXCEPT ![r] = rec] /\ shared' = shared
        /\ UNCHANGED <<files, exclusive, writer, cancelled, counts, history>>
    BY <1>3 DEF BeginLoad, locks
  <2>3. /\ reader'[r] = rec /\ rec.dir = NoDir /\ rec.owed = Owed /\ rec.locks = lockFile
        /\ rec.step = IF lockFile THEN "lock" ELSE "openDir"
    BY <1>1, <2>2
  <2>4. UNCHANGED <<foreign, bare, log, meddled, faults, kills>> /\ lockFile \in BOOLEAN
    BY <2>2 DEF files, counts, history, IInv, StressTypeOK
  <2> HIDE DEF rec
  <2>5. LoadAgrees(r)'
    BY <2>3, <2>4, OwedIsReplayable DEF LoadAgrees, Calm, Replayable, Valid
  <2> QED BY <1>2, <2>1, <2>2, <2>5
<1>4. CASE LockShared(r)
  <2> DEFINE rec == [reader[r] EXCEPT !.step = "openDir"]
  <2>1. /\ rec \in Load /\ rec.dir = NoDir /\ rec.step = "openDir" /\ rec.locks = reader[r].locks
        /\ rec.owed = reader[r].owed /\ reader[r].dir = NoDir
    BY <1>1, <1>4 DEF Load, ReaderSteps, LockShared, ReaderAt
  <2>2. reader' = [reader EXCEPT ![r] = rec] /\ shared' = shared \cup {r}
        /\ UNCHANGED <<files, exclusive, writer, cancelled, counts, history>>
    BY <1>1, <1>4 DEF LockShared
  <2>3. UNCHANGED <<foreign, bare, log, meddled, faults, kills>> /\ reader'[r] = rec
    BY <1>1, <2>2 DEF files, counts, history
  <2> HIDE DEF rec
  <2>4. LoadAgrees(r)'
    BY <1>1, <2>1, <2>2, <2>3 DEF LoadAgrees, Calm, Replayable, Valid
  <2> QED BY <1>2, <2>1, <2>2, <2>4
<1>5. CASE OpenDir(r)
  <2>1. reader[r].step = "openDir" /\ reader[r].dir = NoDir
    BY <1>1, <1>5 DEF OpenDir, ReaderAt
  <2>2. ASSUME NEW d \in AtTarget, UNCHANGED <<shared, files, exclusive, writer, cancelled, counts, history>>,
               reader' = [reader EXCEPT ![r].step = "openFiles", ![r].dir = d]
        PROVE LoadInv'
    <3> DEFINE rec == [reader[r] EXCEPT !.step = "openFiles", !.dir = d]
    <3>1. d \in Dirs /\ d # NoDir
      BY <1>1 DEF AtTarget
    <3>2. /\ rec \in Load /\ rec.step = "openFiles" /\ rec.dir = d /\ rec.locks = reader[r].locks
          /\ rec.owed = reader[r].owed
      BY <1>1, <3>1 DEF Load, ReaderSteps
    <3>3. reader' = [reader EXCEPT ![r] = rec] /\ reader'[r] = rec
      BY <1>1, <2>2
    <3>4. UNCHANGED <<foreign, bare, log, meddled, faults, kills, shared>>
      BY <2>2 DEF files, counts, history
    <3>5. d # Alien => \E i \in DOMAIN log : i >= reader[r].owed /\ log[i] = d
      BY <1>1, <2>2, TargetIsNewest DEF LoadAgrees
    <3> HIDE DEF rec
    <3>6. LoadAgrees(r)'
      BY <1>1, <2>1, <3>1, <3>2, <3>3, <3>4, <3>5 DEF LoadAgrees, Calm, Replayable, Valid
    <3> QED BY <1>2, <2>2, <3>2, <3>3, <3>6
  <2>3. ASSUME ~TargetExists, Answer(r, NoDir),
               UNCHANGED <<files, exclusive, writer, cancelled, counts, history>>
        PROVE LoadInv'
    <3>1. reader[r].owed = 0 \/ ~reader[r].locks \/ ~Calm
      <4>1. ASSUME reader[r].owed # 0, reader[r].locks, Calm PROVE FALSE
        <5>1. r \in shared /\ reader[r].owed > 0
          BY <1>1, <2>1, <4>1 DEF LoadAgrees, Load
        <5> QED BY <2>3, <4>1, <5>1, OwedIsThere DEF TargetExists
      <4> QED BY <4>1
    <3> QED BY <1>1, <2>3, <3>1, AnswerKeepsLoad
  <2> QED BY <1>5, <2>2, <2>3 DEF OpenDir
<1>6. CASE OpenFiles(r)
  <2> DEFINE d == reader[r].dir
  <2> DEFINE whole == Replayable(d) /\ place[d] \notin {"deleted", "removed"}
  <2>1. reader[r].step = "openFiles" /\ d \in Dirs /\ d # NoDir
    BY <1>1, <1>6 DEF OpenFiles, ReaderAt, LoadAgrees, Load
  <2>2. ASSUME whole, UNCHANGED <<shared, files, exclusive, writer, cancelled, counts, history>>,
               reader' = [reader EXCEPT ![r].step = "read"]
        PROVE LoadInv'
    <3> DEFINE rec == [reader[r] EXCEPT !.step = "read"]
    <3>1. /\ rec \in Load /\ rec.step = "read" /\ rec.dir = d /\ rec.locks = reader[r].locks
          /\ rec.owed = reader[r].owed
      BY <1>1 DEF Load, ReaderSteps
    <3>2. reader' = [reader EXCEPT ![r] = rec] /\ reader'[r] = rec
      BY <1>1, <2>2
    <3>3. UNCHANGED <<foreign, bare, log, meddled, faults, kills, shared>>
      BY <2>2 DEF files, counts, history
    <3>4. d # Alien
      BY <2>2 DEF Replayable, Valid, LoadInv, TargetAgrees
    <3> HIDE DEF rec
    <3>5. LoadAgrees(r)'
      BY <1>1, <2>1, <3>1, <3>2, <3>3, <3>4 DEF LoadAgrees, Calm, Replayable, Valid
    <3> QED BY <1>2, <2>2, <3>1, <3>2, <3>5
  <2>3. ASSUME ~whole, Answer(r, NoDir),
               UNCHANGED <<files, exclusive, writer, cancelled, counts, history>>
        PROVE LoadInv'
    <3>1. reader[r].owed = 0 \/ ~reader[r].locks \/ ~Calm
      <4>1. ASSUME reader[r].owed # 0, reader[r].locks, Calm PROVE FALSE
        <5>1. r \in shared /\ reader[r].owed > 0
          BY <1>1, <2>1, <4>1 DEF LoadAgrees, Load
        <5>2. place[d] = "target"
          <6>1. place[d] \in {"target", "removed"}
            BY <2>1, <5>1 DEF IInv, ReaderAgrees, LockedReadIsUndisturbed
          <6> QED BY <2>1, <4>1, <6>1 DEF LoadInv, CalmAgrees
        <5>3. PICK e \in AtTarget : Replayable(e)
          BY <4>1, <5>1, OwedIsThere
        <5>4. e = d
          BY <2>1, <5>2, <5>3 DEF IInv, StressTypeOK, AtTarget
        <5> QED BY <2>3, <5>2, <5>3, <5>4
      <4> QED BY <4>1
    <3> QED BY <1>1, <2>3, <3>1, AnswerKeepsLoad
  <2> QED BY <1>6, <2>2, <2>3 DEF OpenFiles
<1>7. CASE Read(r)
  <2>1. /\ reader[r].step = "read" /\ Answer(r, reader[r].dir) /\ reader[r].dir \in Dirs
        /\ reader[r].dir # NoDir /\ reader[r].dir # Alien
        /\ UNCHANGED <<files, exclusive, writer, cancelled, counts, history>>
    BY <1>1, <1>7 DEF Read, ReaderAt, LoadAgrees, Load
  <2> QED BY <2>1, AnswerKeepsLoad
<1> QED BY <1>3, <1>4, <1>5, <1>6, <1>7 DEF LoadStep

-----------------------------------------------------------------------------
(* After a foreign change a load is owed nothing. *)
LEMMA MeddlingKeepsLoads ==
  ASSUME IInv, LoadInv, Meddle, foreign \subseteq foreign',
         UNCHANGED <<bare, shared, writer, reader, faults, kills, log>>,
         AtTarget' \subseteq AtTarget \cup {Alien}
  PROVE LoadInv'
<1>1. ~Calm'
  BY StressAssumption DEF Meddle, Calm, IInv, StressTypeOK
<1>2. TargetAgrees'
  BY DEF LoadInv, TargetAgrees, Newest, Swapped
<1>3. ASSUME NEW r \in Readers PROVE LoadAgrees(r)'
  BY <1>1 DEF LoadInv, LoadAgrees
<1> QED BY <1>1, <1>2, <1>3 DEF LoadInv, CalmAgrees

LEMMA NextKeepsLoads ==
  ASSUME IInv, LoadInv, [Next]_vars
  PROVE LoadInv'
<1> USE DEF files, locks, counts, history
<1>1. ASSUME NEW w \in Writers, SaveStep(w) \/ Kill(w) PROVE LoadInv'
  BY <1>1, SaveHasEffect, SaveKeepsTarget, SaveKeepsCalm, SaveKeepsLoads DEF LoadInv
<1>2. ASSUME UNCHANGED <<place, foreign, bare, shared, writer, reader, meddled, faults, kills, log>>
      PROVE LoadInv'
  <2>1. TargetAgrees' /\ CalmAgrees'
    BY <1>2 DEF LoadInv, TargetAgrees, CalmAgrees, AtTarget, Newest, Swapped, Calm
  <2>2. ASSUME NEW r \in Readers PROVE LoadAgrees(r)'
    BY <1>2 DEF LoadInv, LoadAgrees, Calm, Replayable, Valid
  <2> QED BY <2>1, <2>2 DEF LoadInv
<1>3. ASSUME NEW w \in Writers, Cancel(w) PROVE LoadInv'
  BY <1>2, <1>3 DEF Cancel
<1>4. ASSUME NEW d \in Dirs, AddEntry(d) PROVE LoadInv'
  BY <1>4, MeddlingKeepsLoads DEF AddEntry, AtTarget
<1>5. ASSUME NEW d \in Dirs, RemoveCase(d) PROVE LoadInv'
  <2>1. AtTarget' \subseteq AtTarget
    BY <1>5 DEF RemoveCase, Rename, AtTarget, IInv, StressTypeOK
  <2> QED BY <1>5, <2>1, MeddlingKeepsLoads DEF RemoveCase
<1>6. ASSUME Compete PROVE LoadInv'
  <2>1. AtTarget' \subseteq AtTarget \cup {Alien}
    BY <1>6 DEF Compete, Rename, AtTarget, IInv, StressTypeOK
  <2> QED BY <1>6, <2>1, MeddlingKeepsLoads DEF Compete
<1>7. ASSUME UNCHANGED vars PROVE LoadInv'
  BY <1>2, <1>7 DEF vars
<1> QED BY <1>1, <1>3, <1>4, <1>5, <1>6, <1>7, LoadKeepsLoads DEF Next

LEMMA InitLoads == Init => LoadInv
<1> SUFFICES ASSUME Init PROVE LoadInv
  OBVIOUS
<1>1. /\ Alien \in foreign /\ foreign \subseteq {Alien, Found}
      /\ \A d \in Dirs \ {Found} : place[d] = "none"
      /\ \A d \in Dirs : place[d] \in {"none", "target"}
      /\ log = IF place[Found] = "target" THEN <<Found>> ELSE <<>>
      /\ Found \in Dirs /\ Alien \in Dirs /\ Found # Alien
  BY StressAssumption DEF Init, Dirs
<1>2. /\ \A w \in Writers : writer[w].step = "idle"
      /\ \A r \in Readers : reader[r] = [step |-> "idle", locks |-> FALSE, dir |-> NoDir, owed |-> 0]
  BY DEF Init
<1>3. TargetAgrees
  BY <1>1, <1>2 DEF TargetAgrees, AtTarget, Newest, Swapped
<1>4. CalmAgrees
  BY <1>1 DEF CalmAgrees
<1>5. ASSUME NEW r \in Readers PROVE LoadAgrees(r)
  <2>1. 0 <= Len(log)
    BY <1>1
  <2> QED BY <1>2, <2>1 DEF LoadAgrees
<1> QED BY <1>3, <1>4, <1>5 DEF LoadInv

(* load_saved_case answers with the newest replayable case there was when  *)
(* it began or with a newer one; with none, only where the lock file, a    *)
(* fault or a foreign change explains it.                                  *)
THEOREM LoadsFindTheNewest == Spec => []LoadFindsTheNewest
<1>1. IInv /\ LoadInv => LoadFindsTheNewest
  <2> SUFFICES ASSUME IInv, LoadInv, NEW r \in Readers, ReaderAt(r, "done")
               PROVE IF reader[r].dir = NoDir
                       THEN reader[r].owed = 0 \/ ~reader[r].locks \/ meddled + faults + kills > 0
                       ELSE \E i \in DOMAIN log : i >= reader[r].owed /\ log[i] = reader[r].dir
    BY DEF LoadFindsTheNewest
  <2>1. LoadAgrees(r) /\ meddled \in Nat /\ faults \in Nat /\ kills \in Nat
    BY StressAssumption DEF LoadInv, IInv, StressTypeOK
  <2>2. ~Calm => meddled + faults + kills > 0
    BY <2>1 DEF Calm
  <2> QED BY <2>1, <2>2 DEF LoadAgrees, ReaderAt
<1>2. IInv /\ LoadInv /\ [Next]_vars => LoadInv'
  BY NextKeepsLoads
<1> QED BY <1>1, <1>2, InitLoads, IInvAlways, PTL DEF Spec
=============================================================================
