-------------------------- MODULE ContestRefreshProofs --------------------------
(***************************************************************************)
(* Proofs about the replacement of a contest's data, for any number of     *)
(* operations one after another and any number of failing renames, killed  *)
(* operations and changes made by another program.                         *)
(*                                                                         *)
(* What is deleted is what is in the staging directory at the end of an    *)
(* operation.  The invariant says what can be there at each step: the old  *)
(* data only between its move and its return, or after a return failed,    *)
(* which keeps the directory; an entry that is not owned only if it was    *)
(* added late, or with tests that a rollback took out of the contest.      *)
(*                                                                         *)
(* A second invariant says where everything is exactly, as long as nobody  *)
(* interferes: an operation then does all or nothing, and only what was    *)
(* planned.                                                                *)
(***************************************************************************)
EXTENDS ContestRefresh, TLAPS

(* Steps at which the old tests are aside. *)
TestsAside == {"validateMoved", "manifest", "installTests", "moveMeta", "createMarker",
               "installMeta", "inspect", "cleanup", "undoMeta", "undoMarker", "undoTests",
               "restoreTests"}
NoStaging == {"idle", "fetch", "confirm", "ended"}

PlaceInv == \A g \in Gens :
  /\ tests[g] = "previous" => op.hadTests /\ (op.step \in TestsAside \/ (At("giveUp") /\ op.errors))
  /\ meta[g] = "previous" =>
       /\ op.hadMeta
       /\ \/ op.step \in {"installMeta", "inspect", "cleanup", "undoMeta"}
          \/ op.step \in {"undoMarker", "undoTests", "restoreTests", "giveUp"} /\ op.errors
  /\ tests[g] = "staged" \/ meta[g] = "staged" => op.step \notin NoStaging

UniqueInv == \A g, h \in Gens :
  tests[g] = tests[h] /\ tests[g] \in {"contest", "previous", "staged"} => g = h

FreshInv ==
  /\ \A o \in Ops \ started : tests[o] = "none" /\ meta[o] = "none"
  /\ At("fetch") => op.gen \in Ops /\ tests[op.gen] = "none" /\ meta[op.gen] = "none"
  /\ op.step \notin {"idle", "ended"} => op.gen \in started /\ op.kind # "none"

KindInv ==
  /\ op.kind = "meta" => ~op.hadTests /\ ~op.moved
  /\ op.step \in {"fetch", "prepared", "look", "moveTests", "validateMoved", "manifest",
                  "installTests"} => ~op.moved
  /\ op.step = "moveTests" => op.hadTests
  /\ op.step \in {"validateMoved", "manifest", "installTests"} => op.kind # "meta"
  /\ op.step \in {"idle", "fetch", "prepared", "look"} => ~op.hadTests /\ ~op.hadMeta
  /\ op.step \in {"moveMeta", "createMarker", "installMeta", "undoMeta", "undoMarker"} =>
       op.kind # "tests"
  /\ op.step = "moveMeta" => op.hadMeta
  /\ op.step = "undoTests" => op.moved /\ (op.kind = "both" \/ op.keep)
  /\ op.moved \/ At("installTests") => HasSamples
  /\ op.kind = "tests" => ~op.hadMeta
  /\ op.step \notin {"ended", "confirm"} => op.outcome = "none"

BeforeInv == op.outcome \notin {"updated", "unhealthy"} =>
  \A g \in Gens :
    /\ g = before.tests => /\ tests[g] \notin {"none", "staged", "deleted"}
                           /\ op.moved /\ ~At("giveUp") => tests[g] # "contest"
    /\ g = before.meta => meta[g] \notin {"none", "staged", "deleted"}

UnownedInv == \A g \in unowned :
  /\ tests[g] # "none"
  /\ tests[g] = "staged" => \/ g \in returned
                            \/ op.keep /\ op.step \in {"restoreTests", "giveUp"}
  /\ tests[g] = "deleted" => g \in late \cup returned
  /\ tests[g] = "previous" /\ At("cleanup") => g \in late

IInv == /\ RefreshTypeOK /\ PlaceInv /\ UniqueInv /\ FreshInv /\ KindInv /\ BeforeInv
        /\ UnownedInv

OpSet == [gen : Ops \cup {Nothing}, step : Steps, kind : Kinds, repair : BOOLEAN,
          force : BOOLEAN, basis : Gens \cup {Nothing}, hadMarker : BOOLEAN,
          hadTests : BOOLEAN, hadMeta : BOOLEAN, made : BOOLEAN, moved : BOOLEAN,
          errors : BOOLEAN, keep : BOOLEAN, outcome : Outcomes]

-----------------------------------------------------------------------------
(* Where a generation is, and where it is after a rename. *)
LEMMA TheFacts ==
  ASSUME NEW p, NEW what
  PROVE  /\ Nothing \notin Gens
         /\ The(p, what) \in Gens \cup {Nothing}
         /\ The(p, what) # Nothing => The(p, what) \in Gens /\ what[The(p, what)] = p
         /\ The(p, what) = Nothing => \A g \in Gens : what[g] # p
<1>1. Nothing \notin Gens
  BY RefreshAssumption DEF Gens
<1> QED BY <1>1 DEF The

LEMMA NoOpTyped == NoOp \in OpSet
  BY DEF NoOp, OpSet, Steps, Kinds, Outcomes

LEMMA InitInv == Init => IInv
<1> SUFFICES ASSUME Init PROVE IInv
  OBVIOUS
<1>1. Old \in Gens /\ Nothing \notin Gens /\ Old \notin Ops /\ MaxTroubles \in Nat
  BY RefreshAssumption DEF Gens
<1>2. /\ tests \in [Gens -> Places] /\ meta \in [Gens -> Places]
      /\ health \in [Gens -> {"healthy", "invalid", "unsupported"}]
      /\ \A g \in Gens : tests[g] \in {"none", "contest"} /\ (g # Old => tests[g] = "none")
                         /\ meta[g] \in {"none", "contest"} /\ (g # Old => meta[g] = "none")
  BY DEF Init, Places
<1>3. unowned \subseteq {Old} /\ broken \subseteq {Old} /\ sampleless \subseteq {Old}
      /\ \A g \in unowned : tests[g] = "contest"
  BY DEF Init
<1>4. /\ op = NoOp /\ started = {} /\ troubles = 0 /\ touched = FALSE /\ late = {}
      /\ returned = {} /\ before = [tests |-> Nothing, meta |-> Nothing] /\ marker \in BOOLEAN
  BY DEF Init
<1>5. RefreshTypeOK
  <2>1. op \in OpSet
    BY <1>4, NoOpTyped
  <2>2. before \in [tests : Gens \cup {Nothing}, meta : Gens \cup {Nothing}]
    BY <1>4
  <2>3. troubles \in 0..MaxTroubles
    BY <1>1, <1>4
  <2>4. touched \in BOOLEAN
    BY <1>4
  <2> QED BY <1>1, <1>2, <1>3, <1>4, <2>1, <2>2, <2>3, <2>4 DEF RefreshTypeOK, OpSet
<1>6. PlaceInv /\ UniqueInv /\ FreshInv
  <2>1. PlaceInv
    BY <1>2 DEF PlaceInv
  <2>2. UniqueInv
    BY <1>2 DEF UniqueInv
  <2>3. Ops \subseteq Gens /\ op.step = "idle"
    BY <1>4 DEF Gens, NoOp
  <2>4. FreshInv
    BY <1>1, <1>2, <2>3 DEF FreshInv, At
  <2> QED BY <2>1, <2>2, <2>4
<1>7. KindInv /\ BeforeInv /\ UnownedInv
  BY <1>1, <1>2, <1>3, <1>4 DEF KindInv, BeforeInv, UnownedInv, NoOp, At, HasSamples
<1> QED BY <1>5, <1>6, <1>7 DEF IInv

(* A step that moves nothing. *)
LEMMA MarkerStep ==
  ASSUME IInv, op' \in OpSet, UNCHANGED <<tests, meta, unowned, broken, health, sampleless>>,
         marker' \in BOOLEAN, UNCHANGED <<started, before, late, returned>>,
         touched' \in BOOLEAN, troubles' \in 0..MaxTroubles,
         op'.gen = op.gen, op'.kind = op.kind, op'.moved = op.moved, op'.outcome = op.outcome,
         op.keep => op'.keep, op'.step \notin NoStaging, op'.step # "cleanup",
         op.step \notin {"idle", "ended", "giveUp"}, op.step = "restoreTests" => op'.step = "giveUp",
         PlaceInv', KindInv'
  PROVE  IInv'
<1>1. UNCHANGED <<tests, meta, unowned, broken, health, sampleless, started, before, late,
                  returned>>
  OBVIOUS
<1>2. RefreshTypeOK'
  BY <1>1 DEF IInv, RefreshTypeOK, OpSet
<1>3. UniqueInv' /\ FreshInv'
  BY <1>1 DEF IInv, UniqueInv, FreshInv, At, NoStaging
<1>4. BeforeInv'
  BY <1>1 DEF IInv, BeforeInv, At
<1>5. UnownedInv'
  BY <1>1 DEF IInv, UnownedInv, At
<1> QED BY <1>2, <1>3, <1>4, <1>5 DEF IInv

LEMMA QuietStep ==
  ASSUME IInv, op' \in OpSet, UNCHANGED <<files, started, before, late, returned>>,
         touched' \in BOOLEAN, troubles' \in 0..MaxTroubles,
         op'.gen = op.gen, op'.kind = op.kind, op'.moved = op.moved, op'.outcome = op.outcome,
         op.keep => op'.keep, op'.step \notin NoStaging, op'.step # "cleanup",
         op.step \notin {"idle", "ended", "giveUp"}, op.step = "restoreTests" => op'.step = "giveUp",
         PlaceInv', KindInv'
  PROVE  IInv'
<1>1. UNCHANGED <<tests, meta, unowned, broken, health, sampleless>> /\ marker' \in BOOLEAN
  BY DEF files, IInv, RefreshTypeOK
<1> QED BY <1>1, MarkerStep

(* The end of an operation: what is deleted is neither old, unless the new    *)
(* data is in place, nor unowned.                                            *)
LEMMA EndInv ==
  ASSUME IInv, NEW outcome \in Outcomes \ {"none"}, End(outcome), Running,
         UNCHANGED <<started, late, returned>>, touched' \in BOOLEAN, troubles' \in 0..MaxTroubles,
         before' \in [tests : Gens \cup {Nothing}, meta : Gens \cup {Nothing}],
         outcome \notin {"updated", "unhealthy"} => op.outcome \notin {"updated", "unhealthy"},
         UNCHANGED before \/ before' = [tests |-> LiveTests, meta |-> LiveMeta],
         outcome \notin {"kept", "killed"} =>
           \A g \in unowned : tests[g] \in {"staged", "previous"} => g \in late \cup returned,
         outcome = "failed" => \A g \in Gens : tests[g] # "previous" /\ meta[g] # "previous"
  PROVE  IInv'
<1> DEFINE where == CASE outcome = "kept" -> "kept" [] outcome = "killed" -> "left" [] OTHER -> "deleted"
<1>1. /\ where \in {"kept", "left", "deleted"}
      /\ where = "deleted" <=> outcome \notin {"kept", "killed"}
  OBVIOUS
<1>2. /\ op' = [NoOp EXCEPT !.gen = op.gen, !.kind = op.kind, !.step = "ended", !.outcome = outcome]
      /\ tests' = Dropped(tests, where) /\ meta' = Dropped(meta, where)
      /\ UNCHANGED <<marker, unowned, broken, health, sampleless>>
  BY DEF End
<1> HIDE DEF where
<1>3. op \in OpSet /\ tests \in [Gens -> Places] /\ meta \in [Gens -> Places]
  BY DEF IInv, RefreshTypeOK, OpSet
<1>4. /\ op' \in OpSet /\ op'.step = "ended" /\ op'.outcome = outcome /\ ~op'.moved /\ ~op'.hadTests
      /\ ~op'.hadMeta /\ ~op'.keep
  <2>1. op.gen \in Ops \cup {Nothing} /\ op.kind \in Kinds /\ "ended" \in Steps
    BY <1>3 DEF OpSet, Steps
  <2>2. op' \in OpSet
    BY <1>2, <2>1, NoOpTyped DEF OpSet
  <2>3. /\ op'.step = "ended" /\ op'.outcome = outcome /\ op'.moved = FALSE /\ op'.hadTests = FALSE
        /\ op'.hadMeta = FALSE /\ op'.keep = FALSE
    BY <1>2 DEF NoOp
  <2> QED BY <2>2, <2>3
<1>5. \A g \in Gens :
        /\ tests'[g] = IF tests[g] \in {"staged", "previous"} THEN where ELSE tests[g]
        /\ meta'[g] = IF meta[g] \in {"staged", "previous"} THEN where ELSE meta[g]
  BY <1>2 DEF Dropped
<1>6. tests' \in [Gens -> Places] /\ meta' \in [Gens -> Places]
  BY <1>1, <1>2, <1>3 DEF Dropped, Places
<1>7. RefreshTypeOK'
  BY <1>2, <1>4, <1>6 DEF IInv, RefreshTypeOK, OpSet
<1>8. PlaceInv'
  BY <1>1, <1>5 DEF PlaceInv
<1>9. UniqueInv'
  BY <1>1, <1>5 DEF IInv, UniqueInv
<1>10. FreshInv'
  <2>1. Ops \subseteq Gens
    BY DEF Gens
  <2> QED BY <1>4, <1>5, <2>1 DEF IInv, FreshInv, At
<1>11. KindInv'
  BY <1>4 DEF KindInv, At
<1>12. BeforeInv'
  <2>1. CASE UNCHANGED before
    <3>1. outcome \in {"updated", "unhealthy", "failed", "kept", "killed"}
      BY DEF Outcomes
    <3> QED BY <1>1, <1>4, <1>5, <2>1, <3>1 DEF IInv, BeforeInv, At
  <2>2. CASE before' = [tests |-> LiveTests, meta |-> LiveMeta]
    <3>1. \A g \in Gens : /\ g = before'.tests => tests[g] = "contest"
                          /\ g = before'.meta => meta[g] = "contest"
      BY <2>2, TheFacts DEF LiveTests, LiveMeta
    <3> QED BY <1>4, <1>5, <3>1 DEF BeforeInv, At
  <2> QED BY <2>1, <2>2
<1>13. UnownedInv'
  <2>1. unowned \subseteq Gens
    BY DEF IInv, RefreshTypeOK
  <2> QED BY <1>1, <1>2, <1>4, <1>5, <2>1 DEF IInv, UnownedInv, At
<1> QED BY <1>7, <1>8, <1>9, <1>10, <1>11, <1>12, <1>13 DEF IInv

-----------------------------------------------------------------------------
(* An operation starts, and is prepared. *)
LEMMA StartInv ==
  ASSUME IInv, NEW o \in Ops \ started, ~Running,
         op' \in OpSet, op'.gen = o, op'.step = "fetch", op'.kind # "none", op'.hadTests = FALSE,
         op'.hadMeta = FALSE, op'.moved = FALSE, op'.keep = FALSE, op'.outcome = "none",
         started' = started \cup {o}, sampleless' \in {sampleless, sampleless \cup {o}},
         before' = [tests |-> LiveTests, meta |-> LiveMeta], touched' = FALSE,
         UNCHANGED <<tests, meta, marker, unowned, broken, health, troubles, late, returned>>
  PROVE  IInv'
<1>1. o \in Gens
  BY DEF Gens
<1>2. RefreshTypeOK'
  <2>1. before' \in [tests : Gens \cup {Nothing}, meta : Gens \cup {Nothing}]
    BY TheFacts DEF LiveTests, LiveMeta
  <2>2. sampleless' \subseteq Gens /\ started' \subseteq Ops /\ touched' \in BOOLEAN
    BY <1>1 DEF IInv, RefreshTypeOK
  <2> QED BY <2>1, <2>2 DEF IInv, RefreshTypeOK, OpSet
<1>3. op.step \in {"idle", "ended"}
  BY DEF Running
<1>4. PlaceInv'
  BY <1>3 DEF IInv, PlaceInv, TestsAside, NoStaging, At
<1>5. UniqueInv' /\ FreshInv' /\ KindInv'
  BY DEF IInv, UniqueInv, FreshInv, KindInv, At
<1>6. BeforeInv'
  <2>1. \A g \in Gens : /\ g = before'.tests => tests[g] = "contest"
                        /\ g = before'.meta => meta[g] = "contest"
    BY TheFacts DEF LiveTests, LiveMeta
  <2> QED BY <2>1 DEF BeforeInv, At
<1>7. UnownedInv'
  <2>1. unowned \subseteq Gens
    BY DEF IInv, RefreshTypeOK
  <2>2. \A g \in unowned : tests[g] # "staged"
    BY <1>3, <2>1 DEF IInv, PlaceInv, NoStaging
  <2> QED BY <2>2 DEF IInv, UnownedInv, At
<1> QED BY <1>2, <1>4, <1>5, <1>6, <1>7 DEF IInv

LEMMA LiveTyped == LiveTests \in Gens \cup {Nothing} /\ LiveMeta \in Gens \cup {Nothing}
  BY TheFacts DEF LiveTests, LiveMeta

LEMMA StartRefreshInv ==
  ASSUME IInv, NEW o \in Ops, NEW force \in BOOLEAN, StartRefresh(o, force)
  PROVE  IInv'
<1> DEFINE p == [NoOp EXCEPT !.gen = o, !.step = "fetch", !.kind = "both", !.force = force,
                             !.basis = LiveMeta]
<1>1. /\ ~Running /\ o \in Ops \ started /\ op' = p /\ started' = started \cup {o}
      /\ sampleless' \in {sampleless, sampleless \cup {o}}
      /\ before' = [tests |-> LiveTests, meta |-> LiveMeta] /\ touched' = FALSE
      /\ UNCHANGED <<tests, meta, marker, unowned, broken, health, troubles, late, returned>>
  BY DEF StartRefresh
<1>2. p \in OpSet
  BY NoOpTyped, LiveTyped DEF OpSet, Steps, Kinds
<1>3. /\ p.gen = o /\ p.step = "fetch" /\ p.kind # "none" /\ p.hadTests = FALSE /\ p.hadMeta = FALSE
      /\ p.moved = FALSE /\ p.keep = FALSE /\ p.outcome = "none"
  BY DEF NoOp
<1> HIDE DEF p
<1> QED BY <1>1, <1>2, <1>3, StartInv

LEMMA StartRepairInv ==
  ASSUME IInv, NEW o \in Ops, NEW samples \in BOOLEAN, StartRepair(o, samples)
  PROVE  IInv'
<1> DEFINE basis == IF MetadataHealth = "healthy" THEN LiveMeta ELSE Nothing
           p == [NoOp EXCEPT !.gen = o, !.step = "fetch", !.kind = RepairPlan(samples),
                             !.repair = TRUE, !.force = TRUE, !.basis = basis]
<1>1. /\ ~Running /\ o \in Ops \ started /\ op' = p /\ started' = started \cup {o}
      /\ sampleless' \in {sampleless, sampleless \cup {o}}
      /\ before' = [tests |-> LiveTests, meta |-> LiveMeta] /\ touched' = FALSE
      /\ UNCHANGED <<tests, meta, marker, unowned, broken, health, troubles, late, returned>>
      /\ RepairPlan(samples) # "none"
  BY DEF StartRepair
<1>2. basis \in Gens \cup {Nothing}
  BY LiveTyped
<1>3. RepairPlan(samples) \in {"both", "tests", "meta"}
  BY <1>1 DEF RepairPlan
<1> HIDE DEF basis
<1>4. p \in OpSet
  BY <1>2, <1>3, NoOpTyped DEF OpSet, Steps, Kinds
<1>5. /\ p.gen = o /\ p.step = "fetch" /\ p.kind # "none" /\ p.hadTests = FALSE /\ p.hadMeta = FALSE
      /\ p.moved = FALSE /\ p.keep = FALSE /\ p.outcome = "none"
  BY <1>3 DEF NoOp
<1> HIDE DEF p
<1> QED BY <1>1, <1>4, <1>5, StartInv

(* Nothing of an operation is aside before it moves anything. *)
LEMMA NothingAside ==
  ASSUME IInv, op.step \in {"fetch", "prepared", "look", "moveTests"}
  PROVE  \A g \in Gens : /\ tests[g] # "previous" /\ meta[g] # "previous"
                         /\ g \in unowned /\ tests[g] = "staged" => g \in returned
  BY DEF IInv, PlaceInv, UnownedInv, KindInv, TestsAside, At

LEMMA UnownedTyped == IInv => unowned \subseteq Gens
  BY DEF IInv, RefreshTypeOK

(* The history an operation leaves alone. *)
LEMMA EndQuietInv ==
  ASSUME IInv, NEW outcome \in Outcomes \ {"none"}, End(outcome), Running, Quiet,
         outcome \notin {"updated", "unhealthy"} => op.outcome \notin {"updated", "unhealthy"},
         outcome \notin {"kept", "killed"} =>
           \A g \in unowned : tests[g] \in {"staged", "previous"} => g \in late \cup returned,
         outcome = "failed" => \A g \in Gens : tests[g] # "previous" /\ meta[g] # "previous"
  PROVE  IInv'
<1>1. UNCHANGED <<started, troubles, before, touched, late, returned>>
  BY DEF Quiet, history
<1>2. /\ touched' \in BOOLEAN /\ troubles' \in 0..MaxTroubles
      /\ before' \in [tests : Gens \cup {Nothing}, meta : Gens \cup {Nothing}]
  BY <1>1 DEF IInv, RefreshTypeOK
<1> QED BY <1>1, <1>2, EndInv

(* The same operation, at another step. *)
SameOp(p) ==
  /\ p \in OpSet
  /\ p.gen = op.gen /\ p.kind = op.kind /\ p.outcome = op.outcome
  /\ p.hadTests = op.hadTests /\ p.hadMeta = op.hadMeta
  /\ p.moved = op.moved /\ p.keep = op.keep

LEMMA OpTyped == IInv => op \in OpSet
  BY DEF IInv, RefreshTypeOK, OpSet

LEMMA GotoFacts ==
  ASSUME IInv, NEW step \in Steps
  PROVE  /\ LET p == [op EXCEPT !.step = step]
            IN  SameOp(p) /\ p.step = step /\ p.errors = op.errors
         /\ LET p == [op EXCEPT !.step = step, !.errors = TRUE]
            IN  SameOp(p) /\ p.step = step /\ p.errors = TRUE
<1>1. op \in OpSet
  BY OpTyped
<1> QED BY <1>1 DEF SameOp, OpSet

LEMMA TroubleTyped ==
  ASSUME IInv, UNCHANGED troubles \/ Trouble
  PROVE  troubles' \in 0..MaxTroubles
  BY RefreshAssumption DEF IInv, RefreshTypeOK, Trouble

LEMMA StageInv == ASSUME IInv, Stage PROVE IInv'
<1> DEFINE place == IF op.kind = "meta" \/ ~HasSamples THEN "none" ELSE "staged"
<1>1. /\ op.step = "fetch" /\ op' = [op EXCEPT !.step = "prepared"]
      /\ meta' = [meta EXCEPT ![op.gen] = "staged"] /\ tests' = [tests EXCEPT ![op.gen] = place]
      /\ UNCHANGED <<marker, unowned, broken, health, sampleless, started, troubles, before,
                     touched, late, returned>>
  BY DEF Stage, At, Goto, Quiet, history
<1>2. SameOp(op') /\ op'.step = "prepared" /\ op'.errors = op.errors
  BY <1>1, GotoFacts DEF Steps
<1>3. place \in {"none", "staged"}
  OBVIOUS
<1> HIDE DEF place
<1>4. /\ op.gen \in Ops /\ op.gen \in Gens /\ tests[op.gen] = "none" /\ meta[op.gen] = "none"
      /\ tests \in [Gens -> Places] /\ meta \in [Gens -> Places]
  BY <1>1 DEF IInv, FreshInv, At, Gens, RefreshTypeOK
<1>5. /\ tests' \in [Gens -> Places] /\ meta' \in [Gens -> Places]
      /\ \A g \in Gens : /\ tests'[g] = IF g = op.gen THEN place ELSE tests[g]
                         /\ meta'[g] = IF g = op.gen THEN "staged" ELSE meta[g]
  BY <1>1, <1>3, <1>4 DEF Places
<1>6. RefreshTypeOK'
  BY <1>1, <1>2, <1>5 DEF IInv, RefreshTypeOK, OpSet, SameOp
<1>7. PlaceInv'
  <2>1. \A g \in Gens : tests'[g] # "previous" /\ meta'[g] # "previous"
    BY <1>1, <1>3, <1>5, NothingAside
  <2> QED BY <1>2, <2>1 DEF PlaceInv, NoStaging
<1>8. UniqueInv'
  <2>1. \A g \in Gens : tests[g] # "staged"
    BY <1>1 DEF IInv, PlaceInv, NoStaging
  <2> QED BY <1>3, <1>5, <2>1 DEF IInv, UniqueInv
<1>9. FreshInv'
  <2>1. op.gen \in started
    BY <1>1 DEF IInv, FreshInv
  <2> QED BY <1>1, <1>2, <1>4, <1>5, <2>1 DEF IInv, FreshInv, At, SameOp, Gens
<1>10. KindInv'
  BY <1>1, <1>2 DEF IInv, KindInv, At, SameOp
<1>11. BeforeInv'
  BY <1>1, <1>2, <1>4, <1>5 DEF IInv, BeforeInv, KindInv, At, SameOp
<1>12. UnownedInv'
  <2>1. op.gen \notin unowned
    BY <1>4 DEF IInv, UnownedInv
  <2> QED BY <1>1, <1>2, <1>5, <2>1, UnownedTyped DEF IInv, UnownedInv, At, SameOp
<1> QED BY <1>6, <1>7, <1>8, <1>9, <1>10, <1>11, <1>12 DEF IInv

LEMMA NowRunning ==
  ASSUME IInv, op.step \notin {"idle", "ended", "confirm"}
  PROVE  Running /\ op.outcome = "none" /\ op.gen \in started /\ op.gen \in Ops /\ op.gen \in Gens
  BY DEF IInv, KindInv, FreshInv, RefreshTypeOK, Running, Gens

(* An operation that fails before it moves anything leaves no trace. *)
LEMMA FailEarly ==
  ASSUME IInv, op.step \in {"fetch", "prepared", "look", "moveTests"}, End("failed"),
         UNCHANGED <<started, late, returned>>, touched' \in BOOLEAN, troubles' \in 0..MaxTroubles,
         UNCHANGED before \/ before' = [tests |-> LiveTests, meta |-> LiveMeta]
  PROVE  IInv'
<1>1. Running /\ op.outcome = "none"
  BY NowRunning
<1>2. before' \in [tests : Gens \cup {Nothing}, meta : Gens \cup {Nothing}]
  BY LiveTyped DEF IInv, RefreshTypeOK
<1>3. \A g \in Gens : tests[g] # "previous" /\ meta[g] # "previous"
  BY NothingAside
<1>4. \A g \in unowned : tests[g] \in {"staged", "previous"} => g \in late \cup returned
  BY <1>3, NothingAside, UnownedTyped
<1>5. "failed" \in Outcomes \ {"none"}
  BY DEF Outcomes
<1> QED BY <1>1, <1>2, <1>3, <1>4, <1>5, EndInv

LEMMA FailFetchInv == ASSUME IInv, FailFetch PROVE IInv'
<1>1. /\ op.step = "fetch" /\ End("failed")
      /\ UNCHANGED <<started, troubles, before, touched, late, returned>>
  BY DEF FailFetch, At, Quiet, history
<1>2. touched' \in BOOLEAN /\ troubles' \in 0..MaxTroubles
  BY <1>1 DEF IInv, RefreshTypeOK
<1> QED BY <1>1, <1>2, FailEarly

LEMMA ApplyInv == ASSUME IInv, Apply PROVE IInv'
<1>1. /\ op.step = "prepared" /\ before' = [tests |-> LiveTests, meta |-> LiveMeta]
      /\ touched' = FALSE /\ UNCHANGED <<started, troubles, late, returned>>
  BY DEF Apply, At
<1>2. touched' \in BOOLEAN /\ troubles' \in 0..MaxTroubles
  BY <1>1 DEF IInv, RefreshTypeOK
<1>3. CASE End("failed")
  BY <1>1, <1>2, <1>3, FailEarly
<1>4. CASE Goto("look") /\ UNCHANGED files
  <2>1. SameOp(op') /\ op'.step = "look"
    BY <1>4, GotoFacts DEF Goto, Steps
  <2>2. UNCHANGED <<tests, meta, marker, unowned, broken, health, sampleless>>
    BY <1>4 DEF files
  <2>3. before' \in [tests : Gens \cup {Nothing}, meta : Gens \cup {Nothing}]
    BY <1>1, LiveTyped
  <2>4. RefreshTypeOK'
    BY <1>1, <1>2, <2>1, <2>2, <2>3 DEF IInv, RefreshTypeOK, OpSet, SameOp
  <2>5. PlaceInv'
    BY <1>1, <2>1, <2>2, NothingAside DEF PlaceInv, NoStaging
  <2>6. UniqueInv' /\ FreshInv' /\ KindInv'
    BY <1>1, <2>1, <2>2 DEF IInv, UniqueInv, FreshInv, KindInv, At, SameOp
  <2>7. BeforeInv'
    <3>1. \A g \in Gens : /\ g = before'.tests => tests[g] = "contest"
                          /\ g = before'.meta => meta[g] = "contest"
      BY <1>1, TheFacts DEF LiveTests, LiveMeta
    <3>2. ~op.moved
      BY <1>1 DEF IInv, KindInv
    <3> QED BY <2>1, <2>2, <3>1, <3>2 DEF BeforeInv, At, SameOp
  <2>8. UnownedInv'
    BY <1>1, <2>1, <2>2 DEF IInv, UnownedInv, At, SameOp
  <2> QED BY <2>4, <2>5, <2>6, <2>7, <2>8 DEF IInv
<1> QED BY <1>3, <1>4 DEF Apply

(* The steps that follow the restoration or installation of something. *)
LEMMA NextSteps ==
  ASSUME NEW p, p \in OpSet, p.kind \in {"both", "tests", "meta"}
  PROVE  /\ AfterTests(p) \in {"inspect", "moveMeta", "installMeta", "createMarker"}
         /\ AfterTests(p) = "inspect" <=> p.kind = "tests"
         /\ AfterTests(p) = "moveMeta" => p.hadMeta
<1>0. p.hadMeta \in BOOLEAN /\ p.hadMarker \in BOOLEAN
  BY DEF OpSet
<1>1. CASE p.kind = "tests"
  BY <1>1 DEF AfterTests
<1>2. CASE p.kind # "tests" /\ p.hadMeta
  BY <1>2 DEF AfterTests
<1>3. CASE p.kind # "tests" /\ ~p.hadMeta /\ p.hadMarker
  BY <1>3 DEF AfterTests
<1>4. CASE p.kind # "tests" /\ ~p.hadMeta /\ ~p.hadMarker
  BY <1>4 DEF AfterTests
<1> QED BY <1>0, <1>1, <1>2, <1>3, <1>4

LEMMA LookInv == ASSUME IInv, Look PROVE IInv'
<1>1. /\ op.step = "look"
      /\ UNCHANGED <<started, troubles, before, touched, late, returned>>
  BY DEF Look, At, Quiet, history
<1>2. touched' \in BOOLEAN /\ troubles' \in 0..MaxTroubles
  BY <1>1 DEF IInv, RefreshTypeOK
<1>3. CASE End("failed")
  BY <1>1, <1>2, <1>3, FailEarly
<1>4. CASE MayReplace /\ ~End("failed")
  <2> DEFINE p == [op EXCEPT !.hadMarker = marker,
                             !.hadTests = op.kind # "meta" /\ LiveTests # Nothing,
                             !.hadMeta = op.kind # "tests" /\ marker /\ LiveMeta # Nothing]
             first == IF p.hadTests THEN "moveTests"
                      ELSE IF p.kind = "meta" THEN AfterTests(p)
                      ELSE IF op.kind = "tests" THEN "manifest"
                      ELSE IF HasSamples THEN "installTests" ELSE AfterTests(p)
  <2>1. op \in OpSet /\ op.kind \in {"both", "tests", "meta"} /\ ~op.moved /\ op.outcome = "none"
    BY <1>1, OpTyped DEF IInv, FreshInv, KindInv, OpSet, Kinds
  <2>2. /\ p \in OpSet /\ p.gen = op.gen /\ p.kind = op.kind /\ p.outcome = op.outcome
        /\ p.moved = op.moved /\ p.keep = op.keep
        /\ p.kind = "meta" => ~p.hadTests
        /\ p.kind = "tests" => ~p.hadMeta
    <3> DEFINE ht == op.kind # "meta" /\ LiveTests # Nothing
               hm == op.kind # "tests" /\ marker /\ LiveMeta # Nothing
    <3>1. marker \in BOOLEAN /\ ht \in BOOLEAN /\ hm \in BOOLEAN
      BY DEF IInv, RefreshTypeOK
    <3>2. /\ op.kind = "meta" => ht = FALSE
          /\ op.kind = "tests" => hm = FALSE
      OBVIOUS
    <3>3. p = [op EXCEPT !.hadMarker = marker, !.hadTests = ht, !.hadMeta = hm]
      OBVIOUS
    <3> HIDE DEF p, ht, hm
    <3>4. /\ p \in OpSet /\ p.gen = op.gen /\ p.kind = op.kind /\ p.outcome = op.outcome
          /\ p.moved = op.moved /\ p.keep = op.keep
      BY <2>1, <3>1, <3>3 DEF OpSet
    <3>5. p.hadTests = ht /\ p.hadMeta = hm
      BY <2>1, <3>3 DEF OpSet
    <3> QED BY <3>2, <3>4, <3>5
  <2> HIDE DEF p
  <2>3. UNCHANGED files /\ op' = [p EXCEPT !.step = first]
    BY <1>4, <2>2 DEF Look, AfterBackup, p
  <2>4. /\ first \in {"moveTests", "manifest", "installTests", "inspect", "moveMeta", "installMeta",
                      "createMarker"}
        /\ first = "moveTests" => p.hadTests
        /\ first = "moveMeta" => p.hadMeta
        /\ first \in {"moveMeta", "createMarker", "installMeta"} => p.kind # "tests"
        /\ first = "installTests" => HasSamples
        /\ first \in {"manifest", "installTests"} => p.kind # "meta"
    BY <2>1, <2>2, NextSteps
  <2> HIDE DEF first
  <2>5. /\ op' \in OpSet /\ op'.step = first /\ op'.gen = op.gen /\ op'.kind = op.kind
        /\ op'.outcome = op.outcome /\ op'.moved = op.moved /\ op'.keep = op.keep
        /\ op'.hadTests = p.hadTests /\ op'.hadMeta = p.hadMeta
    BY <2>2, <2>3, <2>4 DEF OpSet, Steps
  <2>6. PlaceInv'
    BY <1>1, <2>3, <2>4, <2>5, NothingAside DEF PlaceInv, NoStaging, files
  <2>7. KindInv'
    BY <2>1, <2>2, <2>3, <2>4, <2>5 DEF KindInv, At, HasSamples, files
  <2> QED BY <1>1, <1>2, <2>3, <2>4, <2>5, <2>6, <2>7, QuietStep DEF NoStaging
<1> QED BY <1>3, <1>4 DEF Look

-----------------------------------------------------------------------------
(* One rename of the tests, or of the metadata. *)
LEMMA MovedFacts ==
  ASSUME NEW what \in [Gens -> Places], NEW from \in Places, NEW to \in Places
  PROVE  /\ Moved(what, from, to) \in [Gens -> Places]
         /\ \A g \in Gens : Moved(what, from, to)[g] = IF what[g] = from THEN to ELSE what[g]
  BY DEF Moved

LEMMA RenameTestsInv ==
  ASSUME IInv, SameOp(op') \/ (op' \in OpSet /\ op'.gen = op.gen /\ op'.kind = op.kind),
         op.step \notin NoStaging, op'.step \notin NoStaging,
         NEW from \in {"contest", "previous", "staged"}, NEW to \in {"contest", "previous", "staged"},
         CanMove(tests, from, to), RenameTests(from, to),
         UNCHANGED <<started, before, touched, late>>, returned' \subseteq Gens,
         troubles' \in 0..MaxTroubles, PlaceInv', KindInv', BeforeInv', UnownedInv'
  PROVE  IInv'
<1>1. UNCHANGED <<meta, marker, unowned, broken, health, sampleless>> /\ tests' = Moved(tests, from, to)
  BY DEF RenameTests
<1>2. tests \in [Gens -> Places]
  BY DEF IInv, RefreshTypeOK
<1>3. /\ tests' \in [Gens -> Places]
      /\ \A g \in Gens : tests'[g] = IF tests[g] = from THEN to ELSE tests[g]
  BY <1>1, <1>2, MovedFacts DEF Places
<1>4. op' \in OpSet /\ op'.gen = op.gen /\ op'.kind = op.kind
  BY DEF SameOp
<1>5. RefreshTypeOK'
  BY <1>1, <1>3, <1>4 DEF IInv, RefreshTypeOK, OpSet
<1>6. \A g \in Gens : tests[g] # to
  BY TheFacts DEF CanMove
<1>7. UniqueInv'
  BY <1>3, <1>6 DEF IInv, UniqueInv
<1>8. FreshInv'
  BY <1>1, <1>3, <1>4 DEF IInv, FreshInv, At, NoStaging, Gens
<1> QED BY <1>5, <1>7, <1>8 DEF IInv

LEMMA RenameMetaInv ==
  ASSUME IInv, SameOp(op'), op.step \notin NoStaging, op'.step \notin NoStaging \cup {"cleanup"},
         op.step \notin {"restoreTests", "giveUp"},
         NEW from \in {"contest", "previous", "staged"}, NEW to \in {"contest", "previous"},
         RenameMeta(from, to), UNCHANGED <<started, before, touched, late, returned>>,
         troubles' \in 0..MaxTroubles, PlaceInv', KindInv'
  PROVE  IInv'
<1>1. UNCHANGED <<tests, marker, unowned, broken, health, sampleless>> /\ meta' = Moved(meta, from, to)
  BY DEF RenameMeta
<1>2. meta \in [Gens -> Places]
  BY DEF IInv, RefreshTypeOK
<1>3. /\ meta' \in [Gens -> Places]
      /\ \A g \in Gens : meta'[g] = IF meta[g] = from THEN to ELSE meta[g]
  BY <1>1, <1>2, MovedFacts DEF Places
<1>4. RefreshTypeOK' /\ UniqueInv'
  BY <1>1, <1>3 DEF IInv, RefreshTypeOK, UniqueInv, OpSet, SameOp
<1>5. FreshInv'
  BY <1>1, <1>3 DEF IInv, FreshInv, At, NoStaging, Gens, SameOp
<1>6. BeforeInv'
  BY <1>1, <1>3 DEF IInv, BeforeInv, At, SameOp
<1>7. UnownedInv'
  BY <1>1 DEF IInv, UnownedInv, At, SameOp
<1> QED BY <1>4, <1>5, <1>6, <1>7 DEF IInv

(* The steps of a rollback. *)
LEMMA UndoSteps ==
  ASSUME IInv, op.step \notin NoStaging \cup {"giveUp"}
  PROVE  /\ UndoTests(op) \in {"undoTests", "restoreTests", "giveUp"}
         /\ UndoTests(op) = "undoTests" => op.moved
         /\ UndoTests(op) = "giveUp" => ~op.hadTests
         /\ UndoMarker(op) \in {"undoMarker", "undoTests", "restoreTests", "giveUp"}
         /\ UndoMarker(op) # "undoMarker" => UndoMarker(op) = UndoTests(op)
         /\ UndoMeta(op) \in {"undoMeta", "undoMarker", "undoTests", "restoreTests", "giveUp"}
         /\ UndoMeta(op) # "undoMeta" => UndoMeta(op) = UndoMarker(op) /\ ~op.hadMeta
<1>1. op.moved \in BOOLEAN /\ op.hadTests \in BOOLEAN /\ op.made \in BOOLEAN /\ op.hadMeta \in BOOLEAN
  BY OpTyped DEF OpSet
<1>2. /\ UndoTests(op) \in {"undoTests", "restoreTests", "giveUp"}
      /\ UndoTests(op) = "undoTests" => op.moved
      /\ UndoTests(op) = "giveUp" => ~op.hadTests
  <2>1. CASE op.moved
    BY <2>1 DEF UndoTests
  <2>2. CASE ~op.moved /\ op.hadTests
    BY <2>2 DEF UndoTests
  <2>3. CASE ~op.moved /\ ~op.hadTests
    BY <2>3 DEF UndoTests
  <2> QED BY <1>1, <2>1, <2>2, <2>3
<1>3. /\ UndoMarker(op) \in {"undoMarker", "undoTests", "restoreTests", "giveUp"}
      /\ UndoMarker(op) # "undoMarker" => UndoMarker(op) = UndoTests(op)
  BY <1>1, <1>2 DEF UndoMarker
<1>4. /\ UndoMeta(op) \in {"undoMeta", "undoMarker", "undoTests", "restoreTests", "giveUp"}
      /\ UndoMeta(op) # "undoMeta" => UndoMeta(op) = UndoMarker(op) /\ ~op.hadMeta
  BY <1>1, <1>3 DEF UndoMeta
<1> QED BY <1>2, <1>3, <1>4

(* A step of an operation that moves nothing goes on, or starts or        *)
(* continues the rollback.                                                *)
LEMMA UndoInv ==
  ASSUME IInv, NEW step \in {UndoTests(op), UndoMarker(op), UndoMeta(op)}, Undo(step),
         op.step \in {"manifest", "installTests", "moveMeta", "createMarker", "installMeta"},
         step # UndoMeta(op) => \A g \in Gens : meta[g] # "previous",
         op.moved => op.kind = "both", op.kind = "tests" => step = UndoTests(op),
         UNCHANGED <<started, before, touched, late, returned>>, UNCHANGED troubles \/ Trouble
  PROVE  IInv'
<1>1. op.step \notin NoStaging \cup {"giveUp"}
  BY DEF NoStaging
<1>2. /\ step \in {"undoMeta", "undoMarker", "undoTests", "restoreTests", "giveUp"}
      /\ step = "undoTests" => op.moved
      /\ step = "giveUp" => ~op.hadTests
      /\ step # "undoMeta" => \A g \in Gens : meta[g] # "previous"
      /\ step = "undoMeta" => step = UndoMeta(op)
      /\ step \in {"undoMeta", "undoMarker"} => step # UndoTests(op)
  <2>1. step = UndoMeta(op) /\ step # "undoMeta" => ~op.hadMeta
    BY <1>1, UndoSteps
  <2>2. \A g \in Gens : meta[g] = "previous" => op.hadMeta
    BY DEF IInv, PlaceInv
  <2> QED BY <1>1, <2>1, <2>2, UndoSteps
<1>3. SameOp(op') /\ op'.step = step /\ op'.errors = op.errors /\ UNCHANGED files
  BY <1>2, GotoFacts DEF Undo, Goto, Steps
<1>4. PlaceInv'
  BY <1>2, <1>3 DEF IInv, PlaceInv, TestsAside, NoStaging, At, SameOp, files
<1>5. step \in {"undoMeta", "undoMarker"} => op.kind # "tests"
  BY <1>2
<1>6. KindInv'
  BY <1>2, <1>3, <1>5 DEF IInv, KindInv, At, SameOp, HasSamples, files
<1>7. troubles' \in 0..MaxTroubles /\ touched' \in BOOLEAN
  BY TroubleTyped DEF IInv, RefreshTypeOK
<1> QED BY <1>1, <1>2, <1>3, <1>4, <1>6, <1>7, QuietStep DEF NoStaging, SameOp

-----------------------------------------------------------------------------
(* The replacement, step by step. *)
LEMMA MoveTestsInv == ASSUME IInv, MoveTests PROVE IInv'
<1>1. /\ op.step = "moveTests" /\ UNCHANGED returned /\ UNCHANGED <<started, before, touched, late>>
      /\ UNCHANGED troubles \/ Trouble
      /\ \/ /\ CanMove(tests, "contest", "previous") /\ Goto("validateMoved")
            /\ RenameTests("contest", "previous")
         \/ End("failed")
  BY DEF MoveTests, Attempt, At
<1>2. touched' \in BOOLEAN /\ troubles' \in 0..MaxTroubles /\ returned' \subseteq Gens
  BY <1>1, TroubleTyped DEF IInv, RefreshTypeOK
<1>3. CASE End("failed")
  BY <1>1, <1>2, <1>3, FailEarly
<1>4. CASE CanMove(tests, "contest", "previous") /\ Goto("validateMoved")
           /\ RenameTests("contest", "previous")
  <2>1. SameOp(op') /\ op'.step = "validateMoved"
    BY <1>4, GotoFacts DEF Goto, Steps
  <2>2. /\ UNCHANGED <<meta, unowned, sampleless>>
        /\ \A g \in Gens : tests'[g] = IF tests[g] = "contest" THEN "previous" ELSE tests[g]
    BY <1>4, MovedFacts DEF RenameTests, IInv, RefreshTypeOK, Places
  <2>3. op.hadTests /\ ~op.moved
    BY <1>1 DEF IInv, KindInv
  <2>4. PlaceInv'
    BY <1>1, <2>1, <2>2, <2>3, NothingAside DEF PlaceInv, TestsAside, NoStaging, At, SameOp
  <2>5. KindInv'
    BY <1>1, <2>1, <2>2, <2>3 DEF IInv, KindInv, At, SameOp, HasSamples
  <2>6. BeforeInv'
    BY <1>1, <2>1, <2>2, <2>3 DEF IInv, BeforeInv, At, SameOp
  <2>7. UnownedInv'
    BY <1>1, <2>1, <2>2, UnownedTyped DEF IInv, UnownedInv, At, SameOp
  <2> QED BY <1>1, <1>2, <1>4, <2>1, <2>4, <2>5, <2>6, <2>7, RenameTestsInv DEF NoStaging
<1> QED BY <1>1, <1>3, <1>4

LEMMA ValidateMovedInv == ASSUME IInv, ValidateMoved PROVE IInv'
<1>1. /\ op.step = "validateMoved" /\ UNCHANGED files
      /\ UNCHANGED <<started, troubles, before, touched, late, returned>>
      /\ Goto(AfterBackup(op)) \/ Goto("restoreTests")
  BY DEF ValidateMoved, Quiet, history, At, Undo
<1>2. op \in OpSet /\ op.kind \in {"both", "tests", "meta"} /\ op.hadMeta \in BOOLEAN /\ ~op.moved
  BY <1>1, OpTyped DEF IInv, FreshInv, KindInv, OpSet, Kinds
<1>3. /\ AfterBackup(op) \in {"manifest", "installTests", "moveMeta", "createMarker", "installMeta"}
      /\ AfterBackup(op) = "installTests" => HasSamples
      /\ AfterBackup(op) = "moveMeta" => op.hadMeta
      /\ AfterBackup(op) \in {"moveMeta", "createMarker", "installMeta"} => op.kind # "tests"
  <2>1. CASE op.kind = "tests"
    BY <2>1 DEF AfterBackup
  <2>2. CASE op.kind # "tests" /\ HasSamples
    BY <2>2 DEF AfterBackup
  <2>3. CASE op.kind # "tests" /\ ~HasSamples
    BY <1>2, <2>3, NextSteps DEF AfterBackup
  <2> QED BY <2>1, <2>2, <2>3
<1>4. PICK step \in {AfterBackup(op), "restoreTests"} : Goto(step)
  BY <1>1
<1>5. SameOp(op') /\ op'.step = step /\ op'.errors = op.errors /\ step \in Steps
  BY <1>3, <1>4, GotoFacts DEF Goto, Steps
<1>6. PlaceInv'
  BY <1>1, <1>3, <1>5 DEF IInv, PlaceInv, TestsAside, NoStaging, At, SameOp, files
<1>7. KindInv'
  BY <1>1, <1>2, <1>3, <1>5 DEF IInv, KindInv, At, SameOp, HasSamples, files
<1>8. touched' \in BOOLEAN /\ troubles' \in 0..MaxTroubles
  BY <1>1 DEF IInv, RefreshTypeOK
<1> QED BY <1>1, <1>3, <1>5, <1>6, <1>7, <1>8, QuietStep DEF NoStaging, SameOp

LEMMA CheckManifestInv == ASSUME IInv, CheckManifest PROVE IInv'
<1>1. /\ op.step = "manifest" /\ UNCHANGED <<started, troubles, before, touched, late, returned>>
  BY DEF CheckManifest, Quiet, history, At
<1>2. \A g \in Gens : meta[g] # "previous"
  BY <1>1 DEF IInv, PlaceInv, At
<1>3. ~op.moved
  BY <1>1 DEF IInv, KindInv
<1>4. CASE Undo(UndoTests(op))
  BY <1>1, <1>2, <1>3, <1>4, UndoInv
<1>5. CASE Goto(IF HasSamples THEN "installTests" ELSE "inspect") /\ UNCHANGED files
  <2>1. PICK step \in {"installTests", "inspect"} : Goto(step) /\ (step = "installTests" => HasSamples)
    BY <1>5
  <2>2. SameOp(op') /\ op'.step = step /\ op'.errors = op.errors
    BY <2>1, GotoFacts DEF Goto, Steps
  <2>3. PlaceInv'
    BY <1>1, <1>5, <2>2 DEF IInv, PlaceInv, TestsAside, NoStaging, At, SameOp, files
  <2>4. KindInv'
    BY <1>1, <1>3, <1>5, <2>1, <2>2 DEF IInv, KindInv, At, SameOp, HasSamples, files
  <2>5. touched' \in BOOLEAN /\ troubles' \in 0..MaxTroubles
    BY <1>1 DEF IInv, RefreshTypeOK
  <2> QED BY <1>1, <1>5, <2>2, <2>3, <2>4, <2>5, QuietStep DEF NoStaging, SameOp
<1> QED BY <1>4, <1>5 DEF CheckManifest

LEMMA InstallTestsInv == ASSUME IInv, InstallTests PROVE IInv'
<1> DEFINE p == [op EXCEPT !.step = AfterTests(op), !.moved = TRUE]
<1>1. /\ op.step = "installTests" /\ UNCHANGED <<started, before, touched, late, returned>>
      /\ UNCHANGED troubles \/ Trouble
      /\ \/ CanMove(tests, "staged", "contest") /\ op' = p /\ RenameTests("staged", "contest")
         \/ Undo(UndoTests(op))
  BY DEF InstallTests, Attempt, At
<1>2. touched' \in BOOLEAN /\ troubles' \in 0..MaxTroubles /\ returned' \subseteq Gens
  BY <1>1, TroubleTyped DEF IInv, RefreshTypeOK
<1>3. \A g \in Gens : meta[g] # "previous"
  BY <1>1 DEF IInv, PlaceInv, At
<1>4. op \in OpSet /\ ~op.moved /\ HasSamples /\ op.kind \in {"both", "tests", "meta"}
      /\ op.outcome = "none"
  BY <1>1, OpTyped DEF IInv, KindInv, FreshInv, OpSet, Kinds, At
<1>5. CASE Undo(UndoTests(op))
  BY <1>1, <1>3, <1>4, <1>5, UndoInv
<1>6. CASE CanMove(tests, "staged", "contest") /\ op' = p /\ RenameTests("staged", "contest")
  <2>1. /\ AfterTests(op) \in {"inspect", "moveMeta", "installMeta", "createMarker"}
        /\ AfterTests(op) = "inspect" <=> op.kind = "tests"
        /\ AfterTests(op) = "moveMeta" => op.hadMeta
    BY <1>4, NextSteps
  <2>2. /\ op' \in OpSet /\ op'.step = AfterTests(op) /\ op'.moved = TRUE /\ op'.gen = op.gen
        /\ op'.kind = op.kind /\ op'.outcome = op.outcome /\ op'.hadTests = op.hadTests
        /\ op'.hadMeta = op.hadMeta /\ op'.keep = op.keep
    BY <1>4, <1>6, <2>1 DEF OpSet, Steps
  <2>3. /\ UNCHANGED <<meta, unowned, sampleless>>
        /\ \A g \in Gens : tests'[g] = IF tests[g] = "staged" THEN "contest" ELSE tests[g]
        /\ \A g \in Gens : tests[g] # "contest"
    BY <1>6, MovedFacts, TheFacts DEF RenameTests, IInv, RefreshTypeOK, Places, CanMove
  <2>4. PlaceInv'
    BY <1>1, <1>3, <2>1, <2>2, <2>3 DEF IInv, PlaceInv, TestsAside, NoStaging, At
  <2>5. op.kind # "meta"
    BY <1>1, <1>6, TheFacts DEF IInv, KindInv, CanMove
  <2>6. KindInv'
    BY <1>1, <1>4, <2>1, <2>2, <2>3, <2>5 DEF IInv, KindInv, At, HasSamples
  <2>7. BeforeInv'
    BY <1>1, <1>4, <2>1, <2>2, <2>3 DEF IInv, BeforeInv, At
  <2>8. UnownedInv'
    BY <1>1, <2>1, <2>2, <2>3, UnownedTyped DEF IInv, UnownedInv, At
  <2> QED BY <1>1, <1>2, <1>6, <2>1, <2>2, <2>4, <2>6, <2>7, <2>8, RenameTestsInv DEF NoStaging
<1> QED BY <1>1, <1>5, <1>6

LEMMA MoveMetaInv == ASSUME IInv, MoveMeta PROVE IInv'
<1>1. /\ op.step = "moveMeta" /\ UNCHANGED <<started, before, touched, late, returned>>
      /\ UNCHANGED troubles \/ Trouble
      /\ \/ Goto("installMeta") /\ RenameMeta("contest", "previous")
         \/ Undo(UndoTests(op))
  BY DEF MoveMeta, Attempt, At
<1>2. troubles' \in 0..MaxTroubles
  BY <1>1, TroubleTyped
<1>3. /\ \A g \in Gens : meta[g] # "previous"
      /\ op.hadMeta /\ op.kind # "tests" /\ (op.moved => op.kind = "both")
  <2>1. op.kind \in {"both", "tests", "meta"}
    BY <1>1 DEF IInv, FreshInv, RefreshTypeOK, Kinds
  <2> QED BY <1>1, <2>1 DEF IInv, PlaceInv, KindInv, At
<1>4. CASE Undo(UndoTests(op))
  BY <1>1, <1>3, <1>4, UndoInv
<1>5. CASE Goto("installMeta") /\ RenameMeta("contest", "previous")
  <2>1. SameOp(op') /\ op'.step = "installMeta" /\ op'.errors = op.errors
    BY <1>5, GotoFacts DEF Goto, Steps
  <2>2. /\ UNCHANGED <<tests, sampleless>>
        /\ \A g \in Gens : meta'[g] = IF meta[g] = "contest" THEN "previous" ELSE meta[g]
    BY <1>5, MovedFacts DEF RenameMeta, IInv, RefreshTypeOK, Places
  <2>3. PlaceInv'
    BY <1>1, <1>3, <2>1, <2>2 DEF IInv, PlaceInv, TestsAside, NoStaging, At, SameOp
  <2>4. KindInv'
    BY <1>1, <1>3, <2>1, <2>2 DEF IInv, KindInv, At, SameOp, HasSamples
  <2> QED BY <1>1, <1>2, <1>5, <2>1, <2>3, <2>4, RenameMetaInv DEF NoStaging
<1> QED BY <1>1, <1>4, <1>5

LEMMA CreateMarkerInv == ASSUME IInv, CreateMarker PROVE IInv'
<1> DEFINE p == [op EXCEPT !.step = "installMeta", !.made = TRUE]
<1>1. /\ op.step = "createMarker" /\ UNCHANGED <<started, before, touched, late, returned>>
      /\ UNCHANGED troubles \/ Trouble
      /\ \/ op' = p /\ marker' = TRUE /\ UNCHANGED <<tests, meta, unowned, broken, health, sampleless>>
         \/ Undo(UndoTests(op))
  BY DEF CreateMarker, Attempt, At
<1>2. troubles' \in 0..MaxTroubles /\ touched' \in BOOLEAN
  BY <1>1, TroubleTyped DEF IInv, RefreshTypeOK
<1>3. /\ \A g \in Gens : meta[g] # "previous"
      /\ op.kind # "tests" /\ (op.moved => op.kind = "both")
  <2>1. op.kind \in {"both", "tests", "meta"}
    BY <1>1 DEF IInv, FreshInv, RefreshTypeOK, Kinds
  <2> QED BY <1>1, <2>1 DEF IInv, PlaceInv, KindInv, At
<1>4. CASE Undo(UndoTests(op))
  BY <1>1, <1>3, <1>4, UndoInv
<1>5. CASE op' = p /\ marker' = TRUE /\ UNCHANGED <<tests, meta, unowned, broken, health, sampleless>>
  <2>1. SameOp(op') /\ op'.step = "installMeta"
    BY <1>5, OpTyped DEF SameOp, OpSet, Steps
  <2>2. PlaceInv'
    BY <1>1, <1>3, <1>5, <2>1 DEF IInv, PlaceInv, TestsAside, NoStaging, At, SameOp
  <2>3. KindInv'
    BY <1>1, <1>3, <1>5, <2>1 DEF IInv, KindInv, At, SameOp, HasSamples
  <2> QED BY <1>1, <1>2, <1>5, <2>1, <2>2, <2>3, MarkerStep DEF NoStaging, SameOp
<1> QED BY <1>1, <1>4, <1>5

LEMMA InstallMetaInv == ASSUME IInv, InstallMeta PROVE IInv'
<1> DEFINE next == IF op.kind = "both" THEN "inspect" ELSE "cleanup"
<1>1. /\ op.step = "installMeta" /\ UNCHANGED <<started, before, touched, late, returned>>
      /\ UNCHANGED troubles \/ Trouble
      /\ \/ Goto(next) /\ RenameMeta("staged", "contest")
         \/ Undo(UndoMeta(op))
  BY DEF InstallMeta, Attempt, At
<1>2. troubles' \in 0..MaxTroubles
  BY <1>1, TroubleTyped
<1>3. /\ op.kind \in {"both", "meta"} /\ (op.moved => op.kind = "both")
      /\ op.kind = "meta" => ~op.hadTests
  <2>1. op.kind \in {"both", "tests", "meta"}
    BY <1>1 DEF IInv, FreshInv, RefreshTypeOK, Kinds
  <2> QED BY <1>1, <2>1 DEF IInv, KindInv
<1>4. CASE Undo(UndoMeta(op))
  BY <1>1, <1>3, <1>4, UndoInv
<1>5. CASE Goto(next) /\ RenameMeta("staged", "contest")
  <2>1. SameOp(op') /\ op'.step = next /\ op'.errors = op.errors
    BY <1>5, GotoFacts DEF Goto, Steps
  <2>2. /\ UNCHANGED <<tests, unowned, sampleless>>
        /\ \A g \in Gens : meta'[g] = IF meta[g] = "staged" THEN "contest" ELSE meta[g]
        /\ RefreshTypeOK' /\ UniqueInv'
    <3>1. UNCHANGED <<tests, marker, unowned, broken, health, sampleless>>
      BY <1>5 DEF RenameMeta
    <3>2. /\ meta' \in [Gens -> Places]
          /\ \A g \in Gens : meta'[g] = IF meta[g] = "staged" THEN "contest" ELSE meta[g]
      BY <1>5, MovedFacts DEF RenameMeta, IInv, RefreshTypeOK, Places
    <3>3. RefreshTypeOK'
      BY <1>1, <1>2, <2>1, <3>1, <3>2 DEF IInv, RefreshTypeOK, OpSet, SameOp
    <3> QED BY <3>1, <3>2, <3>3 DEF IInv, UniqueInv
  <2>3. PlaceInv'
    BY <1>1, <2>1, <2>2 DEF IInv, PlaceInv, TestsAside, NoStaging, At, SameOp
  <2>4. FreshInv'
    BY <1>1, <2>1, <2>2 DEF IInv, FreshInv, At, SameOp, Gens
  <2>5. KindInv'
    BY <1>1, <1>3, <2>1, <2>2 DEF IInv, KindInv, At, SameOp, HasSamples
  <2>6. BeforeInv'
    BY <1>1, <2>1, <2>2 DEF IInv, BeforeInv, At, SameOp
  <2>7. UnownedInv'
    <3>1. next = "cleanup" => \A g \in Gens : tests[g] # "previous"
      BY <1>3 DEF IInv, PlaceInv
    <3> QED BY <1>1, <2>1, <2>2, <3>1, UnownedTyped DEF IInv, UnownedInv, At, SameOp
  <2> QED BY <2>2, <2>3, <2>4, <2>5, <2>6, <2>7 DEF IInv
<1> QED BY <1>1, <1>4, <1>5

LEMMA InspectInv == ASSUME IInv, Inspect PROVE IInv'
<1>1. op.step = "inspect" /\ Quiet /\ UNCHANGED <<started, troubles, before, touched, late, returned>>
  BY DEF Inspect, Quiet, history, At
<1>2. troubles' \in 0..MaxTroubles /\ touched' \in BOOLEAN
  BY <1>1 DEF IInv, RefreshTypeOK
<1>3. CASE op.kind = "tests" /\ ~ManifestUnchanged
  <2> DEFINE step == UndoTests(op)
             p == [op EXCEPT !.step = step, !.keep = HasSamples]
  <2>1. op' = p /\ UNCHANGED files
    BY <1>3 DEF Inspect
  <2>2. /\ step \in {"undoTests", "restoreTests", "giveUp"}
        /\ step = "undoTests" => op.moved
        /\ step = "giveUp" => ~op.hadTests
    BY <1>1, UndoSteps DEF NoStaging
  <2> HIDE DEF step
  <2>3. HasSamples \in BOOLEAN /\ op \in OpSet /\ step \in Steps
    BY <2>2, OpTyped DEF HasSamples, Steps
  <2>4. /\ op' \in OpSet /\ op'.step = step /\ op'.keep = HasSamples /\ op'.gen = op.gen
        /\ op'.kind = op.kind /\ op'.moved = op.moved /\ op'.outcome = op.outcome
        /\ op'.hadTests = op.hadTests /\ op'.hadMeta = op.hadMeta /\ op'.errors = op.errors
    BY <2>1, <2>3 DEF OpSet
  <2>5. op.moved => HasSamples
    BY DEF IInv, KindInv
  <2>6. ~op.hadMeta /\ UNCHANGED <<tests, meta, marker, unowned, broken, health, sampleless>>
    BY <1>3, <2>1 DEF IInv, KindInv, files
  <2>7. PlaceInv'
    BY <1>1, <2>2, <2>4, <2>6 DEF IInv, PlaceInv, TestsAside, NoStaging, At
  <2>8. KindInv'
    BY <1>1, <1>3, <2>2, <2>4, <2>5, <2>6 DEF IInv, KindInv, At, HasSamples
  <2>9. UniqueInv' /\ FreshInv' /\ RefreshTypeOK'
    BY <1>1, <2>2, <2>4, <2>6 DEF IInv, UniqueInv, FreshInv, RefreshTypeOK, OpSet, At
  <2>10. BeforeInv' /\ UnownedInv'
    BY <1>1, <2>2, <2>4, <2>6 DEF IInv, BeforeInv, UnownedInv, At
  <2> QED BY <2>7, <2>8, <2>9, <2>10 DEF IInv
<1>4. CASE End("kept")
  <2>1. Running /\ op.outcome = "none"
    BY <1>1, NowRunning
  <2>2. "kept" \in Outcomes \ {"none"}
    BY DEF Outcomes
  <2> QED BY <1>1, <1>4, <2>1, <2>2, EndQuietInv
<1>5. CASE ~(op.hadTests /\ ~Owned(The("previous", tests))) /\ Goto("cleanup") /\ UNCHANGED files
  <2>1. SameOp(op') /\ op'.step = "cleanup" /\ op'.errors = op.errors
    BY <1>5, GotoFacts DEF Goto, Steps
  <2>2. UNCHANGED <<tests, meta, marker, unowned, broken, health, sampleless>>
    BY <1>5 DEF files
  <2>3. \A g \in Gens : tests[g] = "previous" => g \notin unowned
    <3>1. ASSUME NEW g \in Gens, tests[g] = "previous" PROVE g \notin unowned
      <4>1. op.hadTests
        BY <3>1 DEF IInv, PlaceInv
      <4>2. The("previous", tests) = g
        BY <3>1, TheFacts DEF IInv, UniqueInv
      <4> QED BY <1>5, <4>1, <4>2 DEF Owned
    <3> QED BY <3>1
  <2>4. PlaceInv' /\ KindInv'
    BY <1>1, <2>1, <2>2 DEF IInv, PlaceInv, KindInv, TestsAside, NoStaging, At, SameOp, HasSamples
  <2>5. UniqueInv' /\ FreshInv' /\ RefreshTypeOK'
    BY <1>1, <2>1, <2>2 DEF IInv, UniqueInv, FreshInv, RefreshTypeOK, OpSet, At, SameOp
  <2>6. BeforeInv' /\ UnownedInv'
    BY <1>1, <2>1, <2>2, <2>3, UnownedTyped DEF IInv, BeforeInv, UnownedInv, At, SameOp
  <2> QED BY <2>4, <2>5, <2>6 DEF IInv
<1> QED BY <1>3, <1>4, <1>5 DEF Inspect

(* What is in the staging directory at the cleanup may go. *)
LEMMA CleanupMayDelete ==
  ASSUME IInv, op.step = "cleanup"
  PROVE  \A g \in unowned : tests[g] \in {"staged", "previous"} => g \in late \cup returned
  BY DEF IInv, UnownedInv, At

LEMMA CleanupInv == ASSUME IInv, Cleanup PROVE IInv'
<1> DEFINE p == [op EXCEPT !.step = "confirm", !.outcome = "updated"]
<1>1. op.step = "cleanup" /\ Quiet /\ UNCHANGED <<started, troubles, before, touched, late, returned>>
  BY DEF Cleanup, Quiet, history, At
<1>2. Running /\ op.outcome = "none" /\ op.gen \in started
  BY <1>1, NowRunning
<1>3. CASE End("updated")
  <2>1. "updated" \in Outcomes \ {"none"}
    BY DEF Outcomes
  <2> QED BY <1>1, <1>2, <1>3, <2>1, CleanupMayDelete, EndQuietInv
<1>4. CASE /\ op' = p
           /\ tests' = Dropped(tests, "deleted") /\ meta' = Dropped(meta, "deleted")
           /\ UNCHANGED <<marker, unowned, broken, health, sampleless>>
  <2>1. op \in OpSet /\ tests \in [Gens -> Places] /\ meta \in [Gens -> Places]
    BY DEF IInv, RefreshTypeOK, OpSet
  <2>2. /\ op' \in OpSet /\ op'.step = "confirm" /\ op'.outcome = "updated" /\ op'.gen = op.gen
        /\ op'.kind = op.kind /\ op'.moved = op.moved /\ op'.hadTests = op.hadTests
        /\ op'.hadMeta = op.hadMeta
    BY <1>4, <2>1 DEF OpSet, Steps, Outcomes
  <2>3. \A g \in Gens :
          /\ tests'[g] = IF tests[g] \in {"staged", "previous"} THEN "deleted" ELSE tests[g]
          /\ meta'[g] = IF meta[g] \in {"staged", "previous"} THEN "deleted" ELSE meta[g]
    BY <1>4 DEF Dropped
  <2>4. tests' \in [Gens -> Places] /\ meta' \in [Gens -> Places]
    BY <1>4, <2>1 DEF Dropped, Places
  <2>5. RefreshTypeOK'
    BY <1>1, <1>4, <2>2, <2>4 DEF IInv, RefreshTypeOK, OpSet
  <2>6. PlaceInv' /\ UniqueInv'
    BY <2>3 DEF IInv, PlaceInv, UniqueInv
  <2>7. FreshInv'
    BY <1>1, <1>2, <2>2, <2>3 DEF IInv, FreshInv, At, Gens
  <2>8. KindInv'
    BY <1>1, <1>4, <2>2 DEF IInv, KindInv, At, HasSamples
  <2>9. BeforeInv'
    BY <2>2 DEF BeforeInv
  <2>10. UnownedInv'
    BY <1>1, <1>4, <2>2, <2>3, CleanupMayDelete, UnownedTyped DEF IInv, UnownedInv, At
  <2> QED BY <2>5, <2>6, <2>7, <2>8, <2>9, <2>10 DEF IInv
<1> QED BY <1>3, <1>4 DEF Cleanup

LEMMA ConfirmInv == ASSUME IInv, Confirm PROVE IInv'
<1>1. op.step = "confirm" /\ Quiet
  BY DEF Confirm, At
<1>2. PICK outcome \in {"updated", "unhealthy"} : End(outcome)
  BY DEF Confirm
<1>3. outcome \in Outcomes \ {"none"}
  BY DEF Outcomes
<1>4. \A g \in Gens : tests[g] \notin {"staged", "previous"}
  BY <1>1 DEF IInv, PlaceInv, NoStaging, TestsAside, At
<1> QED BY <1>1, <1>2, <1>3, <1>4, UnownedTyped, EndQuietInv DEF Running

LEMMA GiveUpInv == ASSUME IInv, GiveUp PROVE IInv'
<1>1. op.step = "giveUp" /\ Quiet
  BY DEF GiveUp, At
<1>2. Running /\ op.outcome = "none"
  BY <1>1, NowRunning
<1>3. CASE op.errors \/ op.keep
  <2>1. End("kept") /\ "kept" \in Outcomes \ {"none"}
    BY <1>3 DEF GiveUp, Outcomes
  <2> QED BY <1>1, <1>2, <2>1, EndQuietInv
<1>4. CASE ~op.errors /\ ~op.keep
  <2>1. End("failed") /\ "failed" \in Outcomes \ {"none"}
    BY <1>4 DEF GiveUp, Outcomes
  <2>2. \A g \in Gens : tests[g] # "previous" /\ meta[g] # "previous"
    BY <1>1, <1>4 DEF IInv, PlaceInv, TestsAside, At
  <2>3. \A g \in unowned : tests[g] \in {"staged", "previous"} => g \in late \cup returned
    BY <1>4, <2>2, UnownedTyped DEF IInv, UnownedInv
  <2> QED BY <1>1, <1>2, <2>1, <2>2, <2>3, EndQuietInv
<1> QED BY <1>3, <1>4

LEMMA KillInv == ASSUME IInv, Kill PROVE IInv'
<1>1. /\ Running /\ op.step \notin {"idle", "ended", "confirm"} /\ Trouble /\ End("killed")
      /\ UNCHANGED <<started, before, touched, late, returned>>
  BY DEF Kill, At, Running, history
<1>2. op.outcome = "none" /\ "killed" \in Outcomes \ {"none"}
  BY <1>1, NowRunning DEF Outcomes
<1>3. touched' \in BOOLEAN /\ troubles' \in 0..MaxTroubles
      /\ before' \in [tests : Gens \cup {Nothing}, meta : Gens \cup {Nothing}]
  BY <1>1, TroubleTyped DEF IInv, RefreshTypeOK
<1> QED BY <1>1, <1>2, <1>3, EndInv

-----------------------------------------------------------------------------
(* The rollback, step by step. *)
LEMMA Undoing ==
  ASSUME IInv, op.step \in {"undoMeta", "undoMarker"}
  PROVE  /\ op.moved => op.kind = "both"
         /\ op.kind # "tests"
<1>1. op.kind \in {"both", "tests", "meta"}
  BY DEF IInv, FreshInv, RefreshTypeOK, Kinds
<1> QED BY <1>1 DEF IInv, KindInv

LEMMA UndoMetaInv == ASSUME IInv, UndoMetaStep PROVE IInv'
<1> DEFINE step == UndoMarker(op)
<1>1. /\ op.step = "undoMeta" /\ UNCHANGED <<started, before, touched, late, returned>>
      /\ UNCHANGED troubles \/ Trouble
      /\ \/ Goto(step) /\ RenameMeta("previous", "contest")
         \/ op' = [op EXCEPT !.step = step, !.errors = TRUE] /\ UNCHANGED files
  BY DEF UndoMetaStep, Attempt, At
<1>2. troubles' \in 0..MaxTroubles /\ touched' \in BOOLEAN
  BY <1>1, TroubleTyped DEF IInv, RefreshTypeOK
<1>3. /\ step \in {"undoMarker", "undoTests", "restoreTests", "giveUp"} /\ step \in Steps
      /\ step = "undoTests" => op.moved
      /\ step = "giveUp" => ~op.hadTests
  BY <1>1, UndoSteps DEF NoStaging, Steps
<1>4. /\ op.moved => op.kind = "both"
      /\ op.kind # "tests"
  BY <1>1, Undoing
<1> HIDE DEF step
<1>5. CASE Goto(step) /\ RenameMeta("previous", "contest")
  <2>1. SameOp(op') /\ op'.step = step /\ op'.errors = op.errors
    BY <1>3, <1>5, GotoFacts DEF Goto
  <2>2. /\ UNCHANGED <<tests, sampleless>>
        /\ \A g \in Gens : meta'[g] = IF meta[g] = "previous" THEN "contest" ELSE meta[g]
    BY <1>5, MovedFacts DEF RenameMeta, IInv, RefreshTypeOK, Places
  <2>3. PlaceInv'
    BY <1>1, <1>3, <2>1, <2>2 DEF IInv, PlaceInv, TestsAside, NoStaging, At, SameOp
  <2>4. KindInv'
    BY <1>1, <1>3, <1>4, <2>1, <2>2 DEF IInv, KindInv, At, SameOp, HasSamples
  <2> QED BY <1>1, <1>2, <1>3, <1>5, <2>1, <2>3, <2>4, RenameMetaInv DEF NoStaging
<1>6. CASE op' = [op EXCEPT !.step = step, !.errors = TRUE] /\ UNCHANGED files
  <2>1. SameOp(op') /\ op'.step = step /\ op'.errors = TRUE
    BY <1>3, <1>6, GotoFacts
  <2>2. PlaceInv'
    BY <1>1, <1>3, <1>6, <2>1 DEF IInv, PlaceInv, TestsAside, NoStaging, At, SameOp, files
  <2>3. KindInv'
    BY <1>1, <1>3, <1>4, <1>6, <2>1 DEF IInv, KindInv, At, SameOp, HasSamples, files
  <2> QED BY <1>1, <1>2, <1>3, <1>6, <2>1, <2>2, <2>3, QuietStep DEF NoStaging, SameOp
<1> QED BY <1>1, <1>5, <1>6

LEMMA UndoMarkerInv == ASSUME IInv, UndoMarkerStep PROVE IInv'
<1> DEFINE step == UndoTests(op)
<1>1. /\ op.step = "undoMarker" /\ UNCHANGED <<started, before, touched, late, returned>>
      /\ UNCHANGED troubles \/ Trouble
      /\ \/ /\ Goto(step) /\ marker' = FALSE
            /\ UNCHANGED <<tests, meta, unowned, broken, health, sampleless>>
         \/ op' = [op EXCEPT !.step = step, !.errors = TRUE] /\ UNCHANGED files
  BY DEF UndoMarkerStep, Attempt, At
<1>2. troubles' \in 0..MaxTroubles /\ touched' \in BOOLEAN
  BY <1>1, TroubleTyped DEF IInv, RefreshTypeOK
<1>3. /\ step \in {"undoTests", "restoreTests", "giveUp"} /\ step \in Steps
      /\ step = "undoTests" => op.moved
      /\ step = "giveUp" => ~op.hadTests
  BY <1>1, UndoSteps DEF NoStaging, Steps
<1>4. /\ op.moved => op.kind = "both"
      /\ op.kind # "tests"
  BY <1>1, Undoing
<1> HIDE DEF step
<1>5. /\ SameOp(op') /\ op'.step = step
      /\ op'.errors = op.errors \/ op'.errors = TRUE
      /\ UNCHANGED <<tests, meta, unowned, broken, health, sampleless>> /\ marker' \in BOOLEAN
  <2>1. marker \in BOOLEAN
    BY DEF IInv, RefreshTypeOK
  <2> QED BY <1>1, <1>3, <2>1, GotoFacts DEF Goto, files
<1>6. PlaceInv'
  BY <1>1, <1>3, <1>5 DEF IInv, PlaceInv, TestsAside, NoStaging, At, SameOp
<1>7. KindInv'
  BY <1>1, <1>3, <1>4, <1>5 DEF IInv, KindInv, At, SameOp, HasSamples
<1> QED BY <1>1, <1>2, <1>3, <1>5, <1>6, <1>7, MarkerStep DEF NoStaging, SameOp

LEMMA UndoTestsInv == ASSUME IInv, UndoTestsStep PROVE IInv'
<1> DEFINE step == IF op.hadTests THEN "restoreTests" ELSE "giveUp"
<1>1. /\ op.step = "undoTests" /\ UNCHANGED <<started, before, touched, late>>
      /\ UNCHANGED troubles \/ Trouble
      /\ \/ /\ CanMove(tests, "contest", "staged") /\ Goto(step)
            /\ RenameTests("contest", "staged")
         \/ op' = [op EXCEPT !.step = step, !.errors = TRUE] /\ UNCHANGED files
      /\ returned' = IF op.kind = "both" /\ tests' # tests THEN returned \cup {LiveTests}
                     ELSE returned
  BY DEF UndoTestsStep, Attempt, At
<1>2. troubles' \in 0..MaxTroubles /\ touched' \in BOOLEAN
  BY <1>1, TroubleTyped DEF IInv, RefreshTypeOK
<1>3. /\ step \in {"restoreTests", "giveUp"} /\ step \in Steps
      /\ step = "giveUp" => ~op.hadTests
  BY DEF Steps
<1>4. op.moved /\ (op.kind = "both" \/ op.keep)
  BY <1>1 DEF IInv, KindInv
<1> HIDE DEF step
<1>5. CASE CanMove(tests, "contest", "staged") /\ Goto(step) /\ RenameTests("contest", "staged")
  <2>1. SameOp(op') /\ op'.step = step /\ op'.errors = op.errors
    BY <1>3, <1>5, GotoFacts DEF Goto
  <2>2. /\ UNCHANGED <<meta, unowned, sampleless>> /\ tests' \in [Gens -> Places]
        /\ \A g \in Gens : tests'[g] = IF tests[g] = "contest" THEN "staged" ELSE tests[g]
    BY <1>5, MovedFacts DEF RenameTests, IInv, RefreshTypeOK, Places
  <2>3. LiveTests \in Gens /\ tests[LiveTests] = "contest"
    BY <1>5, TheFacts DEF CanMove, LiveTests
  <2>4. tests' # tests
    BY <2>2, <2>3
  <2>5. /\ returned' \subseteq Gens /\ returned \subseteq returned'
        /\ op.kind = "both" => \A g \in Gens : tests[g] = "contest" => g \in returned'
    BY <1>1, <2>3, <2>4 DEF IInv, RefreshTypeOK, UniqueInv
  <2>6. PlaceInv'
    BY <1>1, <1>3, <2>1, <2>2 DEF IInv, PlaceInv, TestsAside, NoStaging, At, SameOp
  <2>7. KindInv'
    BY <1>1, <1>3, <2>1, <2>2 DEF IInv, KindInv, At, SameOp, HasSamples
  <2>8. BeforeInv'
    BY <1>1, <1>3, <1>4, <2>1, <2>2 DEF IInv, BeforeInv, At, SameOp
  <2>9. UnownedInv'
    BY <1>1, <1>3, <1>4, <2>1, <2>2, <2>5, UnownedTyped DEF IInv, UnownedInv, At, SameOp
  <2> QED BY <1>1, <1>2, <1>3, <1>5, <2>1, <2>5, <2>6, <2>7, <2>8, <2>9, RenameTestsInv DEF NoStaging
<1>6. CASE op' = [op EXCEPT !.step = step, !.errors = TRUE] /\ UNCHANGED files
  <2>1. SameOp(op') /\ op'.step = step /\ op'.errors = TRUE /\ UNCHANGED <<files, returned>>
    BY <1>1, <1>3, <1>6, GotoFacts DEF files
  <2>2. PlaceInv'
    BY <1>1, <1>3, <2>1 DEF IInv, PlaceInv, TestsAside, NoStaging, At, SameOp, files
  <2>3. KindInv'
    BY <1>1, <1>3, <2>1 DEF IInv, KindInv, At, SameOp, HasSamples, files
  <2> QED BY <1>1, <1>2, <1>3, <2>1, <2>2, <2>3, QuietStep DEF NoStaging, SameOp
<1> QED BY <1>1, <1>5, <1>6

LEMMA RestoreTestsInv == ASSUME IInv, RestoreTests PROVE IInv'
<1>1. /\ op.step = "restoreTests" /\ UNCHANGED <<started, before, touched, late, returned>>
      /\ UNCHANGED troubles \/ Trouble
      /\ \/ /\ CanMove(tests, "previous", "contest") /\ Goto("giveUp")
            /\ RenameTests("previous", "contest")
         \/ op' = [op EXCEPT !.step = "giveUp", !.errors = TRUE] /\ UNCHANGED files
  BY DEF RestoreTests, Attempt, At
<1>2. troubles' \in 0..MaxTroubles /\ touched' \in BOOLEAN /\ returned' \subseteq Gens
  BY <1>1, TroubleTyped DEF IInv, RefreshTypeOK
<1>3. "giveUp" \in Steps
  BY DEF Steps
<1>4. CASE CanMove(tests, "previous", "contest") /\ Goto("giveUp") /\ RenameTests("previous", "contest")
  <2>1. SameOp(op') /\ op'.step = "giveUp" /\ op'.errors = op.errors
    BY <1>3, <1>4, GotoFacts DEF Goto
  <2>2. /\ UNCHANGED <<meta, unowned, sampleless>>
        /\ \A g \in Gens : tests'[g] = IF tests[g] = "previous" THEN "contest" ELSE tests[g]
    BY <1>4, MovedFacts DEF RenameTests, IInv, RefreshTypeOK, Places
  <2>3. PlaceInv' /\ KindInv'
    BY <1>1, <2>1, <2>2 DEF IInv, PlaceInv, KindInv, TestsAside, NoStaging, At, SameOp, HasSamples
  <2>4. BeforeInv'
    BY <1>1, <2>1, <2>2 DEF IInv, BeforeInv, At, SameOp
  <2>5. UnownedInv'
    BY <1>1, <2>1, <2>2, UnownedTyped DEF IInv, UnownedInv, At, SameOp
  <2> QED BY <1>1, <1>2, <1>4, <2>1, <2>3, <2>4, <2>5, RenameTestsInv DEF NoStaging
<1>5. CASE op' = [op EXCEPT !.step = "giveUp", !.errors = TRUE] /\ UNCHANGED files
  <2>1. SameOp(op') /\ op'.step = "giveUp" /\ op'.errors = TRUE
    BY <1>3, <1>5, GotoFacts
  <2>2. PlaceInv' /\ KindInv'
    BY <1>1, <1>5, <2>1
      DEF IInv, PlaceInv, KindInv, TestsAside, NoStaging, At, SameOp, HasSamples, files
  <2> QED BY <1>1, <1>2, <1>5, <2>1, <2>2, QuietStep DEF NoStaging, SameOp
<1> QED BY <1>1, <1>4, <1>5

-----------------------------------------------------------------------------
(* What another program does: it has no part in the operation. *)
LEMMA MeddleFacts ==
  ASSUME IInv, Meddle
  PROVE  /\ UNCHANGED <<op, started, before, returned, sampleless>>
         /\ troubles' \in 0..MaxTroubles /\ touched' \in BOOLEAN
  BY TroubleTyped DEF Meddle

(* It changes what is in the contest directory, or puts something new there. *)
LEMMA MeddleInv ==
  ASSUME IInv, UNCHANGED <<op, started, before, returned, sampleless, late>>,
         troubles' \in 0..MaxTroubles, touched' \in BOOLEAN, marker' \in BOOLEAN,
         unowned' \subseteq Gens, broken' \subseteq Gens,
         health' \in [Gens -> {"healthy", "invalid", "unsupported"}],
         tests' \in [Gens -> Places], meta' \in [Gens -> Places],
         \A g \in Gens : \/ tests'[g] = tests[g]
                         \/ tests[g] = "contest" /\ tests'[g] = "removed"
                         \/ /\ g = Hand /\ tests[g] = "none" /\ tests'[g] = "contest"
                            /\ \A h \in Gens : tests[h] # "contest",
         \A g \in Gens : \/ meta'[g] = meta[g]
                         \/ meta[g] = "contest" /\ meta'[g] = "removed"
                         \/ g = Hand /\ meta[g] = "none" /\ meta'[g] = "contest",
         \A g \in unowned' : g \in unowned \/ (g = Hand /\ tests'[g] = "contest")
  PROVE  IInv'
<1>1. Hand \in Gens /\ Hand \notin Ops /\ unowned \subseteq Gens
  BY RefreshAssumption, UnownedTyped DEF Gens
<1>2. RefreshTypeOK'
  BY DEF IInv, RefreshTypeOK
<1>3. PlaceInv'
  BY DEF IInv, PlaceInv, At
<1>4. UniqueInv'
  BY DEF IInv, UniqueInv
<1>5. FreshInv'
  BY <1>1 DEF IInv, FreshInv, At, Gens, RefreshTypeOK
<1>6. KindInv'
  BY DEF IInv, KindInv, At, HasSamples
<1>7. BeforeInv'
  BY DEF IInv, BeforeInv, At
<1>8. UnownedInv'
  BY <1>1 DEF IInv, UnownedInv, At
<1> QED BY <1>2, <1>3, <1>4, <1>5, <1>6, <1>7, <1>8 DEF IInv

LEMMA AddUnownedInv == ASSUME IInv, NEW g \in Gens, AddUnowned(g) PROVE IInv'
<1>1. /\ Meddle /\ tests[g] \in {"contest", "previous"} /\ unowned' = unowned \cup {g}
      /\ late' = IF At("cleanup") /\ tests[g] = "previous" THEN late \cup {g} ELSE late
      /\ UNCHANGED <<tests, meta, marker, broken, health>>
  BY DEF AddUnowned
<1>2. /\ UNCHANGED <<op, started, before, returned, sampleless>>
      /\ troubles' \in 0..MaxTroubles /\ touched' \in BOOLEAN
  BY <1>1, MeddleFacts
<1>3. RefreshTypeOK'
  BY <1>1, <1>2 DEF IInv, RefreshTypeOK
<1>4. PlaceInv' /\ UniqueInv' /\ FreshInv'
  BY <1>1, <1>2 DEF IInv, PlaceInv, UniqueInv, FreshInv, At
<1>5. KindInv' /\ BeforeInv'
  BY <1>1, <1>2 DEF IInv, KindInv, BeforeInv, At, HasSamples
<1>6. UnownedInv'
  BY <1>1, <1>2 DEF IInv, UnownedInv, At
<1> QED BY <1>3, <1>4, <1>5, <1>6 DEF IInv

LEMMA OthersInv ==
  ASSUME IInv, TakeUnownedOut \/ BreakTests \/ RemoveTests \/ PutTests \/ RemoveMarker \/ PutMeta
  PROVE  IInv'
<1>1. /\ marker \in BOOLEAN /\ unowned \subseteq Gens /\ broken \subseteq Gens
      /\ health \in [Gens -> {"healthy", "invalid", "unsupported"}]
      /\ tests \in [Gens -> Places] /\ meta \in [Gens -> Places]
      /\ Hand \in Gens /\ "removed" \in Places /\ "contest" \in Places
  BY DEF IInv, RefreshTypeOK, Gens, Places
<1>2. Meddle /\ UNCHANGED late
  BY DEF TakeUnownedOut, BreakTests, RemoveTests, PutTests, RemoveMarker, PutMeta
<1>3. /\ UNCHANGED <<op, started, before, returned, sampleless>>
      /\ troubles' \in 0..MaxTroubles /\ touched' \in BOOLEAN
  BY <1>2, MeddleFacts
<1>4. LiveTests # Nothing => LiveTests \in Gens /\ tests[LiveTests] = "contest"
  BY TheFacts DEF LiveTests
<1>5. LiveTests = Nothing => \A g \in Gens : tests[g] # "contest"
  BY TheFacts DEF LiveTests
<1>6. CASE TakeUnownedOut
  <2>1. UNCHANGED <<tests, meta, marker, broken, health>> /\ unowned' \subseteq unowned
    BY <1>6 DEF TakeUnownedOut
  <2> QED BY <1>1, <1>2, <1>3, <2>1, MeddleInv
<1>7. CASE BreakTests
  <2>1. UNCHANGED <<tests, meta, marker, unowned, health>> /\ broken' \subseteq Gens
    BY <1>1, <1>4, <1>7 DEF BreakTests
  <2> QED BY <1>1, <1>2, <1>3, <2>1, MeddleInv
<1>8. CASE RemoveTests
  <2>1. /\ UNCHANGED <<meta, marker, unowned, broken, health>>
        /\ tests' \in [Gens -> Places]
        /\ \A g \in Gens : tests'[g] = tests[g] \/ (tests[g] = "contest" /\ tests'[g] = "removed")
    BY <1>1, <1>4, <1>8 DEF RemoveTests
  <2> QED BY <1>1, <1>2, <1>3, <2>1, MeddleInv
<1>9. CASE PutTests
  <2>1. /\ UNCHANGED <<meta, marker, broken, health>> /\ tests[Hand] = "none"
        /\ tests' \in [Gens -> Places] /\ unowned' \in {unowned, unowned \cup {Hand}}
        /\ \A g \in Gens : tests'[g] = IF g = Hand THEN "contest" ELSE tests[g]
        /\ \A g \in Gens : tests[g] # "contest"
    BY <1>1, <1>5, <1>9 DEF PutTests
  <2> QED BY <1>1, <1>2, <1>3, <2>1, MeddleInv
<1>10. CASE RemoveMarker
  <2>1. /\ UNCHANGED <<tests, unowned, broken, health>> /\ marker' \in BOOLEAN
        /\ meta' = Moved(meta, "contest", "removed")
    BY <1>10 DEF RemoveMarker
  <2>2. /\ meta' \in [Gens -> Places]
        /\ \A g \in Gens : meta'[g] = IF meta[g] = "contest" THEN "removed" ELSE meta[g]
    BY <1>1, <2>1, MovedFacts DEF Places
  <2> QED BY <1>1, <1>2, <1>3, <2>1, <2>2, MeddleInv
<1>11. CASE PutMeta
  <2>1. /\ UNCHANGED <<tests, unowned, broken>> /\ marker' \in BOOLEAN /\ meta[Hand] = "none"
        /\ meta' = [Moved(meta, "contest", "removed") EXCEPT ![Hand] = "contest"]
    BY <1>11 DEF PutMeta
  <2>2. PICK h \in {"healthy", "invalid", "unsupported"} : health' = [health EXCEPT ![Hand] = h]
    BY <1>11 DEF PutMeta
  <2>3. health' \in [Gens -> {"healthy", "invalid", "unsupported"}]
    BY <1>1, <2>2
  <2>4. /\ Moved(meta, "contest", "removed") \in [Gens -> Places]
        /\ \A g \in Gens : Moved(meta, "contest", "removed")[g]
                             = IF meta[g] = "contest" THEN "removed" ELSE meta[g]
    BY <1>1, MovedFacts DEF Places
  <2>5. /\ meta' \in [Gens -> Places]
        /\ \A g \in Gens : \/ meta'[g] = meta[g]
                           \/ meta[g] = "contest" /\ meta'[g] = "removed"
                           \/ g = Hand /\ meta[g] = "none" /\ meta'[g] = "contest"
    <3> DEFINE m == Moved(meta, "contest", "removed")
    <3>1. m \in [Gens -> Places] /\ meta' = [m EXCEPT ![Hand] = "contest"]
      BY <2>1, <2>4
    <3>2. \A g \in Gens : m[g] = IF meta[g] = "contest" THEN "removed" ELSE meta[g]
      BY <2>4
    <3> HIDE DEF m
    <3>3. Hand \in Gens /\ "contest" \in Places
      BY <1>1
    <3>4. meta' \in [Gens -> Places]
      BY <3>1, <3>3
    <3>5. \A g \in Gens : meta'[g] = IF g = Hand THEN "contest" ELSE m[g]
      BY <3>1, <3>3
    <3>6. meta[Hand] = "none"
      BY <2>1
    <3> QED BY <3>2, <3>4, <3>5, <3>6
  <2> QED BY <1>1, <1>2, <1>3, <2>1, <2>3, <2>5, MeddleInv
<1> QED BY <1>6, <1>7, <1>8, <1>9, <1>10, <1>11

-----------------------------------------------------------------------------
LEMMA StutterInv == ASSUME IInv, UNCHANGED vars PROVE IInv'
<1>1. UNCHANGED <<tests, meta, marker, unowned, broken, health, sampleless, op, started, troubles,
                  before, touched, late, returned>>
  BY DEF vars, files, history
<1>2. RefreshTypeOK' /\ PlaceInv' /\ UniqueInv'
  BY <1>1 DEF IInv, RefreshTypeOK, PlaceInv, UniqueInv, At
<1>3. FreshInv' /\ KindInv'
  BY <1>1 DEF IInv, FreshInv, KindInv, At, HasSamples
<1>4. BeforeInv' /\ UnownedInv'
  BY <1>1 DEF IInv, BeforeInv, UnownedInv, At
<1> QED BY <1>2, <1>3, <1>4 DEF IInv

LEMMA NextInv == ASSUME IInv, [Next]_vars PROVE IInv'
<1>1. CASE \E o \in Ops, force \in BOOLEAN : StartRefresh(o, force)
  BY <1>1, StartRefreshInv
<1>2. CASE \E o \in Ops, samples \in BOOLEAN : StartRepair(o, samples)
  BY <1>2, StartRepairInv
<1>3. CASE Stage \/ FailFetch \/ Apply \/ Look
  BY <1>3, StageInv, FailFetchInv, ApplyInv, LookInv
<1>4. CASE MoveTests \/ ValidateMoved \/ CheckManifest \/ InstallTests
  BY <1>4, MoveTestsInv, ValidateMovedInv, CheckManifestInv, InstallTestsInv
<1>5. CASE MoveMeta \/ CreateMarker \/ InstallMeta \/ Inspect \/ Cleanup \/ Confirm
  BY <1>5, MoveMetaInv, CreateMarkerInv, InstallMetaInv, InspectInv, CleanupInv, ConfirmInv
<1>6. CASE UndoMetaStep \/ UndoMarkerStep \/ UndoTestsStep \/ RestoreTests \/ GiveUp \/ Kill
  BY <1>6, UndoMetaInv, UndoMarkerInv, UndoTestsInv, RestoreTestsInv, GiveUpInv, KillInv
<1>7. CASE \E g \in Gens : AddUnowned(g)
  BY <1>7, AddUnownedInv
<1>8. CASE TakeUnownedOut \/ BreakTests \/ RemoveTests \/ PutTests \/ RemoveMarker \/ PutMeta
  BY <1>8, OthersInv
<1>9. CASE UNCHANGED vars
  BY <1>9, StutterInv
<1> QED BY <1>1, <1>2, <1>3, <1>4, <1>5, <1>6, <1>7, <1>8, <1>9 DEF Next

LEMMA Inductive == Spec => []IInv
<1>1. Init => IInv
  BY InitInv
<1>2. IInv /\ [Next]_vars => IInv'
  BY NextInv
<1> QED BY <1>1, <1>2, PTL DEF Spec

(* Every state is one of the model: tests and metadata of a generation     *)
(* have one place, and the operation is at a step of the replacement       *)
(* (replace_refresh_data and its kin in workspace.rs).                     *)
THEOREM RefreshTypeCorrect == Spec => []RefreshTypeOK
<1>1. IInv => RefreshTypeOK
  BY DEF IInv
<1> QED BY <1>1, Inductive, PTL

(* Until the new data is in place, nothing deletes the tests or the        *)
(* metadata that were there: whatever rename fails, also one of the        *)
(* rollback, whenever the operation is killed, whatever another program    *)
(* does, and however many operations follow one another                    *)
(* (replace_refresh_data, rollback_tests, refresh_update_error).           *)
THEOREM OldDataIsNeverDeleted == Spec => []OldDataSurvives
<1>1. IInv => OldDataSurvives
  BY DEF IInv, BeforeInv, OldDataSurvives
<1> QED BY <1>1, Inductive, PTL

(* An entry under tests/ that atc does not own is deleted only when it was *)
(* added after the last inspection of the moved tests, or when a rollback  *)
(* took the tests that hold it out of the contest                          *)
(* (validate_refresh_owned_tests).                                         *)
THEOREM UnownedIsDeletedOnlyLate == Spec => []UnownedSurvives
<1>1. IInv => UnownedSurvives
  BY DEF IInv, UnownedInv, UnownedSurvives
<1> QED BY <1>1, Inductive, PTL

-----------------------------------------------------------------------------
(* All or nothing.  As long as nobody interferes and no undoing has        *)
(* failed, it is known at each step where the tests and the metadata are:  *)
(* the old ones in place but while they are aside, the new ones in place   *)
(* while they are installed.                                               *)
Planning == {"fetch", "prepared", "look"}
UndoingSteps == {"undoMarker", "undoTests", "restoreTests", "giveUp"}
TestsOut == TestsAside \cup {"confirm"}
TestsInstalled == {"moveMeta", "createMarker", "installMeta", "inspect", "cleanup", "confirm",
                   "undoMeta", "undoMarker", "undoTests"}
MetaOut == {"installMeta", "inspect", "cleanup", "confirm", "undoMeta"}
MetaInstalled == {"inspect", "cleanup", "confirm"}

TestsExact == \A g \in Gens :
  /\ tests[g] = "contest" <=> \/ op.moved /\ op.step \in TestsInstalled /\ g = op.gen
                              \/ g = before.tests /\ ~(op.hadTests /\ op.step \in TestsOut)
  /\ tests[g] = "previous" => g = before.tests
  /\ tests[g] = "staged" => g = op.gen

MetaExact == \A g \in Gens :
  /\ meta[g] = "contest" <=> \/ op.kind # "tests" /\ op.step \in MetaInstalled /\ g = op.gen
                             \/ g = before.meta /\ ~(op.hadMeta /\ op.step \in MetaOut)
  /\ meta[g] = "previous" => g = before.meta
  /\ meta[g] = "staged" => g = op.gen

(* What is to be moved has been looked at, and what was to be installed has *)
(* been, if there are any tests.                                           *)
MovedExact ==
  /\ op.step = "moveTests" => before.tests \notin unowned
  /\ /\ op.kind # "meta"
     /\ op.step \in {"moveMeta", "createMarker", "installMeta", "inspect", "cleanup", "confirm"}
     => (op.moved <=> HasSamples)

(* What the operation found, and what it was planned for: a repair of the  *)
(* metadata leaves healthy tests alone, one of the tests a healthy manifest.*)
FoundTests == IF before.tests = Nothing THEN ~HasSamples
              ELSE HasSamples /\ before.tests \notin broken
PlanExact ==
  /\ op.gen \notin broken
  /\ op.step \notin {"fetch", "prepared"} =>
       /\ op.repair => (FoundTests <=> op.kind = "meta")
       /\ op.kind # "tests" /\ before.meta # Nothing =>
            IF op.repair THEN health[before.meta] = "invalid" ELSE before.meta = op.basis
  /\ op.step \notin Planning =>
       /\ op.kind # "meta" => (op.hadTests <=> before.tests # Nothing)
       /\ op.kind # "tests" => (op.hadMeta <=> before.meta # Nothing)
       /\ op.kind = "tests" => /\ before.meta # Nothing /\ before.meta = op.basis
                               /\ health[before.meta] = "healthy"

Exact == PlanExact /\ MovedExact /\ TestsExact /\ MetaExact
ExactInv == ~touched /\ Running /\ ~op.errors => Exact

(* What holds whatever another program does: of the files, *)
MetaPlaced ==
  /\ \A g \in Gens : meta[g] = "contest" => marker
  /\ \A g, h \in Gens :
       meta[g] = meta[h] /\ meta[g] \in {"contest", "previous", "staged"} => g = h
FilesInv ==
  /\ MetaPlaced
  /\ \A o \in Ops : health[o] = "healthy"
  /\ \A o \in Ops \ started : o \notin broken /\ o \notin sampleless

(* and of the operation. *)
PlanInv ==
  /\ op.step \in {"fetch", "prepared"} =>
       /\ op.gen \notin broken /\ tests[op.gen] # "contest"
       /\ \A g \in Gens : tests[g] = "staged" \/ meta[g] = "staged" => g = op.gen
  /\ op.errors => op.step \in UndoingSteps
  /\ op.kind = "meta" /\ Running => op.repair
  /\ op.repair /\ op.kind # "tests" /\ Running => op.basis = Nothing
  /\ op.kind = "tests" /\ Running => op.repair /\ (HasSamples <=> op.basis \notin sampleless)
  /\ At("manifest") => op.kind = "tests"

AInv == FilesInv /\ PlanInv /\ ExactInv /\ AllOrNothing

LEMMA InitAInv == Init => AInv
<1> SUFFICES ASSUME Init PROVE AInv
  OBVIOUS
<1>1. Old \in Gens /\ Old \notin Ops /\ Ops \subseteq Gens
  BY RefreshAssumption DEF Gens
<1>2. /\ \A g \in Gens : meta[g] = "contest" => g = Old
      /\ meta[Old] = "contest" => marker
      /\ \A g \in Gens : g # Old => health[g] = "healthy"
      /\ broken \subseteq {Old} /\ sampleless \subseteq {Old}
  BY <1>1 DEF Init
<1>3. FilesInv
  <2>1. \A g \in Gens : meta[g] \notin {"previous", "staged"}
    BY DEF Init
  <2> QED BY <1>1, <1>2, <2>1 DEF FilesInv, MetaPlaced
<1>4. op.step = "idle" /\ op.errors = FALSE
  BY DEF Init, NoOp
<1>5. PlanInv /\ ExactInv /\ AllOrNothing
  BY <1>4 DEF PlanInv, ExactInv, AllOrNothing, Running, At
<1> QED BY <1>3, <1>5 DEF AInv

(* What is in the contest is named by where it is, and nothing else is. *)
LEMMA TheIs ==
  ASSUME NEW what, NEW p, NEW x \in Gens \cup {Nothing}, \A g \in Gens : what[g] = p <=> g = x
  PROVE  The(p, what) = x
  BY TheFacts

LEMMA LiveIs ==
  ASSUME IInv, FilesInv
  PROVE  /\ \A g \in Gens : tests[g] = "contest" <=> g = LiveTests
         /\ \A g \in Gens : meta[g] = "contest" <=> g = LiveMeta
<1>1. /\ LiveTests # Nothing => LiveTests \in Gens /\ tests[LiveTests] = "contest"
      /\ LiveMeta # Nothing => LiveMeta \in Gens /\ meta[LiveMeta] = "contest"
      /\ LiveTests = Nothing => \A g \in Gens : tests[g] # "contest"
      /\ LiveMeta = Nothing => \A g \in Gens : meta[g] # "contest"
      /\ Nothing \notin Gens
  BY TheFacts DEF LiveTests, LiveMeta
<1>2. \A g, h \in Gens : tests[g] = "contest" /\ tests[h] = "contest" => g = h
  BY DEF IInv, UniqueInv
<1>3. \A g, h \in Gens : meta[g] = "contest" /\ meta[h] = "contest" => g = h
  BY DEF FilesInv, MetaPlaced
<1> QED BY <1>1, <1>2, <1>3

LEMMA SameLive ==
  ASSUME IInv, FilesInv, \A g \in Gens : tests'[g] = "contest" <=> tests[g] = "contest",
         \A g \in Gens : meta'[g] = "contest" <=> meta[g] = "contest"
  PROVE  LiveTests' = LiveTests /\ LiveMeta' = LiveMeta
<1>1. \A g \in Gens : tests[g] = "contest" <=> g = LiveTests
  BY LiveIs
<1>2. \A g \in Gens : meta[g] = "contest" <=> g = LiveMeta
  BY LiveIs
<1>3. \A g \in Gens : tests'[g] = "contest" <=> g = LiveTests
  BY <1>1
<1>4. \A g \in Gens : meta'[g] = "contest" <=> g = LiveMeta
  BY <1>2
<1>5. The("contest", tests') = LiveTests /\ The("contest", meta') = LiveMeta
  BY <1>3, <1>4, LiveTyped, TheIs
<1>6. LiveTests' = The("contest", tests') /\ LiveMeta' = The("contest", meta')
  BY DEF LiveTests, LiveMeta, The
<1> QED BY <1>5, <1>6

LEMMA EndLive ==
  ASSUME IInv, FilesInv, NEW outcome, End(outcome)
  PROVE  /\ LiveTests' = LiveTests /\ LiveMeta' = LiveMeta
         /\ \A g \in Gens : tests'[g] = "contest" <=> tests[g] = "contest"
         /\ \A g \in Gens : meta'[g] = "contest" <=> meta[g] = "contest"
<1> DEFINE where == CASE outcome = "kept" -> "kept" [] outcome = "killed" -> "left" [] OTHER -> "deleted"
<1>1. where # "contest" /\ tests' = Dropped(tests, where) /\ meta' = Dropped(meta, where)
  BY DEF End
<1> HIDE DEF where
<1>2. \A g \in Gens : tests'[g] = "contest" <=> tests[g] = "contest"
  BY <1>1 DEF Dropped
<1>3. \A g \in Gens : meta'[g] = "contest" <=> meta[g] = "contest"
  BY <1>1 DEF Dropped
<1> QED BY <1>2, <1>3, SameLive

-----------------------------------------------------------------------------
(* The same operation, at a step of the replacement or of the rollback. *)
Kept(p) ==
  /\ p \in OpSet
  /\ p.gen = op.gen /\ p.kind = op.kind /\ p.repair = op.repair /\ p.basis = op.basis
  /\ p.hadTests = op.hadTests /\ p.hadMeta = op.hadMeta
  /\ p.errors = op.errors \/ (p.errors = TRUE /\ p.step \in UndoingSteps)

LEMMA KeptFacts ==
  ASSUME IInv, NEW step \in Steps
  PROVE  /\ LET p == [op EXCEPT !.step = step]
            IN  Kept(p) /\ p.step = step /\ p.moved = op.moved /\ p.errors = op.errors
         /\ step \in UndoingSteps =>
              LET p == [op EXCEPT !.step = step, !.errors = TRUE]
              IN  Kept(p) /\ p.step = step /\ p.moved = op.moved /\ p.errors = TRUE
         /\ LET p == [op EXCEPT !.step = step, !.moved = TRUE]
            IN  Kept(p) /\ p.step = step /\ p.moved = TRUE /\ p.errors = op.errors
         /\ LET p == [op EXCEPT !.step = step, !.made = TRUE]
            IN  Kept(p) /\ p.step = step /\ p.moved = op.moved /\ p.errors = op.errors
         /\ LET p == [op EXCEPT !.step = step, !.keep = HasSamples]
            IN  Kept(p) /\ p.step = step /\ p.moved = op.moved /\ p.errors = op.errors
         /\ LET p == [op EXCEPT !.step = step, !.outcome = "updated"]
            IN  Kept(p) /\ p.step = step /\ p.moved = op.moved /\ p.errors = op.errors
<1>1. op \in OpSet /\ HasSamples \in BOOLEAN /\ "updated" \in Outcomes
  BY OpTyped DEF HasSamples, Outcomes
<1> QED BY <1>1 DEF Kept, OpSet

(* Of a step it is enough to know where it leaves the tests, the metadata  *)
(* and the operation.                                                      *)
LEMMA Advance ==
  ASSUME IInv, AInv, Kept(op'),
         op.step \notin Planning \cup {"idle", "ended"},
         op'.step \notin Planning \cup {"idle", "ended"},
         op.step \in UndoingSteps => op'.step \in UndoingSteps,
         op'.step = "manifest" => op.kind = "tests",
         UNCHANGED <<broken, health, sampleless, started, before, touched>>,
         MetaPlaced',
         ~touched /\ op.errors = FALSE /\ op'.errors = FALSE /\ Exact =>
           MovedExact' /\ TestsExact' /\ MetaExact'
  PROVE  AInv'
<1>1. /\ op'.gen = op.gen /\ op'.kind = op.kind /\ op'.repair = op.repair /\ op'.basis = op.basis
      /\ op'.hadTests = op.hadTests /\ op'.hadMeta = op.hadMeta
      /\ op'.errors = op.errors \/ (op'.errors = TRUE /\ op'.step \in UndoingSteps)
  BY DEF Kept
<1>2. op.errors \in BOOLEAN /\ op'.errors \in BOOLEAN
  BY OpTyped DEF Kept, OpSet
<1>3. Running
  BY DEF Running
<1>4. FilesInv'
  BY DEF AInv, FilesInv
<1>5. PlanInv'
  BY <1>1, <1>3 DEF AInv, PlanInv, Planning, At, HasSamples, Running
<1>6. ExactInv'
  <2> SUFFICES ASSUME ~touched, op'.errors = FALSE
               PROVE  Exact'
    BY <1>2 DEF ExactInv
  <2>1. op.errors = FALSE
    BY <1>1, <1>2
  <2>2. Exact
    BY <1>3, <2>1 DEF AInv, ExactInv
  <2>3. MovedExact' /\ TestsExact' /\ MetaExact'
    BY <2>1, <2>2
  <2>4. PlanExact'
    BY <1>1, <2>2 DEF Exact, PlanExact, FoundTests, Planning, HasSamples
  <2> QED BY <2>3, <2>4 DEF Exact
<1>7. AllOrNothing'
  BY DEF AllOrNothing, At
<1> QED BY <1>4, <1>5, <1>6, <1>7 DEF AInv

(* A step that leaves the tests, or the metadata, where they are. *)
LEMMA TestsStay ==
  ASSUME TestsExact, UNCHANGED <<tests, before>>, Kept(op'), op'.moved = op.moved,
         op.moved => (op.step \in TestsInstalled <=> op'.step \in TestsInstalled),
         op.hadTests => (op.step \in TestsOut <=> op'.step \in TestsOut)
  PROVE  TestsExact'
<1>1. op'.gen = op.gen /\ op'.hadTests = op.hadTests
  BY DEF Kept
<1> QED BY <1>1 DEF TestsExact

LEMMA MetaStays ==
  ASSUME MetaExact, UNCHANGED <<meta, before>>, Kept(op'),
         op.kind # "tests" => (op.step \in MetaInstalled <=> op'.step \in MetaInstalled),
         op.hadMeta => (op.step \in MetaOut <=> op'.step \in MetaOut)
  PROVE  MetaExact'
<1>1. op'.gen = op.gen /\ op'.kind = op.kind /\ op'.hadMeta = op.hadMeta
  BY DEF Kept
<1> QED BY <1>1 DEF MetaExact

(* Where a rollback goes on: to what there is to undo. *)
LEMMA UndoTargets ==
  ASSUME IInv
  PROVE  /\ UndoTests(op) \in {"undoTests", "restoreTests", "giveUp"}
         /\ op.moved => UndoTests(op) = "undoTests"
         /\ op.hadTests => UndoTests(op) # "giveUp"
         /\ UndoMarker(op) \in UndoingSteps
         /\ op.moved => UndoMarker(op) \in {"undoMarker", "undoTests"}
         /\ op.hadTests => UndoMarker(op) # "giveUp"
         /\ UndoMeta(op) \in UndoingSteps \cup {"undoMeta"}
         /\ op.moved => UndoMeta(op) \in {"undoMeta", "undoMarker", "undoTests"}
         /\ op.hadTests => UndoMeta(op) # "giveUp"
         /\ op.hadMeta => UndoMeta(op) = "undoMeta"
         /\ ~op.hadMeta => UndoMeta(op) \in UndoingSteps
<1>1. op.moved \in BOOLEAN /\ op.hadTests \in BOOLEAN /\ op.made \in BOOLEAN /\ op.hadMeta \in BOOLEAN
  BY OpTyped DEF OpSet
<1>2. /\ UndoTests(op) \in {"undoTests", "restoreTests", "giveUp"}
      /\ op.moved => UndoTests(op) = "undoTests"
      /\ op.hadTests => UndoTests(op) # "giveUp"
  BY <1>1 DEF UndoTests
<1>3. /\ UndoMarker(op) \in UndoingSteps
      /\ op.moved => UndoMarker(op) \in {"undoMarker", "undoTests"}
      /\ op.hadTests => UndoMarker(op) # "giveUp"
  BY <1>1, <1>2 DEF UndoMarker, UndoingSteps
<1>4. /\ op.hadMeta => UndoMeta(op) = "undoMeta"
      /\ ~op.hadMeta => UndoMeta(op) = UndoMarker(op)
  BY <1>1 DEF UndoMeta
<1> QED BY <1>1, <1>2, <1>3, <1>4

LEMMA RollBack ==
  ASSUME IInv, AInv, Kept(op'), op'.moved = op.moved, op'.errors = op.errors, UNCHANGED files,
         UNCHANGED <<started, before, touched>>,
         op.step \in {"manifest", "installTests", "moveMeta", "createMarker", "installMeta", "inspect"},
         op'.step = UndoTests(op) \/ (op'.step = UndoMeta(op) /\ op.step = "installMeta"),
         op.step = "installMeta" => op'.step = UndoMeta(op),
         op.step = "inspect" => op.kind = "tests"
  PROVE  AInv'
<1>1. UNCHANGED <<tests, meta, marker, broken, health, sampleless>>
  BY DEF files
<1>2. /\ op.moved => op.step \in TestsInstalled
      /\ op.step = "inspect" => ~op.hadMeta
  BY DEF IInv, KindInv, TestsInstalled
<1>3. /\ op'.step \in UndoingSteps \cup {"undoMeta"}
      /\ op.moved => op'.step \in TestsInstalled
      /\ op.hadTests => op'.step \in TestsOut
      /\ op.hadMeta => (op.step \in MetaOut <=> op'.step \in MetaOut)
      /\ op.kind # "tests" => op.step \notin MetaInstalled
      /\ op'.step \notin MetaInstalled
      /\ op.step \in TestsOut
  <2>1. op'.step \in UndoingSteps \cup {"undoMeta"}
    BY UndoTargets DEF UndoingSteps
  <2>2. op.moved => op'.step \in TestsInstalled
    BY UndoTargets DEF TestsInstalled
  <2>3. op.hadTests => op'.step \in TestsOut
    BY <2>1, UndoTargets DEF TestsOut, TestsAside, UndoingSteps
  <2>4. op.hadMeta => (op.step \in MetaOut <=> op'.step \in MetaOut)
    BY <1>2, UndoTargets DEF MetaOut
  <2> QED BY <2>1, <2>2, <2>3, <2>4 DEF MetaInstalled, UndoingSteps, TestsOut, TestsAside
<1>4. MovedExact'
  BY <1>3 DEF MovedExact, UndoingSteps
<1>5. TestsExact => TestsExact'
  BY <1>1, <1>2, <1>3, TestsStay
<1>6. MetaExact => MetaExact'
  BY <1>1, <1>3, MetaStays
<1>7. FilesInv
  BY DEF AInv
<1>8. MetaPlaced'
  BY <1>1, <1>7 DEF FilesInv, MetaPlaced
<1>9. /\ op.step \notin Planning \cup {"idle", "ended"} /\ op.step \notin UndoingSteps
      /\ op'.step \notin Planning \cup {"idle", "ended"} /\ op'.step # "manifest"
  BY <1>3 DEF Planning, UndoingSteps
<1> QED BY <1>1, <1>4, <1>5, <1>6, <1>8, <1>9, Advance DEF Exact

-----------------------------------------------------------------------------
(* An operation starts, and is prepared. *)
LEMMA StartExact ==
  ASSUME IInv, AInv, NEW o \in Ops \ started, ~Running,
         op'.gen = o, op'.step = "fetch", op'.hadTests = FALSE, op'.hadMeta = FALSE,
         op'.moved = FALSE, op'.errors = FALSE,
         op'.kind = "meta" => op'.repair,
         op'.repair /\ op'.kind # "tests" => op'.basis = Nothing,
         op'.kind = "tests" => op'.repair /\ (o \notin sampleless' <=> op'.basis \notin sampleless'),
         started' = started \cup {o}, sampleless' \in {sampleless, sampleless \cup {o}},
         before' = [tests |-> LiveTests, meta |-> LiveMeta],
         UNCHANGED <<tests, meta, marker, broken, health>>
  PROVE  AInv'
<1>1. FilesInv /\ o \in Gens /\ tests[o] = "none"
  BY DEF AInv, IInv, FreshInv, Gens
<1>2. op.step \in {"idle", "ended"}
  BY DEF Running
<1>3. \A g \in Gens : tests[g] \notin {"previous", "staged"} /\ meta[g] \notin {"previous", "staged"}
  BY <1>2 DEF IInv, PlaceInv, TestsAside, NoStaging, At
<1>4. FilesInv'
  BY <1>1 DEF FilesInv, MetaPlaced
<1>5. PlanInv'
  BY <1>1, <1>3 DEF PlanInv, FilesInv, HasSamples, At
<1>6. ExactInv'
  <2>1. /\ \A g \in Gens : tests[g] = "contest" <=> g = LiveTests
        /\ \A g \in Gens : meta[g] = "contest" <=> g = LiveMeta
    BY <1>1, LiveIs
  <2>2. before'.tests = LiveTests /\ before'.meta = LiveMeta
    OBVIOUS
  <2>3. TestsExact' /\ MetaExact'
    BY <1>3, <2>1, <2>2 DEF TestsExact, MetaExact, MetaInstalled
  <2>4. PlanExact' /\ MovedExact'
    BY <1>1 DEF PlanExact, MovedExact, Planning, FilesInv
  <2> QED BY <2>3, <2>4 DEF ExactInv, Exact
<1>7. AllOrNothing'
  BY DEF AllOrNothing, At
<1> QED BY <1>4, <1>5, <1>6, <1>7 DEF AInv

LEMMA StartRefreshExact ==
  ASSUME IInv, AInv, NEW o \in Ops, NEW force \in BOOLEAN, StartRefresh(o, force)
  PROVE  AInv'
<1> DEFINE p == [NoOp EXCEPT !.gen = o, !.step = "fetch", !.kind = "both", !.force = force,
                             !.basis = LiveMeta]
<1>1. /\ ~Running /\ o \in Ops \ started /\ op' = p /\ started' = started \cup {o}
      /\ sampleless' \in {sampleless, sampleless \cup {o}}
      /\ before' = [tests |-> LiveTests, meta |-> LiveMeta]
      /\ UNCHANGED <<tests, meta, marker, broken, health>>
  BY DEF StartRefresh
<1>2. /\ p.gen = o /\ p.repair = FALSE /\ p.step = "fetch" /\ p.kind = "both"
      /\ p.hadTests = FALSE /\ p.hadMeta = FALSE
      /\ p.moved = FALSE /\ p.errors = FALSE
  BY DEF NoOp
<1> HIDE DEF p
<1> QED BY <1>1, <1>2, StartExact

LEMMA StartRepairExact ==
  ASSUME IInv, AInv, NEW o \in Ops, NEW samples \in BOOLEAN, StartRepair(o, samples)
  PROVE  AInv'
<1> DEFINE basis == IF MetadataHealth = "healthy" THEN LiveMeta ELSE Nothing
           p == [NoOp EXCEPT !.gen = o, !.step = "fetch", !.kind = RepairPlan(samples),
                             !.repair = TRUE, !.force = TRUE, !.basis = basis]
<1>1. /\ ~Running /\ o \in Ops \ started /\ op' = p /\ started' = started \cup {o}
      /\ RepairPlan(samples) # "none"
      /\ sampleless' = IF samples THEN sampleless ELSE sampleless \cup {o}
      /\ before' = [tests |-> LiveTests, meta |-> LiveMeta]
      /\ UNCHANGED <<tests, meta, marker, broken, health>>
      /\ MetadataHealth = "healthy" => samples = (LiveMeta \notin sampleless)
  BY DEF StartRepair
<1>2. /\ p.gen = o /\ p.step = "fetch" /\ p.kind = RepairPlan(samples) /\ p.hadTests = FALSE
      /\ p.hadMeta = FALSE /\ p.moved = FALSE /\ p.errors = FALSE /\ p.repair = TRUE /\ p.basis = basis
  BY DEF NoOp
<1>3. RepairPlan(samples) = "tests" <=> RepairPlan(samples) # "none" /\ MetadataHealth = "healthy"
  BY DEF RepairPlan
<1>4. LiveMeta # o
  <2>1. o \in Gens /\ meta[o] = "none"
    BY <1>1 DEF IInv, FreshInv, Gens
  <2> QED BY <2>1, LiveIs DEF AInv
<1>5. o \notin sampleless
  BY <1>1 DEF AInv, FilesInv
<1> HIDE DEF p
<1>6. ASSUME p.kind = "tests" PROVE o \notin sampleless' <=> p.basis \notin sampleless'
  <2>1. p.basis = LiveMeta /\ (samples <=> LiveMeta \notin sampleless)
    BY <1>1, <1>2, <1>3, <1>6
  <2>2. CASE samples
    BY <1>1, <1>5, <2>1, <2>2
  <2>3. CASE ~samples
    BY <1>1, <2>1, <2>3
  <2> QED BY <2>2, <2>3
<1>8. p.kind # "tests" => p.basis = Nothing
  BY <1>1, <1>2, <1>3
<1>7. sampleless' \in {sampleless, sampleless \cup {o}}
  BY <1>1
<1> QED BY <1>7, <1>8, <1>1, <1>2, <1>6, StartExact

LEMMA StageExact == ASSUME IInv, AInv, Stage PROVE AInv'
<1> DEFINE place == IF op.kind = "meta" \/ ~HasSamples THEN "none" ELSE "staged"
<1>1. /\ op.step = "fetch" /\ op' = [op EXCEPT !.step = "prepared"]
      /\ meta' = [meta EXCEPT ![op.gen] = "staged"] /\ tests' = [tests EXCEPT ![op.gen] = place]
      /\ UNCHANGED <<marker, unowned, broken, health, sampleless, started, before, touched>>
  BY DEF Stage, At, Goto, Quiet, history
<1>2. Kept(op') /\ op'.step = "prepared" /\ op'.moved = op.moved /\ op'.errors = op.errors
  BY <1>1, KeptFacts DEF Steps
<1>3. place \in {"none", "staged"}
  OBVIOUS
<1> HIDE DEF place
<1>4. /\ op.gen \in Gens /\ tests[op.gen] = "none" /\ meta[op.gen] = "none"
      /\ tests \in [Gens -> Places] /\ meta \in [Gens -> Places]
  BY <1>1 DEF IInv, FreshInv, At, Gens, RefreshTypeOK
<1>5. \A g \in Gens : /\ tests'[g] = IF g = op.gen THEN place ELSE tests[g]
                      /\ meta'[g] = IF g = op.gen THEN "staged" ELSE meta[g]
  BY <1>1, <1>4
<1>6. \A g \in Gens : tests[g] \notin {"previous", "staged"} /\ meta[g] \notin {"previous", "staged"}
  BY <1>1 DEF IInv, PlaceInv, TestsAside, NoStaging, At
<1>7. ~op.hadTests /\ ~op.hadMeta /\ ~op.moved /\ op.errors = FALSE
  BY <1>1, OpTyped DEF IInv, KindInv, AInv, PlanInv, UndoingSteps, OpSet
<1>8. /\ op'.gen = op.gen /\ op'.kind = op.kind /\ op'.repair = op.repair /\ op'.basis = op.basis
      /\ op'.hadTests = op.hadTests /\ op'.hadMeta = op.hadMeta
  BY <1>2 DEF Kept
<1>9. FilesInv'
  <2>1. FilesInv
    BY DEF AInv
  <2> QED BY <1>1, <1>5, <1>6, <2>1 DEF FilesInv, MetaPlaced
<1>10. PlanInv'
  <2>1. PlanInv
    BY DEF AInv
  <2> QED BY <1>1, <1>2, <1>3, <1>5, <1>7, <1>8, <2>1 DEF PlanInv, Running, HasSamples, At
<1>11. ExactInv'
  <2> SUFFICES ASSUME ~touched PROVE Exact'
    BY <1>1 DEF ExactInv
  <2>1. Exact
    BY <1>1, <1>7 DEF AInv, ExactInv, Running
  <2>2. /\ \A g \in Gens : tests[g] = "contest" <=> g = before.tests
        /\ \A g \in Gens : meta[g] = "contest" <=> g = before.meta
    BY <1>1, <1>7, <2>1 DEF Exact, TestsExact, MetaExact, MetaInstalled
  <2>3. TestsExact'
    BY <1>1, <1>2, <1>3, <1>4, <1>5, <1>6, <1>7, <1>8, <2>2 DEF TestsExact, TestsOut, TestsAside
  <2>4. MetaExact'
    BY <1>1, <1>2, <1>4, <1>5, <1>6, <1>7, <1>8, <2>2 DEF MetaExact, MetaInstalled
  <2>5. PlanExact' /\ MovedExact'
    BY <1>1, <1>2, <1>8, <2>1 DEF Exact, PlanExact, MovedExact, Planning
  <2> QED BY <2>3, <2>4, <2>5 DEF Exact
<1>12. AllOrNothing'
  BY <1>2 DEF AllOrNothing, At
<1> QED BY <1>9, <1>10, <1>11, <1>12 DEF AInv

(* The end of an operation changes nothing in the contest. *)
Promise(outcome) ==
  /\ outcome = "updated" =>
       /\ LiveTests = IF op.kind = "meta" THEN before.tests
                      ELSE IF HasSamples THEN op.gen ELSE Nothing
       /\ LiveMeta = IF op.kind = "tests" THEN before.meta ELSE op.gen
  /\ outcome = "failed" => LiveTests = before.tests /\ LiveMeta = before.meta
  /\ outcome # "unhealthy"

LEMMA EndExact ==
  ASSUME IInv, AInv, NEW outcome \in Outcomes \ {"none"}, End(outcome), Running, started' = started,
         UNCHANGED <<before, touched>>, ~touched => Promise(outcome)
  PROVE  AInv'
<1>1. FilesInv
  BY DEF AInv
<1>2. /\ op' = [NoOp EXCEPT !.gen = op.gen, !.kind = op.kind, !.step = "ended", !.outcome = outcome]
      /\ UNCHANGED <<marker, unowned, broken, health, sampleless>>
  BY DEF End
<1>3. /\ op'.gen = op.gen /\ op'.kind = op.kind /\ op'.step = "ended" /\ op'.outcome = outcome
      /\ op'.errors = FALSE
  BY <1>2 DEF NoOp
<1>4. /\ LiveTests' = LiveTests /\ LiveMeta' = LiveMeta
      /\ \A g \in Gens : meta'[g] = "contest" <=> meta[g] = "contest"
  BY <1>1, EndLive
<1>5. \A g \in Gens : meta'[g] \notin {"previous", "staged"}
  <2> DEFINE where == CASE outcome = "kept" -> "kept" [] outcome = "killed" -> "left" [] OTHER -> "deleted"
  <2>1. where \notin {"previous", "staged"} /\ meta' = Dropped(meta, where)
    BY DEF End
  <2> HIDE DEF where
  <2> QED BY <2>1 DEF Dropped
<1>6. FilesInv'
  BY <1>1, <1>2, <1>4, <1>5 DEF FilesInv, MetaPlaced
<1>7. PlanInv' /\ ExactInv'
  BY <1>3 DEF PlanInv, ExactInv, Running, At
<1>8. AllOrNothing'
  BY <1>2, <1>3, <1>4 DEF AllOrNothing, Promise, HasSamples
<1> QED BY <1>6, <1>7, <1>8 DEF AInv

(* Where the tests and the metadata are, in terms of what is in the contest. *)
LEMMA LiveWhere ==
  ASSUME IInv, FilesInv, NEW x \in Gens \cup {Nothing}
  PROVE  /\ (\A g \in Gens : tests[g] = "contest" <=> g = x) => LiveTests = x
         /\ (\A g \in Gens : meta[g] = "contest" <=> g = x) => LiveMeta = x
<1>1. (\A g \in Gens : tests[g] = "contest" <=> g = x) => LiveTests = x
  BY TheIs DEF LiveTests
<1>2. (\A g \in Gens : meta[g] = "contest" <=> g = x) => LiveMeta = x
  BY TheIs DEF LiveMeta
<1> QED BY <1>1, <1>2

LEMMA BeforeTyped ==
  IInv => before.tests \in Gens \cup {Nothing} /\ before.meta \in Gens \cup {Nothing}
  BY DEF IInv, RefreshTypeOK

(* An operation that has moved nothing yet finds what it found. *)
LEMMA NothingMoved ==
  ASSUME IInv, AInv, ~touched, op.step \in {"fetch", "prepared", "look", "moveTests"}
  PROVE  /\ LiveTests = before.tests /\ LiveMeta = before.meta
         /\ Exact /\ op.errors = FALSE
<1>1. /\ ~op.moved /\ op.errors = FALSE
      /\ op.step \notin TestsOut /\ op.step \notin MetaOut /\ op.step \notin MetaInstalled
  BY OpTyped DEF IInv, KindInv, AInv, PlanInv, UndoingSteps, OpSet, TestsOut, TestsAside, MetaOut,
                 MetaInstalled
<1>2. Exact
  BY <1>1 DEF AInv, ExactInv, Running
<1>3. \A g \in Gens : tests[g] = "contest" <=> g = before.tests
  BY <1>1, <1>2 DEF Exact, TestsExact
<1>4. \A g \in Gens : meta[g] = "contest" <=> g = before.meta
  BY <1>1, <1>2 DEF Exact, MetaExact
<1> QED BY <1>1, <1>2, <1>3, <1>4, LiveWhere, BeforeTyped DEF AInv

LEMMA FailEarlyExact ==
  ASSUME IInv, AInv, op.step \in {"fetch", "look", "moveTests"}, End("failed"),
         started' = started, UNCHANGED <<before, touched>>
  PROVE  AInv'
<1>1. Running /\ "failed" \in Outcomes \ {"none"}
  BY DEF Running, Outcomes
<1>2. ~touched => Promise("failed")
  BY NothingMoved DEF Promise
<1> QED BY <1>1, <1>2, EndExact

LEMMA ApplyExact == ASSUME IInv, AInv, Apply PROVE AInv'
<1>1. /\ op.step = "prepared" /\ before' = [tests |-> LiveTests, meta |-> LiveMeta]
      /\ touched' = FALSE /\ started' = started
  BY DEF Apply, At
<1>2. FilesInv /\ PlanInv
  BY DEF AInv
<1>3. before'.tests = LiveTests /\ before'.meta = LiveMeta
  BY <1>1
<1>4. CASE End("failed")
  <2>1. /\ op' = [NoOp EXCEPT !.gen = op.gen, !.kind = op.kind, !.step = "ended", !.outcome = "failed"]
        /\ UNCHANGED <<marker, unowned, broken, health, sampleless>>
    BY <1>4 DEF End
  <2>2. op'.step = "ended" /\ op'.outcome = "failed" /\ op'.errors = FALSE
    BY <2>1 DEF NoOp
  <2>3. /\ LiveTests' = LiveTests /\ LiveMeta' = LiveMeta
        /\ \A g \in Gens : meta'[g] = "contest" <=> meta[g] = "contest"
    BY <1>2, <1>4, EndLive
  <2>4. \A g \in Gens : meta'[g] \notin {"previous", "staged"}
    BY <1>4 DEF End, Dropped
  <2>5. FilesInv'
    BY <1>1, <1>2, <2>1, <2>3, <2>4 DEF FilesInv, MetaPlaced
  <2>6. PlanInv' /\ ExactInv'
    BY <2>2 DEF PlanInv, ExactInv, Running, At
  <2>7. AllOrNothing'
    BY <1>3, <2>2, <2>3 DEF AllOrNothing
  <2> QED BY <2>5, <2>6, <2>7 DEF AInv
<1>5. CASE Unchanged /\ Goto("look") /\ UNCHANGED files
  <2>1. Kept(op') /\ op'.step = "look" /\ op'.moved = op.moved /\ op'.errors = op.errors
    BY <1>5, KeptFacts DEF Goto, Steps
  <2>2. /\ op'.gen = op.gen /\ op'.kind = op.kind /\ op'.repair = op.repair /\ op'.basis = op.basis
        /\ op'.hadTests = op.hadTests /\ op'.hadMeta = op.hadMeta
    BY <2>1 DEF Kept
  <2>3. UNCHANGED <<tests, meta, marker, broken, health, sampleless>>
    BY <1>5 DEF files
  <2>4. ~op.moved /\ ~op.hadTests /\ ~op.hadMeta
    BY <1>1 DEF IInv, KindInv
  <2>5. FilesInv'
    BY <1>1, <1>2, <2>3 DEF FilesInv, MetaPlaced
  <2>6. PlanInv'
    BY <1>1, <1>2, <2>1, <2>2, <2>3 DEF PlanInv, Running, HasSamples, At, UndoingSteps
  <2>7. /\ \A g \in Gens : tests[g] = "contest" <=> g = LiveTests
        /\ \A g \in Gens : meta[g] = "contest" <=> g = LiveMeta
    BY <1>2, LiveIs
  <2>8. \A g \in Gens : /\ tests[g] # "previous" /\ meta[g] # "previous"
                        /\ tests[g] = "staged" \/ meta[g] = "staged" => g = op.gen
    BY <1>1, <1>2, NothingAside DEF PlanInv
  <2>9. TestsExact' /\ MetaExact'
    BY <1>3, <2>1, <2>2, <2>3, <2>4, <2>7, <2>8 DEF TestsExact, MetaExact, MetaInstalled
  <2>10. MovedExact'
    BY <2>1 DEF MovedExact
  <2>11. PlanExact'
    <3>1. op.gen \notin broken
      BY <1>1, <1>2 DEF PlanInv
    <3>2. op.repair => (TestsHealthy(HasSamples) <=> op.kind = "meta")
      BY <1>5 DEF Unchanged, RepairUnchanged
    <3>3. FoundTests' <=> TestsHealthy(HasSamples)
      BY <1>3, <2>2, <2>3 DEF FoundTests, TestsHealthy, HasSamples
    <3>4. ASSUME op.kind # "tests", LiveMeta # Nothing
          PROVE  IF op.repair THEN health[LiveMeta] = "invalid" ELSE LiveMeta = op.basis
      <4>1. marker /\ health[LiveMeta] \in {"healthy", "invalid", "unsupported"}
        BY <1>2, <3>4, TheFacts DEF LiveMeta, FilesInv, MetaPlaced, IInv, RefreshTypeOK
      <4>2. CASE op.repair
        <5>1. op.basis = Nothing
          BY <1>1, <1>2, <3>4, <4>2 DEF PlanInv, Running
        <5>2. MetadataHealth \in {"missing", "invalid"}
          BY <1>5, <4>2, <5>1 DEF Unchanged, RepairUnchanged
        <5> QED BY <3>4, <4>1, <4>2, <5>2 DEF MetadataHealth
      <4>3. CASE ~op.repair
        BY <1>5, <4>3 DEF Unchanged, RefreshUnchanged
      <4> QED BY <4>2, <4>3
    <3> QED BY <1>3, <2>1, <2>2, <2>3, <3>1, <3>2, <3>3, <3>4 DEF PlanExact, Planning
  <2>12. ExactInv' /\ AllOrNothing'
    BY <2>1, <2>9, <2>10, <2>11 DEF ExactInv, Exact, AllOrNothing, At
  <2> QED BY <2>5, <2>6, <2>12 DEF AInv
<1> QED BY <1>4, <1>5 DEF Apply

LEMMA ManifestFacts ==
  ManifestUnchanged => LiveMeta = op.basis /\ LiveMeta # Nothing /\ health[LiveMeta] = "healthy"
  BY DEF ManifestUnchanged, MetadataHealth

LEMMA LookExact == ASSUME IInv, AInv, Look PROVE AInv'
<1>1. /\ op.step = "look" /\ started' = started /\ UNCHANGED <<before, touched>>
  BY DEF Look, At, Quiet, history
<1>2. CASE End("failed")
  BY <1>1, <1>2, FailEarlyExact
<1>3. CASE MayReplace /\ ~End("failed")
  <2> DEFINE ht == op.kind # "meta" /\ LiveTests # Nothing
             hm == op.kind # "tests" /\ marker /\ LiveMeta # Nothing
             p == [op EXCEPT !.hadMarker = marker, !.hadTests = ht, !.hadMeta = hm]
             first == IF ht THEN "moveTests"
                      ELSE IF op.kind = "meta" THEN AfterTests(p)
                      ELSE IF op.kind = "tests" THEN "manifest"
                      ELSE IF HasSamples THEN "installTests" ELSE AfterTests(p)
  <2>1. op \in OpSet /\ op.kind \in {"both", "tests", "meta"} /\ ~op.moved /\ marker \in BOOLEAN
    BY <1>1, OpTyped DEF IInv, FreshInv, KindInv, OpSet, Kinds, RefreshTypeOK
  <2>2. ht \in BOOLEAN /\ hm \in BOOLEAN
    BY <2>1
  <2>3. /\ p \in OpSet /\ p.gen = op.gen /\ p.kind = op.kind /\ p.repair = op.repair
        /\ p.basis = op.basis /\ p.moved = op.moved /\ p.errors = op.errors
        /\ p.hadTests = ht /\ p.hadMeta = hm /\ p.hadMarker = marker
    BY <2>1, <2>2 DEF OpSet
  <2>4. UNCHANGED files /\ op' = [p EXCEPT !.step = first]
    BY <1>3, <2>3 DEF Look, AfterBackup
  <2>5. /\ op.kind # "tests" => AfterTests(p) \in {"moveMeta", "installMeta", "createMarker"}
        /\ AfterTests(p) = "installMeta" => ~hm
    BY <2>1, <2>2, <2>3 DEF AfterTests
  <2> HIDE DEF p
  <2>6. /\ first \in {"moveTests", "manifest", "installTests", "moveMeta", "installMeta", "createMarker"}
        /\ first = "moveTests" <=> ht
        /\ first = "installMeta" => ~hm
        /\ first = "manifest" => op.kind = "tests"
        /\ first \in {"moveMeta", "createMarker", "installMeta"} /\ op.kind # "meta" => ~HasSamples
    BY <2>1, <2>2, <2>5
  <2> HIDE DEF first, ht, hm
  <2>7. /\ op'.step = first /\ op'.gen = op.gen /\ op'.kind = op.kind /\ op'.repair = op.repair
        /\ op'.basis = op.basis /\ op'.moved = op.moved /\ op'.errors = op.errors
        /\ op'.hadTests = ht /\ op'.hadMeta = hm
    BY <2>3, <2>4, <2>6 DEF OpSet, Steps
  <2>8. UNCHANGED <<tests, meta, marker, broken, health, sampleless>> /\ FilesInv /\ PlanInv
    BY <2>4 DEF files, AInv
  <2>9. FilesInv'
    BY <1>1, <2>8 DEF FilesInv, MetaPlaced
  <2>10. PlanInv'
    BY <1>1, <2>6, <2>7, <2>8 DEF PlanInv, Running, HasSamples, At, UndoingSteps
  <2>11. ExactInv'
    <3> SUFFICES ASSUME ~touched PROVE Exact'
      BY <1>1 DEF ExactInv
    <3>1. LiveTests = before.tests /\ LiveMeta = before.meta /\ Exact
      BY <1>1, NothingMoved
    <3>2. before.meta # Nothing => marker
      BY <2>8, <3>1, TheFacts DEF LiveMeta, FilesInv, MetaPlaced
    <3>3. /\ op.kind # "meta" => (ht <=> before.tests # Nothing)
          /\ op.kind # "tests" => (hm <=> before.meta # Nothing)
      BY <3>1, <3>2 DEF ht, hm
    <3>4. op.kind = "tests" => /\ before.meta # Nothing /\ before.meta = op.basis
                               /\ health[before.meta] = "healthy"
      BY <1>3, <3>1, ManifestFacts DEF MayReplace
    <3>5. FoundTests' <=> FoundTests
      BY <1>1, <2>7, <2>8 DEF FoundTests, HasSamples
    <3>6. PlanExact'
      BY <1>1, <2>7, <2>8, <3>1, <3>3, <3>4, <3>5 DEF Exact, PlanExact
    <3>7. MovedExact'
      <4>1. first = "moveTests" => ht
        BY <2>6
      <4>2. ht => before.tests \notin unowned
        BY <1>3, <3>1 DEF ht, MayReplace, Owned
      <4> QED BY <1>1, <2>1, <2>4, <2>6, <2>7, <2>8, <4>1, <4>2 DEF MovedExact, HasSamples, files
    <3>8. op.step \notin TestsOut \cup MetaOut \cup MetaInstalled
      BY <1>1 DEF TestsOut, TestsAside, MetaOut, MetaInstalled
    <3>9. TestsExact'
      <4>1. ~(ht /\ first \in TestsOut)
        BY <2>6 DEF TestsOut, TestsAside
      <4> QED BY <1>1, <2>1, <2>7, <2>8, <3>1, <3>8, <4>1 DEF Exact, TestsExact
    <3>10. MetaExact'
      <4>1. ~(hm /\ first \in MetaOut) /\ first \notin MetaInstalled
        BY <2>6 DEF MetaOut, MetaInstalled
      <4> QED BY <1>1, <2>7, <2>8, <3>1, <3>8, <4>1 DEF Exact, MetaExact
    <3> QED BY <3>6, <3>7, <3>9, <3>10 DEF Exact
  <2>12. AllOrNothing'
    BY <2>6, <2>7 DEF AllOrNothing, At
  <2> QED BY <2>9, <2>10, <2>11, <2>12 DEF AInv
<1> QED BY <1>2, <1>3 DEF Look

-----------------------------------------------------------------------------
(* The replacement, step by step. *)
LEMMA RenameTestsFacts ==
  ASSUME IInv, AInv, NEW from \in Places, NEW to \in Places, RenameTests(from, to)
  PROVE  /\ UNCHANGED <<meta, marker, broken, health, sampleless>>
         /\ \A g \in Gens : tests'[g] = IF tests[g] = from THEN to ELSE tests[g]
         /\ MetaPlaced'
<1>1. UNCHANGED <<meta, marker, broken, health, sampleless>> /\ tests' = Moved(tests, from, to)
  BY DEF RenameTests
<1>2. \A g \in Gens : tests'[g] = IF tests[g] = from THEN to ELSE tests[g]
  BY <1>1 DEF Moved
<1>3. FilesInv
  BY DEF AInv
<1> QED BY <1>1, <1>2, <1>3 DEF FilesInv, MetaPlaced

LEMMA RenameMetaFacts ==
  ASSUME IInv, AInv, NEW from \in {"contest", "previous", "staged"}, NEW to \in Places,
         RenameMeta(from, to), CanMove(meta, from, to), to = "contest" => marker
  PROVE  /\ UNCHANGED <<tests, marker, broken, health, sampleless>>
         /\ \A g \in Gens : meta'[g] = IF meta[g] = from THEN to ELSE meta[g]
         /\ \A g \in Gens : meta[g] # to
         /\ MetaPlaced'
<1>1. UNCHANGED <<tests, marker, broken, health, sampleless>> /\ meta' = Moved(meta, from, to)
  BY DEF RenameMeta
<1>2. \A g \in Gens : meta'[g] = IF meta[g] = from THEN to ELSE meta[g]
  BY <1>1 DEF Moved
<1>3. \A g \in Gens : meta[g] # to
  BY TheFacts DEF CanMove
<1>4. MetaPlaced
  BY DEF AInv, FilesInv
<1> QED BY <1>1, <1>2, <1>3, <1>4 DEF MetaPlaced

LEMMA FilesFacts ==
  ASSUME AInv, UNCHANGED files
  PROVE  /\ UNCHANGED <<tests, meta, marker, broken, health, sampleless>>
         /\ MetaPlaced'
<1>1. UNCHANGED <<tests, meta, marker, broken, health, sampleless>>
  BY DEF files
<1> QED BY <1>1 DEF AInv, FilesInv, MetaPlaced

LEMMA MoveTestsExact == ASSUME IInv, AInv, MoveTests PROVE AInv'
<1>1. /\ op.step = "moveTests" /\ started' = started /\ UNCHANGED <<before, touched>>
      /\ \/ /\ CanMove(tests, "contest", "previous") /\ Goto("validateMoved")
            /\ RenameTests("contest", "previous")
         \/ End("failed")
  BY DEF MoveTests, Attempt, At
<1>2. CASE End("failed")
  BY <1>1, <1>2, FailEarlyExact
<1>3. CASE Goto("validateMoved") /\ RenameTests("contest", "previous")
  <2>1. Kept(op') /\ op'.step = "validateMoved" /\ op'.moved = op.moved /\ op'.errors = op.errors
    BY <1>3, KeptFacts DEF Goto, Steps
  <2>2. op'.gen = op.gen /\ op'.hadTests = op.hadTests
    BY <2>1 DEF Kept
  <2>3. op.hadTests /\ ~op.moved
    BY <1>1 DEF IInv, KindInv
  <2>4. /\ UNCHANGED <<meta, marker, broken, health, sampleless>>
        /\ \A g \in Gens : tests'[g] = IF tests[g] = "contest" THEN "previous" ELSE tests[g]
        /\ MetaPlaced'
    BY <1>3, RenameTestsFacts DEF Places
  <2>5. TestsExact => TestsExact'
    <3>1. "validateMoved" \in TestsOut /\ "moveTests" \notin TestsOut
      BY DEF TestsOut, TestsAside
    <3> QED BY <1>1, <2>1, <2>2, <2>3, <2>4, <3>1 DEF TestsExact
  <2>6. MetaExact => MetaExact'
    BY <1>1, <2>1, <2>4, MetaStays DEF MetaInstalled, MetaOut
  <2>7. MovedExact'
    BY <2>1 DEF MovedExact
  <2> QED BY <1>1, <2>1, <2>4, <2>5, <2>6, <2>7, Advance DEF Exact, Planning, UndoingSteps
<1> QED BY <1>1, <1>2, <1>3

LEMMA ValidateMovedExact == ASSUME IInv, AInv, ValidateMoved PROVE AInv'
<1>1. /\ op.step = "validateMoved" /\ UNCHANGED files /\ started' = started /\ UNCHANGED <<before, touched>>
      /\ Goto(AfterBackup(op)) \/ Goto("restoreTests")
  BY DEF ValidateMoved, Quiet, history, At, Undo
<1>2. op \in OpSet /\ op.kind \in {"both", "tests"} /\ op.hadMeta \in BOOLEAN /\ ~op.moved
  BY <1>1, OpTyped DEF IInv, FreshInv, KindInv, OpSet, Kinds
<1>3. /\ AfterBackup(op) \in {"manifest", "installTests", "moveMeta", "createMarker", "installMeta"}
      /\ AfterBackup(op) = "manifest" => op.kind = "tests"
      /\ AfterBackup(op) = "installMeta" => ~op.hadMeta
      /\ AfterBackup(op) \in {"moveMeta", "createMarker", "installMeta"} => ~HasSamples
  BY <1>2 DEF AfterBackup, AfterTests
<1>4. PICK step \in {AfterBackup(op), "restoreTests"} : Goto(step)
  BY <1>1
<1>5. step \in Steps /\ step \notin {"idle", "ended", "fetch", "prepared", "look"}
  BY <1>3 DEF Steps
<1>6. Kept(op') /\ op'.step = step /\ op'.moved = op.moved /\ op'.errors = op.errors
  BY <1>4, <1>5, KeptFacts DEF Goto
<1>7. /\ UNCHANGED <<tests, meta, marker, broken, health, sampleless>>
      /\ MetaPlaced'
  BY <1>1, FilesFacts
<1>8. op.step \in TestsOut /\ op'.step \in TestsOut
  BY <1>1, <1>3, <1>6 DEF TestsOut, TestsAside
<1>9. TestsExact => TestsExact'
  BY <1>1, <1>2, <1>6, <1>7, <1>8, TestsStay
<1>10. MetaExact => MetaExact'
  BY <1>1, <1>3, <1>6, <1>7, MetaStays DEF MetaInstalled, MetaOut
<1>11. MovedExact'
  BY <1>2, <1>3, <1>6, <1>7 DEF MovedExact, HasSamples, Kept
<1> QED BY <1>1, <1>3, <1>5, <1>6, <1>7, <1>9, <1>10, <1>11, Advance DEF Exact, Planning, UndoingSteps

LEMMA CheckManifestExact == ASSUME IInv, AInv, CheckManifest PROVE AInv'
<1>1. /\ op.step = "manifest" /\ UNCHANGED files /\ started' = started /\ UNCHANGED <<before, touched>>
      /\ Goto(IF HasSamples THEN "installTests" ELSE "inspect") \/ Goto(UndoTests(op))
  BY DEF CheckManifest, Quiet, history, At, Undo
<1>2. op.kind = "tests" /\ ~op.moved /\ ~op.hadMeta
  BY <1>1 DEF AInv, PlanInv, At, IInv, KindInv
<1>3. CASE Goto(UndoTests(op))
  <2>1. UndoTests(op) \in Steps
    BY UndoTargets DEF Steps
  <2>2. Kept(op') /\ op'.step = UndoTests(op) /\ op'.moved = op.moved /\ op'.errors = op.errors
    BY <1>3, <2>1, KeptFacts DEF Goto
  <2> QED BY <1>1, <2>2, RollBack
<1>4. CASE Goto(IF HasSamples THEN "installTests" ELSE "inspect")
  <2> DEFINE step == IF HasSamples THEN "installTests" ELSE "inspect"
  <2>1. step \in {"installTests", "inspect"} /\ step \in Steps /\ (step = "inspect" => ~HasSamples)
    BY DEF Steps
  <2>2. Kept(op') /\ op'.step = step /\ op'.moved = op.moved /\ op'.errors = op.errors
    BY <1>4, <2>1, KeptFacts DEF Goto
  <2> HIDE DEF step
  <2>3. /\ UNCHANGED <<tests, meta, marker, broken, health, sampleless>>
        /\ MetaPlaced'
    BY <1>1, FilesFacts
  <2>4. TestsExact => TestsExact'
    BY <1>1, <1>2, <2>1, <2>2, <2>3, TestsStay DEF TestsOut, TestsAside
  <2>5. MetaExact => MetaExact'
    BY <1>1, <1>2, <2>2, <2>3, MetaStays
  <2>6. MovedExact'
    BY <1>2, <2>1, <2>2, <2>3 DEF MovedExact, HasSamples, Kept
  <2> QED BY <1>1, <1>2, <2>1, <2>2, <2>3, <2>4, <2>5, <2>6, Advance DEF Exact, Planning, UndoingSteps
<1> QED BY <1>1, <1>3, <1>4

LEMMA InstallTestsExact == ASSUME IInv, AInv, InstallTests PROVE AInv'
<1> DEFINE p == [op EXCEPT !.step = AfterTests(op), !.moved = TRUE]
<1>1. /\ op.step = "installTests" /\ started' = started /\ UNCHANGED <<before, touched>>
      /\ \/ CanMove(tests, "staged", "contest") /\ op' = p /\ RenameTests("staged", "contest")
         \/ Goto(UndoTests(op)) /\ UNCHANGED files
  BY DEF InstallTests, Attempt, At, Undo
<1>2. /\ op \in OpSet /\ op.kind \in {"both", "tests"} /\ ~op.moved /\ op.hadMeta \in BOOLEAN
      /\ HasSamples /\ (op.kind = "tests" => ~op.hadMeta)
  BY <1>1, OpTyped DEF IInv, FreshInv, KindInv, OpSet, Kinds, At
<1>3. CASE Goto(UndoTests(op)) /\ UNCHANGED files
  <2>1. UndoTests(op) \in Steps
    BY UndoTargets DEF Steps
  <2>2. Kept(op') /\ op'.step = UndoTests(op) /\ op'.moved = op.moved /\ op'.errors = op.errors
    BY <1>3, <2>1, KeptFacts DEF Goto
  <2> QED BY <1>1, <1>2, <1>3, <2>2, RollBack
<1>4. CASE CanMove(tests, "staged", "contest") /\ op' = p /\ RenameTests("staged", "contest")
  <2>1. /\ AfterTests(op) \in {"inspect", "moveMeta", "createMarker", "installMeta"}
        /\ AfterTests(op) \in Steps
        /\ AfterTests(op) = "inspect" => op.kind = "tests"
        /\ AfterTests(op) = "installMeta" => ~op.hadMeta
    BY <1>2 DEF AfterTests, Steps
  <2>2. Kept(op') /\ op'.step = AfterTests(op) /\ op'.moved = TRUE /\ op'.errors = op.errors
    BY <1>4, <2>1, KeptFacts
  <2>3. op'.gen = op.gen /\ op'.hadTests = op.hadTests
    BY <2>2 DEF Kept
  <2>4. /\ UNCHANGED <<meta, marker, broken, health, sampleless>>
        /\ \A g \in Gens : tests'[g] = IF tests[g] = "staged" THEN "contest" ELSE tests[g]
        /\ MetaPlaced'
    BY <1>4, RenameTestsFacts DEF Places
  <2>5. /\ \A g \in Gens : tests[g] # "contest"
        /\ \E g \in Gens : tests[g] = "staged"
    BY <1>4, TheFacts DEF CanMove
  <2>6. TestsExact => TestsExact'
    <3> SUFFICES ASSUME TestsExact PROVE TestsExact'
      OBVIOUS
    <3>1. op.step \in TestsOut /\ op'.step \in TestsOut /\ op'.step \in TestsInstalled
      BY <1>1, <2>1, <2>2 DEF TestsOut, TestsAside, TestsInstalled
    <3>2. \A g \in Gens : tests[g] = "staged" <=> g = op.gen
      BY <2>5 DEF TestsExact
    <3>3. \A g \in Gens : ~(g = before.tests /\ ~op.hadTests)
      BY <2>5, <3>1 DEF TestsExact
    <3>4. \A g \in Gens : tests'[g] = "contest" <=> g = op.gen
      BY <2>4, <2>5, <3>2
    <3>5. \A g \in Gens : tests'[g] # "staged" /\ (tests'[g] = "previous" => g = before.tests)
      BY <2>4 DEF TestsExact
    <3> QED BY <1>1, <2>2, <2>3, <3>1, <3>3, <3>4, <3>5 DEF TestsExact
  <2>7. MetaExact => MetaExact'
    BY <1>1, <1>2, <2>1, <2>2, <2>4, MetaStays DEF MetaInstalled, MetaOut
  <2>8. MovedExact'
    BY <1>2, <2>1, <2>2, <2>3, <2>4 DEF MovedExact, HasSamples
  <2> QED BY <1>1, <2>1, <2>2, <2>4, <2>6, <2>7, <2>8, Advance DEF Exact, Planning, UndoingSteps
<1> QED BY <1>1, <1>3, <1>4

LEMMA MoveMetaExact == ASSUME IInv, AInv, MoveMeta PROVE AInv'
<1>1. /\ op.step = "moveMeta" /\ started' = started /\ UNCHANGED <<before, touched>>
      /\ \/ /\ CanMove(meta, "contest", "previous") /\ Goto("installMeta")
            /\ RenameMeta("contest", "previous")
         \/ Goto(UndoTests(op)) /\ UNCHANGED files
  BY DEF MoveMeta, Attempt, At, Undo
<1>2. op.hadMeta /\ op.kind # "tests"
  BY <1>1 DEF IInv, KindInv
<1>3. CASE Goto(UndoTests(op)) /\ UNCHANGED files
  <2>1. UndoTests(op) \in Steps
    BY UndoTargets DEF Steps
  <2>2. Kept(op') /\ op'.step = UndoTests(op) /\ op'.moved = op.moved /\ op'.errors = op.errors
    BY <1>3, <2>1, KeptFacts DEF Goto
  <2> QED BY <1>1, <1>3, <2>2, RollBack
<1>4. CASE CanMove(meta, "contest", "previous") /\ Goto("installMeta") /\ RenameMeta("contest", "previous")
  <2>1. Kept(op') /\ op'.step = "installMeta" /\ op'.moved = op.moved /\ op'.errors = op.errors
    BY <1>4, KeptFacts DEF Goto, Steps
  <2>2. op'.gen = op.gen /\ op'.kind = op.kind /\ op'.hadMeta = op.hadMeta
    BY <2>1 DEF Kept
  <2>3. /\ UNCHANGED <<tests, marker, broken, health, sampleless>>
        /\ \A g \in Gens : meta'[g] = IF meta[g] = "contest" THEN "previous" ELSE meta[g]
        /\ MetaPlaced'
    BY <1>4, RenameMetaFacts DEF Places
  <2>4. TestsExact => TestsExact'
    BY <1>1, <2>1, <2>3, TestsStay DEF TestsOut, TestsAside, TestsInstalled
  <2>5. MetaExact => MetaExact'
    BY <1>1, <1>2, <2>1, <2>2, <2>3 DEF MetaExact, MetaInstalled, MetaOut
  <2>6. MovedExact => MovedExact'
    BY <1>1, <2>1, <2>2, <2>3 DEF MovedExact, HasSamples
  <2> QED BY <1>1, <2>1, <2>3, <2>4, <2>5, <2>6, Advance DEF Exact, Planning, UndoingSteps
<1> QED BY <1>1, <1>3, <1>4

LEMMA CreateMarkerExact == ASSUME IInv, AInv, CreateMarker PROVE AInv'
<1> DEFINE p == [op EXCEPT !.step = "installMeta", !.made = TRUE]
<1>1. /\ op.step = "createMarker" /\ started' = started /\ UNCHANGED <<before, touched>>
      /\ \/ ~marker /\ op' = p /\ marker' = TRUE /\ UNCHANGED <<tests, meta, unowned, broken, health, sampleless>>
         \/ Goto(UndoTests(op)) /\ UNCHANGED files
  BY DEF CreateMarker, Attempt, At, Undo
<1>2. CASE Goto(UndoTests(op)) /\ UNCHANGED files
  <2>1. UndoTests(op) \in Steps
    BY UndoTargets DEF Steps
  <2>2. Kept(op') /\ op'.step = UndoTests(op) /\ op'.moved = op.moved /\ op'.errors = op.errors
    BY <1>2, <2>1, KeptFacts DEF Goto
  <2> QED BY <1>1, <1>2, <2>2, RollBack
<1>3. CASE ~marker /\ op' = p /\ marker' = TRUE /\ UNCHANGED <<tests, meta, broken, health, sampleless>>
  <2>1. Kept(op') /\ op'.step = "installMeta" /\ op'.moved = op.moved /\ op'.errors = op.errors
    BY <1>3, KeptFacts DEF Steps
  <2>2. op'.gen = op.gen /\ op'.kind = op.kind /\ op'.hadMeta = op.hadMeta
    BY <2>1 DEF Kept
  <2>3. FilesInv
    BY DEF AInv
  <2>4. /\ MetaPlaced'
        /\ \A g \in Gens : meta[g] # "contest"
    BY <1>3, <2>3 DEF FilesInv, MetaPlaced
  <2>5. TestsExact => TestsExact'
    BY <1>1, <1>3, <2>1, TestsStay DEF TestsOut, TestsAside, TestsInstalled
  <2>6. MetaExact => MetaExact'
    BY <1>1, <1>3, <2>1, <2>2, <2>4 DEF MetaExact, MetaInstalled, MetaOut
  <2>7. MovedExact => MovedExact'
    BY <1>1, <1>3, <2>1, <2>2 DEF MovedExact, HasSamples
  <2> QED BY <1>1, <1>3, <2>1, <2>4, <2>5, <2>6, <2>7, Advance DEF Exact, Planning, UndoingSteps
<1> QED BY <1>1, <1>2, <1>3

LEMMA InstallMetaExact == ASSUME IInv, AInv, InstallMeta PROVE AInv'
<1> DEFINE step == IF op.kind = "both" THEN "inspect" ELSE "cleanup"
<1>1. /\ op.step = "installMeta" /\ started' = started /\ UNCHANGED <<before, touched>>
      /\ \/ /\ marker /\ CanMove(meta, "staged", "contest") /\ Goto(step)
            /\ RenameMeta("staged", "contest")
         \/ Goto(UndoMeta(op)) /\ UNCHANGED files
  BY DEF InstallMeta, Attempt, At, Undo
<1>2. op.kind # "tests"
  BY <1>1 DEF IInv, KindInv
<1>3. CASE Goto(UndoMeta(op)) /\ UNCHANGED files
  <2>1. UndoMeta(op) \in Steps
    BY UndoTargets DEF Steps, UndoingSteps
  <2>2. Kept(op') /\ op'.step = UndoMeta(op) /\ op'.moved = op.moved /\ op'.errors = op.errors
    BY <1>3, <2>1, KeptFacts DEF Goto
  <2> QED BY <1>1, <1>3, <2>2, RollBack
<1>4. CASE marker /\ CanMove(meta, "staged", "contest") /\ Goto(step) /\ RenameMeta("staged", "contest")
  <2>1. step \in {"inspect", "cleanup"} /\ step \in Steps
    BY DEF Steps
  <2>2. Kept(op') /\ op'.step = step /\ op'.moved = op.moved /\ op'.errors = op.errors
    BY <1>4, <2>1, KeptFacts DEF Goto
  <2> HIDE DEF step
  <2>3. op'.gen = op.gen /\ op'.kind = op.kind /\ op'.hadMeta = op.hadMeta
    BY <2>2 DEF Kept
  <2>4. /\ UNCHANGED <<tests, marker, broken, health, sampleless>>
        /\ \A g \in Gens : meta'[g] = IF meta[g] = "staged" THEN "contest" ELSE meta[g]
        /\ \A g \in Gens : meta[g] # "contest"
        /\ MetaPlaced'
    BY <1>4, RenameMetaFacts DEF Places
  <2>5. \E g \in Gens : meta[g] = "staged"
    BY <1>4, TheFacts DEF CanMove
  <2>6. MetaExact => MetaExact'
    <3> SUFFICES ASSUME MetaExact PROVE MetaExact'
      OBVIOUS
    <3>1. op.step \in MetaOut /\ op.step \notin MetaInstalled /\ op'.step \in MetaOut /\ op'.step \in MetaInstalled
      BY <1>1, <2>1, <2>2 DEF MetaOut, MetaInstalled
    <3>2. \A g \in Gens : meta[g] = "staged" <=> g = op.gen
      BY <2>5 DEF MetaExact
    <3>3. \A g \in Gens : ~(g = before.meta /\ ~op.hadMeta)
      BY <2>4, <3>1 DEF MetaExact
    <3>4. \A g \in Gens : meta'[g] = "contest" <=> g = op.gen
      BY <2>4, <3>2
    <3>5. \A g \in Gens : meta'[g] # "staged" /\ (meta'[g] = "previous" => g = before.meta)
      BY <2>4 DEF MetaExact
    <3> QED BY <1>1, <1>2, <2>3, <3>1, <3>3, <3>4, <3>5 DEF MetaExact
  <2>7. TestsExact => TestsExact'
    BY <1>1, <2>1, <2>2, <2>4, TestsStay DEF TestsOut, TestsAside, TestsInstalled
  <2>8. MovedExact => MovedExact'
    BY <1>1, <2>1, <2>2, <2>3, <2>4 DEF MovedExact, HasSamples
  <2> QED BY <1>1, <2>1, <2>2, <2>4, <2>6, <2>7, <2>8, Advance DEF Exact, Planning, UndoingSteps
<1> QED BY <1>1, <1>3, <1>4

(* At the end of the replacement the new data is in place. *)
LEMMA NewInPlace ==
  ASSUME IInv, AInv, ~touched, op.step \in {"cleanup", "confirm"}
  PROVE  /\ Exact
         /\ LiveTests = IF op.kind = "meta" THEN before.tests ELSE IF HasSamples THEN op.gen ELSE Nothing
         /\ LiveMeta = IF op.kind = "tests" THEN before.meta ELSE op.gen
<1>1. op.errors = FALSE /\ op.kind \in {"both", "tests", "meta"} /\ Running
  BY OpTyped DEF AInv, PlanInv, UndoingSteps, OpSet, IInv, FreshInv, Kinds, Running
<1>2. Exact /\ FilesInv
  BY <1>1 DEF AInv, ExactInv
<1>3. /\ op.step \in TestsInstalled /\ op.step \in TestsOut /\ op.step \in MetaInstalled
      /\ op.step \in MetaOut
  BY DEF TestsInstalled, TestsOut, TestsAside, MetaInstalled, MetaOut
<1>4. /\ op.kind = "meta" => ~op.hadTests /\ ~op.moved
      /\ op.kind = "tests" => ~op.hadMeta
      /\ op.gen \in Gens /\ Nothing \notin Gens
  BY <1>1, TheFacts DEF IInv, KindInv, FreshInv, RefreshTypeOK, Gens, Running
<1>5. /\ op.kind # "meta" => (op.moved <=> HasSamples) /\ (op.hadTests <=> before.tests # Nothing)
      /\ op.kind # "tests" => (op.hadMeta <=> before.meta # Nothing)
  BY <1>2 DEF Exact, MovedExact, PlanExact, Planning
<1>6. /\ before.tests \in Gens \cup {Nothing} /\ before.meta \in Gens \cup {Nothing}
      /\ op.moved \in BOOLEAN /\ op.hadTests \in BOOLEAN /\ op.hadMeta \in BOOLEAN
  BY BeforeTyped, OpTyped DEF OpSet
<1>7. ASSUME op.kind = "meta" PROVE LiveTests = before.tests
  <2>1. \A g \in Gens : tests[g] = "contest" <=> g = before.tests
    BY <1>2, <1>4, <1>7 DEF Exact, TestsExact
  <2> QED BY <1>2, <1>6, <1>7, <2>1, LiveWhere
<1>8. ASSUME op.kind # "meta" /\ HasSamples PROVE LiveTests = op.gen
  <2>1. \A g \in Gens : tests[g] = "contest" <=> g = op.gen
    BY <1>2, <1>3, <1>4, <1>5, <1>8 DEF Exact, TestsExact
  <2> QED BY <1>2, <1>4, <1>8, <2>1, LiveWhere
<1>9. ASSUME op.kind # "meta" /\ ~HasSamples PROVE LiveTests = Nothing
  <2>1. \A g \in Gens : tests[g] = "contest" <=> g = Nothing
    BY <1>2, <1>3, <1>4, <1>5, <1>9 DEF Exact, TestsExact
  <2> QED BY <1>2, <1>9, <2>1, LiveWhere
<1>10. LiveTests = IF op.kind = "meta" THEN before.tests ELSE IF HasSamples THEN op.gen ELSE Nothing
  BY <1>7, <1>8, <1>9
<1>11. CASE op.kind = "tests"
  <2>1. \A g \in Gens : meta[g] = "contest" <=> g = before.meta
    BY <1>2, <1>4, <1>11 DEF Exact, MetaExact
  <2> QED BY <1>2, <1>6, <1>10, <1>11, <2>1, LiveWhere
<1>12. CASE op.kind # "tests"
  <2>1. \A g \in Gens : meta[g] = "contest" <=> g = op.gen
    BY <1>2, <1>3, <1>4, <1>5, <1>12 DEF Exact, MetaExact
  <2> QED BY <1>2, <1>4, <1>10, <1>12, <2>1, LiveWhere
<1> QED BY <1>11, <1>12

LEMMA InspectExact == ASSUME IInv, AInv, Inspect PROVE AInv'
<1> DEFINE p == [op EXCEPT !.step = UndoTests(op), !.keep = HasSamples]
<1>1. /\ op.step = "inspect" /\ started' = started /\ UNCHANGED <<before, touched>>
      /\ \/ op.kind = "tests" /\ op' = p /\ UNCHANGED files
         \/ End("kept")
         \/ Goto("cleanup") /\ UNCHANGED files
  BY DEF Inspect, Quiet, history, At
<1>2. CASE op.kind = "tests" /\ op' = p /\ UNCHANGED files
  <2>1. UndoTests(op) \in Steps
    BY UndoTargets DEF Steps
  <2>2. Kept(op') /\ op'.step = UndoTests(op) /\ op'.moved = op.moved /\ op'.errors = op.errors
    BY <1>2, <2>1, KeptFacts
  <2> QED BY <1>1, <1>2, <2>2, RollBack
<1>3. CASE End("kept")
  <2>1. Running /\ "kept" \in Outcomes \ {"none"} /\ Promise("kept")
    BY <1>1 DEF Running, Outcomes, Promise
  <2> QED BY <1>1, <1>3, <2>1, EndExact
<1>4. CASE Goto("cleanup") /\ UNCHANGED files
  <2>1. Kept(op') /\ op'.step = "cleanup" /\ op'.moved = op.moved /\ op'.errors = op.errors
    BY <1>4, KeptFacts DEF Goto, Steps
  <2>2. /\ UNCHANGED <<tests, meta, marker, broken, health, sampleless>>
        /\ MetaPlaced'
    BY <1>4, FilesFacts
  <2>3. TestsExact => TestsExact'
    BY <1>1, <2>1, <2>2, TestsStay DEF TestsOut, TestsAside, TestsInstalled
  <2>4. MetaExact => MetaExact'
    BY <1>1, <2>1, <2>2, MetaStays DEF MetaInstalled, MetaOut
  <2>5. MovedExact => MovedExact'
    BY <1>1, <2>1, <2>2 DEF MovedExact, HasSamples, Kept
  <2> QED BY <1>1, <2>1, <2>2, <2>3, <2>4, <2>5, Advance DEF Exact, Planning, UndoingSteps
<1> QED BY <1>1, <1>2, <1>3, <1>4

LEMMA CleanupExact == ASSUME IInv, AInv, Cleanup PROVE AInv'
<1> DEFINE p == [op EXCEPT !.step = "confirm", !.outcome = "updated"]
<1>1. /\ op.step = "cleanup" /\ started' = started /\ UNCHANGED <<before, touched>>
      /\ \/ /\ op' = p /\ tests' = Dropped(tests, "deleted") /\ meta' = Dropped(meta, "deleted")
            /\ UNCHANGED <<marker, unowned, broken, health, sampleless>>
         \/ End("updated")
  BY DEF Cleanup, Quiet, history, At
<1>2. CASE End("updated")
  <2>1. Running /\ "updated" \in Outcomes \ {"none"}
    BY <1>1 DEF Running, Outcomes
  <2>2. ~touched => Promise("updated")
    BY <1>1, NewInPlace DEF Promise
  <2> QED BY <1>1, <1>2, <2>1, <2>2, EndExact
<1>3. CASE /\ op' = p /\ tests' = Dropped(tests, "deleted") /\ meta' = Dropped(meta, "deleted")
           /\ UNCHANGED <<marker, unowned, broken, health, sampleless>>
  <2>1. Kept(op') /\ op'.step = "confirm" /\ op'.moved = op.moved /\ op'.errors = op.errors
    BY <1>3, KeptFacts DEF Steps
  <2>2. /\ op'.gen = op.gen /\ op'.kind = op.kind /\ op'.hadTests = op.hadTests
        /\ op'.hadMeta = op.hadMeta
    BY <2>1 DEF Kept
  <2>3. \A g \in Gens :
          /\ tests'[g] = IF tests[g] \in {"staged", "previous"} THEN "deleted" ELSE tests[g]
          /\ meta'[g] = IF meta[g] \in {"staged", "previous"} THEN "deleted" ELSE meta[g]
    BY <1>3 DEF Dropped
  <2>4. FilesInv
    BY DEF AInv
  <2>5. MetaPlaced'
    BY <1>3, <2>3, <2>4 DEF FilesInv, MetaPlaced
  <2>6. /\ op.step \in TestsInstalled /\ op.step \in TestsOut /\ op.step \in MetaInstalled
        /\ op.step \in MetaOut /\ op'.step \in TestsInstalled /\ op'.step \in TestsOut
        /\ op'.step \in MetaInstalled /\ op'.step \in MetaOut
    BY <1>1, <2>1 DEF TestsInstalled, TestsOut, TestsAside, MetaInstalled, MetaOut
  <2>7. TestsExact => TestsExact'
    BY <1>1, <2>1, <2>2, <2>3, <2>6 DEF TestsExact
  <2>8. MetaExact => MetaExact'
    BY <1>1, <2>1, <2>2, <2>3, <2>6 DEF MetaExact
  <2>9. MovedExact => MovedExact'
    BY <1>1, <1>3, <2>1, <2>2 DEF MovedExact, HasSamples
  <2> QED BY <1>1, <1>3, <2>1, <2>5, <2>7, <2>8, <2>9, Advance DEF Exact, Planning, UndoingSteps
<1> QED BY <1>1, <1>2, <1>3

LEMMA ConfirmExact == ASSUME IInv, AInv, Confirm PROVE AInv'
<1> DEFINE outcome == IF MetadataHealth = "healthy" /\ TestsHealthy(LiveMeta \notin sampleless)
                      THEN "updated" ELSE "unhealthy"
<1>1. /\ op.step = "confirm" /\ started' = started /\ UNCHANGED <<before, touched>> /\ End(outcome)
  BY DEF Confirm, Quiet, history, At
<1>2. outcome \in Outcomes \ {"none"} /\ Running
  BY <1>1 DEF Outcomes, Running
<1>3. ASSUME ~touched PROVE Promise(outcome)
  <2>1. /\ Exact
        /\ LiveTests = IF op.kind = "meta" THEN before.tests ELSE IF HasSamples THEN op.gen ELSE Nothing
        /\ LiveMeta = IF op.kind = "tests" THEN before.meta ELSE op.gen
    BY <1>1, <1>3, NewInPlace
  <2>2. /\ op.gen \in Ops /\ op.gen \in Gens /\ Nothing \notin Gens
        /\ op.kind \in {"both", "tests", "meta"}
    BY <1>1, TheFacts DEF IInv, FreshInv, RefreshTypeOK, Gens, Kinds
  <2>3. FilesInv /\ PlanInv
    BY DEF AInv
  <2>4. LiveMeta # Nothing /\ health[LiveMeta] = "healthy"
    <3>1. op.kind = "tests" => before.meta # Nothing /\ health[before.meta] = "healthy"
      BY <1>1, <2>1 DEF Exact, PlanExact, Planning
    <3> QED BY <2>1, <2>2, <2>3, <3>1 DEF FilesInv
  <2>5. MetadataHealth = "healthy"
    <3>1. marker
      BY <2>3, <2>4, TheFacts DEF LiveMeta, FilesInv, MetaPlaced
    <3> QED BY <2>4, <3>1 DEF MetadataHealth
  <2>6. LiveMeta \notin sampleless <=> HasSamples
    <3>1. op.kind = "tests" => before.meta = op.basis
      BY <1>1, <2>1 DEF Exact, PlanExact, Planning
    <3>2. op.kind = "tests" => (HasSamples <=> op.basis \notin sampleless)
      BY <1>2, <2>3 DEF PlanInv
    <3> QED BY <2>1, <3>1, <3>2 DEF HasSamples
  <2>7. TestsHealthy(LiveMeta \notin sampleless)
    <3>1. CASE op.kind = "meta"
      <4>1. FoundTests /\ LiveTests = before.tests
        BY <1>1, <1>2, <2>1, <2>3, <3>1 DEF Exact, PlanExact, PlanInv
      <4> QED BY <2>6, <4>1 DEF FoundTests, TestsHealthy
    <3>2. CASE op.kind # "meta"
      <4>1. op.gen \notin broken
        BY <2>1 DEF Exact, PlanExact
      <4> QED BY <2>1, <2>2, <2>6, <3>2, <4>1 DEF TestsHealthy
    <3> QED BY <3>1, <3>2
  <2> QED BY <2>1, <2>5, <2>7 DEF Promise
<1> HIDE DEF outcome
<1> QED BY <1>1, <1>2, <1>3, EndExact

-----------------------------------------------------------------------------
(* The rollback, step by step.  When an undoing fails nothing is promised. *)
LEMMA UndoFails ==
  ASSUME IInv, AInv, op.step \in UndoingSteps \cup {"undoMeta"},
         NEW step \in UndoingSteps, op' = [op EXCEPT !.step = step, !.errors = TRUE], UNCHANGED files,
         UNCHANGED <<started, before, touched>>
  PROVE  AInv'
<1>1. step \in Steps
  BY DEF UndoingSteps, Steps
<1>2. Kept(op') /\ op'.step = step /\ op'.errors = TRUE
  BY <1>1, KeptFacts
<1>3. /\ UNCHANGED <<tests, meta, marker, broken, health, sampleless>>
      /\ MetaPlaced'
  BY FilesFacts
<1> QED BY <1>2, <1>3, Advance DEF Planning, UndoingSteps

LEMMA UndoMetaExact == ASSUME IInv, AInv, UndoMetaStep PROVE AInv'
<1>1. /\ op.step = "undoMeta" /\ started' = started /\ UNCHANGED <<before, touched>>
      /\ \/ /\ marker /\ CanMove(meta, "previous", "contest") /\ Goto(UndoMarker(op))
            /\ RenameMeta("previous", "contest")
         \/ op' = [op EXCEPT !.step = UndoMarker(op), !.errors = TRUE] /\ UNCHANGED files
  BY DEF UndoMetaStep, Attempt, At
<1>2. /\ UndoMarker(op) \in UndoingSteps /\ UndoMarker(op) \in Steps
      /\ op.moved => UndoMarker(op) \in {"undoMarker", "undoTests"}
      /\ op.hadTests => UndoMarker(op) # "giveUp"
  BY UndoTargets DEF UndoingSteps, Steps
<1>3. CASE op' = [op EXCEPT !.step = UndoMarker(op), !.errors = TRUE] /\ UNCHANGED files
  BY <1>1, <1>2, <1>3, UndoFails
<1>4. CASE /\ marker /\ CanMove(meta, "previous", "contest") /\ Goto(UndoMarker(op))
           /\ RenameMeta("previous", "contest")
  <2>1. Kept(op') /\ op'.step = UndoMarker(op) /\ op'.moved = op.moved /\ op'.errors = op.errors
    BY <1>2, <1>4, KeptFacts DEF Goto
  <2>2. op'.gen = op.gen /\ op'.kind = op.kind /\ op'.hadMeta = op.hadMeta
    BY <2>1 DEF Kept
  <2>3. /\ UNCHANGED <<tests, marker, broken, health, sampleless>>
        /\ \A g \in Gens : meta'[g] = IF meta[g] = "previous" THEN "contest" ELSE meta[g]
        /\ \A g \in Gens : meta[g] # "contest"
        /\ MetaPlaced'
    BY <1>4, RenameMetaFacts DEF Places
  <2>4. \E g \in Gens : meta[g] = "previous"
    BY <1>4, TheFacts DEF CanMove
  <2>5. MetaExact => MetaExact'
    <3> SUFFICES ASSUME MetaExact PROVE MetaExact'
      OBVIOUS
    <3>1. op'.step \notin MetaInstalled /\ op'.step \notin MetaOut
      BY <1>2, <2>1 DEF UndoingSteps, MetaInstalled, MetaOut
    <3>2. \A g \in Gens : meta[g] = "previous" <=> g = before.meta
      BY <2>4 DEF MetaExact
    <3>3. \A g \in Gens : meta'[g] = "contest" <=> g = before.meta
      BY <2>3, <3>2
    <3>4. \A g \in Gens : meta'[g] # "previous" /\ (meta'[g] = "staged" => g = op.gen)
      BY <2>3 DEF MetaExact
    <3> QED BY <1>1, <2>2, <3>1, <3>3, <3>4 DEF MetaExact
  <2>6. TestsExact => TestsExact'
    <3>1. /\ op.step \in TestsInstalled /\ op.step \in TestsOut
          /\ op.moved => op'.step \in TestsInstalled
          /\ op.hadTests => op'.step \in TestsOut
      BY <1>1, <1>2, <2>1 DEF TestsInstalled, TestsOut, TestsAside, UndoingSteps
    <3> QED BY <1>1, <2>1, <2>3, <3>1, TestsStay
  <2>7. MovedExact' /\ op'.step \in UndoingSteps
    BY <1>2, <2>1 DEF MovedExact, UndoingSteps
  <2> QED BY <1>1, <2>1, <2>3, <2>5, <2>6, <2>7, Advance DEF Exact, Planning, UndoingSteps
<1> QED BY <1>1, <1>3, <1>4

LEMMA UndoMarkerExact == ASSUME IInv, AInv, UndoMarkerStep PROVE AInv'
<1>1. /\ op.step = "undoMarker" /\ started' = started /\ UNCHANGED <<before, touched>>
      /\ \/ /\ LiveMeta = Nothing /\ Goto(UndoTests(op)) /\ marker' = FALSE
            /\ UNCHANGED <<tests, meta, unowned, broken, health, sampleless>>
         \/ op' = [op EXCEPT !.step = UndoTests(op), !.errors = TRUE] /\ UNCHANGED files
  BY DEF UndoMarkerStep, Attempt, At
<1>2. /\ UndoTests(op) \in UndoingSteps /\ UndoTests(op) \in Steps
      /\ op.moved => UndoTests(op) = "undoTests"
      /\ op.hadTests => UndoTests(op) # "giveUp"
      /\ UndoTests(op) # "undoMarker"
  BY UndoTargets DEF UndoingSteps, Steps
<1>3. CASE op' = [op EXCEPT !.step = UndoTests(op), !.errors = TRUE] /\ UNCHANGED files
  BY <1>1, <1>2, <1>3, UndoFails DEF UndoingSteps
<1>4. CASE /\ LiveMeta = Nothing /\ Goto(UndoTests(op)) /\ marker' = FALSE
           /\ UNCHANGED <<tests, meta, broken, health, sampleless>>
  <2>1. Kept(op') /\ op'.step = UndoTests(op) /\ op'.moved = op.moved /\ op'.errors = op.errors
    BY <1>2, <1>4, KeptFacts DEF Goto
  <2>2. MetaPlaced'
    <3>1. \A g \in Gens : meta[g] # "contest"
      BY <1>4, TheFacts DEF LiveMeta
    <3> QED BY <1>4, <3>1 DEF AInv, FilesInv, MetaPlaced
  <2>3. /\ op.step \in TestsInstalled /\ op.step \in TestsOut /\ op.step \notin MetaOut
        /\ op.step \notin MetaInstalled
        /\ op.moved => op'.step \in TestsInstalled
        /\ op.hadTests => op'.step \in TestsOut
        /\ op'.step \notin MetaOut /\ op'.step \notin MetaInstalled
    BY <1>1, <1>2, <2>1
      DEF TestsInstalled, TestsOut, TestsAside, UndoingSteps, MetaOut, MetaInstalled
  <2>4. TestsExact => TestsExact'
    BY <1>1, <1>4, <2>1, <2>3, TestsStay
  <2>5. MetaExact => MetaExact'
    BY <1>1, <1>4, <2>1, <2>3, MetaStays
  <2>6. MovedExact' /\ op'.step \in UndoingSteps
    BY <1>2, <2>1 DEF MovedExact, UndoingSteps
  <2> QED BY <1>1, <1>4, <2>1, <2>2, <2>4, <2>5, <2>6, Advance DEF Exact, Planning, UndoingSteps
<1> QED BY <1>1, <1>3, <1>4

LEMMA UndoTestsExact == ASSUME IInv, AInv, UndoTestsStep PROVE AInv'
<1> DEFINE step == IF op.hadTests THEN "restoreTests" ELSE "giveUp"
<1>1. /\ op.step = "undoTests" /\ started' = started /\ UNCHANGED <<before, touched>>
      /\ \/ /\ Goto(step) /\ RenameTests("contest", "staged")
         \/ op' = [op EXCEPT !.step = step, !.errors = TRUE] /\ UNCHANGED files
  BY DEF UndoTestsStep, Attempt, At
<1>2. /\ step \in UndoingSteps /\ step \in Steps /\ step \in {"restoreTests", "giveUp"}
      /\ op.hadTests => step = "restoreTests"
  BY DEF UndoingSteps, Steps
<1> HIDE DEF step
<1>3. CASE op' = [op EXCEPT !.step = step, !.errors = TRUE] /\ UNCHANGED files
  BY <1>1, <1>2, <1>3, UndoFails DEF UndoingSteps
<1>4. CASE Goto(step) /\ RenameTests("contest", "staged")
  <2>1. Kept(op') /\ op'.step = step /\ op'.moved = op.moved /\ op'.errors = op.errors
    BY <1>2, <1>4, KeptFacts DEF Goto
  <2>2. op'.gen = op.gen /\ op'.hadTests = op.hadTests
    BY <2>1 DEF Kept
  <2>3. op.moved /\ op.kind # "meta"
    BY <1>1 DEF IInv, KindInv
  <2>4. /\ UNCHANGED <<meta, marker, broken, health, sampleless>>
        /\ \A g \in Gens : tests'[g] = IF tests[g] = "contest" THEN "staged" ELSE tests[g]
        /\ MetaPlaced'
    BY <1>4, RenameTestsFacts DEF Places
  <2>5. TestsExact /\ PlanExact => TestsExact'
    <3> SUFFICES ASSUME TestsExact, PlanExact PROVE TestsExact'
      OBVIOUS
    <3>1. /\ op.step \in TestsInstalled /\ op.step \in TestsOut /\ op'.step \notin TestsInstalled
          /\ op.hadTests => op'.step \in TestsOut
      BY <1>1, <1>2, <2>1 DEF TestsInstalled, TestsOut, TestsAside
    <3>2. op.hadTests <=> before.tests # Nothing
      BY <1>1, <2>3 DEF PlanExact, Planning
    <3>3. Nothing \notin Gens
      BY TheFacts
    <3>4. \A g \in Gens : tests[g] = "contest" <=> g = op.gen
      BY <2>3, <3>1, <3>2, <3>3 DEF TestsExact
    <3>5. \A g \in Gens : /\ tests'[g] # "contest"
                          /\ tests'[g] = "staged" => g = op.gen
                          /\ tests'[g] = "previous" => g = before.tests
      BY <2>4, <3>4 DEF TestsExact
    <3> QED BY <1>1, <2>2, <3>1, <3>2, <3>3, <3>5 DEF TestsExact
  <2>6. MetaExact => MetaExact'
    BY <1>1, <1>2, <2>1, <2>4, MetaStays DEF MetaInstalled, MetaOut
  <2>7. MovedExact' /\ op'.step \in UndoingSteps
    BY <1>2, <2>1 DEF MovedExact, UndoingSteps
  <2> QED BY <1>1, <2>1, <2>4, <2>5, <2>6, <2>7, Advance DEF Exact, Planning, UndoingSteps
<1> QED BY <1>1, <1>3, <1>4

LEMMA RestoreTestsExact == ASSUME IInv, AInv, RestoreTests PROVE AInv'
<1>1. /\ op.step = "restoreTests" /\ started' = started /\ UNCHANGED <<before, touched>>
      /\ \/ /\ CanMove(tests, "previous", "contest") /\ Goto("giveUp")
            /\ RenameTests("previous", "contest")
         \/ op' = [op EXCEPT !.step = "giveUp", !.errors = TRUE] /\ UNCHANGED files
  BY DEF RestoreTests, Attempt, At
<1>2. CASE op' = [op EXCEPT !.step = "giveUp", !.errors = TRUE] /\ UNCHANGED files
  BY <1>1, <1>2, UndoFails DEF UndoingSteps
<1>3. CASE CanMove(tests, "previous", "contest") /\ Goto("giveUp") /\ RenameTests("previous", "contest")
  <2>1. Kept(op') /\ op'.step = "giveUp" /\ op'.moved = op.moved /\ op'.errors = op.errors
    BY <1>3, KeptFacts DEF Goto, Steps
  <2>2. op'.gen = op.gen /\ op'.hadTests = op.hadTests
    BY <2>1 DEF Kept
  <2>3. /\ UNCHANGED <<meta, marker, broken, health, sampleless>>
        /\ \A g \in Gens : tests'[g] = IF tests[g] = "previous" THEN "contest" ELSE tests[g]
        /\ MetaPlaced'
    BY <1>3, RenameTestsFacts DEF Places
  <2>4. /\ \A g \in Gens : tests[g] # "contest"
        /\ \E g \in Gens : tests[g] = "previous"
    BY <1>3, TheFacts DEF CanMove
  <2>5. TestsExact => TestsExact'
    <3> SUFFICES ASSUME TestsExact PROVE TestsExact'
      OBVIOUS
    <3>1. op'.step \notin TestsInstalled /\ op'.step \notin TestsOut
      BY <2>1 DEF TestsInstalled, TestsOut, TestsAside
    <3>2. \A g \in Gens : tests[g] = "previous" <=> g = before.tests
      BY <2>4 DEF TestsExact
    <3>3. \A g \in Gens : tests'[g] = "contest" <=> g = before.tests
      BY <2>3, <2>4, <3>2
    <3>4. \A g \in Gens : tests'[g] # "previous" /\ (tests'[g] = "staged" => g = op.gen)
      BY <2>3 DEF TestsExact
    <3> QED BY <1>1, <2>2, <3>1, <3>3, <3>4 DEF TestsExact
  <2>6. MetaExact => MetaExact'
    BY <1>1, <2>1, <2>3, MetaStays DEF MetaInstalled, MetaOut
  <2>7. MovedExact' /\ op'.step \in UndoingSteps
    BY <2>1 DEF MovedExact, UndoingSteps
  <2> QED BY <1>1, <2>1, <2>3, <2>5, <2>6, <2>7, Advance DEF Exact, Planning, UndoingSteps
<1> QED BY <1>1, <1>2, <1>3

LEMMA GiveUpExact == ASSUME IInv, AInv, GiveUp PROVE AInv'
<1> DEFINE outcome == IF op.errors \/ op.keep THEN "kept" ELSE "failed"
<1>1. op.step = "giveUp" /\ started' = started /\ UNCHANGED <<before, touched>> /\ End(outcome)
  BY DEF GiveUp, Quiet, history, At
<1>2. outcome \in Outcomes \ {"none"} /\ Running
  BY <1>1 DEF Outcomes, Running
<1>3. ASSUME ~touched, outcome = "failed" PROVE LiveTests = before.tests /\ LiveMeta = before.meta
  <2>1. Exact
    BY <1>2, <1>3 DEF AInv, ExactInv
  <2>2. op.step \notin TestsInstalled /\ op.step \notin TestsOut /\ op.step \notin MetaInstalled
        /\ op.step \notin MetaOut
    BY <1>1 DEF TestsInstalled, TestsOut, TestsAside, MetaInstalled, MetaOut
  <2>3. \A g \in Gens : tests[g] = "contest" <=> g = before.tests
    BY <2>1, <2>2 DEF Exact, TestsExact
  <2>4. \A g \in Gens : meta[g] = "contest" <=> g = before.meta
    BY <2>1, <2>2 DEF Exact, MetaExact
  <2> QED BY <2>3, <2>4, LiveWhere, BeforeTyped DEF AInv
<1>4. outcome \notin {"updated", "unhealthy"}
  OBVIOUS
<1> HIDE DEF outcome
<1>5. ~touched => Promise(outcome)
  BY <1>3, <1>4 DEF Promise
<1> QED BY <1>1, <1>2, <1>5, EndExact

LEMMA KillExact == ASSUME IInv, AInv, Kill PROVE AInv'
<1>1. Running /\ End("killed") /\ started' = started /\ UNCHANGED <<before, touched>>
  BY DEF Kill, history
<1>2. "killed" \in Outcomes \ {"none"} /\ Promise("killed")
  BY DEF Outcomes, Promise
<1> QED BY <1>1, <1>2, EndExact

-----------------------------------------------------------------------------
(* What another program does leaves no exactness to show. *)
LEMMA MeddleExact ==
  ASSUME IInv, AInv, Meddle,
         MetaPlaced',
         \A o \in Ops : health'[o] = health[o],
         \A g \in broken' : g \in broken \/ tests[g] = "contest",
         \A g \in Gens : tests'[g] = "contest" => tests[g] = "contest" \/ g = Hand,
         \A g \in Gens : tests'[g] = "staged" => tests[g] = "staged",
         \A g \in Gens : meta'[g] = "staged" => meta[g] = "staged"
  PROVE  AInv'
<1>1. UNCHANGED <<op, started, sampleless>> /\ touched' = TRUE
  BY DEF Meddle
<1>2. /\ \A o \in Ops \ started : tests[o] # "contest"
      /\ op.step \in {"fetch", "prepared"} => op.gen \in Ops /\ op.gen \in Gens /\ op.gen # Hand
      /\ FilesInv /\ PlanInv
  BY RefreshAssumption DEF AInv, IInv, FreshInv, RefreshTypeOK, Gens
<1>3. FilesInv'
  BY <1>1, <1>2 DEF FilesInv
<1>4. PlanInv'
  BY <1>1, <1>2 DEF PlanInv, Running, HasSamples, At
<1>5. ExactInv' /\ AllOrNothing'
  BY <1>1 DEF ExactInv, AllOrNothing
<1> QED BY <1>3, <1>4, <1>5 DEF AInv

LEMMA OthersExact ==
  ASSUME IInv, AInv,
         \/ \E g \in Gens : AddUnowned(g)
         \/ TakeUnownedOut \/ BreakTests \/ RemoveTests \/ PutTests \/ RemoveMarker \/ PutMeta
  PROVE  AInv'
<1>1. Meddle
  BY DEF AddUnowned, TakeUnownedOut, BreakTests, RemoveTests, PutTests, RemoveMarker, PutMeta
<1>2. /\ tests \in [Gens -> Places] /\ meta \in [Gens -> Places] /\ Hand \in Gens /\ Hand \notin Ops
      /\ health \in [Gens -> {"healthy", "invalid", "unsupported"}] /\ Ops \subseteq Gens
  BY RefreshAssumption DEF IInv, RefreshTypeOK, Gens
<1>3. MetaPlaced
  BY DEF AInv, FilesInv
<1>4. LiveTests # Nothing => LiveTests \in Gens /\ tests[LiveTests] = "contest"
  BY TheFacts DEF LiveTests
<1>5. CASE \/ \E g \in Gens : AddUnowned(g)
           \/ TakeUnownedOut
  <2>1. UNCHANGED <<tests, meta, marker, broken, health>>
    BY <1>5 DEF AddUnowned, TakeUnownedOut
  <2> QED BY <1>1, <1>3, <2>1, MeddleExact DEF MetaPlaced
<1>6. CASE BreakTests
  <2>1. UNCHANGED <<tests, meta, marker, health>> /\ \A g \in broken' : g \in broken \/ tests[g] = "contest"
    BY <1>4, <1>6 DEF BreakTests
  <2> QED BY <1>1, <1>3, <2>1, MeddleExact DEF MetaPlaced
<1>7. CASE RemoveTests
  <2>1. /\ UNCHANGED <<meta, marker, broken, health>>
        /\ \A g \in Gens : tests'[g] = tests[g] \/ tests'[g] = "removed"
    BY <1>2, <1>4, <1>7 DEF RemoveTests
  <2> QED BY <1>1, <1>3, <2>1, MeddleExact DEF MetaPlaced
<1>8. CASE PutTests
  <2>1. /\ UNCHANGED <<meta, marker, broken, health>>
        /\ \A g \in Gens : tests'[g] = IF g = Hand THEN "contest" ELSE tests[g]
    BY <1>2, <1>8 DEF PutTests
  <2> QED BY <1>1, <1>3, <2>1, MeddleExact DEF MetaPlaced
<1>9. CASE RemoveMarker
  <2>1. /\ UNCHANGED <<tests, broken, health>>
        /\ meta' = Moved(meta, "contest", "removed")
    BY <1>9 DEF RemoveMarker
  <2>2. \A g \in Gens : meta'[g] = IF meta[g] = "contest" THEN "removed" ELSE meta[g]
    BY <2>1 DEF Moved
  <2> QED BY <1>1, <1>3, <2>1, <2>2, MeddleExact DEF MetaPlaced
<1>10. CASE PutMeta
  <2> DEFINE m == Moved(meta, "contest", "removed")
  <2>1. /\ UNCHANGED <<tests, broken>> /\ marker' = TRUE
        /\ meta' = [m EXCEPT ![Hand] = "contest"]
    BY <1>10 DEF PutMeta
  <2>2. PICK h \in {"healthy", "invalid", "unsupported"} : health' = [health EXCEPT ![Hand] = h]
    BY <1>10 DEF PutMeta
  <2>3. \A o \in Ops : health'[o] = health[o]
    BY <1>2, <2>2
  <2>4. m \in [Gens -> Places] /\ \A g \in Gens : m[g] = IF meta[g] = "contest" THEN "removed" ELSE meta[g]
    BY <1>2 DEF Moved, Places
  <2> HIDE DEF m
  <2>5. \A g \in Gens : meta'[g] = IF g = Hand THEN "contest" ELSE m[g]
    BY <1>2, <2>1, <2>4
  <2> QED BY <1>1, <1>3, <2>1, <2>3, <2>4, <2>5, MeddleExact DEF MetaPlaced
<1> QED BY <1>5, <1>6, <1>7, <1>8, <1>9, <1>10

LEMMA StutterExact == ASSUME IInv, AInv, UNCHANGED vars PROVE AInv'
<1>1. UNCHANGED <<tests, meta, marker, unowned, broken, health, sampleless, op, started, before,
                  touched>>
  BY DEF vars, files, history
<1>2. FilesInv' /\ PlanInv'
  BY <1>1 DEF AInv, FilesInv, MetaPlaced, PlanInv, Running, HasSamples, At
<1>3. ExactInv'
  BY <1>1 DEF AInv, ExactInv, Running, Exact, PlanExact, FoundTests, MovedExact, TestsExact, MetaExact,
              HasSamples
<1>4. LiveTests' = LiveTests /\ LiveMeta' = LiveMeta
  BY <1>1, SameLive DEF AInv
<1>5. AllOrNothing'
  BY <1>1, <1>4 DEF AInv, AllOrNothing, HasSamples, At
<1> QED BY <1>2, <1>3, <1>5 DEF AInv

LEMMA FailFetchExact == ASSUME IInv, AInv, FailFetch PROVE AInv'
<1>1. op.step = "fetch" /\ End("failed") /\ started' = started /\ UNCHANGED <<before, touched>>
  BY DEF FailFetch, At, Quiet, history
<1> QED BY <1>1, FailEarlyExact

LEMMA NextExact == ASSUME IInv, AInv, [Next]_vars PROVE AInv'
<1>1. CASE \E o \in Ops, force \in BOOLEAN : StartRefresh(o, force)
  BY <1>1, StartRefreshExact
<1>2. CASE \E o \in Ops, samples \in BOOLEAN : StartRepair(o, samples)
  BY <1>2, StartRepairExact
<1>3. CASE Stage \/ FailFetch \/ Apply \/ Look
  BY <1>3, StageExact, FailFetchExact, ApplyExact, LookExact
<1>4. CASE MoveTests \/ ValidateMoved \/ CheckManifest \/ InstallTests
  BY <1>4, MoveTestsExact, ValidateMovedExact, CheckManifestExact, InstallTestsExact
<1>5. CASE MoveMeta \/ CreateMarker \/ InstallMeta \/ Inspect \/ Cleanup \/ Confirm
  BY <1>5, MoveMetaExact, CreateMarkerExact, InstallMetaExact, InspectExact, CleanupExact, ConfirmExact
<1>6. CASE UndoMetaStep \/ UndoMarkerStep \/ UndoTestsStep \/ RestoreTests \/ GiveUp \/ Kill
  BY <1>6, UndoMetaExact, UndoMarkerExact, UndoTestsExact, RestoreTestsExact, GiveUpExact, KillExact
<1>7. CASE \/ \E g \in Gens : AddUnowned(g)
           \/ TakeUnownedOut \/ BreakTests \/ RemoveTests \/ PutTests \/ RemoveMarker \/ PutMeta
  BY <1>7, OthersExact
<1>8. CASE UNCHANGED vars
  BY <1>8, StutterExact
<1> QED BY <1>1, <1>2, <1>3, <1>4, <1>5, <1>6, <1>7, <1>8 DEF Next

-----------------------------------------------------------------------------
(* Only two steps put something aside. *)
PutsAside(g) == \/ meta[g] = "contest" /\ meta'[g] = "previous"
                \/ tests[g] = "contest" /\ tests'[g] = "previous"

LEMMA EndPutsNothingAside ==
  ASSUME NEW outcome, End(outcome), NEW g \in Gens
  PROVE  ~PutsAside(g)
<1> DEFINE where == CASE outcome = "kept" -> "kept" [] outcome = "killed" -> "left" [] OTHER -> "deleted"
<1>1. where # "previous" /\ tests' = Dropped(tests, where) /\ meta' = Dropped(meta, where)
  BY DEF End
<1> HIDE DEF where
<1> QED BY <1>1 DEF Dropped, PutsAside

LEMMA RenamePutsNothingAside ==
  ASSUME NEW from, NEW to, NEW g \in Gens, to # "previous", RenameTests(from, to) \/ RenameMeta(from, to)
  PROVE  ~PutsAside(g)
  BY DEF RenameTests, RenameMeta, Moved, PutsAside

LEMMA OnlyTwoPutAside ==
  ASSUME IInv, Next, NEW g \in Gens, PutsAside(g)
  PROVE  MoveTests \/ MoveMeta
<1>1. /\ tests \in [Gens -> Places] /\ meta \in [Gens -> Places] /\ Hand \in Gens
  BY DEF IInv, RefreshTypeOK, Gens
<1>2. ~(UNCHANGED <<tests, meta>>) /\ ~UNCHANGED files
  BY DEF PutsAside, files
<1>3. \A outcome : ~End(outcome)
  BY EndPutsNothingAside
<1>4. \A from, to : to # "previous" => ~RenameTests(from, to) /\ ~RenameMeta(from, to)
  BY RenamePutsNothingAside
<1>5. ~(\E o \in Ops, force \in BOOLEAN : StartRefresh(o, force))
  BY <1>2 DEF StartRefresh
<1>6. ~(\E o \in Ops, samples \in BOOLEAN : StartRepair(o, samples))
  BY <1>2 DEF StartRepair
<1>7. ~Stage
  <2> SUFFICES ASSUME Stage PROVE FALSE
    OBVIOUS
  <2>1. meta' = [meta EXCEPT ![op.gen] = "staged"]
    BY DEF Stage
  <2>2. \E place \in {"none", "staged"} : tests' = [tests EXCEPT ![op.gen] = place]
    BY DEF Stage
  <2> QED BY <1>1, <2>1, <2>2 DEF PutsAside
<1>8. ~FailFetch /\ ~Apply /\ ~Look /\ ~ValidateMoved /\ ~CheckManifest
  BY <1>2, <1>3 DEF FailFetch, Apply, Look, ValidateMoved, CheckManifest, Undo
<1>9. ~InstallTests /\ ~CreateMarker /\ ~InstallMeta
  BY <1>2, <1>4 DEF InstallTests, CreateMarker, InstallMeta, Attempt, Undo
<1>10. ~Inspect /\ ~Confirm /\ ~GiveUp /\ ~Kill
  BY <1>2, <1>3 DEF Inspect, Confirm, GiveUp, Kill
<1>11. ~Cleanup
  <2>1. ~(tests' = Dropped(tests, "deleted") /\ meta' = Dropped(meta, "deleted"))
    BY DEF Dropped, PutsAside
  <2> QED BY <1>3, <2>1 DEF Cleanup
<1>12. ~UndoMetaStep /\ ~UndoMarkerStep /\ ~UndoTestsStep /\ ~RestoreTests
  BY <1>2, <1>4 DEF UndoMetaStep, UndoMarkerStep, UndoTestsStep, RestoreTests, Attempt
<1>13. ~(\E h \in Gens : AddUnowned(h)) /\ ~TakeUnownedOut /\ ~BreakTests
  BY <1>2 DEF AddUnowned, TakeUnownedOut, BreakTests
<1>14. ~RemoveTests /\ ~PutTests
  BY <1>1 DEF RemoveTests, PutTests, PutsAside
<1>15. ~RemoveMarker
  BY DEF RemoveMarker, Moved, PutsAside
<1>16. ~PutMeta
  <2> SUFFICES ASSUME PutMeta PROVE FALSE
    OBVIOUS
  <2> DEFINE m == Moved(meta, "contest", "removed")
  <2>1. tests' = tests /\ meta' = [m EXCEPT ![Hand] = "contest"]
    BY DEF PutMeta
  <2>2. m[g] = IF meta[g] = "contest" THEN "removed" ELSE meta[g]
    BY DEF Moved
  <2>3. m \in [Gens -> Places]
    BY <1>1 DEF Moved, Places
  <2> HIDE DEF m
  <2> QED BY <1>1, <2>1, <2>2, <2>3 DEF PutsAside
<1> QED BY <1>5, <1>6, <1>7, <1>8, <1>9, <1>10, <1>11, <1>12, <1>13, <1>14, <1>15, <1>16 DEF Next

LEMMA PlannedStep ==
  ASSUME IInv, AInv, [Next]_vars, ~touched, Running, NEW g \in Gens
  PROVE  /\ meta[g] = "contest" /\ meta'[g] = "previous" =>
              IF op.repair THEN health[g] = "invalid" ELSE g = op.basis
         /\ tests[g] = "contest" /\ tests'[g] = "previous" =>
              g \notin unowned /\ (op.repair => ~TestsHealthy(HasSamples))
<1> SUFFICES ASSUME PutsAside(g)
             PROVE  /\ meta[g] = "contest" /\ meta'[g] = "previous" =>
                         IF op.repair THEN health[g] = "invalid" ELSE g = op.basis
                    /\ tests[g] = "contest" /\ tests'[g] = "previous" =>
                         g \notin unowned /\ (op.repair => ~TestsHealthy(HasSamples))
  BY DEF PutsAside
<1>1. MoveTests \/ MoveMeta
  <2>1. ~UNCHANGED vars
    BY DEF PutsAside, vars, files
  <2> QED BY <2>1, OnlyTwoPutAside
<1>2. CASE MoveTests
  <2>1. op.step = "moveTests" /\ (RenameTests("contest", "previous") \/ End("failed"))
    BY <1>2 DEF MoveTests, Attempt, At
  <2>2. meta' = meta
    BY <2>1, EndPutsNothingAside DEF RenameTests
  <2>3. LiveTests = before.tests /\ Exact
    BY <2>1, NothingMoved
  <2>4. tests[g] = "contest" => g = before.tests
    BY <2>3, LiveIs DEF AInv
  <2>5. before.tests \notin unowned
    BY <2>1, <2>3 DEF Exact, MovedExact
  <2>6. op.kind # "meta"
    BY <2>1 DEF IInv, KindInv
  <2>7. op.repair => ~FoundTests
    BY <2>1, <2>3, <2>6 DEF Exact, PlanExact
  <2>8. TestsHealthy(HasSamples) => FoundTests
    BY <2>3 DEF FoundTests, TestsHealthy
  <2> QED BY <2>2, <2>4, <2>5, <2>7, <2>8
<1>3. CASE MoveMeta
  <2>1. /\ op.step = "moveMeta"
        /\ RenameMeta("contest", "previous") \/ UNCHANGED files
    BY <1>3 DEF MoveMeta, Attempt, At, Undo
  <2>2. tests' = tests
    BY <2>1 DEF RenameMeta, files
  <2>3. op.hadMeta /\ op.kind # "tests" /\ op.errors = FALSE
    BY <2>1, OpTyped DEF IInv, KindInv, AInv, PlanInv, UndoingSteps, OpSet
  <2>4. Exact
    BY <2>3 DEF AInv, ExactInv
  <2>5. meta[g] = "contest" => g = before.meta
    BY <2>1, <2>4 DEF Exact, MetaExact, MetaInstalled
  <2>6. before.meta # Nothing
    BY <2>1, <2>3, <2>4 DEF Exact, PlanExact, Planning
  <2>7. IF op.repair THEN health[before.meta] = "invalid" ELSE before.meta = op.basis
    BY <2>1, <2>3, <2>4, <2>6 DEF Exact, PlanExact
  <2> QED BY <2>2, <2>5, <2>7
<1> QED BY <1>1, <1>2, <1>3

LEMMA InductiveExact == Spec => [](IInv /\ AInv)
<1>1. Init => IInv /\ AInv
  BY InitInv, InitAInv
<1>2. IInv /\ AInv /\ [Next]_vars => (IInv /\ AInv)'
  BY NextInv, NextExact
<1> QED BY <1>1, <1>2, PTL DEF Spec

(* An operation that nobody interferes with puts all of the new data in    *)
(* place and says so, or leaves all of the old data in place and says so,  *)
(* or keeps its staging directory: whichever rename fails, in a refresh    *)
(* as in a repair of the tests, of the metadata or of both                 *)
(* (replace_refresh_data, replace_tests_only, replace_metadata_only).      *)
THEOREM RefreshIsAllOrNothing == Spec => []AllOrNothing
<1>1. AInv => AllOrNothing
  BY DEF AInv
<1> QED BY <1>1, InductiveExact, PTL

(* A refresh puts aside only the metadata it was prepared from, however    *)
(* long it was fetching and waiting for the session; a repair puts aside   *)
(* only invalid metadata and tests that do not match; neither puts aside   *)
(* tests with an entry that is not owned (revalidate_prepared_destination, *)
(* revalidate_repair_plan, validate_refresh_owned_tests).                  *)
THEOREM OnlyThePlannedIsPutAside == Spec => PutsAsidePlannedOnly
<1>1. IInv /\ AInv /\ [Next]_vars =>
        [ ~touched /\ Running =>
            /\ \A g \in Gens : meta[g] = "contest" /\ meta'[g] = "previous" =>
                 IF op.repair THEN health[g] = "invalid" ELSE g = op.basis
            /\ \A g \in Gens : tests[g] = "contest" /\ tests'[g] = "previous" =>
                 g \notin unowned /\ (op.repair => ~TestsHealthy(HasSamples)) ]_vars
  BY PlannedStep
<1> QED BY <1>1, InductiveExact, PTL DEF Spec, PutsAsidePlannedOnly
=============================================================================
