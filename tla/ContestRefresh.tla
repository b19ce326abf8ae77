---------------------------- MODULE ContestRefresh ----------------------------
(***************************************************************************)
(* Replacing the data that atc keeps for a contest: `atc refresh` and the  *)
(* refresh of the TUI (commands/refresh.rs), the repair of a broken        *)
(* contest (commands/contest.rs), and the three replacements in            *)
(* workspace.rs that carry them out.  What is replaced is the directory    *)
(* tests/ and the file .atc/contest.toml, by renames between the contest   *)
(* directory and a staging directory in it; what has been moved is moved   *)
(* back when a later rename fails.                                         *)
(*                                                                         *)
(* A generation is a pair of tests and metadata that belong together: Old  *)
(* is there from the start, Hand is what the user or another program puts  *)
(* there, and every operation fetches one.  Operations run one after       *)
(* another.  A step is one rename or one look at the files; the checks of  *)
(* one function that nothing separates are one step.                       *)
(*                                                                         *)
(* Faults: a rename fails, an operation is killed (its staging directory   *)
(* stays), the user or another program changes the files at any time.      *)
(***************************************************************************)
EXTENDS Naturals, FiniteSets

CONSTANTS
  Ops,          \* the operations
  Old,          \* the generation there from the start
  Hand,         \* what another program puts in its place
  Nothing,      \* no generation
  MaxTroubles   \* bound on failing renames, killed operations and changes made
                \* by another program, all together

ASSUME RefreshAssumption ==
  /\ Old # Hand /\ Old \notin Ops /\ Hand \notin Ops
  /\ Nothing \notin Ops \cup {Old, Hand}
  /\ MaxTroubles \in Nat

VARIABLES
  tests,      \* where the tests of each generation are
  meta,       \* where the metadata of each generation is
  marker,     \* the directory .atc exists
  unowned,    \* tests with an entry that atc does not own
  broken,     \* tests that do not match the samples of their contest
  health,     \* what reading the metadata of a generation finds
  sampleless, \* generations whose contest has no samples, hence no tests
  op,         \* the operation that runs, or ran last
  started,    \* operations that have started
  troubles,   \* how many have happened
  before,     \* history: what the operation found at its last check
  touched,    \* history: another program changed something since then
  late,       \* history: tests changed between their last inspection and removal
  returned    \* history: tests moved back out of the contest by a rollback

files == <<tests, meta, marker, unowned, broken, health, sampleless>>
history == <<before, touched, late, returned>>
vars == <<files, op, started, troubles, history>>

Gens == Ops \cup {Old, Hand}

(* "staged" and "previous" are in the staging directory of the operation   *)
(* that runs.  It is "deleted" with the operation, "kept" and reported for *)
(* recovery, or "left" by an operation that was killed.  "removed" is      *)
(* removed by another program.                                             *)
Places == {"none", "staged", "contest", "previous", "deleted", "kept", "left", "removed"}

Kinds == {"none", "both", "tests", "meta"}
Steps == {"idle", "fetch", "prepared", "look", "moveTests", "validateMoved", "manifest",
          "installTests", "moveMeta", "createMarker", "installMeta", "inspect",
          "cleanup", "confirm", "undoMeta", "undoMarker", "undoTests", "restoreTests", "giveUp", "ended"}
Outcomes == {"none", "updated", "unhealthy", "failed", "kept", "killed"}

NoOp == [gen |-> Nothing, step |-> "idle", kind |-> "none", repair |-> FALSE, force |-> FALSE,
         basis |-> Nothing, hadMarker |-> FALSE, hadTests |-> FALSE, hadMeta |-> FALSE,
         made |-> FALSE, moved |-> FALSE, errors |-> FALSE, keep |-> FALSE,
         outcome |-> "none"]

Init ==
  /\ tests \in {[g \in Gens |-> IF g = Old THEN p ELSE "none"] : p \in {"none", "contest"}}
  /\ meta \in {[g \in Gens |-> IF g = Old THEN p ELSE "none"] : p \in {"none", "contest"}}
  /\ marker \in BOOLEAN
  /\ meta[Old] = "contest" => marker
  /\ unowned \in SUBSET {g \in {Old} : tests[g] = "contest"}
  /\ broken \in SUBSET {g \in {Old} : tests[g] = "contest"}
  /\ health \in {[g \in Gens |-> IF g = Old THEN h ELSE "healthy"]
                   : h \in {"healthy", "invalid", "unsupported"}}
  /\ meta[Old] = "none" => health[Old] = "healthy"
  /\ sampleless \in SUBSET {g \in {Old} : meta[g] = "contest"}
  /\ op = NoOp
  /\ started = {}
  /\ troubles = 0
  /\ before = [tests |-> Nothing, meta |-> Nothing]
  /\ touched = FALSE /\ late = {} /\ returned = {}

-----------------------------------------------------------------------------
(* What is in the contest directory. *)
The(where, what) ==
  IF \E g \in Gens : what[g] = where THEN CHOOSE g \in Gens : what[g] = where ELSE Nothing
LiveTests == The("contest", tests)
LiveMeta == The("contest", meta)

(* inspect_contest_metadata *)
MetadataHealth ==
  IF ~marker \/ LiveMeta = Nothing THEN "missing" ELSE health[LiveMeta]

(* inspect_tests_health, for a contest with samples or without. *)
TestsHealthy(samples) ==
  IF LiveTests = Nothing THEN ~samples ELSE samples /\ LiveTests \notin broken

(* validate_refresh_owned_tests reads every entry below the directory. *)
Owned(g) == g \notin unowned

HasSamples == op.gen \notin sampleless

Running == op.step \notin {"idle", "ended"}
At(step) == op.step = step
Goto(step) == op' = [op EXCEPT !.step = step]

(* The end of an operation: the staging directory goes, or is kept. *)
Dropped(what, where) ==
  [g \in Gens |-> IF what[g] \in {"staged", "previous"} THEN where ELSE what[g]]
End(outcome) ==
  LET where == CASE outcome = "kept" -> "kept" [] outcome = "killed" -> "left" [] OTHER -> "deleted"
  IN  /\ op' = [NoOp EXCEPT !.gen = op.gen, !.kind = op.kind, !.step = "ended",
                            !.outcome = outcome]
      /\ tests' = Dropped(tests, where)
      /\ meta' = Dropped(meta, where)
      /\ UNCHANGED <<marker, unowned, broken, health, sampleless>>

Trouble == troubles < MaxTroubles /\ troubles' = troubles + 1
Quiet == UNCHANGED <<started, troubles, history>>

-----------------------------------------------------------------------------
(* prepare_refresh, up to the fetch.  Without --force the marker must be   *)
(* there and the metadata of a supported version (resolve_refresh_         *)
(* contest_id); an explicit contest id allows missing or invalid metadata. *)
MayRefresh(force) == force \/ (marker /\ MetadataHealth # "unsupported")

StartRefresh(o, force) ==
  /\ ~Running
  /\ o \in Ops \ started
  /\ MayRefresh(force)
  /\ op' = [NoOp EXCEPT !.gen = o, !.step = "fetch", !.kind = "both", !.force = force,
                        !.basis = LiveMeta]
  /\ started' = started \cup {o}
  /\ sampleless' \in {sampleless, sampleless \cup {o}}
  /\ before' = [tests |-> LiveTests, meta |-> LiveMeta] /\ touched' = FALSE
  /\ UNCHANGED <<tests, meta, marker, unowned, broken, health, troubles, late, returned>>

(* plan_repair: with a healthy manifest only broken tests are restored;    *)
(* without one the manifest is, and the tests too when they do not match.  *)
(* Tests with an entry that is not owned are refused (preflight_tests_     *)
(* replacement).                                                           *)
RepairPlan(samples) ==
  CASE MetadataHealth = "unsupported" -> "none"
    [] MetadataHealth = "healthy" /\ TestsHealthy(samples) -> "none"
    [] MetadataHealth \in {"missing", "invalid"} /\ TestsHealthy(samples) -> "meta"
    [] OTHER -> IF LiveTests # Nothing /\ ~Owned(LiveTests) THEN "none"
                ELSE IF MetadataHealth = "healthy" THEN "tests" ELSE "both"

StartRepair(o, samples) ==
  /\ ~Running
  /\ o \in Ops \ started
  /\ MetadataHealth = "healthy" => samples = (LiveMeta \notin sampleless)
  /\ RepairPlan(samples) # "none"
  /\ op' = [NoOp EXCEPT !.gen = o, !.step = "fetch", !.kind = RepairPlan(samples),
                        !.repair = TRUE, !.force = TRUE,
                        !.basis = IF MetadataHealth = "healthy" THEN LiveMeta ELSE Nothing]
  /\ started' = started \cup {o}
  /\ sampleless' = IF samples THEN sampleless ELSE sampleless \cup {o}
  /\ before' = [tests |-> LiveTests, meta |-> LiveMeta] /\ touched' = FALSE
  /\ UNCHANGED <<tests, meta, marker, unowned, broken, health, troubles, late, returned>>

(* revalidate_prepared_destination: the bytes of the metadata are those    *)
(* read before the fetch.                                                  *)
MutantRefreshUnchanged == op.force \/ marker
RefreshUnchanged == (op.force \/ marker) /\ LiveMeta = op.basis

(* revalidate_repair_plan *)
MutantRepairUnchanged == MetadataHealth # "unsupported"
RepairUnchanged ==
  /\ IF op.basis # Nothing
     THEN LiveMeta = op.basis /\ MetadataHealth = "healthy"
     ELSE MetadataHealth \in {"missing", "invalid"}
  /\ TestsHealthy(HasSamples) <=> op.kind = "meta"
  /\ op.kind = "meta" \/ LiveTests = Nothing \/ Owned(LiveTests)

Unchanged == IF op.repair THEN RepairUnchanged ELSE RefreshUnchanged

(* The fetch ends and the staging directory is filled.  A refresh checks   *)
(* the destination before and after.                                       *)
Stage ==
  /\ At("fetch")
  /\ op.repair \/ Unchanged
  /\ Goto("prepared")
  /\ meta' = [meta EXCEPT ![op.gen] = "staged"]
  /\ tests' = [tests EXCEPT ![op.gen] =
                 IF op.kind = "meta" \/ ~HasSamples THEN "none" ELSE "staged"]
  /\ UNCHANGED <<marker, unowned, broken, health, sampleless>>
  /\ Quiet

FailFetch ==
  /\ At("fetch")
  /\ End("failed")
  /\ Quiet

(* The last check before the replacement: apply_refresh, or the end of     *)
(* repair_at.  In the TUI a refresh waits here until the session is down.  *)
Apply ==
  /\ At("prepared")
  /\ IF Unchanged THEN Goto("look") /\ UNCHANGED files ELSE End("failed")
  /\ before' = [tests |-> LiveTests, meta |-> LiveMeta]
  /\ touched' = FALSE
  /\ UNCHANGED <<started, troubles, late, returned>>

-----------------------------------------------------------------------------
(* replace_metadata_only, replace_tests_only and replace_refresh_data.     *)

(* validate_live_tests_manifest: only the repair of the tests leaves the   *)
(* manifest in place, and it must be the one the samples were fetched for. *)
ManifestUnchanged == MetadataHealth = "healthy" /\ LiveMeta = op.basis

AfterTests(p) ==
  IF p.kind = "tests" THEN "inspect"
  ELSE IF p.hadMeta THEN "moveMeta"
  ELSE IF p.hadMarker THEN "installMeta" ELSE "createMarker"
AfterBackup(p) ==
  IF p.kind = "tests" THEN "manifest" ELSE IF HasSamples THEN "installTests" ELSE AfterTests(p)

(* What is there, and whether it may be replaced. *)
MayReplace ==
  /\ marker \/ op.force
  /\ op.kind = "tests" => ManifestUnchanged
  /\ op.kind = "meta" \/ LiveTests = Nothing \/ Owned(LiveTests)

Look ==
  /\ At("look")
  /\ LET p == [op EXCEPT !.hadMarker = marker,
                         !.hadTests = op.kind # "meta" /\ LiveTests # Nothing,
                         !.hadMeta = op.kind # "tests" /\ marker /\ LiveMeta # Nothing]
         first == IF p.hadTests THEN "moveTests"
                  ELSE IF p.kind = "meta" THEN AfterTests(p) ELSE AfterBackup(p)
     IN  IF MayReplace THEN op' = [p EXCEPT !.step = first] /\ UNCHANGED files ELSE End("failed")
  /\ Quiet

(* Renames do not replace: the name must be free, and the source be there. *)
CanMove(what, from, to) == The(from, what) # Nothing /\ The(to, what) = Nothing
Moved(what, from, to) == [g \in Gens |-> IF what[g] = from THEN to ELSE what[g]]

(* A file operation that is possible happens or fails; one that is not     *)
(* fails.                                                                  *)
Attempt(possible, Succeeds, Fails) ==
  /\ \/ possible /\ Succeeds /\ UNCHANGED troubles
     \/ ~possible /\ Fails /\ UNCHANGED troubles
     \/ possible /\ Fails /\ Trouble
  /\ UNCHANGED <<started, before, touched, late>>

RenameTests(from, to) ==
  tests' = Moved(tests, from, to) /\ UNCHANGED <<meta, marker, unowned, broken, health, sampleless>>
RenameMeta(from, to) ==
  meta' = Moved(meta, from, to) /\ UNCHANGED <<tests, marker, unowned, broken, health, sampleless>>

(* What has been done is undone in this order: the metadata, the marker,   *)
(* the new tests, the old tests (rollback_tests).                          *)
UndoTests(p) ==
  IF p.moved THEN "undoTests" ELSE IF p.hadTests THEN "restoreTests" ELSE "giveUp"
UndoMarker(p) == IF p.made THEN "undoMarker" ELSE UndoTests(p)
UndoMeta(p) == IF p.hadMeta THEN "undoMeta" ELSE UndoMarker(p)
Undo(step) == Goto(step) /\ UNCHANGED files

MoveTests ==
  /\ At("moveTests")
  /\ Attempt(CanMove(tests, "contest", "previous"),
             Goto("validateMoved") /\ RenameTests("contest", "previous"), End("failed"))
  /\ UNCHANGED returned

(* The moved tests are inspected again, now that nobody expects them under *)
(* their old name.                                                         *)
ValidateMoved ==
  /\ At("validateMoved")
  /\ IF Owned(The("previous", tests)) THEN Goto(AfterBackup(op)) /\ UNCHANGED files
     ELSE Undo("restoreTests")
  /\ Quiet

CheckManifest ==
  /\ At("manifest")
  /\ IF ManifestUnchanged
     THEN Goto(IF HasSamples THEN "installTests" ELSE "inspect") /\ UNCHANGED files
     ELSE Undo(UndoTests(op))
  /\ Quiet

InstallTests ==
  /\ At("installTests")
  /\ Attempt(CanMove(tests, "staged", "contest"),
             /\ op' = [op EXCEPT !.step = AfterTests(op), !.moved = TRUE]
             /\ RenameTests("staged", "contest"),
             Undo(UndoTests(op)))
  /\ UNCHANGED returned

MoveMeta ==
  /\ At("moveMeta")
  /\ Attempt(marker /\ CanMove(meta, "contest", "previous"),
             Goto("installMeta") /\ RenameMeta("contest", "previous"),
             Undo(UndoTests(op)))
  /\ UNCHANGED returned

CreateMarker ==
  /\ At("createMarker")
  /\ Attempt(~marker,
             /\ op' = [op EXCEPT !.step = "installMeta", !.made = TRUE]
             /\ marker' = TRUE
             /\ UNCHANGED <<tests, meta, unowned, broken, health, sampleless>>,
             Undo(UndoTests(op)))
  /\ UNCHANGED returned

MutantInstallMeta ==
  /\ At("installMeta")
  /\ Attempt(marker /\ CanMove(meta, "staged", "contest"),
             Goto(IF op.kind = "both" THEN "inspect" ELSE "cleanup") /\ RenameMeta("staged", "contest"),
             Undo(UndoTests(op)))
  /\ UNCHANGED returned
InstallMeta ==
  /\ At("installMeta")
  /\ Attempt(marker /\ CanMove(meta, "staged", "contest"),
             Goto(IF op.kind = "both" THEN "inspect" ELSE "cleanup") /\ RenameMeta("staged", "contest"),
             Undo(UndoMeta(op)))
  /\ UNCHANGED returned

(* The new data is in place.  The repair of the tests looks once more at   *)
(* the manifest; the previous tests are inspected a last time.             *)
MutantInspect ==
  /\ At("inspect")
  /\ Goto("cleanup") /\ UNCHANGED files
  /\ Quiet
Inspect ==
  /\ At("inspect")
  /\ IF op.kind = "tests" /\ ~ManifestUnchanged
     THEN op' = [op EXCEPT !.step = UndoTests(op), !.keep = HasSamples] /\ UNCHANGED files
     ELSE IF op.hadTests /\ ~Owned(The("previous", tests)) THEN End("kept")
     ELSE Goto("cleanup") /\ UNCHANGED files
  /\ Quiet

(* The staging directory is removed, with the previous tests and metadata  *)
(* in it.                                                                  *)
Cleanup ==
  /\ At("cleanup")
  /\ LET ended == [op EXCEPT !.step = "confirm", !.outcome = "updated"]
     IN  IF op.repair
         THEN /\ op' = ended
              /\ tests' = Dropped(tests, "deleted") /\ meta' = Dropped(meta, "deleted")
              /\ UNCHANGED <<marker, unowned, broken, health, sampleless>>
         ELSE End("updated")
  /\ Quiet

(* A repair looks at what it left behind. *)
Confirm ==
  /\ At("confirm")
  /\ End(IF MetadataHealth = "healthy" /\ TestsHealthy(LiveMeta \notin sampleless)
         THEN "updated" ELSE "unhealthy")
  /\ Quiet

-----------------------------------------------------------------------------
UndoMetaStep ==
  /\ At("undoMeta")
  /\ Attempt(marker /\ CanMove(meta, "previous", "contest"),
             Goto(UndoMarker(op)) /\ RenameMeta("previous", "contest"),
             op' = [op EXCEPT !.step = UndoMarker(op), !.errors = TRUE] /\ UNCHANGED files)
  /\ UNCHANGED returned

(* Only an empty directory can be removed. *)
UndoMarkerStep ==
  /\ At("undoMarker")
  /\ Attempt(marker /\ LiveMeta = Nothing,
             /\ Goto(UndoTests(op)) /\ marker' = FALSE
             /\ UNCHANGED <<tests, meta, unowned, broken, health, sampleless>>,
             op' = [op EXCEPT !.step = UndoTests(op), !.errors = TRUE] /\ UNCHANGED files)
  /\ UNCHANGED returned

(* Whatever is under the name tests/ goes to the staging directory. *)
UndoTestsStep ==
  LET next == IF op.hadTests THEN "restoreTests" ELSE "giveUp"
  IN  /\ At("undoTests")
      /\ Attempt(CanMove(tests, "contest", "staged"),
                 Goto(next) /\ RenameTests("contest", "staged"),
                 op' = [op EXCEPT !.step = next, !.errors = TRUE] /\ UNCHANGED files)
      /\ returned' = IF op.kind = "both" /\ tests' # tests THEN returned \cup {LiveTests}
                     ELSE returned

RestoreTests ==
  /\ At("restoreTests")
  /\ Attempt(CanMove(tests, "previous", "contest"),
             Goto("giveUp") /\ RenameTests("previous", "contest"),
             op' = [op EXCEPT !.step = "giveUp", !.errors = TRUE] /\ UNCHANGED files)
  /\ UNCHANGED returned

(* refresh_update_error *)
MutantGiveUp ==
  /\ At("giveUp")
  /\ End("failed")
  /\ Quiet
GiveUp ==
  /\ At("giveUp")
  /\ End(IF op.errors \/ op.keep THEN "kept" ELSE "failed")
  /\ Quiet

Kill ==
  /\ Running /\ ~At("confirm")
  /\ Trouble
  /\ End("killed")
  /\ UNCHANGED <<started, history>>

-----------------------------------------------------------------------------
(* What another program may do.  It does not look into the staging         *)
(* directory, but what it has open there may still be the old tests.       *)
Meddle ==
  /\ Trouble
  /\ touched' = TRUE
  /\ UNCHANGED <<op, started, before, returned, sampleless>>

AddUnowned(g) ==
  /\ Meddle
  /\ tests[g] \in {"contest", "previous"}
  /\ g \notin unowned
  /\ unowned' = unowned \cup {g}
  /\ late' = IF At("cleanup") /\ tests[g] = "previous" THEN late \cup {g} ELSE late
  /\ UNCHANGED <<tests, meta, marker, broken, health>>

TakeUnownedOut ==
  /\ Meddle
  /\ LiveTests \in unowned
  /\ unowned' = unowned \ {LiveTests}
  /\ UNCHANGED <<tests, meta, marker, broken, health, late>>

BreakTests ==
  /\ Meddle
  /\ LiveTests # Nothing /\ LiveTests \notin broken
  /\ broken' = broken \cup {LiveTests}
  /\ UNCHANGED <<tests, meta, marker, unowned, health, late>>

RemoveTests ==
  /\ Meddle
  /\ LiveTests # Nothing
  /\ tests' = [tests EXCEPT ![LiveTests] = "removed"]
  /\ UNCHANGED <<meta, marker, unowned, broken, health, late>>

PutTests ==
  /\ Meddle
  /\ LiveTests = Nothing /\ tests[Hand] = "none"
  /\ tests' = [tests EXCEPT ![Hand] = "contest"]
  /\ unowned' \in {unowned, unowned \cup {Hand}}
  /\ UNCHANGED <<meta, marker, broken, health, late>>

RemoveMarker ==
  /\ Meddle
  /\ marker
  /\ marker' = FALSE
  /\ meta' = Moved(meta, "contest", "removed")
  /\ UNCHANGED <<tests, unowned, broken, health, late>>

PutMeta ==
  /\ Meddle
  /\ meta[Hand] = "none"
  /\ marker' = TRUE
  /\ meta' = [Moved(meta, "contest", "removed") EXCEPT ![Hand] = "contest"]
  /\ \E h \in {"healthy", "invalid", "unsupported"} : health' = [health EXCEPT ![Hand] = h]
  /\ UNCHANGED <<tests, unowned, broken, late>>

Next ==
  \/ \E o \in Ops, force \in BOOLEAN : StartRefresh(o, force)
  \/ \E o \in Ops, samples \in BOOLEAN : StartRepair(o, samples)
  \/ Stage \/ FailFetch \/ Apply \/ Look
  \/ MoveTests \/ ValidateMoved \/ CheckManifest \/ InstallTests
  \/ MoveMeta \/ CreateMarker \/ InstallMeta \/ Inspect \/ Cleanup \/ Confirm
  \/ UndoMetaStep \/ UndoMarkerStep \/ UndoTestsStep \/ RestoreTests \/ GiveUp
  \/ Kill
  \/ \E g \in Gens : AddUnowned(g)
  \/ TakeUnownedOut \/ BreakTests \/ RemoveTests \/ PutTests \/ RemoveMarker \/ PutMeta

Spec == Init /\ [][Next]_vars

-----------------------------------------------------------------------------
RefreshTypeOK ==
  /\ tests \in [Gens -> Places] /\ meta \in [Gens -> Places]
  /\ marker \in BOOLEAN
  /\ unowned \subseteq Gens /\ broken \subseteq Gens /\ sampleless \subseteq Gens
  /\ health \in [Gens -> {"healthy", "invalid", "unsupported"}]
  /\ op \in [gen : Ops \cup {Nothing}, step : Steps, kind : Kinds, repair : BOOLEAN,
             force : BOOLEAN, basis : Gens \cup {Nothing}, hadMarker : BOOLEAN,
             hadTests : BOOLEAN, hadMeta : BOOLEAN, made : BOOLEAN, moved : BOOLEAN,
             errors : BOOLEAN, keep : BOOLEAN, outcome : Outcomes]
  /\ started \subseteq Ops
  /\ troubles \in 0..MaxTroubles
  /\ before \in [tests : Gens \cup {Nothing}, meta : Gens \cup {Nothing}]
  /\ touched \in BOOLEAN /\ late \subseteq Gens /\ returned \subseteq Gens

(* An operation that reports success has put the tests and the metadata it *)
(* was to replace in place, both; one that fails without keeping its       *)
(* staging directory has left both as it found them, whichever rename      *)
(* failed.  Nobody else changed the files meanwhile.                       *)
AllOrNothing ==
  At("ended") /\ ~touched =>
    /\ op.outcome = "updated" =>
         /\ LiveTests = IF op.kind = "meta" THEN before.tests
                        ELSE IF HasSamples THEN op.gen ELSE Nothing
         /\ LiveMeta = IF op.kind = "tests" THEN before.meta ELSE op.gen
    /\ op.outcome = "failed" => LiveTests = before.tests /\ LiveMeta = before.meta
    /\ op.outcome # "unhealthy"

(* Until the new data is in place, the data found at the start is still    *)
(* somewhere: in the contest directory or in a staging directory that      *)
(* stays, whatever fails, is killed or is changed by another program.      *)
OldDataSurvives ==
  op.outcome \notin {"updated", "unhealthy"} =>
    \A g \in Gens : /\ g = before.tests => tests[g] # "deleted"
                    /\ g = before.meta => meta[g] # "deleted"

(* docs/workspace.md: what atc does not own under tests/ is not deleted,   *)
(* unless it came after the last inspection, or went with new tests that a *)
(* rollback took out of the contest again.                                 *)
UnownedSurvives ==
  \A g \in unowned : tests[g] = "deleted" => g \in late \cup returned

(* An operation puts aside only what it was planned for.  A refresh moves  *)
(* the metadata it was prepared from, although the fetch takes long and    *)
(* the TUI stops its session in between; a repair moves only metadata that *)
(* is invalid and tests that do not match.                                 *)
PutsAsidePlannedOnly ==
  [][ ~touched /\ Running =>
        /\ \A g \in Gens : meta[g] = "contest" /\ meta'[g] = "previous" =>
             IF op.repair THEN health[g] = "invalid" ELSE g = op.basis
        /\ \A g \in Gens : tests[g] = "contest" /\ tests'[g] = "previous" =>
             g \notin unowned /\ (op.repair => ~TestsHealthy(HasSamples)) ]_vars

=============================================================================
