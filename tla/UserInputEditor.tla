--------------------------- MODULE UserInputEditor ---------------------------
(***************************************************************************)
(* The user inputs of one problem on the screen (src/tui/app.rs,           *)
(* app/user_input_run.rs, app/user_input_delete.rs and the handlers of     *)
(* src/tui/mod.rs): the list that was loaded, the one edit, the runs and   *)
(* their results, over a directory that other processes and editors change *)
(* at any time.  A call of the store (src/user_input.rs) is one step here, *)
(* with the outcomes UserInputStore is checked for; a handler that makes   *)
(* two calls makes two steps, and others come between them.                *)
(*                                                                         *)
(* Cursor, folds, scrolling and the wording of notices are left out.       *)
(***************************************************************************)
EXTENDS Integers, FiniteSets

CONSTANTS
  Texts,        \* contents of an input, compared for equality only
  Empty,        \* the content a draft starts with
  Absent,       \* no file, no row, no text
  Draft,        \* the row of a new input
  Other,        \* any selection but a user input, and the target of no edit
  MaxId,        \* largest id; the store refuses to create beyond it
  MaxChanges,   \* bound on what others do to the files
  MaxTroubles   \* bound on calls of the store that fail

ASSUME EditorAssumption ==
  /\ Empty \in Texts /\ Absent \notin Texts
  /\ Draft # Other /\ {Draft, Other} \cap Nat = {}
  /\ MaxId \in Nat \ {0} /\ MaxChanges \in Nat /\ MaxTroubles \in Nat

VARIABLES
  disk,      \* the content of each file
  nextId,    \* next_id of the metadata file
  cache,     \* UserInputReadyState.persisted: the rows of the list
  edit,      \* UserInputReadyState.edit
  selected,  \* the selected row of this problem, Other for anything else
  here,      \* this problem is the selected one
  runs,      \* the run shown for each row
  source,    \* a source is selected
  call,      \* the handler between two calls of the store
  changes, troubles,   \* counters
  shown,     \* history: the content the user was last told his edit is based on
  mine,      \* history: files the present edit has created and nobody touched
  taken      \* history: the row the present edit was moved to with the run it had,
             \* and where nothing was typed since

files == <<disk, nextId>>
editorHistory == <<shown, mine, taken>>
view == <<selected, here>>
editorVars == <<files, cache, edit, view, runs, source, call,
          changes, troubles, editorHistory>>

Ids == 1 .. MaxId
InputRows == Ids \cup {Draft}
MaybeTexts == Texts \cup {Absent}

NoEdit == [target |-> Other, buffer |-> Absent, installed |-> 0, back |-> Absent]
NoRun == [status |-> "none", input |-> Absent]
NoCall == [step |-> "none", id |-> 0]

EditorInit ==
  /\ disk \in [Ids -> MaybeTexts]
  /\ nextId \in 1 .. MaxId + 1
  /\ \A i \in Ids : disk[i] # Absent => i < nextId
  /\ cache = disk
  /\ edit = NoEdit
  /\ selected = Other /\ here = TRUE
  /\ runs = [r \in InputRows |-> NoRun]
  /\ source = TRUE
  /\ call = NoCall
  /\ changes = 0 /\ troubles = 0
  /\ shown = Absent /\ mine = {} /\ taken = 0

-----------------------------------------------------------------------------
Present(list) == {i \in Ids : list[i] # Absent}

(* effective_next_id *)
EffectiveNext ==
  CHOOSE n \in 1 .. MaxId + 1 :
    /\ n >= nextId /\ \A i \in Present(disk) : n > i
    /\ n = nextId \/ n - 1 \in Present(disk)

(* selected_user_input_edit: the edit on the screen. *)
EditorActive == here /\ edit.target # Other /\ selected = edit.target

(* run_content: the text the user sees in a row. *)
TextOf(row, list, e) ==
  IF e.target = row THEN e.buffer ELSE IF row = Draft THEN Absent ELSE list[row]

Selectable(list, e) ==
  {Other} \cup Present(list) \cup (IF e.target = Draft THEN {Draft} ELSE {})

(* first_case_selection: a sample, or the first row when there is none. *)
FirstSelection(list, e) ==
  {Other} \cup {i \in Present(list) : \A j \in Present(list) : i <= j}
            \cup {r \in {Draft} : e.target = Draft /\ Present(list) = {}}

(* reconcile_user_input_selection: a row that went away leaves its place   *)
(* to the row that now has its position, or to the last one.               *)
Before(list, i) == Cardinality({j \in Present(list) : j < i})
Fallback(list, e, i) ==
  IF Present(list) = {} THEN FirstSelection(list, e)
  ELSE {j \in Present(list) :
          Before(list, j) = IF Before(cache, i) < Cardinality(Present(list))
                            THEN Before(cache, i) ELSE Cardinality(Present(list)) - 1}
ReselectRow(list) ==
  IF selected \in Ids /\ list[selected] = Absent /\ here
  THEN selected' \in Fallback(list, edit, selected) ELSE UNCHANGED selected

(* replace_persisted: a run stays only with the content it was made for. *)
RunsFor(list) ==
  [r \in InputRows |-> IF r = Draft \/ (cache[r] # Absent /\ list[r] = cache[r])
                  THEN runs[r] ELSE NoRun]
Dropping(rs, row) == [rs EXCEPT ![row] = NoRun]

Idle == call = NoCall
Trouble == troubles < MaxTroubles /\ troubles' = troubles + 1
Ours == UNCHANGED <<changes, source>>

(* enqueue_user_input_snapshot: every other active run is retired; without *)
(* a source the row shows a failure.  A run that was retired or failed has *)
(* no output: here it is no run.                                           *)
Retired(rs) == [r \in InputRows |-> IF rs[r].status = "active" THEN NoRun ELSE rs[r]]
Enqueue(rs, row, text) ==
  runs' = IF source THEN [Retired(rs) EXCEPT ![row] = [status |-> "active", input |-> text]]
          ELSE Dropping(rs, row)


-----------------------------------------------------------------------------
(* sync_user_inputs_for_problem, reconcile_user_input_sync: never while    *)
(* there is an edit.  What a failed load leaves is shown with a notice.    *)
MayReload == edit = NoEdit

EnterProblem ==
  /\ Idle /\ ~here /\ here' = TRUE
  /\ \/ /\ MayReload /\ cache' = disk /\ runs' = RunsFor(disk)
        /\ selected' \in FirstSelection(disk, edit)
                         \cup (FirstSelection(cache, edit) \cap Present(disk))
        /\ UNCHANGED troubles
     \/ /\ UNCHANGED <<cache, runs>>
        /\ selected' \in FirstSelection(cache, edit)
        /\ IF MayReload THEN Trouble ELSE UNCHANGED troubles
  /\ Ours /\ UNCHANGED <<files, edit, call, editorHistory>>

LeaveProblem ==
  /\ Idle /\ here /\ here' = FALSE
  /\ selected' = Other
  /\ Ours /\ UNCHANGED <<runs, files, cache, edit, call, troubles, editorHistory>>

Select(row) ==
  /\ Idle /\ here /\ row # selected
  /\ row \in Selectable(cache, edit)
  /\ selected' = row
  /\ Ours /\ UNCHANGED <<runs, files, cache, edit, here, call, troubles, editorHistory>>

(* begin_new_user_input: an open draft is shown again, an edit of a saved  *)
(* input is never given up for a draft.                                    *)
NewInput ==
  /\ Idle /\ here
  /\ edit.target \in {Other, Draft}
  /\ selected' = Draft
  /\ IF edit = NoEdit
     THEN /\ edit' = [target |-> Draft, buffer |-> Empty, installed |-> 0,
                     back |-> selected]
          /\ runs' = Dropping(runs, Draft)
          /\ shown' = Absent /\ mine' = {} /\ taken' = 0
     ELSE UNCHANGED <<edit, runs, editorHistory>>
  /\ Ours /\ UNCHANGED <<files, cache, here, call, troubles>>

(* sync_selected_user_input_before_edit: the edit starts on what was just  *)
(* loaded, and not at all when the load failed or the row went away.       *)
BeginEdit ==
  /\ Idle /\ here /\ selected \in Ids /\ MayReload
  /\ \/ /\ cache' = disk /\ runs' = RunsFor(disk)
        /\ ReselectRow(disk)
        /\ IF disk[selected] # Absent
           THEN /\ edit' = [target |-> selected, buffer |-> disk[selected], installed |-> 0,
                            back |-> Absent]
                /\ shown' = disk[selected] /\ mine' = {} /\ taken' = 0
           ELSE UNCHANGED <<edit, editorHistory>>
        /\ UNCHANGED troubles
     \/ Trouble /\ UNCHANGED <<cache, runs, selected, edit, editorHistory>>
  /\ Ours /\ UNCHANGED <<files, here, call>>

(* edit_user_input_insert, backspace, delete: the result of the row goes   *)
(* with the text it was for.                                               *)
MutantType(text) ==
  /\ Idle /\ EditorActive /\ text # edit.buffer
  /\ edit' = [edit EXCEPT !.buffer = text] /\ taken' = 0
  /\ Ours /\ UNCHANGED <<runs, files, cache, view, call, troubles, shown, mine>>
Type(text) ==
  /\ Idle /\ EditorActive /\ text # edit.buffer
  /\ edit' = [edit EXCEPT !.buffer = text] /\ taken' = 0
  /\ runs' = Dropping(runs, selected)
  /\ Ours /\ UNCHANGED <<files, cache, view, call, troubles, shown, mine>>

(* cancel_user_input_edit; a cancelled draft returns to the row selected   *)
(* before it (selection_before_draft), if that is still there.             *)
CancelEdit ==
  /\ Idle /\ EditorActive
  /\ edit' = NoEdit
  /\ IF edit.target = Draft
     THEN /\ selected' \in IF edit.back \in Selectable(cache, NoEdit) THEN {edit.back}
                           ELSE FirstSelection(cache, NoEdit)
          /\ runs' = Dropping(runs, Draft)
     ELSE /\ runs' = IF edit.buffer # cache[edit.target]
                     THEN Dropping(runs, edit.target) ELSE runs
          /\ UNCHANGED selected
  /\ shown' = Absent /\ mine' = {} /\ taken' = 0
  /\ Ours /\ UNCHANGED <<files, cache, here, call, troubles>>

-----------------------------------------------------------------------------
(* complete_draft_user_input_save, complete_persisted_user_input_save: the *)
(* edit ends on row i of the list, and what was saved is run.              *)
Complete(list, rs, i) ==
  /\ cache' = list
  /\ edit' = NoEdit
  /\ selected' = i
  /\ Enqueue(Dropping(rs, Draft), i, edit.buffer)
  /\ call' = NoCall
  /\ shown' = Absent /\ mine' = {} /\ taken' = 0

KeepEdit == UNCHANGED <<cache, edit, selected, runs, shown, taken>>

(* create_user_input_with_outcome.  A draft that may be installed already  *)
(* is not saved again.                                                     *)
MutantMayCreate == TRUE
MayCreate == edit.installed = 0

Creates(n) ==
  /\ disk' = [disk EXCEPT ![n] = edit.buffer]
  /\ nextId' = n + 1

SaveDraft ==
  /\ Idle /\ EditorActive /\ edit.target = Draft /\ MayCreate
  /\ LET n == EffectiveNext
     IN  \/ /\ n <= MaxId /\ Creates(n)
            /\ UNCHANGED troubles
            /\ IF cache[n] = Absent
               THEN Complete([cache EXCEPT ![n] = edit.buffer], runs, n)
               ELSE /\ edit' = [edit EXCEPT !.installed = n]
                    /\ mine' = mine \cup {n}
                    /\ UNCHANGED <<cache, selected, runs, call, shown, taken>>
         \/ /\ n <= MaxId /\ Creates(n)     \* AfterInstall
            /\ Trouble
            /\ call' = [step |-> "created", id |-> n]
            /\ mine' = mine \cup {n}
            /\ KeepEdit
         \/ /\ n <= MaxId /\ Trouble        \* BeforeInstall
            /\ nextId' \in {nextId, n + 1}
            /\ KeepEdit /\ UNCHANGED <<disk, call, mine>>
  /\ Ours /\ UNCHANGED here

(* reconcile_draft_create_after_install *)
ReloadCreated ==
  LET i == call.id IN
  /\ call.step = "created"
  /\ \/ /\ disk[i] = edit.buffer
        /\ Complete(disk, RunsFor(disk), i)
        /\ UNCHANGED troubles
     \/ /\ disk[i] \notin {edit.buffer, Absent}
        /\ cache' = disk /\ runs' = Dropping(RunsFor(disk), Draft)
        /\ edit' = [edit EXCEPT !.target = i, !.installed = 0, !.back = Absent]
        /\ selected' = i /\ shown' = disk[i] /\ taken' = i
        /\ call' = NoCall
        /\ UNCHANGED <<troubles, mine>>
     \/ /\ edit' = [edit EXCEPT !.installed = i]
        /\ call' = NoCall
        /\ IF disk[i] = Absent THEN UNCHANGED troubles ELSE Trouble
        /\ UNCHANGED <<cache, selected, runs, editorHistory>>
  /\ Ours /\ UNCHANGED <<files, here>>

(* save_user_input_if_unchanged on the content of the row. *)
Expected(i) == disk[i] = cache[i]

SavePersisted ==
  LET i == edit.target
      await(step) == call' = [step |-> step, id |-> i] /\ KeepEdit /\ UNCHANGED mine
      written == disk' = [disk EXCEPT ![i] = edit.buffer] /\ nextId' = EffectiveNext
  IN
  /\ Idle /\ EditorActive /\ i \in Ids
  /\ \/ /\ disk[i] # Absent /\ Expected(i)
        /\ IF edit.buffer = cache[i] THEN UNCHANGED files ELSE written
        /\ Complete([cache EXCEPT ![i] = edit.buffer], runs, i)
        /\ UNCHANGED troubles
     \/ /\ disk[i] = Absent /\ await("missing")
        /\ UNCHANGED <<files, troubles>>
     \/ /\ disk[i] # Absent /\ ~Expected(i) /\ await("conflict")
        /\ UNCHANGED <<files, troubles>>
     \/ /\ Trouble /\ await("error")
        /\ \/ UNCHANGED files
           \/ disk[i] # Absent /\ Expected(i) /\ written
  /\ Ours /\ UNCHANGED here

(* reconcile_missing_persisted_user_input_save_failure *)
RecoverDraft(list) ==
  /\ cache' = list
  /\ runs' = Dropping(RunsFor(list), Draft)
  /\ edit' = [edit EXCEPT !.target = Draft, !.installed = 0, !.back = Absent]
  /\ selected' = Draft
  /\ shown' = Absent /\ taken' = 0

(* reconcile_persisted_save_failure *)
ReloadAfterSave ==
  LET i == call.id
      without == [cache EXCEPT ![i] = Absent]
  IN
  /\ call.step \in {"missing", "conflict", "error"}
  /\ \/ /\ call.step = "error" /\ disk[i] = edit.buffer
        /\ Complete(disk, RunsFor(disk), i)
        /\ UNCHANGED troubles
     \/ /\ disk[i] # Absent /\ ~(call.step = "error" /\ disk[i] = edit.buffer)
        /\ cache' = disk /\ runs' = RunsFor(disk)
        /\ shown' = disk[i]
        /\ call' = NoCall
        /\ UNCHANGED <<edit, selected, troubles, mine, taken>>
     \/ /\ disk[i] = Absent /\ RecoverDraft(disk)
        /\ call' = NoCall /\ UNCHANGED <<troubles, mine>>
     \/ /\ Trouble /\ call' = NoCall /\ UNCHANGED mine
        /\ IF call.step = "missing" THEN RecoverDraft(without) ELSE KeepEdit
  /\ Ours /\ UNCHANGED <<files, here>>

-----------------------------------------------------------------------------
(* click_user_input_delete.  The first click only arms the row, and any    *)
(* other key or click disarms it; the two clicks are one step here.        *)
Deletable(i) == cache[i] # Absent /\ edit.target # i

(* complete_user_input_delete after a success. *)
Deleted(i) ==
  LET list == [cache EXCEPT ![i] = Absent]
  IN  cache' = list /\ runs' = Dropping(runs, i) /\ ReselectRow(list)
NotDeleted == UNCHANGED <<cache, runs, selected>>

Removes(i) ==
  /\ disk' = [disk EXCEPT ![i] = Absent]
  /\ nextId' = EffectiveNext
  /\ mine' = mine \ {i}

Delete(i) ==
  /\ Idle /\ here /\ Deletable(i)
  /\ \/ /\ disk[i] # Absent /\ Removes(i) /\ Deleted(i)
        /\ UNCHANGED <<call, troubles>>
     \/ /\ disk[i] = Absent
        /\ call' = [step |-> "notFound", id |-> i]
        /\ NotDeleted /\ UNCHANGED <<files, troubles, mine>>
     \/ /\ Trouble /\ NotDeleted /\ UNCHANGED call
        /\ \/ disk[i] # Absent /\ Removes(i)
           \/ UNCHANGED <<files, mine>>
  /\ Ours /\ UNCHANGED <<edit, here, shown, taken>>

(* NotFound counts as deleted only when a load shows the row gone. *)
ReloadAfterDelete ==
  /\ call.step = "notFound"
  /\ call' = NoCall
  /\ \/ /\ IF disk[call.id] = Absent THEN Deleted(call.id) ELSE NotDeleted
        /\ UNCHANGED troubles
     \/ Trouble /\ NotDeleted
  /\ Ours /\ UNCHANGED <<files, edit, here, editorHistory>>

-----------------------------------------------------------------------------
(* run_selected_user_input on an edit runs its text as it is, *)
RunEdit ==
  /\ Idle /\ EditorActive
  /\ Enqueue(runs, selected, edit.buffer)
  /\ Ours /\ UNCHANGED <<files, cache, edit, view, call, troubles, editorHistory>>

(* and on a row what is on the disk; refresh_user_input_run_target loads   *)
(* this row only, the other rows being what an edit is based on.           *)
MutantRefreshed(i) == disk
Refreshed(i) == [cache EXCEPT ![i] = disk[i]]

RunRow ==
  /\ Idle /\ here /\ selected \in Ids /\ ~EditorActive
  /\ \/ /\ disk[selected] # Absent
        /\ cache' = Refreshed(selected)
        /\ Enqueue(runs, selected, disk[selected])
        /\ UNCHANGED <<selected, troubles>>
     \/ /\ disk[selected] = Absent
        /\ cache' = Refreshed(selected)
        /\ runs' = Dropping(runs, selected)
        /\ ReselectRow(cache')
        /\ UNCHANGED troubles
     \/ Trouble /\ UNCHANGED <<runs, cache, selected>>
  /\ Ours /\ UNCHANGED <<files, edit, here, call, editorHistory>>

(* A result is shown when its run is the last one of its row, still active *)
(* and made for the text the row has now (current_user_input_run_mut).  A  *)
(* run identifier is given out once: any other result finds no run, and    *)
(* changes nothing.                                                        *)
Applies(row) ==
  runs[row].status = "active" /\ TextOf(row, cache, edit) = runs[row].input

FinishRun(row) ==
  /\ Idle
  /\ Applies(row)
  /\ runs' = [runs EXCEPT ![row].status = "done"]
  /\ Ours
  /\ UNCHANGED <<files, cache, edit, view, call, troubles, editorHistory>>

(* retire_user_input_runs: another job was started. *)
StartOther ==
  /\ Idle
  /\ \E r \in InputRows : runs[r].status = "active"
  /\ runs' = Retired(runs)
  /\ Ours
  /\ UNCHANGED <<files, cache, edit, view, call, troubles, editorHistory>>

(* set_source after a notification takes the screen to this problem unless *)
(* an edit is on it; source_removed leaves the screen alone.               *)
SourceChanged ==
  /\ Idle
  /\ source' = TRUE
  /\ runs' = [r \in InputRows |-> NoRun]
  /\ IF EditorActive THEN UNCHANGED view
     ELSE here' = TRUE /\ selected' \in FirstSelection(cache, edit)
  /\ UNCHANGED <<files, cache, edit, call, changes, troubles, editorHistory>>

SourceRemoved ==
  /\ Idle
  /\ source /\ source' = FALSE
  /\ runs' = [r \in InputRows |-> NoRun]
  /\ UNCHANGED <<files, cache, edit, view, call, changes, troubles, editorHistory>>

-----------------------------------------------------------------------------
(* What other processes and editors do, also between two calls. *)
OthersChange(i) ==
  /\ changes < MaxChanges /\ changes' = changes + 1
  /\ mine' = mine \ {i}
  /\ UNCHANGED <<cache, edit, view, runs, source, call, troubles, shown, taken>>

OthersCreate(text) ==
  /\ EffectiveNext <= MaxId
  /\ disk' = [disk EXCEPT ![EffectiveNext] = text]
  /\ nextId' = EffectiveNext + 1
  /\ OthersChange(EffectiveNext)

OthersWrite(i, text) ==
  /\ disk[i] # Absent /\ text # disk[i]
  /\ disk' = [disk EXCEPT ![i] = text]
  /\ OthersChange(i)
  /\ UNCHANGED nextId

OthersRemove(i) ==
  /\ disk[i] # Absent
  /\ disk' = [disk EXCEPT ![i] = Absent]
  /\ OthersChange(i)
  /\ UNCHANGED nextId

(* By hand: a file comes back, or comes under an id nobody gave out. *)
OthersPut(i, text) ==
  /\ disk[i] = Absent
  /\ disk' = [disk EXCEPT ![i] = text]
  /\ OthersChange(i)
  /\ UNCHANGED nextId

EditorNext ==
  \/ EnterProblem \/ LeaveProblem
  \/ \E row \in InputRows \cup {Other} : Select(row)
  \/ NewInput \/ BeginEdit \/ CancelEdit
  \/ \E text \in Texts : Type(text)
  \/ SaveDraft \/ ReloadCreated \/ SavePersisted \/ ReloadAfterSave
  \/ \E i \in Ids : Delete(i)
  \/ ReloadAfterDelete
  \/ RunEdit \/ RunRow
  \/ \E row \in InputRows : FinishRun(row)
  \/ StartOther \/ SourceChanged \/ SourceRemoved
  \/ \E text \in Texts : OthersCreate(text)
  \/ \E i \in Ids : OthersRemove(i)
  \/ \E i \in Ids, text \in Texts : OthersWrite(i, text) \/ OthersPut(i, text)

EditorSpec == EditorInit /\ [][EditorNext]_editorVars

-----------------------------------------------------------------------------
EditorTypeOK ==
  /\ disk \in [Ids -> MaybeTexts] /\ nextId \in 1 .. MaxId + 1
  /\ cache \in [Ids -> MaybeTexts]
  /\ edit \in [target : InputRows \cup {Other}, buffer : MaybeTexts, installed : {0} \cup Ids,
               back : Ids \cup {Other, Absent}]
  /\ selected \in Selectable(cache, edit) /\ here \in BOOLEAN
  /\ runs \in [InputRows -> [status : {"none", "active", "done"}, input : MaybeTexts]]
  /\ source \in BOOLEAN
  /\ call \in [step : {"none", "created", "missing", "conflict", "error", "notFound"},
               id : {0} \cup Ids]
  /\ changes \in 0 .. MaxChanges /\ troubles \in 0 .. MaxTroubles
  /\ shown \in MaybeTexts /\ mine \subseteq Ids /\ taken \in {0} \cup Ids

(* "Automatic sync must never advance the persisted content used as an     *)
(* active edit's Save baseline" (app.rs:1465): what a save of an edit      *)
(* would overwrite is what the user opened, or what the answer to his last *)
(* save told him, although rows are loaded, removed and run around it.     *)
(* The row is there (the expect of edit_is_dirty).                         *)
BaselineIsWhatWasShown ==
  edit.target \in Ids => shown # Absent /\ cache[edit.target] = shown

(* The text of an edit goes away with Cancel, with typing, or into a file: *)
(* no reload, conflict, recovery or deletion takes it.  And it goes into   *)
(* one file: as long as a file this edit has created is there untouched,   *)
(* no save creates another.                                                *)
TextEndsInOneFile ==
  [][/\ edit # NoEdit /\ edit'.buffer # edit.buffer
          => CancelEdit \/ (\E text \in Texts : Type(text)) \/ \E i \in Ids : disk'[i] = edit.buffer
     /\ changes' = changes /\ (\E i \in Ids : disk[i] = Absent /\ disk'[i] # Absent)
          => mine = {}]_editorVars

(* The output shown under a text is the output for that text, whatever was *)
(* typed, saved, loaded, deleted or run again since it was asked for.  One *)
(* case is left out: a draft whose install met a conflict is moved to the  *)
(* row of its id (reconcile_draft_user_input_install_conflict), and if the *)
(* list had that row, with this content and a result, replace_persisted    *)
(* keeps the result; until a key is typed it stands under the draft's text.*)
ResultIsForTheText ==
  \A r \in InputRows : runs[r].status = "done" =>
    \/ runs[r].input = TextOf(r, cache, edit)
    \/ r = taken /\ r = edit.target /\ runs[r].input = cache[r]

(* What the screen says of an input is true: the file a save would         *)
(* overwrite has been shown, and the output belongs to the text above it.  *)
ShownIsTrue == BaselineIsWhatWasShown /\ ResultIsForTheText
=============================================================================
