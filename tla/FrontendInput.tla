---------------------------- MODULE FrontendInput ----------------------------
(****************************************************************************)
(* How one session of the terminal frontend routes its input               *)
(* (src/tui/mod.rs: run, handle_terminal_events and the controllers of the *)
(* modals).  Events arrive in batches.  Before a batch is dispatched the   *)
(* loop simulates it without touching anything, to see whether it ends in  *)
(* a `q` that quits: then the program quits at once, ahead of every redraw *)
(* and every other event.  The simulation and the dispatch are two pieces  *)
(* of code over the same layers (help, modals, palette, editor, base), and *)
(* the hard part is that they have to agree.                               *)
(*                                                                          *)
(* What an event does to the data of a layer (text, rows, scroll, the mouse *)
(* geometry) is left out; which layer takes it, and which layer is there    *)
(* afterwards, is kept.                                                     *)
(****************************************************************************)
EXTENDS Naturals, Sequences, FiniteSets, SequencesExt

CONSTANTS
    WorkspaceAvailable,   \* the contest is inside a workspace
    BatchBound            \* bound: events of one batch (64 in the code)

ASSUME InputAssumption == /\ WorkspaceAvailable \in BOOLEAN
                          /\ BatchBound \in Nat \ {0}

VARIABLES
    ui,      \* the layers of the session and what its user input edits are
    batch,   \* the delivered events not dispatched yet
    mode,    \* "loop": at the checks of run; "dispatch": inside a batch; "done"
    exit     \* the SessionExit, "none" while the session runs

vars == <<ui, batch, mode, exit>>

\* The rows of the command palette the frontend's layers depend on; "other"
\* stands for the actions that open nothing.
Rows == <<"other", "submit", "source", "template", "refresh", "switch", "home">>
RowSet == {Rows[i] : i \in DOMAIN Rows}

\* KeyCodes: q, Escape (pressed, repeated), Enter, ?, :, c, t, a navigation key,
\* Ctrl-S, any other character; then a pointer press and a resize.
KeyCodes == {"q", "esc", "escRepeat", "enter", "help", "colon", "c", "t",
         "nav", "save", "char"}
Events == KeyCodes \cup {"click", "resize"}

\* read_terminal_events ends a batch at a pressed q.
Batches ==
    {b \in UNION {[1..n -> Events] : n \in 1..BatchBound} :
        \A i \in DOMAIN b : b[i] = "q" => i = Len(b)}

\* "here": the selected row is being edited (user_input_editor_active);
\* "aside": another row or problem holds an edit.
UIStates ==
    [help : BOOLEAN, refresh : {"none", "running", "failed"},
     switch : {"none", "input", "running", "failed"},
     submit : BOOLEAN, source : BOOLEAN, template : BOOLEAN,
     palette : {"closed", "nomatch"} \cup RowSet,
     edits : SUBSET {"here", "aside"},
     discard : BOOLEAN, home : BOOLEAN, quit : BOOLEAN]

\* The session starts without edits; a refresh that failed to apply shows
\* its error in the session that follows it.
Init ==
    /\ \E r \in {"none", "failed"} :
         ui = [help |-> FALSE, refresh |-> r, switch |-> "none",
               submit |-> FALSE, source |-> FALSE, template |-> FALSE,
               palette |-> "closed", edits |-> {},
               discard |-> FALSE, home |-> FALSE, quit |-> FALSE]
    /\ batch = << >>
    /\ mode = "loop"
    /\ exit = "none"

(****************************************************************************)
(* Actions of the frontend (FrontendAction)                                 *)
(****************************************************************************)

\* FrontendAction::availability, for a session with a selected problem.
Available(u, action) ==
    CASE action = "refresh"             -> u.edits = {}
      [] action \in {"switch", "home"}  -> WorkspaceAvailable
      [] OTHER                          -> TRUE

\* RefreshContestController::start: refused while an edit exists; starting
\* the thread may fail.
StartRefresh(u) ==
    IF u.edits # {} THEN {[u EXCEPT !.refresh = "failed"]}
    ELSE {[u EXCEPT !.refresh = r] : r \in {"running", "failed"}}

\* execute_frontend_action.
Execute(u, action) ==
    CASE action = "refresh"  -> StartRefresh(u)
      [] action = "switch"   -> IF WorkspaceAvailable
                                THEN {[u EXCEPT !.switch = "input"]} ELSE {u}
      [] action = "home"     -> {[u EXCEPT !.home = TRUE]}
      [] action = "source"   -> {[u EXCEPT !.source = TRUE, !.submit = FALSE,
                                          !.template = FALSE]}
      [] action = "submit"   -> {[u EXCEPT !.submit = TRUE, !.source = FALSE,
                                          !.template = FALSE]}
      [] action = "template" -> {[u EXCEPT !.template = TRUE, !.source = FALSE,
                                          !.submit = FALSE]}
      [] action = "other"    -> {u}

(****************************************************************************)
(* The keys of each layer                                                   *)
(****************************************************************************)

\* RefreshContestController::handle_key.
RefreshKey(u, key) ==
    CASE u.refresh = "failed" /\ key = "enter" -> StartRefresh(u)
      [] u.refresh = "failed" /\ key = "esc"   -> {[u EXCEPT !.refresh = "none"]}
      [] OTHER                                 -> {u}

\* ContestOpenController::handle_key.  Enter may close the modal (the current
\* contest), start the operation, fail to start it, or only show a changed
\* resolution; typing resumes editing after a failure.
SwitchKey(u, key) ==
    CASE u.switch = "running" -> {u}
      [] u.switch # "running" /\ key = "esc" -> {[u EXCEPT !.switch = "none"]}
      [] u.switch # "running" /\ key = "enter" ->
            {[u EXCEPT !.switch = s] : s \in {"none", "input", "running", "failed"}}
      [] u.switch # "running" /\ key \in {"q", "help", "colon", "c", "t", "char"} ->
            {[u EXCEPT !.switch = "input"]}
      [] OTHER -> {u}

\* SubmitController::handle_key: Enter starts a submission or shows an error.
SubmitKey(u, key) ==
    IF key = "esc" THEN {[u EXCEPT !.submit = FALSE]} ELSE {u}

\* EditorInputContext::launch: nothing is launched (an error is shown), an
\* external editor is, or one in the terminal, which discards the batch.
Launched(u, layer) ==
    {u, [u EXCEPT ![layer] = FALSE], [u EXCEPT ![layer] = FALSE, !.discard = TRUE],
     [u EXCEPT !.discard = TRUE]}

\* OpenSourceController::handle_key and the editor target modals.
EditorModalKey(u, layer, key) ==
    CASE key = "esc"   -> {[u EXCEPT ![layer] = FALSE]}
      [] key = "enter" -> Launched(u, layer)
      [] OTHER         -> {u}

\* CommandPalette::handle_key without the execution of a row: the palette
\* afterwards.  Typing filters the rows, here down to no match.
PaletteAfter(palette, key) ==
    CASE key = "esc" -> "closed"
      [] key \in {"q", "help", "colon", "c", "t", "char"} -> "nomatch"
      [] key = "nav" /\ palette \in RowSet ->
            Rows[((CHOOSE i \in DOMAIN Rows : Rows[i] = palette) % Len(Rows)) + 1]
      [] OTHER -> palette

PaletteKey(u, key) ==
    CASE key = "enter" /\ u.palette \in RowSet /\ Available(u, u.palette) ->
            Execute([u EXCEPT !.palette = "closed"], u.palette)
      [] key = "enter" /\ ~(u.palette \in RowSet /\ Available(u, u.palette)) -> {u}
      [] OTHER -> {[u EXCEPT !.palette = PaletteAfter(u.palette, key)]}

\* Another row or problem is selected: an edit left aside may be the one there.
Reselect(u) ==
    IF "aside" \in u.edits
    THEN {[u EXCEPT !.edits = e] : e \in (SUBSET {"here", "aside"}) \ {{}}}
    ELSE {u}

\* handle_user_input_editor_key: Escape cancels the edit; Ctrl-S ends it, or
\* keeps it with an error; everything else is typed.
EditorKey(u, key) ==
    CASE key \in {"esc", "escRepeat"} -> {[u EXCEPT !.edits = @ \ {"here"}]}
      [] key = "save" -> {u, [u EXCEPT !.edits = @ \ {"here"}]}
      [] OTHER -> {u}

\* handle_key_event_after_delete_disarm outside of the editor.
BaseKey(u, key) ==
    CASE key = "help"  -> {[u EXCEPT !.help = TRUE]}
      [] key = "q"     -> {[u EXCEPT !.quit = TRUE]}
      [] key = "colon" -> {[u EXCEPT !.palette = Rows[1]]}
      [] key = "c"     -> Execute(u, "switch")
      [] key = "t"     -> Execute(u, "submit")
      [] key = "nav"   -> Reselect(u)
      [] OTHER         -> {u}

\* A modal or the palette is there (frontend_interaction_active).
Interacting(u) ==
    \/ u.refresh # "none" \/ u.switch # "none" \/ u.submit \/ u.source
    \/ u.template \/ u.palette # "closed"

\* handle_terminal_event_after_shortcut_help, for a key: the first active
\* layer takes it.
RouteKey(u, key) ==
    CASE u.refresh # "none" -> RefreshKey(u, key)
      [] u.refresh = "none" /\ u.switch # "none" -> SwitchKey(u, key)
      [] u.refresh = "none" /\ u.switch = "none" /\ Interacting(u) ->
            CASE u.submit -> SubmitKey(u, key)
              [] ~u.submit /\ u.source -> EditorModalKey(u, "source", key)
              [] ~u.submit /\ ~u.source /\ u.template -> EditorModalKey(u, "template", key)
              [] OTHER -> PaletteKey(u, key)
      [] ~Interacting(u) /\ "here" \in u.edits -> EditorKey(u, key)
      [] OTHER -> BaseKey(u, key)

\* Mutant: only the palette keeps the pointer out.
MutantClick(u) ==
    IF u.palette # "closed" THEN {u}
    ELSE {[u EXCEPT !.edits = e] : e \in SUBSET {"here"}}

\* A pointer press: nothing under a modal; otherwise it may select another
\* row, open an edit (New Input, Edit), or save or cancel the one shown.
Click(u) ==
    LET reachable == IF u.edits = {} THEN SUBSET {"here"} ELSE SUBSET {"here", "aside"}
    IN  IF Interacting(u) THEN {u} ELSE {[u EXCEPT !.edits = e] : e \in reachable}

\* handle_terminal_event: the help takes Escape and a further `?`, any other
\* key dismisses it and goes on to its layer.
Handle(u, event) ==
    CASE event = "resize" -> {u}
      [] event = "click" -> Click(u)
      [] event \in KeyCodes /\ u.help /\ event = "help" -> {u}
      [] event \in KeyCodes /\ u.help /\ event \in {"esc", "escRepeat"} ->
            {[u EXCEPT !.help = FALSE]}
      [] OTHER -> RouteKey([u EXCEPT !.help = FALSE], event)

(****************************************************************************)
(* The look-ahead (contains_global_quit_event)                              *)
(****************************************************************************)

\* GlobalQuitVirtualUiState and the local copies beside it.
VirtualUI ==
    [help |-> ui.help, refresh |-> ui.refresh,
     switch |-> ui.switch # "none", source |-> ui.source,
     target |-> ui.template \/ ui.submit, palette |-> ui.palette,
     editor |-> "here" \in ui.edits, deferred |-> FALSE, verdict |-> "open"]

\* apply_frontend_action_to_global_quit_state: availability is asked of the
\* real App; leaving for the home screen ends the simulation.
SimulateAction(v, action) ==
    CASE ~Available(ui, action)  -> v
      [] Available(ui, action) /\ action = "refresh"  -> [v EXCEPT !.refresh = "running"]
      [] Available(ui, action) /\ action = "switch"   -> [v EXCEPT !.switch = TRUE]
      [] Available(ui, action) /\ action = "home"     -> [v EXCEPT !.verdict = "stay"]
      [] Available(ui, action) /\ action = "source"   ->
            [v EXCEPT !.target = FALSE, !.source = TRUE]
      [] Available(ui, action) /\ action \in {"submit", "template"} ->
            [v EXCEPT !.target = TRUE, !.source = FALSE]
      [] OTHER -> v

SimulateRefreshKey(v, key) ==
    CASE v.refresh = "failed" /\ key = "esc"   -> [v EXCEPT !.refresh = "none"]
      [] v.refresh = "failed" /\ key = "enter" -> [v EXCEPT !.refresh = "running"]
      [] OTHER                                 -> v

\* escape_dismisses_modal looks at the real modal, not at the simulated one.
SimulateSwitchKey(v, key) ==
    IF key = "esc" /\ ui.switch \in {"input", "failed"}
    THEN [v EXCEPT !.switch = FALSE]
    ELSE v

SimulatePaletteKey(v, key) ==
    IF key = "enter" /\ v.palette \in RowSet
    THEN IF Available(ui, v.palette)
         THEN SimulateAction([v EXCEPT !.palette = "closed"], v.palette)
         ELSE v
    ELSE [v EXCEPT !.palette = PaletteAfter(v.palette, key)]

\* Mutant: the look-ahead takes every save for a success.
MutantSaveEnds(v, key) ==
    IF key \in {"esc", "save"} THEN [v EXCEPT !.editor = FALSE] ELSE v

\* Escape ends the edit; a save may or may not, so a later q is left to the
\* dispatch.
SimulateEditorKey(v, key) ==
    CASE key = "esc"  -> [v EXCEPT !.editor = FALSE]
      [] key = "save" -> [v EXCEPT !.editor = FALSE, !.deferred = TRUE]
      [] OTHER        -> v

SimulateBaseKey(v, key) ==
    CASE key = "help"  -> [v EXCEPT !.help = TRUE]
      [] key = "colon" -> [v EXCEPT !.palette = Rows[1]]
      [] key = "c"     -> SimulateAction(v, "switch")
      [] key = "t"     -> SimulateAction(v, "submit")
      [] key = "q"     -> [v EXCEPT !.verdict = IF v.deferred THEN "stay" ELSE "quit"]
      [] OTHER         -> v

SimulateKey(v, key) ==
    CASE v.refresh # "none" -> SimulateRefreshKey(v, key)
      [] v.refresh = "none" /\ v.switch -> SimulateSwitchKey(v, key)
      [] v.refresh = "none" /\ ~v.switch /\ v.source ->
            [v EXCEPT !.source = (key # "esc")]
      [] v.refresh = "none" /\ ~v.switch /\ ~v.source /\ v.target ->
            [v EXCEPT !.target = (key # "esc")]
      [] v.refresh = "none" /\ ~v.switch /\ ~v.source /\ ~v.target /\
         v.palette # "closed" -> SimulatePaletteKey(v, key)
      [] v.refresh = "none" /\ ~v.switch /\ ~v.source /\ ~v.target /\
         v.palette = "closed" /\ v.editor -> SimulateEditorKey(v, key)
      [] OTHER -> SimulateBaseKey(v, key)

Simulate(v, event) ==
    CASE v.verdict # "open" \/ event = "resize" -> v
      [] v.verdict = "open" /\ event = "click" -> [v EXCEPT !.deferred = TRUE]
      [] v.verdict = "open" /\ event \in KeyCodes /\ v.help /\ event = "help" -> v
      [] v.verdict = "open" /\ event \in KeyCodes /\ v.help /\ event \in {"esc", "escRepeat"} ->
            [v EXCEPT !.help = FALSE]
      [] OTHER -> SimulateKey([v EXCEPT !.help = FALSE], event)

\* contains_global_quit_event: the simulation after k events of the batch, and
\* whether it quits.
Simulated[k \in 0..Len(batch)] ==
    IF k = 0 THEN VirtualUI ELSE Simulate(Simulated[k - 1], batch[k])

LookAheadQuits == Simulated[Len(batch)].verdict = "quit"

(****************************************************************************)
(* The loop of run                                                          *)
(****************************************************************************)

\* The look-ahead found a q: app.quit, ahead of the batch.
QuitAhead ==
    /\ mode = "loop"
    /\ LookAheadQuits
    /\ ui' = [ui EXCEPT !.quit = TRUE]
    /\ mode' = "done"
    /\ exit' = "quit"
    /\ UNCHANGED batch

\* handle_background_events: only between batches.  A finished preparation
\* ends the session.
FinishRefresh ==
    /\ mode = "loop" /\ batch = << >> /\ ui.refresh = "running"
    /\ \/ /\ ui' = [ui EXCEPT !.refresh = "failed"]
          /\ UNCHANGED <<mode, exit>>
       \/ /\ mode' = "done" /\ exit' = "refresh"
          /\ UNCHANGED ui
    /\ UNCHANGED batch

FinishSwitch ==
    /\ mode = "loop" /\ batch = << >> /\ ui.switch = "running"
    /\ \/ /\ ui' = [ui EXCEPT !.switch = "failed"]
          /\ UNCHANGED <<mode, exit>>
       \/ /\ mode' = "done" /\ exit' = "switch"
          /\ UNCHANGED ui
    /\ UNCHANGED batch

\* SubmitController::reconcile closes the modal of an accepted submission.
FinishSubmit ==
    /\ mode = "loop" /\ batch = << >> /\ ui.submit
    /\ ui' = [ui EXCEPT !.submit = FALSE]
    /\ UNCHANGED <<batch, mode, exit>>

\* read_terminal_events.
Read ==
    /\ mode = "loop" /\ batch = << >>
    /\ batch' \in Batches
    /\ UNCHANGED <<ui, mode, exit>>

\* handle_terminal_events: one event, then the next one of the batch, or a
\* break for a redraw.  The editor in the terminal discards the rest; leaving
\* for the home screen leaves the session.
Dispatch ==
    /\ batch # << >>
    /\ mode = "dispatch" \/ (mode = "loop" /\ ~LookAheadQuits)
    /\ \E u \in Handle(ui, Head(batch)) :
         LET rest == IF u.discard THEN << >> ELSE Tail(batch)
         IN  /\ ui' = [u EXCEPT !.discard = FALSE]
             /\ batch' = rest
             /\ \/ /\ u.home
                   /\ mode' = "done" /\ exit' = "home"
                \/ /\ u.quit /\ ~u.home
                   /\ mode' = "done" /\ exit' = "quit"
                \/ /\ ~u.quit /\ ~u.home
                   /\ mode' \in IF rest = << >> THEN {"loop"} ELSE {"dispatch", "loop"}
                   /\ UNCHANGED exit

Next == QuitAhead \/ FinishRefresh \/ FinishSwitch \/ FinishSubmit \/ Read \/ Dispatch

Spec == Init /\ [][Next]_vars

-----------------------------------------------------------------------------
(****************************************************************************)
(* Properties                                                               *)
(****************************************************************************)

\* The input loop's variables keep their types, and an editor launch never
\* leaves its discard mark behind for a later batch.
InputTypeOK ==
    /\ ui \in UIStates /\ ~ui.discard
    /\ batch = << >> \/ batch \in Batches
    /\ mode \in {"loop", "dispatch", "done"}
    /\ exit \in {"none", "quit", "home", "refresh", "switch"}

\* Where the ordered dispatch of the first k events of the batch can lead,
\* from the layers as they are: the reference the look-ahead is compared with.
Dispatched[k \in 0..Len(batch)] ==
    IF k = 0 THEN {ui}
    ELSE UNION {IF u.discard \/ u.home THEN {u} ELSE Handle(u, batch[k]) :
                    u \in Dispatched[k - 1]}

\* "Keep the read-only batch simulation in lockstep with ordered dispatch"
\* (mod.rs:3774).  Some events are not in lockstep: Enter in a modal that may
\* start an operation or an editor (the simulation takes the modal for closed,
\* the dispatch keeps it and gives it the q); Enter on the refresh after the
\* last edit was cancelled (the simulation asks the App as it is, and takes the
\* action for unavailable); a repeated Escape, which cancels the edit on the
\* screen and which the simulation ignores; and a selection that moves onto an
\* edit left aside.
EnterIsUndecided(u) ==
    \/ u.switch # "none" \/ u.source \/ u.template
    \/ u.palette = "refresh" /\ u.edits = {} /\ ui.edits # {}
RepeatCancels(u) == "here" \in u.edits /\ ~u.help /\ ~Interacting(u)
OutOfStep ==
    \/ \E k \in 1..Len(batch) : \E u \in Dispatched[k - 1] :
         \/ batch[k] = "enter" /\ EnterIsUndecided(u)
         \/ batch[k] = "escRepeat" /\ RepeatCancels(u)
    \/ "nav" \in ToSet(batch) /\ "aside" \in ui.edits

\* A q found ahead of the batch is, everywhere else, one the dispatch of the
\* batch would quit on: no key meant for a modal, the palette, the editor or
\* the help is ever taken for a quit, whatever comes before it.
QuitIsOrderedElsewhere ==
    mode = "loop" /\ LookAheadQuits /\ ~OutOfStep
        => \A u \in Dispatched[Len(batch)] : u.quit

\* A refresh is prepared, and the session left for it, only while no edit is
\* open: the session that follows starts without them.  start checks it once;
\* the keys and clicks that come while the thread runs must not open one.
RefreshLosesNoEdit ==
    ui.refresh = "running" \/ exit = "refresh" => ui.edits = {}

=============================================================================
