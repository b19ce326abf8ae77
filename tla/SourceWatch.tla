----------------------------- MODULE SourceWatch -----------------------------
(***************************************************************************)
(* From a saved source file to its test (src/watcher.rs, the watcher       *)
(* thread of src/commands/watch_tui.rs, src/commands/watch.rs and the      *)
(* source handlers of src/tui/app.rs).  The file system reports changes;   *)
(* the watcher merges what arrives during the debounce into one batch of   *)
(* paths; each path is resolved against the file system once the batch is  *)
(* closed.  In the TUI the result is a message to the UI thread, which     *)
(* selects the source of the problem and queues its run; `atc watch        *)
(* --plain` runs the tests itself, one path after the other.               *)
(*                                                                         *)
(* One session.  A message here is a message RunEngine takes as external.  *)
(***************************************************************************)
EXTENDS Naturals, Sequences, SequencesExt

CONSTANTS
    Problems,        \* the problems of the contest
    Languages,       \* the languages a problem may have a source in
    NoSource,        \* ProblemState::source is None
    InFlightBound    \* bound: changes on their way to the UI, when a file changes

ASSUME WatchAssumption ==
    /\ NoSource \notin Languages
    /\ InFlightBound \in Nat \ {0}

(* build_watched_sources: one path for each problem and language. *)
Files == Problems \X Languages
Problem(f) == f[1]
Language(f) == f[2]

VARIABLES
    front,      \* "tui" or "plain"
    session,    \* "running" or "ended"
    (* The file system. *)
    exists,     \* for each file, whether it is a regular file
    events,     \* paths of the notifications the watcher has not received
    (* The watcher. *)
    pc,         \* "wait", "collect", "deliver" or "gone"
    batch,      \* the paths merged or still to be delivered
    (* The UI thread. *)
    messages,   \* watcher to UI
    source,     \* for each problem, the language of the selected source
    ui,         \* what the UI thread is busy with, and for which file
    (* History, read by no action. *)
    unseen,     \* files changed since a test of them was last requested
    newest      \* for each problem, the language the user saved last, unless
                \* another source was opened since

vars == <<front, session, exists, events, pc, batch, messages, source, ui, unseen, newest>>
diskVars == <<exists, events, unseen, newest>>
watcherVars == <<pc, batch>>
uiVars == <<messages, source, ui>>

Idle == [at |-> "loop", file |-> NoSource]
Changed(f) == [type |-> "SourceChanged", file |-> f]
Removed(f) == [type |-> "SourceRemoved", file |-> f]
WatcherFailed == [type |-> "WatcherFailed", file |-> NoSource]

(* A session starts with a new watcher; what changed before is not seen,   *)
(* and no source is selected.                                              *)
Init ==
    /\ front \in {"tui", "plain"} /\ session = "running"
    /\ exists \in [Files -> BOOLEAN] /\ events = <<>>
    /\ pc = "wait" /\ batch = <<>>
    /\ messages = <<>> /\ ui = Idle
    /\ source = [p \in Problems |-> NoSource]
    /\ unseen = {} /\ newest = [p \in Problems |-> NoSource]

-------------------------------------------------------------------------------
(* The user and the editor change files at any time.                       *)

Room == Len(events) + Len(batch) + Len(messages) < InFlightBound

(* The channel of the notifications ends with the watcher thread. *)
Notify(paths) == events' = IF pc = "gone" THEN events ELSE events \o paths

(* A file is written, or only its metadata: both are Modify events. *)
Save(f) ==
    /\ session = "running" /\ Room
    /\ exists' = [exists EXCEPT ![f] = TRUE]
    /\ Notify(<<f>>)
    /\ unseen' = unseen \cup {f}
    /\ newest' = [newest EXCEPT ![Problem(f)] = Language(f)]
    /\ UNCHANGED <<front, session, watcherVars, uiVars>>

Delete(f) ==
    /\ session = "running" /\ Room /\ exists[f]
    /\ exists' = [exists EXCEPT ![f] = FALSE]
    /\ Notify(<<f>>)
    /\ unseen' = unseen \ {f}
    /\ UNCHANGED <<front, session, newest, watcherVars, uiVars>>

(* A rename between two sources reports both paths, the old one first. *)
Rename(f, g) ==
    /\ session = "running" /\ Room /\ f # g /\ exists[f]
    /\ exists' = [exists EXCEPT ![f] = FALSE, ![g] = TRUE]
    /\ Notify(<<f, g>>)
    /\ unseen' = (unseen \ {f}) \cup {g}
    /\ newest' = [newest EXCEPT ![Problem(g)] = Language(g)]
    /\ UNCHANGED <<front, session, watcherVars, uiVars>>

UserChange == \E f \in Files : Save(f) \/ Delete(f) \/ \E g \in Files : Rename(f, g)

-------------------------------------------------------------------------------
(* The watcher.                                                            *)

(* Mutant: a path that is already pending keeps its place. *)
MutantMerge(paths, f) == IF Contains(paths, f) THEN paths ELSE Append(paths, f)

(* collect_result_ordered: a path that is already pending moves to the     *)
(* end, so that no path is pending twice.                                  *)
Position(paths, f) == CHOOSE i \in DOMAIN paths : paths[i] = f
Merge(paths, f) ==
    Append(IF Contains(paths, f) THEN RemoveAt(paths, Position(paths, f)) ELSE paths, f)

(* The first notification opens a batch, the following ones are merged. *)
Receive ==
    /\ session = "running" /\ pc \in {"wait", "collect"} /\ events # <<>>
    /\ batch' = Merge(batch, Head(events))
    /\ events' = Tail(events)
    /\ pc' = "collect"
    /\ UNCHANGED <<front, session, exists, unseen, newest, uiVars>>

(* Mutant: the deadline of the TUI moves with every notification. *)
MutantBatchMayClose == events = <<>>

(* The TUI closes a batch at a deadline fixed by its first notification,   *)
(* `--plain` when nothing has arrived for the whole debounce.              *)
BatchMayClose == front = "tui" \/ events = <<>>

(* `--plain` sorts the paths; any order that has the same paths stands for *)
(* the order of their names, which no property depends on.                 *)
CloseBatch ==
    /\ session = "running" /\ pc = "collect" /\ BatchMayClose
    /\ pc' = "deliver"
    /\ UNCHANGED <<front, session, diskVars, batch, uiVars>>

(* Mutant: a missing file is skipped, as `--plain` does. *)
MutantReport(f) == IF exists[f] THEN Append(messages, Changed(f)) ELSE messages

(* send_source_changes looks at the file system when it sends. *)
Report(f) == Append(messages, IF exists[f] THEN Changed(f) ELSE Removed(f))

NextPath ==
    /\ batch' = Tail(batch)
    /\ pc' = IF Len(batch) = 1 THEN "wait" ELSE "deliver"

SendSourceChange ==
    /\ session = "running" /\ front = "tui" /\ pc = "deliver"
    /\ messages' = Report(Head(batch))
    /\ NextPath
    /\ UNCHANGED <<front, session, diskVars, source, ui>>

(* process_changed_paths: a test that cannot be run ends the program. *)
TestPath ==
    /\ session = "running" /\ front = "plain" /\ pc = "deliver"
    /\ NextPath
    /\ IF exists[Head(batch)]
       THEN /\ unseen' = unseen \ {Head(batch)}
            /\ session' \in {"running", "ended"}
       ELSE UNCHANGED <<unseen, session>>
    /\ UNCHANGED <<front, exists, events, newest, uiVars>>

(* The notification back end reports an error, or the thread panics; what  *)
(* was merged is dropped.                                                  *)
WatcherFails ==
    /\ session = "running" /\ pc \in {"wait", "collect"}
    /\ events' = <<>> /\ batch' = <<>> /\ pc' = "gone"
    /\ IF front = "tui"
       THEN messages' = Append(messages, WatcherFailed) /\ UNCHANGED session
       ELSE session' = "ended" /\ UNCHANGED messages
    /\ UNCHANGED <<front, exists, unseen, newest, source, ui>>

-------------------------------------------------------------------------------
(* The UI thread.                                                          *)

InLoop == session = "running" /\ front = "tui" /\ ui = Idle

(* source_changed, then queue_problem_run: the run reads the file later.   *)
HandleChanged ==
    /\ InLoop /\ messages # <<>> /\ Head(messages).type = "SourceChanged"
    /\ LET f == Head(messages).file
       IN  /\ source' = [source EXCEPT ![Problem(f)] = Language(f)]
           /\ unseen' = unseen \ {f}
    /\ messages' = Tail(messages)
    /\ UNCHANGED <<front, session, exists, events, newest, watcherVars, ui>>

(* source_removed leaves the source of the other language selected. *)
HandleRemoved ==
    /\ InLoop /\ messages # <<>> /\ Head(messages).type = "SourceRemoved"
    /\ LET f == Head(messages).file
       IN  source' = [source EXCEPT ![Problem(f)] = IF @ = Language(f) THEN NoSource ELSE @]
    /\ messages' = Tail(messages)
    /\ UNCHANGED <<front, session, diskVars, watcherVars, ui>>

HandleWatcherFailed ==
    /\ InLoop /\ messages # <<>> /\ Head(messages).type = "WatcherFailed"
    /\ session' = "ended"
    /\ UNCHANGED <<front, diskVars, watcherVars, uiVars>>

(* Open Source, Enter on an existing file, or the source that is selected  *)
(* again after a refresh: the file is looked at before it is selected.     *)
OpenExisting(f) ==
    /\ InLoop /\ exists[f]
    /\ ui' = [at |-> "opening", file |-> f]
    /\ UNCHANGED <<front, session, diskVars, watcherVars, messages, source>>

(* Open Source, `i` on a missing file: it is created from the template.  A *)
(* failure is shown in the modal; a file that someone else has created     *)
(* meanwhile is one.                                                       *)
CreateMissing(f) ==
    /\ InLoop /\ ~exists[f]
    /\ ui' = [at |-> "creating", file |-> f]
    /\ UNCHANGED <<front, session, diskVars, watcherVars, messages, source>>

CreateSource ==
    /\ session = "running" /\ ui.at = "creating"
    /\ LET f == ui.file
       IN  \/ ui' = Idle /\ UNCHANGED diskVars
           \/ /\ ~exists[f] /\ exists' = [exists EXCEPT ![f] = TRUE]
              /\ Notify(<<f>>)
              /\ unseen' = unseen \cup {f}
              /\ newest' = [newest EXCEPT ![Problem(f)] = Language(f)]
              /\ ui' = [ui EXCEPT !.at = "opening"]
    /\ UNCHANGED <<front, session, watcherVars, messages, source>>

(* select_source, then the editor: an editor of the terminal keeps the UI  *)
(* thread until it exits.                                                  *)
SelectSource ==
    /\ session = "running" /\ ui.at = "opening"
    /\ source' = [source EXCEPT ![Problem(ui.file)] = Language(ui.file)]
    /\ newest' = [newest EXCEPT ![Problem(ui.file)] = NoSource]
    /\ ui' \in {Idle, [ui EXCEPT !.at = "away"]}
    /\ UNCHANGED <<front, session, exists, events, unseen, watcherVars, messages>>

EditorExits ==
    /\ session = "running" /\ ui.at = "away"
    /\ ui' = Idle
    /\ UNCHANGED <<front, session, diskVars, watcherVars, messages, source>>

(* The session is left, or Ctrl+C ends `--plain`. *)
Quit ==
    /\ session = "running" /\ ui = Idle
    /\ session' = "ended"
    /\ UNCHANGED <<front, diskVars, watcherVars, uiVars>>

-------------------------------------------------------------------------------
Handle == HandleChanged \/ HandleRemoved \/ HandleWatcherFailed
Deliver == SendSourceChange \/ TestPath
UiStep == CreateSource \/ SelectSource \/ EditorExits
UserInput == Quit \/ \E f \in Files : OpenExisting(f) \/ CreateMissing(f)

Next == UserChange \/ UserInput \/ Receive \/ CloseBatch \/ Deliver
          \/ WatcherFails \/ Handle \/ UiStep

Spec == Init /\ [][Next]_vars

(* The watcher thread runs, and a deadline passes whether or not more      *)
(* notifications arrive.  The session loop takes messages between any two  *)
(* batches of input (handle_background_events), which is why the user      *)
(* cannot keep it from them; a terminal editor is left some day.           *)
FairSpec ==
    /\ Spec
    /\ WF_vars(Receive) /\ WF_vars(CloseBatch) /\ WF_vars(Deliver)
    /\ SF_vars(Handle)
    /\ WF_vars(UiStep)

-------------------------------------------------------------------------------
(* Correctness.                                                            *)

Message == [type : {"SourceChanged", "SourceRemoved"}, file : Files] \cup {WatcherFailed}

(* Every variable holds a value of its type; a batch that is collected or  *)
(* delivered is not empty.                                                 *)
WatchTypeOK ==
    /\ front \in {"tui", "plain"} /\ session \in {"running", "ended"}
    /\ exists \in [Files -> BOOLEAN] /\ events \in Seq(Files)
    /\ pc \in {"wait", "collect", "deliver", "gone"} /\ batch \in Seq(Files)
    /\ pc \in {"collect", "deliver"} => batch # <<>>
    /\ messages \in Seq(Message)
    /\ source \in [Problems -> Languages \cup {NoSource}]
    /\ \/ ui = Idle
       \/ ui \in [at : {"opening", "creating", "away"}, file : Files]
    /\ unseen \subseteq Files
    /\ newest \in [Problems -> Languages \cup {NoSource}]

(* A session of the TUI whose watcher is alive. *)
Live == session = "running" /\ front = "tui" /\ pc # "gone"

(* What is on its way to the UI about a file. *)
Notified(f) == Contains(events, f) \/ Contains(batch, f)
RemovalQueued(f) == Contains(messages, Removed(f))

(* A problem never keeps a source that does not exist: as long as the      *)
(* selected file is missing, a notification or the message that will       *)
(* deselect it is on its way (tui/app.rs, source_removed).                 *)
NoStaleSource ==
    Live =>
        \A p \in Problems :
            source[p] # NoSource /\ ~exists[<<p, source[p]>>] =>
                Notified(<<p, source[p]>>) \/ RemovalQueued(<<p, source[p]>>)

(* Once all notifications have been handled, the source of a problem is    *)
(* the one that was saved last, however the saves were merged into batches *)
(* and whatever was deleted or renamed in between.                         *)
Quiet == events = <<>> /\ batch = <<>> /\ messages = <<>> /\ ui = Idle
LastSaveWins ==
    Live /\ Quiet =>
        \A p \in Problems :
            newest[p] # NoSource /\ exists[<<p, newest[p]>>] => source[p] = newest[p]

(* Every saved source is tested (docs/testing.md: the test runs when a     *)
(* source is changed or saved after the start), unless it is deleted or    *)
(* the session ends.  In the TUI nothing can put it off, not even files    *)
(* that never stop changing; `--plain` needs a pause.                      *)
EverySaveIsTested ==
    \A f \in Files :
        \/ f \in unseen ~> (f \notin unseen \/ session = "ended")
        \/ front = "plain" /\ []<><<UserChange>>_vars

===============================================================================
