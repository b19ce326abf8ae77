---------------------------- MODULE UiThreadProofs ----------------------------
(***************************************************************************)
(* Proofs about the three state machines of the UI thread: the input loop  *)
(* of a session (FrontendInput), the submission hub with its threads       *)
(* (SubmissionHub), and the user inputs of a problem (UserInputEditor).    *)
(*                                                                         *)
(* Input: for batches of any size, with a workspace or without.            *)
(* RefreshLosesNoEdit is kept by every handler of every layer as long as   *)
(* the layer above has the keys and the pointer: the invariant is about    *)
(* the interface alone (SafeUI), and the lemmas go through its layers.     *)
(* QuitIsOrderedElsewhere is about a whole batch: the simulation and every *)
(* state the dispatch can reach are related event by event (InStep) until  *)
(* no later key can make the simulation quit (Stuck).                      *)
(*                                                                         *)
(* Submissions: for any problems, generations, reports per tick, looks at  *)
(* the list, submissions of others and panics.  HubInv relates four views  *)
(* of a submission: what its thread did (ThreadAgrees), what the server    *)
(* lists (ListAgrees), what the reports in the channel still say           *)
(* (ReportAgrees, VerdictIsLast), and what the hub has on record           *)
(* (RecordAgrees, IsAccounted, ModalAgrees).  The step that records a      *)
(* report or joins a thread has one of five effects on a record, a step    *)
(* of a thread is a ThreadStep; the invariant is proved from these two.    *)
(*                                                                         *)
(* User inputs: for any contents, any largest id, and any number of        *)
(* changes by others and of failing calls.  EditorInv ties the handler     *)
(* between two calls of the store to the edit it works on (CallAgrees) and *)
(* the files an edit has created to what the edit remembers (MineAgrees).  *)
(***************************************************************************)
EXTENDS FrontendInput, SubmissionHub, UserInputEditor, SequenceTheorems, FiniteSetTheorems,
        WellFoundedInduction, TLAPS

-----------------------------------------------------------------------------
(* Induction over the naturals, as the existence of a least counterexample. *)
LEMMA LeastNatural ==
  ASSUME NEW T, T \subseteq Nat, T # {}
  PROVE  \E x \in T : \A y \in T : x <= y
<1> DEFINE R == {ss \in Nat \X Nat : ss[1] < ss[2]}
<1>1. IsWellFoundedOn(R, Nat)
  BY NatLessThanWellFounded DEF OpToRel
<1> HIDE DEF R
<1>2. PICK x \in T : \A y \in T : ~ (<<y, x>> \in R)
  BY <1>1, WFMin
<1>3. \A y \in T : ~(y < x)
  BY <1>2 DEF R
<1>4. QED  BY <1>3

-----------------------------------------------------------------------------
(* The input loop. *)
OneTarget(u) == ~(u.submit /\ u.source) /\ ~(u.submit /\ u.template) /\ ~(u.source /\ u.template)
SafeUI(u) ==
    /\ u \in UIStates
    /\ u.refresh = "running" => u.edits = {}
    /\ OneTarget(u)

InputInv ==
    /\ InputTypeOK
    /\ ui.refresh = "running" => ui.edits = {}
    /\ OneTarget(ui)
    /\ mode # "done" => ~ui.home
    /\ exit = "refresh" => mode = "done" /\ ui.edits = {}

-----------------------------------------------------------------------------
(* The rows of the palette. *)
LEMMA RowFacts ==
    /\ Len(Rows) = 7 /\ DOMAIN Rows = 1..7
    /\ RowSet = {"other", "submit", "source", "template", "refresh", "switch", "home"}
    /\ \A i \in 1..7 : Rows[i] \in RowSet
<1>1. Len(Rows) = 7 /\ DOMAIN Rows = 1..7
  BY DEF Rows
<1>2. \A i \in 1..7 : Rows[i] \in RowSet
  BY <1>1 DEF RowSet
<1>3. 1..7 = {1, 2, 3, 4, 5, 6, 7}
  OBVIOUS
<1>4. /\ Rows[1] = "other" /\ Rows[2] = "submit" /\ Rows[3] = "source" /\ Rows[4] = "template"
      /\ Rows[5] = "refresh" /\ Rows[6] = "switch" /\ Rows[7] = "home"
  BY DEF Rows
<1>5. RowSet = {Rows[i] : i \in {1, 2, 3, 4, 5, 6, 7}}
  BY <1>1, <1>3 DEF RowSet
<1>6. RowSet = {"other", "submit", "source", "template", "refresh", "switch", "home"}
  <2> HIDE DEF Rows, RowSet
  <2> QED BY <1>4, <1>5
<1> QED BY <1>1, <1>2, <1>6

(* A change of the layers below a refresh keeps the interface safe. *)
LEMMA StartRefreshSafe ==
    ASSUME NEW u \in UIStates, OneTarget(u), NEW v \in StartRefresh(u)
    PROVE SafeUI(v)
<1>1. CASE u.edits # {} /\ v = [u EXCEPT !.refresh = "failed"]
  BY <1>1 DEF SafeUI, OneTarget, UIStates
<1>2. CASE u.edits = {} /\ \E r \in {"running", "failed"} : v = [u EXCEPT !.refresh = r]
  BY <1>2 DEF SafeUI, OneTarget, UIStates
<1> QED BY <1>1, <1>2 DEF StartRefresh

LEMMA ExecuteSafe ==
    ASSUME NEW u, SafeUI(u), NEW action \in RowSet, NEW v \in Execute(u, action)
    PROVE SafeUI(v)
<1>1. u \in UIStates /\ OneTarget(u)
  BY DEF SafeUI
<1>2. CASE action = "refresh"
  BY <1>1, <1>2, StartRefreshSafe DEF Execute
<1>3. CASE action \in {"switch", "home", "other"}
  <2>1. v \in {[u EXCEPT !.switch = "input"], u, [u EXCEPT !.home = TRUE]}
    BY <1>3 DEF Execute
  <2> QED BY <1>1, <2>1 DEF SafeUI, OneTarget, UIStates
<1>4. CASE action = "source"
  <2>1. v = [u EXCEPT !.source = TRUE, !.submit = FALSE, !.template = FALSE]
    BY <1>4 DEF Execute
  <2> QED BY <1>1, <2>1 DEF SafeUI, OneTarget, UIStates
<1>5. CASE action = "submit"
  <2>1. v = [u EXCEPT !.submit = TRUE, !.source = FALSE, !.template = FALSE]
    BY <1>5 DEF Execute
  <2> QED BY <1>1, <2>1 DEF SafeUI, OneTarget, UIStates
<1>6. CASE action = "template"
  <2>1. v = [u EXCEPT !.template = TRUE, !.source = FALSE, !.submit = FALSE]
    BY <1>6 DEF Execute
  <2> QED BY <1>1, <2>1 DEF SafeUI, OneTarget, UIStates
<1> QED BY <1>2, <1>3, <1>4, <1>5, <1>6, RowFacts

LEMMA RefreshKeySafe ==
    ASSUME NEW u, SafeUI(u), NEW key, NEW v \in RefreshKey(u, key)
    PROVE SafeUI(v)
<1>1. CASE v \in StartRefresh(u)
  BY <1>1, StartRefreshSafe DEF SafeUI
<1>2. CASE v = [u EXCEPT !.refresh = "none"]
  BY <1>2 DEF SafeUI, OneTarget, UIStates
<1> QED BY <1>1, <1>2 DEF RefreshKey

LEMMA SwitchKeySafe ==
    ASSUME NEW u, SafeUI(u), NEW key, NEW v \in SwitchKey(u, key)
    PROVE SafeUI(v)
<1>1. v = u \/ \E s \in {"none", "input", "running", "failed"} : v = [u EXCEPT !.switch = s]
  BY DEF SwitchKey
<1> QED BY <1>1 DEF SafeUI, OneTarget, UIStates

LEMMA SubmitKeySafe ==
    ASSUME NEW u, SafeUI(u), NEW key, NEW v \in SubmitKey(u, key)
    PROVE SafeUI(v)
  BY DEF SubmitKey, SafeUI, OneTarget, UIStates

LEMMA EditorModalKeySafe ==
    ASSUME NEW u, SafeUI(u), NEW layer \in {"source", "template"}, NEW key,
           NEW v \in EditorModalKey(u, layer, key)
    PROVE SafeUI(v)
<1>1. v \in {u, [u EXCEPT ![layer] = FALSE], [u EXCEPT ![layer] = FALSE, !.discard = TRUE],
             [u EXCEPT !.discard = TRUE]}
  BY DEF EditorModalKey, Launched
<1>2. CASE layer = "source"
  BY <1>1, <1>2 DEF SafeUI, OneTarget, UIStates
<1>3. CASE layer = "template"
  BY <1>1, <1>3 DEF SafeUI, OneTarget, UIStates
<1> QED BY <1>2, <1>3

LEMMA PaletteKeySafe ==
    ASSUME NEW u, SafeUI(u), NEW key, NEW v \in PaletteKey(u, key)
    PROVE SafeUI(v)
<1>1. ASSUME NEW p \in {"closed", "nomatch"} \cup RowSet
      PROVE SafeUI([u EXCEPT !.palette = p])
  BY DEF SafeUI, OneTarget, UIStates
<1>2. PaletteAfter(u.palette, key) \in {"closed", "nomatch"} \cup RowSet
  <2>1. u.palette \in {"closed", "nomatch"} \cup RowSet
    BY DEF SafeUI, OneTarget, UIStates
  <2>2. CASE key = "nav" /\ u.palette \in RowSet
    <3>1. \E i \in DOMAIN Rows : Rows[i] = u.palette
      BY <2>2 DEF RowSet
    <3> DEFINE i == CHOOSE i \in DOMAIN Rows : Rows[i] = u.palette
    <3>2. i \in 1..7
      BY <3>1, RowFacts
    <3>3. (i % Len(Rows)) + 1 \in 1..7
      <4> HIDE DEF i
      <4> QED BY <3>2, RowFacts
    <3>4. PaletteAfter(u.palette, key) = Rows[(i % Len(Rows)) + 1]
      BY <2>2 DEF PaletteAfter
    <3> QED BY <3>3, <3>4, RowFacts
  <2>3. CASE ~(key = "nav" /\ u.palette \in RowSet)
    BY <2>1, <2>3 DEF PaletteAfter
  <2> QED BY <2>2, <2>3
<1>3. CASE u.palette \in RowSet /\ v \in Execute([u EXCEPT !.palette = "closed"], u.palette)
  BY <1>1, <1>3, ExecuteSafe
<1>4. CASE v = u
  BY <1>4
<1>5. CASE v = [u EXCEPT !.palette = PaletteAfter(u.palette, key)]
  BY <1>1, <1>2, <1>5
<1> QED BY <1>3, <1>4, <1>5 DEF PaletteKey

(* Only a layer that is reachable when no refresh is there changes edits. *)
LEMMA EditsSafe ==
    ASSUME NEW u \in UIStates, OneTarget(u), u.refresh # "running", NEW e \in SUBSET {"here", "aside"}
    PROVE SafeUI([u EXCEPT !.edits = e])
  BY DEF SafeUI, OneTarget, UIStates

LEMMA EditorKeySafe ==
    ASSUME NEW u \in UIStates, OneTarget(u), u.refresh # "running", NEW key, NEW v \in EditorKey(u, key)
    PROVE SafeUI(v)
<1>1. u.edits \ {"here"} \in SUBSET {"here", "aside"}
  BY DEF UIStates
<1>2. v = u \/ v = [u EXCEPT !.edits = u.edits \ {"here"}]
  BY DEF EditorKey
<1> QED BY <1>1, <1>2, EditsSafe DEF SafeUI

LEMMA BaseKeySafe ==
    ASSUME NEW u \in UIStates, OneTarget(u), u.refresh # "running", NEW key, NEW v \in BaseKey(u, key)
    PROVE SafeUI(v)
<1>1. SafeUI(u)
  BY DEF SafeUI
<1>2. CASE v \in {[u EXCEPT !.help = TRUE], [u EXCEPT !.quit = TRUE], [u EXCEPT !.palette = Rows[1]], u}
  <2>1. Rows[1] \in RowSet
    BY RowFacts
  <2> QED BY <1>1, <1>2, <2>1 DEF SafeUI, OneTarget, UIStates
<1>3. CASE v \in Execute(u, "switch") \cup Execute(u, "submit")
  <2>1. "switch" \in RowSet /\ "submit" \in RowSet
    BY RowFacts
  <2> QED BY <1>1, <1>3, <2>1, ExecuteSafe
<1>4. CASE v \in Reselect(u)
  <2>1. v = u \/ \E e \in SUBSET {"here", "aside"} : v = [u EXCEPT !.edits = e]
    BY <1>4 DEF Reselect
  <2> QED BY <1>1, <2>1, EditsSafe
<1> QED BY <1>2, <1>3, <1>4 DEF BaseKey

LEMMA RouteKeySafe ==
    ASSUME NEW u, SafeUI(u), NEW key, NEW v \in RouteKey(u, key)
    PROVE SafeUI(v)
<1>1. u \in UIStates /\ OneTarget(u)
  BY DEF SafeUI
<1>2. \/ v \in RefreshKey(u, key) \/ v \in SwitchKey(u, key) \/ v \in SubmitKey(u, key)
      \/ v \in EditorModalKey(u, "source", key) \/ v \in EditorModalKey(u, "template", key)
      \/ v \in PaletteKey(u, key)
      \/ ~Interacting(u) /\ v \in EditorKey(u, key) \cup BaseKey(u, key)
  BY DEF RouteKey, Interacting
<1>3. CASE ~Interacting(u) /\ v \in EditorKey(u, key) \cup BaseKey(u, key)
  <2>1. u.refresh # "running"
    BY <1>3 DEF Interacting
  <2> QED BY <1>1, <1>3, <2>1, EditorKeySafe, BaseKeySafe
<1> QED BY <1>2, <1>3, RefreshKeySafe, SwitchKeySafe, SubmitKeySafe, EditorModalKeySafe,
           PaletteKeySafe

LEMMA HandleSafe ==
    ASSUME NEW u, SafeUI(u), NEW event, NEW v \in Handle(u, event)
    PROVE SafeUI(v)
<1>1. u \in UIStates /\ OneTarget(u) /\ SafeUI([u EXCEPT !.help = FALSE])
  BY DEF SafeUI, OneTarget, UIStates
<1>2. CASE v \in Click(u)
  <2>1. CASE Interacting(u)
    BY <1>2, <2>1 DEF Click
  <2>2. CASE ~Interacting(u)
    <3>1. u.refresh # "running"
      BY <2>2 DEF Interacting
    <3>2. \E e \in SUBSET {"here", "aside"} : v = [u EXCEPT !.edits = e]
      <4>1. SUBSET {"here"} \subseteq SUBSET {"here", "aside"}
        OBVIOUS
      <4> QED BY <1>2, <2>2, <4>1 DEF Click
    <3> QED BY <1>1, <3>1, <3>2, EditsSafe
  <2> QED BY <2>1, <2>2
<1>3. CASE v \in {u, [u EXCEPT !.help = FALSE]}
  BY <1>1, <1>3
<1>4. CASE v \in RouteKey([u EXCEPT !.help = FALSE], event)
  BY <1>1, <1>4, RouteKeySafe
<1> QED BY <1>2, <1>3, <1>4 DEF Handle

-----------------------------------------------------------------------------
(* What is left of a batch is one. *)
LEMMA TailOfBatch ==
    ASSUME NEW b \in Batches
    PROVE Tail(b) = << >> \/ Tail(b) \in Batches
<1>1. PICK n \in 1..BatchBound : b \in [1..n -> Events]
  BY DEF Batches
<1>2. BatchBound \in Nat
  BY InputAssumption
<1>3. b \in Seq(Events) /\ Len(b) = n /\ DOMAIN b = 1..n /\ b # << >>
  BY <1>1, <1>2
<1>4. /\ Tail(b) \in Seq(Events) /\ Len(Tail(b)) = n - 1
      /\ \A i \in 1..Len(Tail(b)) : Tail(b)[i] = b[i + 1]
  BY <1>3, HeadTailProperties
<1>5. CASE n = 1
  <2>1. Tail(b) # << >> => Len(Tail(b)) \in Nat \ {0}
    BY <1>4, EmptySeq
  <2>2. Len(Tail(b)) = 0
    BY <1>5, <1>4
  <2> QED BY <2>1, <2>2
<1>6. CASE n # 1
  <2>1. n - 1 \in 1..BatchBound
    BY <1>2, <1>6
  <2>2. \A i \in 1..(n - 1) : Tail(b)[i] = b[i + 1]
    BY <1>4
  <2>3. Tail(b) \in [1..(n - 1) -> Events] /\ DOMAIN Tail(b) = 1..(n - 1)
    BY <1>4, LenProperties
  <2>4. \A i \in DOMAIN Tail(b) : Tail(b)[i] = "q" => i = Len(Tail(b))
    <3>1. \A i \in 1..n : b[i] = "q" => i = n
      BY <1>3 DEF Batches
    <3> QED BY <1>4, <2>1, <2>2, <2>3, <3>1
  <2> QED BY <2>1, <2>3, <2>4 DEF Batches
<1> QED BY <1>5, <1>6

LEMMA InputInitInv == Init => InputInv
<1> SUFFICES ASSUME Init PROVE InputInv
  OBVIOUS
<1>1. ui \in UIStates /\ ~ui.discard /\ ~ui.home /\ ui.edits = {} /\ OneTarget(ui)
  BY DEF Init, OneTarget, UIStates
<1> QED BY <1>1 DEF Init, InputInv, InputTypeOK

LEMMA DispatchInv ==
    ASSUME InputInv, Dispatch
    PROVE InputInv'
<1>1. SafeUI(ui) /\ mode # "done" /\ exit # "refresh" /\ batch \in Batches
  BY DEF InputInv, InputTypeOK, SafeUI, Dispatch
<1>2. PICK u \in Handle(ui, Head(batch)) :
        /\ ui' = [u EXCEPT !.discard = FALSE]
        /\ batch' = IF u.discard THEN << >> ELSE Tail(batch)
        /\ \/ mode' = "done" /\ exit' \in {"home", "quit"}
           \/ mode' \in {"dispatch", "loop"} /\ ~u.home /\ UNCHANGED exit
  BY DEF Dispatch
<1>3. SafeUI(u)
  BY <1>1, HandleSafe
<1>4. SafeUI(ui') /\ ~ui'.discard /\ (~u.home => ~ui'.home)
  BY <1>2, <1>3 DEF SafeUI, OneTarget, UIStates
<1>5. batch' = << >> \/ batch' \in Batches
  BY <1>1, <1>2, TailOfBatch
<1>6. InputTypeOK'
  BY <1>2, <1>4, <1>5 DEF InputInv, InputTypeOK, SafeUI
<1> QED BY <1>1, <1>2, <1>4, <1>6 DEF InputInv, SafeUI

LEMMA InputNextInv == InputInv /\ [Next]_vars => InputInv'
<1> SUFFICES ASSUME InputInv, [Next]_vars PROVE InputInv'
  OBVIOUS
<1>1. ui \in UIStates
  BY DEF InputInv, InputTypeOK
<1>2. CASE QuitAhead
  BY <1>1, <1>2 DEF QuitAhead, InputInv, InputTypeOK, OneTarget, UIStates
<1>3. CASE FinishRefresh
  <2>1. ui.edits = {} /\ mode = "loop" /\ UNCHANGED batch
    BY <1>3 DEF FinishRefresh, InputInv
  <2>2. CASE ui' = [ui EXCEPT !.refresh = "failed"] /\ UNCHANGED <<mode, exit>>
    BY <1>1, <2>1, <2>2 DEF InputInv, InputTypeOK, OneTarget, UIStates
  <2>3. CASE mode' = "done" /\ exit' = "refresh" /\ UNCHANGED ui
    BY <2>1, <2>3 DEF InputInv, InputTypeOK
  <2> QED BY <1>3, <2>2, <2>3 DEF FinishRefresh
<1>4. CASE FinishSwitch
  BY <1>1, <1>4 DEF FinishSwitch, InputInv, InputTypeOK, OneTarget, UIStates
<1>5. CASE FinishSubmit
  BY <1>1, <1>5 DEF FinishSubmit, InputInv, InputTypeOK, OneTarget, UIStates
<1>6. CASE Read
  BY <1>6 DEF Read, InputInv, InputTypeOK
<1>7. CASE UNCHANGED vars
  BY <1>7 DEF vars, InputInv, InputTypeOK
<1> QED BY <1>2, <1>3, <1>4, <1>5, <1>6, <1>7, DispatchInv DEF Next

LEMMA InputInvariant == Spec => []InputInv
  BY InputInitInv, InputNextInv, PTL DEF Spec

(* The layers, the batch and the loop of run keep their types; the mark of  *)
(* an editor that discards the input is used up in the dispatch.            *)
THEOREM InputTypeCorrect == Spec => []InputTypeOK
<1>1. InputInv => InputTypeOK
  BY DEF InputInv
<1> QED BY <1>1, InputInvariant, PTL

(* No batch, of whatever length, opens an edit that a refresh would drop:    *)
(* RefreshContestController has every key and every click from the moment    *)
(* its thread runs until the session is left for it.                         *)
THEOREM NoEditIsLost == Spec => []RefreshLosesNoEdit
<1>1. InputInv => RefreshLosesNoEdit
  BY DEF InputInv, RefreshLosesNoEdit
<1> QED BY <1>1, InputInvariant, PTL

-----------------------------------------------------------------------------
(* The look-ahead, for batches of any length.  The simulation is stuck when *)
(* no later key can make it quit; until then it is in step with each state  *)
(* the dispatch can have reached, unless one of the exceptions happened.    *)
VStates ==
    [help : BOOLEAN, refresh : {"none", "running", "failed"}, switch : BOOLEAN,
     source : BOOLEAN, target : BOOLEAN, palette : {"closed", "nomatch"} \cup RowSet,
     editor : BOOLEAN, deferred : BOOLEAN, verdict : {"open", "stay", "quit"}]

SwitchHolds(v) == v.switch /\ ui.switch \notin {"input", "failed"}
Stuck(v) ==
    /\ v \in VStates
    /\ \/ v.verdict = "stay"
       \/ v.verdict = "open" /\ (v.deferred \/ v.refresh = "running" \/ SwitchHolds(v))

InStep(v, u) ==
    /\ v \in VStates /\ v.verdict = "open"
    /\ u \in UIStates /\ ~u.discard /\ ~u.home /\ OneTarget(u)
    /\ v.help = u.help /\ v.refresh = u.refresh /\ v.palette = u.palette
    /\ v.switch <=> u.switch # "none"
    /\ u.switch # "running"
    /\ v.source <=> u.source
    /\ v.target <=> u.submit \/ u.template
    /\ v.editor <=> "here" \in u.edits
    /\ u.edits \subseteq ui.edits

(* The palette of either side keeps its type. *)
LEMMA PaletteTyped ==
    ASSUME NEW p \in {"closed", "nomatch"} \cup RowSet, NEW key
    PROVE PaletteAfter(p, key) \in {"closed", "nomatch"} \cup RowSet
<1>1. CASE key = "nav" /\ p \in RowSet
  <2>1. \E i \in DOMAIN Rows : Rows[i] = p
    BY <1>1 DEF RowSet
  <2> DEFINE i == CHOOSE i \in DOMAIN Rows : Rows[i] = p
  <2>2. i \in 1..7
    BY <2>1, RowFacts
  <2>3. (i % Len(Rows)) + 1 \in 1..7
    <3> HIDE DEF i
    <3> QED BY <2>2, RowFacts
  <2>4. PaletteAfter(p, key) = Rows[(i % Len(Rows)) + 1]
    BY <1>1 DEF PaletteAfter
  <2> QED BY <2>3, <2>4, RowFacts
<1>2. CASE ~(key = "nav" /\ p \in RowSet)
  BY <1>2 DEF PaletteAfter
<1> QED BY <1>1, <1>2

(* An action of the simulation goes on, or ends it without a quit.          *)
LEMMA SimulateActionFacts ==
    ASSUME NEW v \in VStates, v.verdict = "open", NEW action \in RowSet
    PROVE  LET w == SimulateAction(v, action)
           IN  w \in VStates /\ w.verdict \in {"open", "stay"} /\ w.deferred = v.deferred
<1> DEFINE w == SimulateAction(v, action)
<1>1. w \in {v, [v EXCEPT !.refresh = "running"], [v EXCEPT !.switch = TRUE],
             [v EXCEPT !.verdict = "stay"], [v EXCEPT !.target = FALSE, !.source = TRUE],
             [v EXCEPT !.target = TRUE, !.source = FALSE]}
  BY DEF SimulateAction
<1> HIDE DEF w
<1>2. w \in VStates /\ w.verdict \in {"open", "stay"} /\ w.deferred = v.deferred
  BY <1>1 DEF VStates
<1> QED BY <1>2 DEF w

LEMMA SimulatePaletteKeyFacts ==
    ASSUME NEW v \in VStates, v.verdict = "open", NEW key
    PROVE  LET w == SimulatePaletteKey(v, key)
           IN  w \in VStates /\ w.verdict \in {"open", "stay"} /\ w.deferred = v.deferred
<1> DEFINE c == [v EXCEPT !.palette = "closed"]
           f == [v EXCEPT !.palette = PaletteAfter(v.palette, key)]
           w == SimulatePaletteKey(v, key)
<1>1. c \in VStates /\ c.verdict = "open" /\ c.deferred = v.deferred
  BY DEF VStates
<1>2. f \in VStates /\ f.verdict = "open" /\ f.deferred = v.deferred
  <2>1. PaletteAfter(v.palette, key) \in {"closed", "nomatch"} \cup RowSet
    BY PaletteTyped DEF VStates
  <2> QED BY <2>1 DEF VStates
<1>3. w \in {v, f} \/ (v.palette \in RowSet /\ w = SimulateAction(c, v.palette))
  BY DEF SimulatePaletteKey
<1>4. w \in VStates /\ w.verdict \in {"open", "stay"} /\ w.deferred = v.deferred
  <2> HIDE DEF w, c, f
  <2> QED BY <1>1, <1>2, <1>3, SimulateActionFacts
<1> QED BY <1>4

LEMMA SimulateBaseKeyFacts ==
    ASSUME NEW v \in VStates, v.verdict = "open", NEW key
    PROVE  LET w == SimulateBaseKey(v, key)
           IN  /\ w \in VStates /\ w.deferred = v.deferred
               /\ w.verdict = "quit" => key = "q" /\ ~v.deferred
<1> DEFINE w == SimulateBaseKey(v, key)
<1>1. CASE key \in {"c", "t"}
  <2>1. \E action \in RowSet : w = SimulateAction(v, action)
    BY <1>1, RowFacts DEF SimulateBaseKey
  <2> QED BY <2>1, SimulateActionFacts
<1>2. CASE key \notin {"c", "t"}
  <2>1. Rows[1] \in RowSet
    BY RowFacts
  <2>2. \/ w \in {[v EXCEPT !.help = TRUE], [v EXCEPT !.palette = Rows[1]], v}
        \/ key = "q" /\ w = [v EXCEPT !.verdict = IF v.deferred THEN "stay" ELSE "quit"]
    BY <1>2 DEF SimulateBaseKey
  <2> HIDE DEF w
  <2>3. /\ w \in VStates /\ w.deferred = v.deferred
        /\ w.verdict = "quit" => key = "q" /\ ~v.deferred
    BY <2>1, <2>2 DEF VStates
  <2> QED BY <2>3 DEF w
<1> QED BY <1>1, <1>2

(* What is stuck stays stuck. *)
LEMMA KeyStaysStuck ==
    ASSUME NEW v, Stuck(v), v.verdict = "open", NEW key
    PROVE  Stuck(SimulateKey(v, key))
<1> DEFINE w == SimulateKey(v, key)
<1>1. v \in VStates
  BY DEF Stuck
<1>2. CASE v.refresh # "none"
  <2>1. w \in {[v EXCEPT !.refresh = "none"], [v EXCEPT !.refresh = "running"], v}
        /\ (v.refresh = "running" => w = v)
    BY <1>2 DEF SimulateKey, SimulateRefreshKey
  <2> HIDE DEF w
  <2>2. Stuck(w)
    BY <1>1, <2>1 DEF Stuck, SwitchHolds, VStates
  <2> QED BY <2>2 DEF w
<1>3. CASE v.refresh = "none" /\ v.switch
  <2>1. w \in {v, [v EXCEPT !.switch = FALSE]} /\ (SwitchHolds(v) => w = v)
    BY <1>3 DEF SimulateKey, SimulateSwitchKey, SwitchHolds
  <2> HIDE DEF w
  <2>2. Stuck(w)
    BY <1>1, <1>3, <2>1 DEF Stuck, SwitchHolds, VStates
  <2> QED BY <2>2 DEF w
<1>4. CASE v.refresh = "none" /\ ~v.switch
  <2>1. v.deferred
    BY <1>4 DEF Stuck, SwitchHolds
  <2>2. CASE v.source \/ v.target
    <3>1. (key # "esc") \in BOOLEAN
      OBVIOUS
    <3>2. w \in {[v EXCEPT !.source = (key # "esc")], [v EXCEPT !.target = (key # "esc")]}
      BY <1>4, <2>2 DEF SimulateKey
    <3> HIDE DEF w
    <3>3. Stuck(w)
      BY <1>1, <2>1, <3>1, <3>2 DEF Stuck, VStates
    <3> QED BY <3>3 DEF w
  <2>3. CASE ~v.source /\ ~v.target /\ v.palette # "closed"
    <3>1. w = SimulatePaletteKey(v, key)
      BY <1>4, <2>3 DEF SimulateKey
    <3> HIDE DEF w
    <3>2. Stuck(w)
      BY <1>1, <2>1, <3>1, SimulatePaletteKeyFacts DEF Stuck
    <3> QED BY <3>2 DEF w
  <2>4. CASE ~v.source /\ ~v.target /\ v.palette = "closed" /\ v.editor
    <3>1. w \in {v, [v EXCEPT !.editor = FALSE], [v EXCEPT !.editor = FALSE, !.deferred = TRUE]}
      BY <1>4, <2>4 DEF SimulateKey, SimulateEditorKey
    <3> HIDE DEF w
    <3>2. Stuck(w)
      BY <1>1, <2>1, <3>1 DEF Stuck, VStates
    <3> QED BY <3>2 DEF w
  <2>5. CASE ~v.source /\ ~v.target /\ v.palette = "closed" /\ ~v.editor
    <3>1. w = SimulateBaseKey(v, key)
      BY <1>4, <2>5 DEF SimulateKey
    <3> HIDE DEF w
    <3>2. Stuck(w)
      BY <1>1, <2>1, <3>1, SimulateBaseKeyFacts DEF Stuck, VStates
    <3> QED BY <3>2 DEF w
  <2> QED BY <2>2, <2>3, <2>4, <2>5
<1> QED BY <1>1, <1>2, <1>3, <1>4 DEF VStates

LEMMA StaysStuck ==
    ASSUME NEW v, Stuck(v), NEW event
    PROVE  Stuck(Simulate(v, event))
<1>1. v \in VStates
  BY DEF Stuck
<1>2. CASE v.verdict # "open" \/ event = "resize"
  BY <1>2 DEF Simulate
<1>3. CASE v.verdict = "open" /\ event # "resize"
  <2>1. Stuck([v EXCEPT !.help = FALSE]) /\ [v EXCEPT !.help = FALSE].verdict = "open"
    BY <1>1, <1>3 DEF Stuck, SwitchHolds, VStates
  <2>2. Stuck([v EXCEPT !.deferred = TRUE])
    BY <1>1, <1>3 DEF Stuck, VStates
  <2>3. Stuck(SimulateKey([v EXCEPT !.help = FALSE], event))
    BY <2>1, KeyStaysStuck
  <2>4. Simulate(v, event) \in {v, [v EXCEPT !.deferred = TRUE], [v EXCEPT !.help = FALSE],
                                SimulateKey([v EXCEPT !.help = FALSE], event)}
    BY <1>3 DEF Simulate
  <2> QED BY <2>1, <2>2, <2>3, <2>4
<1> QED BY <1>2, <1>3

(* An action of a key or of the palette takes both sides to the same layer. *)
LEMMA ActionInStep ==
    ASSUME NEW v, NEW u, InStep(v, u), ~Stuck(v), v.refresh = "none", ~v.switch,
           NEW action \in {"other", "submit", "source", "template", "switch", "home"},
           Available(ui, action), NEW x \in Execute(u, action)
    PROVE  Stuck(SimulateAction(v, action)) \/ InStep(SimulateAction(v, action), x)
<1> DEFINE w == SimulateAction(v, action)
<1>1. v \in VStates /\ u \in UIStates
  BY DEF InStep
<1>2. CASE action = "other"
  BY <1>2 DEF SimulateAction, Execute
<1>3. CASE action \in {"submit", "template"}
  <2>1. w = [v EXCEPT !.target = TRUE, !.source = FALSE]
    BY <1>3 DEF SimulateAction
  <2> HIDE DEF w
  <2>2. CASE x = [u EXCEPT !.submit = TRUE, !.source = FALSE, !.template = FALSE]
    <3>1. InStep(w, x)
      BY <1>1, <2>1, <2>2 DEF InStep, OneTarget, VStates, UIStates
    <3> QED BY <3>1 DEF w
  <2>3. CASE x = [u EXCEPT !.template = TRUE, !.source = FALSE, !.submit = FALSE]
    <3>1. InStep(w, x)
      BY <1>1, <2>1, <2>3 DEF InStep, OneTarget, VStates, UIStates
    <3> QED BY <3>1 DEF w
  <2> QED BY <1>3, <2>2, <2>3 DEF Execute
<1>4. CASE action = "source"
  <2>1. w = [v EXCEPT !.target = FALSE, !.source = TRUE]
    BY <1>4 DEF SimulateAction
  <2>2. x = [u EXCEPT !.source = TRUE, !.submit = FALSE, !.template = FALSE]
    BY <1>4 DEF Execute
  <2> HIDE DEF w
  <2>3. InStep(w, x)
    BY <1>1, <2>1, <2>2 DEF InStep, OneTarget, VStates, UIStates
  <2> QED BY <2>3 DEF w
<1>5. CASE action = "home"
  <2>1. w = [v EXCEPT !.verdict = "stay"]
    BY <1>5 DEF SimulateAction
  <2> HIDE DEF w
  <2>2. Stuck(w)
    BY <1>1, <2>1 DEF Stuck, VStates
  <2> QED BY <2>2 DEF w
<1>6. CASE action = "switch"
  <2>1. w = [v EXCEPT !.switch = TRUE]
    BY <1>6 DEF SimulateAction
  <2>2. x = [u EXCEPT !.switch = "input"]
    BY <1>6 DEF Execute, Available
  <2> HIDE DEF w
  <2>3. InStep(w, x)
    BY <1>1, <2>1, <2>2 DEF InStep, OneTarget, VStates, UIStates
  <2> QED BY <2>3 DEF w
<1> QED BY <1>2, <1>3, <1>4, <1>5, <1>6

LEMMA RefreshKeyInStep ==
    ASSUME NEW v, NEW u, InStep(v, u), v.refresh # "none",
           NEW key, NEW x \in RefreshKey(u, key)
    PROVE  Stuck(SimulateRefreshKey(v, key)) \/ InStep(SimulateRefreshKey(v, key), x)
<1> DEFINE w == SimulateRefreshKey(v, key)
<1>1. v \in VStates /\ u \in UIStates /\ v.refresh = u.refresh /\ v.verdict = "open"
  BY DEF InStep
<1>2. CASE v.refresh = "failed" /\ key = "esc"
  <2>1. w = [v EXCEPT !.refresh = "none"] /\ x = [u EXCEPT !.refresh = "none"]
    BY <1>1, <1>2 DEF SimulateRefreshKey, RefreshKey
  <2> HIDE DEF w
  <2>2. InStep(w, x)
    BY <1>1, <2>1 DEF InStep, OneTarget, VStates, UIStates
  <2> QED BY <2>2 DEF w
<1>3. CASE v.refresh = "failed" /\ key = "enter"
  <2>1. w = [v EXCEPT !.refresh = "running"]
    BY <1>3 DEF SimulateRefreshKey
  <2> HIDE DEF w
  <2>2. Stuck(w)
    BY <1>1, <2>1 DEF Stuck, VStates
  <2> QED BY <2>2 DEF w
<1>4. CASE ~(v.refresh = "failed" /\ key \in {"esc", "enter"})
  <2>1. w = v /\ x = u
    BY <1>1, <1>4 DEF SimulateRefreshKey, RefreshKey
  <2> QED BY <2>1
<1> QED BY <1>2, <1>3, <1>4

LEMMA SwitchKeyInStep ==
    ASSUME NEW v, NEW u, InStep(v, u), ~SwitchHolds(v), v.switch,
           NEW key, key # "enter", NEW x \in SwitchKey(u, key)
    PROVE  InStep(SimulateSwitchKey(v, key), x)
<1> DEFINE w == SimulateSwitchKey(v, key)
<1>1. v \in VStates /\ u \in UIStates /\ u.switch \in {"input", "failed"}
      /\ ui.switch \in {"input", "failed"}
  BY DEF InStep, SwitchHolds, UIStates
<1>2. CASE key = "esc"
  <2>1. w = [v EXCEPT !.switch = FALSE] /\ x = [u EXCEPT !.switch = "none"]
    BY <1>1, <1>2 DEF SimulateSwitchKey, SwitchKey
  <2> HIDE DEF w
  <2>2. InStep(w, x)
    BY <1>1, <2>1 DEF InStep, OneTarget, VStates, UIStates
  <2> QED BY <2>2 DEF w
<1>3. CASE key # "esc"
  <2>1. w = v /\ x \in {u, [u EXCEPT !.switch = "input"]}
    BY <1>1, <1>3 DEF SimulateSwitchKey, SwitchKey
  <2> HIDE DEF w
  <2>2. InStep(w, x)
    BY <1>1, <2>1 DEF InStep, OneTarget, VStates, UIStates
  <2> QED BY <2>2 DEF w
<1> QED BY <1>2, <1>3

(* Escape leaves the modals that were opened last in the same order.        *)
LEMMA ModalKeyInStep ==
    ASSUME NEW v, NEW u, InStep(v, u), v.refresh = "none", ~v.switch, v.source \/ v.target,
           NEW key, key = "enter" => ~EnterIsUndecided(u), NEW x \in RouteKey(u, key)
    PROVE  InStep(SimulateKey(v, key), x)
<1> DEFINE w == SimulateKey(v, key)
           closed == [u EXCEPT !.submit = FALSE, !.source = FALSE, !.template = FALSE]
<1>1. /\ v \in VStates /\ u \in UIStates /\ OneTarget(u)
      /\ u.refresh = "none" /\ u.switch = "none"
      /\ v.source = u.source /\ v.target = (u.submit \/ u.template)
      /\ (u.submit \/ u.source \/ u.template) /\ Interacting(u)
  BY DEF InStep, Interacting, VStates, UIStates
<1>2. \/ u.submit /\ ~u.source /\ ~u.template /\ x \in SubmitKey(u, key)
      \/ ~u.submit /\ u.source /\ ~u.template /\ x \in EditorModalKey(u, "source", key)
      \/ ~u.submit /\ ~u.source /\ u.template /\ x \in EditorModalKey(u, "template", key)
  BY <1>1 DEF RouteKey, OneTarget, Interacting
<1>3. x = IF key = "esc" THEN closed ELSE u
  <2>1. u.submit \/ key # "enter"
    BY <1>1, <1>2 DEF EnterIsUndecided
  <2>2. CASE u.submit
    BY <1>1, <1>2, <2>2 DEF SubmitKey, UIStates
  <2>3. CASE u.source
    BY <1>1, <1>2, <2>1, <2>3 DEF EditorModalKey, UIStates
  <2>4. CASE u.template
    BY <1>1, <1>2, <2>1, <2>4 DEF EditorModalKey, UIStates
  <2> QED BY <1>1, <2>2, <2>3, <2>4
<1>4. w = IF v.source THEN [v EXCEPT !.source = (key # "esc")]
          ELSE [v EXCEPT !.target = (key # "esc")]
  BY DEF SimulateKey
<1> HIDE DEF w
<1>5. InStep(w, x)
  BY <1>1, <1>2, <1>3, <1>4 DEF InStep, OneTarget, VStates, UIStates
<1> QED BY <1>5 DEF w

LEMMA PaletteKeyInStep ==
    ASSUME NEW v, NEW u, InStep(v, u), ~Stuck(v), v.refresh = "none", ~v.switch,
           NEW key, key = "enter" => ~EnterIsUndecided(u), NEW x \in PaletteKey(u, key)
    PROVE  Stuck(SimulatePaletteKey(v, key)) \/ InStep(SimulatePaletteKey(v, key), x)
<1> DEFINE w == SimulatePaletteKey(v, key)
           c == [v EXCEPT !.palette = "closed"]
           d == [u EXCEPT !.palette = "closed"]
           p == PaletteAfter(u.palette, key)
<1>1. v \in VStates /\ u \in UIStates /\ v.palette = u.palette /\ v.verdict = "open"
      /\ u.edits \subseteq ui.edits
  BY DEF InStep
<1>2. CASE key = "enter" /\ u.palette \in RowSet
  <2>1. CASE u.palette = "refresh"
    <3>1. CASE ui.edits = {}
      <4>1. w = [c EXCEPT !.refresh = "running"]
        BY <1>1, <1>2, <2>1, <3>1 DEF SimulatePaletteKey, SimulateAction, Available
      <4>2. Stuck([c EXCEPT !.refresh = "running"])
        BY <1>1 DEF Stuck, VStates
      <4> HIDE DEF w, c
      <4>3. Stuck(w)
        BY <4>1, <4>2
      <4> QED BY <4>3 DEF w
    <3>2. CASE ui.edits # {}
      <4>1. u.edits # {}
        BY <1>2, <2>1, <3>2 DEF EnterIsUndecided
      <4>2. w = v /\ x = u
        BY <1>1, <1>2, <2>1, <3>2, <4>1 DEF SimulatePaletteKey, PaletteKey, Available
      <4> QED BY <4>2
    <3> QED BY <3>1, <3>2
  <2>2. CASE u.palette # "refresh"
    <3>1. u.palette \in {"other", "submit", "source", "template", "switch", "home"}
          /\ (Available(ui, u.palette) <=> Available(u, u.palette))
      BY <1>2, <2>2, RowFacts DEF Available
    <3>2. CASE Available(u, u.palette)
      <4>1. w = SimulateAction(c, u.palette) /\ x \in Execute(d, u.palette)
        BY <1>1, <1>2, <3>1, <3>2 DEF SimulatePaletteKey, PaletteKey
      <4>2. InStep(c, d) /\ ~Stuck(c) /\ c.refresh = "none" /\ ~c.switch
        BY <1>1 DEF InStep, Stuck, SwitchHolds, OneTarget, VStates, UIStates
      <4> HIDE DEF w, c, d
      <4>3. Stuck(w) \/ InStep(w, x)
        BY <3>1, <3>2, <4>1, <4>2, ActionInStep
      <4> QED BY <4>3 DEF w
    <3>3. CASE ~Available(u, u.palette)
      <4>1. w = v /\ x = u
        BY <1>1, <1>2, <3>1, <3>3 DEF SimulatePaletteKey, PaletteKey
      <4> QED BY <4>1
    <3> QED BY <3>2, <3>3
  <2> QED BY <2>1, <2>2
<1>3. CASE key = "enter" /\ u.palette \notin RowSet
  <2>1. w = [v EXCEPT !.palette = p] /\ x = u /\ p = u.palette
    BY <1>1, <1>3 DEF SimulatePaletteKey, PaletteKey, PaletteAfter
  <2>2. w = v
    BY <1>1, <2>1 DEF VStates
  <2> QED BY <2>1, <2>2
<1>4. CASE key # "enter"
  <2>1. w = [v EXCEPT !.palette = p] /\ x = [u EXCEPT !.palette = p]
    BY <1>1, <1>4 DEF SimulatePaletteKey, PaletteKey
  <2>2. p \in {"closed", "nomatch"} \cup RowSet
    BY <1>1, PaletteTyped DEF UIStates
  <2> HIDE DEF w, p
  <2>3. InStep(w, x)
    BY <1>1, <2>1, <2>2 DEF InStep, OneTarget, VStates, UIStates
  <2> QED BY <2>3 DEF w
<1> QED BY <1>2, <1>3, <1>4

LEMMA EditorKeyInStep ==
    ASSUME NEW v, NEW u, InStep(v, u), v.editor, NEW key, key # "escRepeat",
           NEW x \in EditorKey(u, key)
    PROVE  Stuck(SimulateEditorKey(v, key)) \/ InStep(SimulateEditorKey(v, key), x)
<1> DEFINE w == SimulateEditorKey(v, key)
<1>1. v \in VStates /\ u \in UIStates /\ v.verdict = "open"
  BY DEF InStep
<1>2. CASE key = "esc"
  <2>1. w = [v EXCEPT !.editor = FALSE] /\ x = [u EXCEPT !.edits = u.edits \ {"here"}]
    BY <1>2 DEF SimulateEditorKey, EditorKey
  <2>2. u.edits \ {"here"} \in SUBSET {"here", "aside"}
    BY <1>1 DEF UIStates
  <2> HIDE DEF w
  <2>3. InStep(w, x)
    BY <1>1, <2>1, <2>2 DEF InStep, OneTarget, VStates, UIStates
  <2> QED BY <2>3 DEF w
<1>3. CASE key = "save"
  <2>1. w = [v EXCEPT !.editor = FALSE, !.deferred = TRUE]
    BY <1>3 DEF SimulateEditorKey
  <2> HIDE DEF w
  <2>2. Stuck(w)
    BY <1>1, <2>1 DEF Stuck, VStates
  <2> QED BY <2>2 DEF w
<1>4. CASE key \notin {"esc", "save"}
  <2>1. w = v /\ x = u
    BY <1>4 DEF SimulateEditorKey, EditorKey
  <2> QED BY <2>1
<1> QED BY <1>2, <1>3, <1>4

LEMMA BaseKeyInStep ==
    ASSUME NEW v, NEW u, InStep(v, u), ~Stuck(v), v.refresh = "none", ~v.switch,
           NEW key, key # "q", key = "nav" => "aside" \notin ui.edits,
           NEW x \in BaseKey(u, key)
    PROVE  Stuck(SimulateBaseKey(v, key)) \/ InStep(SimulateBaseKey(v, key), x)
<1> DEFINE w == SimulateBaseKey(v, key)
<1>1. v \in VStates /\ u \in UIStates
  BY DEF InStep
<1>2. CASE key = "help"
  <2>1. w = [v EXCEPT !.help = TRUE] /\ x = [u EXCEPT !.help = TRUE]
    BY <1>2 DEF SimulateBaseKey, BaseKey
  <2> HIDE DEF w
  <2>2. InStep(w, x)
    BY <1>1, <2>1 DEF InStep, OneTarget, VStates, UIStates
  <2> QED BY <2>2 DEF w
<1>3. CASE key = "colon"
  <2>1. w = [v EXCEPT !.palette = Rows[1]] /\ x = [u EXCEPT !.palette = Rows[1]]
    BY <1>3 DEF SimulateBaseKey, BaseKey
  <2>2. Rows[1] \in RowSet
    BY RowFacts
  <2> HIDE DEF w
  <2>3. InStep(w, x)
    BY <1>1, <2>1, <2>2 DEF InStep, OneTarget, VStates, UIStates
  <2> QED BY <2>3 DEF w
<1>4. CASE key \in {"c", "t"}
  <2>1. PICK action \in {"switch", "submit"} :
          w = SimulateAction(v, action) /\ x \in Execute(u, action)
    BY <1>4 DEF SimulateBaseKey, BaseKey
  <2>2. CASE Available(ui, action)
    BY <2>1, <2>2, ActionInStep
  <2>3. CASE ~Available(ui, action)
    <3>1. w = v /\ x = u
      BY <2>1, <2>3 DEF SimulateAction, Execute, Available
    <3> QED BY <3>1
  <2> QED BY <2>2, <2>3
<1>5. CASE key \notin {"help", "colon", "c", "t"}
  <2>1. w = v
    BY <1>5 DEF SimulateBaseKey
  <2>2. "aside" \in u.edits => key # "nav"
    BY DEF InStep
  <2>3. x = u
    BY <1>5, <2>2 DEF BaseKey, Reselect
  <2> QED BY <2>1, <2>3
<1> QED BY <1>2, <1>3, <1>4, <1>5

(* The key goes to the same layer on both sides. *)
LEMMA KeyInStep ==
    ASSUME NEW v, NEW u, InStep(v, u), ~Stuck(v), ~u.help, NEW key, key # "q",
           key = "enter" => ~EnterIsUndecided(u), key = "escRepeat" => ~RepeatCancels(u),
           key = "nav" => "aside" \notin ui.edits, NEW x \in RouteKey(u, key)
    PROVE  Stuck(SimulateKey(v, key)) \/ InStep(SimulateKey(v, key), x)
<1>1. /\ v \in VStates /\ u \in UIStates /\ v.verdict = "open"
      /\ v.refresh = u.refresh /\ v.palette = u.palette
      /\ v.switch <=> u.switch # "none"
      /\ v.source <=> u.source
      /\ v.target <=> u.submit \/ u.template
      /\ v.editor <=> "here" \in u.edits
  BY DEF InStep
<1>2. CASE v.refresh # "none"
  <2>1. SimulateKey(v, key) = SimulateRefreshKey(v, key) /\ x \in RefreshKey(u, key)
    BY <1>1, <1>2 DEF SimulateKey, RouteKey, Interacting
  <2> QED BY <1>2, <2>1, RefreshKeyInStep
<1>3. CASE v.refresh = "none" /\ v.switch
  <2>1. SimulateKey(v, key) = SimulateSwitchKey(v, key) /\ x \in SwitchKey(u, key)
    BY <1>1, <1>3 DEF SimulateKey, RouteKey, Interacting
  <2>2. key # "enter" /\ ~SwitchHolds(v)
    BY <1>1, <1>3 DEF EnterIsUndecided, Stuck
  <2> QED BY <1>3, <2>1, <2>2, SwitchKeyInStep
<1>4. CASE v.refresh = "none" /\ ~v.switch /\ (v.source \/ v.target)
  BY <1>4, ModalKeyInStep
<1>5. CASE v.refresh = "none" /\ ~v.switch /\ ~v.source /\ ~v.target /\ v.palette # "closed"
  <2>1. SimulateKey(v, key) = SimulatePaletteKey(v, key)
    BY <1>5 DEF SimulateKey
  <2>2. x \in PaletteKey(u, key)
    BY <1>1, <1>5 DEF RouteKey, Interacting
  <2> QED BY <1>5, <2>1, <2>2, PaletteKeyInStep
<1>6. CASE /\ v.refresh = "none" /\ ~v.switch /\ ~v.source /\ ~v.target
           /\ v.palette = "closed" /\ v.editor
  <2>1. ~Interacting(u)
    BY <1>1, <1>6 DEF Interacting
  <2>2. SimulateKey(v, key) = SimulateEditorKey(v, key) /\ x \in EditorKey(u, key)
    BY <1>1, <1>6, <2>1 DEF SimulateKey, RouteKey, Interacting
  <2>3. key # "escRepeat"
    BY <1>1, <1>6, <2>1 DEF RepeatCancels
  <2> QED BY <1>6, <2>2, <2>3, EditorKeyInStep
<1>7. CASE /\ v.refresh = "none" /\ ~v.switch /\ ~v.source /\ ~v.target
           /\ v.palette = "closed" /\ ~v.editor
  <2>1. ~Interacting(u)
    BY <1>1, <1>7 DEF Interacting
  <2>2. SimulateKey(v, key) = SimulateBaseKey(v, key) /\ x \in BaseKey(u, key)
    BY <1>1, <1>7, <2>1 DEF SimulateKey, RouteKey, Interacting
  <2> QED BY <1>7, <2>2, BaseKeyInStep
<1> QED BY <1>2, <1>3, <1>4, <1>5, <1>6, <1>7

LEMMA BatchFacts ==
    ASSUME NEW b \in Batches
    PROVE  /\ Len(b) \in Nat /\ Len(b) > 0 /\ DOMAIN b = 1..Len(b)
           /\ \A k \in 1..Len(b) : b[k] \in Events
           /\ \A k \in 1..Len(b) : b[k] = "q" => k = Len(b)
<1>1. PICK n \in 1..BatchBound : b \in [1..n -> Events]
  BY DEF Batches
<1>2. BatchBound \in Nat
  BY InputAssumption
<1>3. b \in Seq(Events) /\ Len(b) = n /\ DOMAIN b = 1..n
  BY <1>1, <1>2
<1>4. \A k \in DOMAIN b : b[k] = "q" => k = Len(b)
  BY DEF Batches
<1> QED BY <1>1, <1>2, <1>3, <1>4

LEMMA EventInStep ==
    ASSUME NEW v, NEW u, InStep(v, u), ~Stuck(v), NEW event \in Events \ {"q"},
           event = "enter" => ~EnterIsUndecided(u), event = "escRepeat" => ~RepeatCancels(u),
           event = "nav" => "aside" \notin ui.edits, NEW x \in Handle(u, event)
    PROVE  Stuck(Simulate(v, event)) \/ InStep(Simulate(v, event), x)
<1> DEFINE c == [v EXCEPT !.help = FALSE]
           d == [u EXCEPT !.help = FALSE]
<1>1. v \in VStates /\ u \in UIStates /\ v.verdict = "open" /\ v.help = u.help
  BY DEF InStep
<1>2. InStep(c, d) /\ ~Stuck(c) /\ ~d.help
  BY <1>1 DEF InStep, Stuck, SwitchHolds, OneTarget, VStates, UIStates
<1>3. CASE event = "resize"
  <2>1. Simulate(v, event) = v /\ x = u
    BY <1>1, <1>3 DEF Simulate, Handle, KeyCodes
  <2> QED BY <2>1
<1>4. CASE event = "click"
  <2>1. Simulate(v, event) = [v EXCEPT !.deferred = TRUE]
    BY <1>1, <1>4 DEF Simulate, KeyCodes
  <2>2. Stuck([v EXCEPT !.deferred = TRUE])
    BY <1>1 DEF Stuck, VStates
  <2> QED BY <2>1, <2>2
<1>5. CASE event \in KeyCodes /\ u.help /\ event \in {"help", "esc", "escRepeat"}
  <2>1. \/ Simulate(v, event) = v /\ x = u
        \/ Simulate(v, event) = c /\ x = d
    BY <1>1, <1>5 DEF Simulate, Handle, KeyCodes
  <2> QED BY <1>2, <2>1
<1>6. CASE event \in KeyCodes /\ ~(u.help /\ event \in {"help", "esc", "escRepeat"})
  <2>1. Simulate(v, event) = SimulateKey(c, event) /\ x \in RouteKey(d, event)
    BY <1>1, <1>6 DEF Simulate, Handle, KeyCodes
  <2>2. /\ d.switch = u.switch /\ d.source = u.source /\ d.template = u.template
        /\ d.palette = u.palette /\ d.edits = u.edits /\ d.refresh = u.refresh
        /\ d.submit = u.submit
    BY <1>1 DEF UIStates
  <2>3. event = "enter" => ~EnterIsUndecided(d)
    BY <2>2 DEF EnterIsUndecided
  <2>4. event = "escRepeat" => ~RepeatCancels(d)
    BY <1>6, <2>2 DEF RepeatCancels, Interacting
  <2> HIDE DEF c, d
  <2> QED BY <1>2, <2>1, <2>3, <2>4, KeyInStep
<1> QED BY <1>3, <1>4, <1>5, <1>6 DEF Events

(* A q that quits the simulation reaches the base layer on both sides. *)
LEMMA QuitInStep ==
    ASSUME NEW v, NEW u, InStep(v, u), Simulate(v, "q").verdict = "quit",
           NEW x \in Handle(u, "q")
    PROVE  x.quit
<1> DEFINE c == [v EXCEPT !.help = FALSE]
           d == [u EXCEPT !.help = FALSE]
<1>1. v \in VStates /\ u \in UIStates /\ v.verdict = "open"
  BY DEF InStep
<1>2. InStep(c, d) /\ d.quit \in BOOLEAN /\ d \in UIStates
  BY <1>1 DEF InStep, OneTarget, VStates, UIStates
<1>3. SimulateKey(c, "q").verdict = "quit" /\ x \in RouteKey(d, "q")
  BY <1>1 DEF Simulate, Handle, KeyCodes
<1> HIDE DEF c, d
<1>4. c \in VStates /\ c.verdict = "open"
  BY <1>2 DEF InStep
<1>5. /\ c.refresh = "none" /\ ~c.switch /\ ~c.source /\ ~c.target
      /\ c.palette = "closed" /\ ~c.editor
  <2>1. CASE c.refresh # "none"
    <3>1. SimulateKey(c, "q") = c
      BY <2>1 DEF SimulateKey, SimulateRefreshKey
    <3> QED BY <1>3, <1>4, <3>1
  <2>2. CASE c.refresh = "none" /\ c.switch
    <3>1. SimulateKey(c, "q") = c
      BY <2>2 DEF SimulateKey, SimulateSwitchKey
    <3> QED BY <1>3, <1>4, <3>1
  <2>3. CASE c.refresh = "none" /\ ~c.switch /\ c.source
    <3>1. SimulateKey(c, "q") = [c EXCEPT !.source = ("q" # "esc")]
      BY <2>3 DEF SimulateKey
    <3> QED BY <1>3, <1>4, <3>1 DEF VStates
  <2>4. CASE c.refresh = "none" /\ ~c.switch /\ ~c.source /\ c.target
    <3>1. SimulateKey(c, "q") = [c EXCEPT !.target = ("q" # "esc")]
      BY <2>4 DEF SimulateKey
    <3> QED BY <1>3, <1>4, <3>1 DEF VStates
  <2>5. CASE c.refresh = "none" /\ ~c.switch /\ ~c.source /\ ~c.target /\ c.palette # "closed"
    <3>1. SimulateKey(c, "q") = SimulatePaletteKey(c, "q")
      BY <2>5 DEF SimulateKey
    <3> QED BY <1>3, <1>4, <3>1, SimulatePaletteKeyFacts
  <2>6. CASE /\ c.refresh = "none" /\ ~c.switch /\ ~c.source /\ ~c.target
             /\ c.palette = "closed" /\ c.editor
    <3>1. SimulateKey(c, "q") = c
      BY <2>6 DEF SimulateKey, SimulateEditorKey
    <3> QED BY <1>3, <1>4, <3>1
  <2> QED BY <2>1, <2>2, <2>3, <2>4, <2>5, <2>6
<1>6. x \in BaseKey(d, "q")
  BY <1>2, <1>3, <1>5 DEF InStep, RouteKey, Interacting
<1>7. x = [d EXCEPT !.quit = TRUE]
  BY <1>6 DEF BaseKey
<1> QED BY <1>2, <1>7 DEF UIStates

(* The two recursive functions over the batch exist. *)
LEMMA SimulatedFacts ==
    ASSUME Len(batch) \in Nat
    PROVE  /\ Simulated[0] = VirtualUI
           /\ \A k \in 1..Len(batch) : Simulated[k] = Simulate(Simulated[k - 1], batch[k])
<1> DEFINE N == Len(batch)
           Right(f, n) == f = [k \in 0..n |-> IF k = 0 THEN VirtualUI
                                              ELSE Simulate(f[k - 1], batch[k])]
           T == {n \in 0..N : ~ \E f : Right(f, n)}
<1>1. \E f : Right(f, N)
  <2>1. SUFFICES ASSUME ~ \E f : Right(f, N) PROVE FALSE
    OBVIOUS
  <2>2. PICK n \in T : \A m \in T : n <= m
    <3>1. N \in T /\ T \subseteq Nat
      BY <2>1
    <3> HIDE DEF T
    <3> QED BY <3>1, LeastNatural
  <2>3. n # 0
    <3>1. Right([k \in 0..0 |-> VirtualUI], 0)
      OBVIOUS
    <3> QED BY <3>1
  <2>4. PICK f : Right(f, n - 1)
    <3>1. n - 1 \in 0..N /\ ~(n <= n - 1)
      BY <2>3
    <3> QED BY <2>2, <3>1
  <2> DEFINE g == [k \in 0..n |-> IF k = 0 THEN VirtualUI ELSE Simulate(f[k - 1], batch[k])]
  <2>5. \A k \in 0..(n - 1) : g[k] = f[k]
    <3>1. \A k \in 0..(n - 1) :
            f[k] = IF k = 0 THEN VirtualUI ELSE Simulate(f[k - 1], batch[k])
      BY <2>4
    <3> QED BY <3>1
  <2>6. Right(g, n)
    <3>1. \A k \in 0..n : k # 0 => k - 1 \in 0..(n - 1)
      BY <2>3
    <3>2. \A k \in 0..n : k # 0 => g[k - 1] = f[k - 1]
      BY <2>5, <3>1
    <3> QED BY <3>2
  <2> QED BY <2>2, <2>6
<1>2. Right(Simulated, N)
  <2>1. Right(CHOOSE f : Right(f, N), N)
    BY <1>1
  <2> QED BY <2>1 DEF Simulated
<1>3. \A k \in 0..N : Simulated[k] = IF k = 0 THEN VirtualUI ELSE Simulate(Simulated[k - 1], batch[k])
  BY <1>2
<1> QED BY <1>3

LEMMA DispatchedFacts ==
    ASSUME Len(batch) \in Nat
    PROVE  /\ Dispatched[0] = {ui}
           /\ \A k \in 1..Len(batch) : Dispatched[k] =
                UNION {IF u.discard \/ u.home THEN {u} ELSE Handle(u, batch[k]) :
                           u \in Dispatched[k - 1]}
<1> DEFINE N == Len(batch)
           After(states, k) ==
             UNION {IF u.discard \/ u.home THEN {u} ELSE Handle(u, batch[k]) : u \in states}
           Right(f, n) == f = [k \in 0..n |-> IF k = 0 THEN {ui} ELSE After(f[k - 1], k)]
           T == {n \in 0..N : ~ \E f : Right(f, n)}
<1>1. \E f : Right(f, N)
  <2> HIDE DEF After
  <2>1. SUFFICES ASSUME ~ \E f : Right(f, N) PROVE FALSE
    OBVIOUS
  <2>2. PICK n \in T : \A m \in T : n <= m
    <3>1. N \in T /\ T \subseteq Nat
      BY <2>1
    <3> HIDE DEF T
    <3> QED BY <3>1, LeastNatural
  <2>3. n # 0
    <3>1. Right([k \in 0..0 |-> {ui}], 0)
      OBVIOUS
    <3> QED BY <3>1
  <2>4. PICK f : Right(f, n - 1)
    <3>1. n - 1 \in 0..N /\ ~(n <= n - 1)
      BY <2>3
    <3> QED BY <2>2, <3>1
  <2> DEFINE g == [k \in 0..n |-> IF k = 0 THEN {ui} ELSE After(f[k - 1], k)]
  <2>5. \A k \in 0..(n - 1) : g[k] = f[k]
    <3>1. \A k \in 0..(n - 1) : f[k] = IF k = 0 THEN {ui} ELSE After(f[k - 1], k)
      BY <2>4
    <3>2. \A k \in 0..n : g[k] = IF k = 0 THEN {ui} ELSE After(f[k - 1], k)
      OBVIOUS
    <3>3. \A k \in 0..(n - 1) : k \in 0..n
      OBVIOUS
    <3> HIDE DEF g
    <3> QED BY <3>1, <3>2, <3>3
  <2>6. Right(g, n)
    <3>1. \A k \in 0..n : k # 0 => k - 1 \in 0..(n - 1)
      BY <2>3
    <3>2. \A k \in 0..n : k # 0 => g[k - 1] = f[k - 1]
      BY <2>5, <3>1
    <3> QED BY <3>2
  <2> QED BY <2>2, <2>6
<1>2. Right(Dispatched, N)
  <2>1. Right(CHOOSE f : Right(f, N), N)
    BY <1>1
  <2> QED BY <2>1 DEF Dispatched
<1>3. \A k \in 0..N : Dispatched[k] = IF k = 0 THEN {ui} ELSE After(Dispatched[k - 1], k)
  <2> HIDE DEF After
  <2> QED BY <1>2
<1>4. Dispatched[0] = {ui} /\ \A k \in 1..N : Dispatched[k] = After(Dispatched[k - 1], k)
  <2> HIDE DEF After
  <2>1. 0 \in 0..N /\ \A k \in 1..N : k \in 0..N /\ k # 0
    OBVIOUS
  <2> QED BY <1>3, <2>1
<1> QED BY <1>4


(* At the start, at every event, and at the q that ends the batch. *)
LEMMA LookAheadStarts ==
    ASSUME InputInv, mode = "loop"
    PROVE  Stuck(VirtualUI) \/ InStep(VirtualUI, ui)
<1>1. ui \in UIStates /\ ~ui.discard /\ ~ui.home /\ OneTarget(ui)
  BY DEF InputInv, InputTypeOK
<1>2. VirtualUI \in VStates
  BY <1>1 DEF VirtualUI, VStates, UIStates
<1>3. CASE ui.switch = "running"
  BY <1>2, <1>3 DEF VirtualUI, Stuck, SwitchHolds
<1>4. CASE ui.switch # "running"
  BY <1>1, <1>2, <1>4 DEF VirtualUI, InStep
<1> QED BY <1>3, <1>4

LEMMA BatchInStep ==
    ASSUME InputInv, mode = "loop", batch \in Batches, ~OutOfStep
    PROVE  \A n \in 0..(Len(batch) - 1) :
             Stuck(Simulated[n]) \/ \A u \in Dispatched[n] : InStep(Simulated[n], u)
<1> DEFINE P(n) == Stuck(Simulated[n]) \/ \A u \in Dispatched[n] : InStep(Simulated[n], u)
<1> HIDE DEF P
<1>0. PICK N \in Nat : N = Len(batch)
  BY BatchFacts
<1> DEFINE T == {n \in 0..(N - 1) : ~P(n)}
<1>1. /\ N > 0 /\ DOMAIN batch = 1..N
      /\ \A k \in 1..N : batch[k] \in Events /\ (batch[k] = "q" => k = N)
  BY <1>0, BatchFacts
<1>2. SUFFICES ASSUME T # {} PROVE FALSE
  BY <1>0 DEF P
<1>3. PICK n \in T : \A m \in T : n <= m
  <2>1. T \subseteq Nat
    OBVIOUS
  <2> HIDE DEF T
  <2> QED BY <1>2, <2>1, LeastNatural
<1>4. n # 0
  <2>1. P(0)
    <3>1. Simulated[0] = VirtualUI /\ Dispatched[0] = {ui}
      BY <1>0, SimulatedFacts, DispatchedFacts
    <3> QED BY <3>1, LookAheadStarts DEF P
  <2> QED BY <2>1, <1>3
<1>5. n \in 1..N /\ n # N /\ n - 1 \in 0..(N - 1)
  BY <1>1, <1>3, <1>4
<1>6. P(n - 1)
  <2>1. ~(n <= n - 1)
    BY <1>1, <1>5
  <2> QED BY <1>3, <1>5, <2>1
<1>7. batch[n] \in Events \ {"q"}
  BY <1>1, <1>5
<1> DEFINE v == Simulated[n - 1]
<1>8. Simulated[n] = Simulate(v, batch[n])
  BY <1>0, <1>5, SimulatedFacts
<1>9. CASE Stuck(v)
  <2>1. Stuck(Simulated[n])
    <3> HIDE DEF v
    <3> QED BY <1>8, <1>9, StaysStuck
  <2> QED BY <1>3, <2>1 DEF P
<1>10. CASE ~Stuck(v)
  <2>1. SUFFICES ASSUME NEW x \in Dispatched[n], ~Stuck(Simulated[n])
                 PROVE  InStep(Simulated[n], x)
    BY <1>3 DEF P
  <2>2. PICK u \in Dispatched[n - 1] :
          x \in IF u.discard \/ u.home THEN {u} ELSE Handle(u, batch[n])
    BY <1>0, <1>5, DispatchedFacts
  <2>3. InStep(v, u)
    BY <1>6, <1>10 DEF P
  <2>4. x \in Handle(u, batch[n])
    BY <2>2, <2>3 DEF InStep
  <2>5. batch[n] = "enter" => ~EnterIsUndecided(u)
    BY <1>0, <1>5, <2>2 DEF OutOfStep
  <2>6. batch[n] = "escRepeat" => ~RepeatCancels(u)
    BY <1>0, <1>5, <2>2 DEF OutOfStep
  <2>7. batch[n] = "nav" => "aside" \notin ui.edits
    <3>1. batch[n] = "nav" => "nav" \in ToSet(batch)
      BY <1>1, <1>5 DEF ToSet
    <3> QED BY <3>1 DEF OutOfStep
  <2> HIDE DEF v
  <2> QED BY <1>7, <1>8, <1>10, <2>1, <2>3, <2>4, <2>5, <2>6, <2>7, EventInStep
<1> QED BY <1>9, <1>10

LEMMA LookAheadInStep ==
    ASSUME InputInv
    PROVE  QuitIsOrderedElsewhere
<1> SUFFICES ASSUME mode = "loop", LookAheadQuits, ~OutOfStep, NEW x \in Dispatched[Len(batch)]
             PROVE  x.quit
  BY DEF QuitIsOrderedElsewhere
<1>1. batch \in Batches
  <2>1. CASE batch = << >>
    <3>1. Len(batch) = 0
      BY <2>1
    <3>2. Simulated[Len(batch)] = VirtualUI
      BY <3>1, SimulatedFacts
    <3>3. VirtualUI.verdict = "open"
      BY DEF VirtualUI
    <3> QED BY <3>2, <3>3 DEF LookAheadQuits
  <2> QED BY <2>1 DEF InputInv, InputTypeOK
<1>2. /\ Len(batch) \in Nat /\ Len(batch) > 0
      /\ \A k \in 1..Len(batch) : batch[k] \in Events
  BY <1>1, BatchFacts
<1> DEFINE N == Len(batch)
           v == Simulated[N - 1]
<1>3. N \in 1..N /\ N - 1 \in 0..(N - 1)
  BY <1>2
<1>4. Simulated[N] = Simulate(v, batch[N]) /\ Simulated[N].verdict = "quit"
  BY <1>2, <1>3, SimulatedFacts DEF LookAheadQuits
<1>5. ~Stuck(v) /\ ~Stuck(Simulated[N])
  <2>1. ~Stuck(Simulated[N])
    BY <1>4 DEF Stuck
  <2> HIDE DEF v, N
  <2> QED BY <1>4, <2>1, StaysStuck
<1>6. PICK u \in Dispatched[N - 1] :
        x \in IF u.discard \/ u.home THEN {u} ELSE Handle(u, batch[N])
  BY <1>2, <1>3, DispatchedFacts
<1>7. InStep(v, u)
  BY <1>1, <1>3, <1>5, <1>6, BatchInStep
<1>8. x \in Handle(u, batch[N])
  BY <1>6, <1>7 DEF InStep
<1>9. CASE batch[N] = "q"
  <2> HIDE DEF v, N
  <2> QED BY <1>4, <1>7, <1>8, <1>9, QuitInStep
<1>10. CASE batch[N] # "q"
  <2>1. batch[N] \in Events \ {"q"}
    BY <1>2, <1>3, <1>10
  <2>2. batch[N] = "enter" => ~EnterIsUndecided(u)
    BY <1>3, <1>6 DEF OutOfStep
  <2>3. batch[N] = "escRepeat" => ~RepeatCancels(u)
    BY <1>3, <1>6 DEF OutOfStep
  <2>4. batch[N] = "nav" => "aside" \notin ui.edits
    <3>1. DOMAIN batch = 1..N
      BY <1>1, BatchFacts
    <3>2. batch[N] = "nav" => "nav" \in ToSet(batch)
      BY <1>3, <3>1 DEF ToSet
    <3> QED BY <3>2 DEF OutOfStep
  <2>5. InStep(Simulated[N], x)
    <3> HIDE DEF v, N
    <3> QED BY <1>4, <1>5, <1>7, <1>8, <2>1, <2>2, <2>3, <2>4, EventInStep
  <2> QED BY <1>4, <2>5 DEF InStep
<1> QED BY <1>9, <1>10

(* The simulation of a batch finds a q to quit on only where the dispatch,   *)
(* event by event, would quit on it too: for batches of any length.  What    *)
(* OutOfStep names are the events for which the two pieces of code differ.   *)
THEOREM QuitsInStep == Spec => []QuitIsOrderedElsewhere
  BY InputInvariant, LookAheadInStep, PTL

-----------------------------------------------------------------------------
(* The inductive invariant. *)
Started(g) == worker[g].pc # "none"
Going(g) == worker[g].pc \notin {"none", "done", "crashed"}

BeforePost == {"ready", "baseline", "slot"}
AfterAnswer == {"tellAccepted", "untracked", "discover", "tellStarted", "poll"}

(* A thread and what became of its POST. *)
ThreadAgrees(g) ==
  /\ keyOf[g] # NoKey <=> Started(g)
  /\ Started(g) => g < next
  /\ ~Started(g) => worker[g] = NoWorker
  /\ g \in workers => Started(g)
  /\ Going(g) => g \in workers
  /\ worker[g].postStarted <=> server[g] # "none"
  /\ worker[g].pc \in BeforePost => ~worker[g].postStarted
  /\ worker[g].pc = "answer" => worker[g].postStarted
  /\ worker[g].pc \in AfterAnswer \/ worker[g].progress # "PreAccepted" => server[g] = "accepted"
  /\ worker[g].pc \in {"caught", "crashed"} => panics > 0

(* What the server lists, and what a thread knows of it. *)
ListAgrees(g) ==
  /\ \A k \in Keys : g \in listed[k] => keyOf[g] = k /\ server[g] = "accepted"
  /\ g \notin worker[g].known

(* A report in the channel is still true of its thread. *)
ReportAgrees(e) ==
  LET g == e.generation
  IN  /\ Started(g)
      /\ e.kind = "Accepted" => worker[g].progress # "PreAccepted"
      /\ e.kind \in {"Failed", "Cancelled"} => server[g] \in {"none", "rejected"}
      /\ e.kind \in {"Failed", "Cancelled", "Unknown", "Panicked"} => ~Going(g)
      /\ e.kind = "Cancelled" => worker[g].cancelled
      /\ e.kind = "Panicked" => panics > 0 /\ (e.value = "posted" <=> worker[g].postStarted)
      /\ e.kind = "Status" => e.value \in {"Judging", "Finished"}
      /\ e.kind = "Status" /\ e.value = "Finished" => ~Going(g)

IsVerdict(e) == e.kind = "Status" /\ e.value = "Finished"

(* A verdict is the last report of its thread. *)
VerdictIsLast ==
  \A i, j \in 1 .. Len(events) :
    i < j /\ IsVerdict(events[i]) => events[j].generation # events[i].generation

(* The record of a problem names submissions of this problem; a pending    *)
(* one is the newest of them, and then no outcome is unknown.              *)
RecordAgrees(k) ==
  LET r == records[k]
  IN  /\ \A x \in {r.pending, r.generation, r.unknown} : x # 0 => keyOf[x] = k
      /\ r.pending # 0 => /\ r.unknown = 0
                          /\ r.generation < r.pending
                          /\ \A g \in Generations : keyOf[g] = k => g <= r.pending
      /\ r.generation # 0 => worker[r.generation].progress # "PreAccepted"
      /\ r.state = "Finished" => /\ r.generation # 0
                                 /\ ~Going(r.generation)
                                 /\ \A i \in 1 .. Len(events) :
                                      events[i].generation # r.generation

(* Every submission is accounted for in the record of its problem. *)
IsAccounted(g) ==
  LET r == records[keyOf[g]]
  IN  /\ Going(g) /\ ~worker[g].postStarted => r.pending = g
      /\ server[g] \in {"sent", "accepted"} => g <= r.generation \/ g \in {r.pending, r.unknown}
      /\ history[g] = "absent" => server[g] \in {"none", "rejected"} /\ ~Going(g)
      /\ worker[g].cancelled => stopping \/ g < r.generation
      /\ stopping /\ Going(g) => worker[g].cancelled

(* The modal waits for the newest submission of all; during a tick its     *)
(* outcome may be recorded already.                                        *)
ModalAgrees ==
  LET r == records[keyOf[waiting]]
  IN  waiting # 0 =>
        /\ waiting = next - 1 /\ Started(waiting)
        /\ phase = "free" => r.pending = waiting \/ FailureOverwritten(keyOf[waiting], waiting)
        /\ phase \in {"drain", "reap"} =>
             \/ waiting \in {r.pending, r.unknown, r.generation, r.failure}
             \/ FailureOverwritten(keyOf[waiting], waiting)

ThreadInv == \A g \in Generations : ThreadAgrees(g)
ListInv == \A g \in Generations : ListAgrees(g)
ReportInv == \A i \in 1 .. Len(events) : ReportAgrees(events[i])
RecordInv == \A k \in Keys : RecordAgrees(k)
AccountInv == \A g \in Generations : Started(g) => IsAccounted(g)
StopInv == stopping => phase \in {"free", "closed"}

HubInv == /\ HubTypeOK /\ ThreadInv /\ ListInv /\ ReportInv /\ VerdictIsLast
          /\ RecordInv /\ AccountInv /\ StopInv /\ ModalAgrees

-----------------------------------------------------------------------------
(* What a report or a join does to the record of a problem: the record     *)
(* becomes r, and the history of the submission becomes h.                 *)

(* At most the message changes. *)
OnlyNotes(k, g, r, h) ==
  /\ r.pending = records[k].pending /\ r.generation = records[k].generation
  /\ r.unknown = records[k].unknown /\ r.state = records[k].state
  /\ r.failure = records[k].failure \/ (r.failure = g /\ panics > 0)
  /\ h = history[g]
  /\ worker' = worker

Accepts(k, g, r, h) ==
  /\ records[k].pending = g /\ worker[g].progress # "PreAccepted"
  /\ r.pending = 0 /\ r.generation = g /\ r.unknown = 0
  /\ r.state \in {"Accepted", "Untracked"}
  /\ h # "absent"
  /\ CancelReplaced(records[k].generation, g)

Updates(k, g, r, h) ==
  /\ records[k].generation = g /\ records[k].state # "Finished"
  /\ r.pending = records[k].pending /\ r.generation = g
  /\ r.unknown = records[k].unknown \/ (records[k].unknown = g /\ r.unknown = 0)
  /\ r.failure = records[k].failure \/ (r.failure = g /\ panics > 0)
  /\ r.state = "Finished" => /\ ~Going(g)
                             /\ \A i \in 1 .. Len(events') : events'[i].generation # g
  /\ h # "absent"
  /\ worker' = worker

Fails(k, g, r, h) ==
  /\ records[k].pending = g /\ ~Going(g) /\ server[g] \in {"none", "rejected"}
  /\ r.pending = 0 /\ r.generation = records[k].generation
  /\ r.unknown = records[k].unknown /\ r.state = records[k].state
  /\ r.failure = g \/ (r.failure = records[k].failure /\ worker[g].cancelled)
  /\ h = "absent"
  /\ worker' = worker

Loses(k, g, r, h) ==
  /\ records[k].pending = g /\ ~Going(g)
  /\ r.pending = 0 /\ r.generation = records[k].generation
  /\ r.unknown = g /\ r.state = records[k].state
  /\ r.failure = g \/ r.failure = records[k].failure
  /\ h # "absent"
  /\ worker' = worker

Effect(k, g) ==
  \E r \in RecordStates, h \in HistoryStates :
    /\ records' = [records EXCEPT ![k] = r]
    /\ history' = [history EXCEPT ![g] = h]
    /\ \/ OnlyNotes(k, g, r, h) \/ Accepts(k, g, r, h) \/ Updates(k, g, r, h)
       \/ Fails(k, g, r, h) \/ Loses(k, g, r, h)

(* A step of the tick that records something of submission g. *)
Recording(g) ==
  /\ g \in Generations /\ Started(g) /\ keyOf[g] \in Keys
  /\ phase \in {"drain", "reap"}
  /\ \/ events # <<>> /\ events' = Tail(events) /\ workers' = workers
     \/ events' = events /\ workers' = workers \ {g} /\ ~Going(g)
  /\ Effect(keyOf[g], g)
  /\ UNCHANGED <<next, stopping, phase, waiting, keyOf, server, listed, panics>>

-----------------------------------------------------------------------------
(* Facts about the channel. *)
LEMMA Oldest ==
  ASSUME HubTypeOK, events # <<>>
  PROVE  /\ Len(events) \in Nat \ {0} /\ Head(events) = events[1] /\ events[1] \in Reports
         /\ events' = Tail(events) =>
              /\ events' \in Seq(Reports) /\ Len(events') = Len(events) - 1
              /\ \A i \in 1 .. Len(events') : i + 1 \in 1 .. Len(events)
                                              /\ events'[i] = events[i + 1]
<1>1. events \in Seq(Reports)
  BY DEF HubTypeOK
<1> QED BY <1>1, HeadTailProperties, EmptySeq, LenProperties, ElementOfSeq

LEMMA Reported ==
  ASSUME HubTypeOK, NEW e \in Reports, events' = Append(events, e)
  PROVE  /\ events' \in Seq(Reports) /\ Len(events') = Len(events) + 1
         /\ Len(events) \in Nat
         /\ \A i \in 1 .. Len(events) : events'[i] = events[i]
         /\ events'[Len(events) + 1] = e
<1>1. events \in Seq(Reports)
  BY DEF HubTypeOK
<1> QED BY <1>1, AppendProperties, LenProperties

-----------------------------------------------------------------------------
(* Every report and every join has one of the five effects. *)
LEMMA StartedFacts ==
  ASSUME HubInv, NEW g \in Generations, Started(g)
  PROVE  /\ keyOf[g] \in Keys /\ g < next /\ g \in Nat \ {0}
         /\ ThreadAgrees(g) /\ RecordAgrees(keyOf[g]) /\ IsAccounted(g)
         /\ records[keyOf[g]] \in RecordStates /\ history[g] \in HistoryStates
<1>1. keyOf[g] \in Keys /\ g < next /\ ThreadAgrees(g)
  BY DEF HubInv, HubTypeOK, ThreadInv, ThreadAgrees
<1>2. RecordAgrees(keyOf[g]) /\ IsAccounted(g)
  BY <1>1 DEF HubInv, RecordInv, AccountInv
<1>3. g \in Nat \ {0}
  BY HubAssumption DEF Generations
<1>4. records[keyOf[g]] \in RecordStates /\ history[g] \in HistoryStates
  BY <1>1 DEF HubInv, HubTypeOK
<1> QED BY <1>1, <1>2, <1>3, <1>4

LEMMA ReportFacts ==
  ASSUME HubInv, events # <<>>
  PROVE  LET e == Head(events)
         IN  /\ e \in Reports /\ e.generation \in Generations /\ ReportAgrees(e)
             /\ Started(e.generation)
<1>1. Head(events) = events[1] /\ events[1] \in Reports /\ Len(events) \in Nat \ {0}
  BY Oldest DEF HubInv
<1>2. ReportAgrees(events[1])
  BY <1>1 DEF HubInv, ReportInv
<1>3. events[1].generation \in Generations
  BY <1>1 DEF Reports
<1> QED BY <1>1, <1>2, <1>3 DEF ReportAgrees

(* A report is about the oldest of its thread; those behind a verdict are  *)
(* about other threads.                                                    *)
LEMMA NothingAfterVerdict ==
  ASSUME HubInv, events # <<>>, events' = Tail(events), IsVerdict(Head(events))
  PROVE  \A i \in 1 .. Len(events') : events'[i].generation # Head(events).generation
<1>1. /\ Len(events) \in Nat \ {0} /\ Head(events) = events[1] /\ Len(events') = Len(events) - 1
      /\ \A i \in 1 .. Len(events') : i + 1 \in 1 .. Len(events) /\ events'[i] = events[i + 1]
  BY Oldest DEF HubInv
<1>2. \A i \in 1 .. Len(events') : 1 < i + 1 /\ 1 \in 1 .. Len(events)
  BY <1>1
<1> QED BY <1>1, <1>2 DEF HubInv, VerdictIsLast

LEMMA UpdateEffect ==
  ASSUME HubInv, NEW g \in Generations, NEW k, k = keyOf[g], Started(g), NEW s \in Shown \ {"none"},
         \E i \in 1 .. Len(events) : events[i].generation = g,
         s = "Finished" => /\ ~Going(g)
                           /\ \A i \in 1 .. Len(events') : events'[i].generation # g,
         UpdateCurrent(k, g, s)
  PROVE  Effect(k, g)
<1> DEFINE r == [records[k] EXCEPT !.state = s, !.discovering = FALSE]
<1>1. /\ k \in Keys /\ RecordAgrees(k) /\ g # 0 /\ g \in Nat
      /\ records[k] \in RecordStates /\ history[g] \in HistoryStates
      /\ records \in [Keys -> RecordStates] /\ history \in [Generations -> HistoryStates]
  BY StartedFacts DEF HubInv, HubTypeOK
<1>2. CASE IsCurrent(k, g)
  <2>1. records' = [records EXCEPT ![k] = r] /\ history' = [history EXCEPT ![g] = s]
    BY <1>1, <1>2 DEF UpdateCurrent, DiscoveryEnds, RecordStates
  <2>2. r \in RecordStates /\ s \in HistoryStates
    BY <1>1 DEF RecordStates, HistoryStates
  <2>3. records[k].generation = g /\ records[k].state # "Finished"
    BY <1>1, <1>2 DEF IsCurrent, RecordAgrees
  <2>4. Updates(k, g, r, s)
    BY <1>1, <1>2, <2>3 DEF Updates, UpdateCurrent, RecordStates, Shown
  <2> QED BY <2>1, <2>2, <2>4 DEF Effect
<1>3. CASE ~IsCurrent(k, g)
  <2>1. /\ records' = [records EXCEPT ![k] = records[k]] /\ history' = [history EXCEPT ![g] = history[g]]
        /\ OnlyNotes(k, g, records[k], history[g])
    BY <1>1, <1>3 DEF UpdateCurrent, OnlyNotes
  <2> QED BY <1>1, <2>1 DEF Effect
<1> QED BY <1>2, <1>3

(* Nothing is recorded. *)
LEMMA NoEffect ==
  ASSUME HubInv, NEW g \in Generations, Started(g), UNCHANGED <<records, history, worker>>
  PROVE  Effect(keyOf[g], g)
<1> DEFINE k == keyOf[g]
<1>1. /\ k \in Keys /\ records[k] \in RecordStates /\ history[g] \in HistoryStates
      /\ records \in [Keys -> RecordStates] /\ history \in [Generations -> HistoryStates]
  BY StartedFacts DEF HubInv, HubTypeOK
<1>2. /\ records' = [records EXCEPT ![k] = records[k]] /\ history' = [history EXCEPT ![g] = history[g]]
      /\ OnlyNotes(k, g, records[k], history[g])
  BY <1>1 DEF OnlyNotes
<1> QED BY <1>1, <1>2 DEF Effect

LEMMA FailEffect ==
  ASSUME HubInv, NEW g \in Generations, Started(g), ~Going(g), server[g] \in {"none", "rejected"},
         FailPending(keyOf[g], g)
  PROVE  Effect(keyOf[g], g)
<1> DEFINE k == keyOf[g]
           r == [records[k] EXCEPT !.pending = 0, !.failure = g]
<1>1. /\ k \in Keys /\ records[k] \in RecordStates /\ g \in Nat
      /\ records \in [Keys -> RecordStates] /\ history \in [Generations -> HistoryStates]
  BY StartedFacts DEF HubInv, HubTypeOK
<1>2. CASE records[k].pending = g
  <2>1. records' = [records EXCEPT ![k] = r] /\ history' = [history EXCEPT ![g] = "absent"]
    BY <1>1, <1>2 DEF FailPending, FailureAfter, RecordStates
  <2>a. g \in 0 .. MaxGeneration /\ 0 \in 0 .. MaxGeneration
    BY HubAssumption DEF Generations
  <2>2. r \in RecordStates /\ "absent" \in HistoryStates
    BY <1>1, <2>a DEF RecordStates, HistoryStates
  <2>3. Fails(k, g, r, "absent")
    BY <1>1, <1>2 DEF Fails, FailPending, RecordStates
  <2> QED BY <2>1, <2>2, <2>3 DEF Effect
<1>3. CASE records[k].pending # g
  <2>1. UNCHANGED <<records, history, worker>>
    BY <1>3 DEF FailPending
  <2> QED BY <2>1, NoEffect
<1> QED BY <1>2, <1>3

LEMMA UnknownEffect ==
  ASSUME HubInv, NEW g \in Generations, Started(g), ~Going(g), NEW f \in {g, records[keyOf[g]].failure},
         BecomeUnknown(keyOf[g], g, f)
  PROVE  Effect(keyOf[g], g)
<1> DEFINE k == keyOf[g]
           r == [records[k] EXCEPT !.pending = 0, !.unknown = g, !.failure = f]
<1>1. /\ k \in Keys /\ records[k] \in RecordStates /\ g \in Nat
      /\ records \in [Keys -> RecordStates] /\ history \in [Generations -> HistoryStates]
  BY StartedFacts DEF HubInv, HubTypeOK
<1>2. CASE records[k].pending = g
  <2>1. records' = [records EXCEPT ![k] = r] /\ history' = [history EXCEPT ![g] = "Unknown"]
    BY <1>1, <1>2 DEF BecomeUnknown, RecordStates
  <2>a. g \in 0 .. MaxGeneration /\ 0 \in 0 .. MaxGeneration
    BY HubAssumption DEF Generations
  <2>2. r \in RecordStates /\ "Unknown" \in HistoryStates
    BY <1>1, <2>a DEF RecordStates, HistoryStates
  <2>3. Loses(k, g, r, "Unknown")
    BY <1>1, <1>2 DEF Loses, BecomeUnknown, RecordStates
  <2> QED BY <2>1, <2>2, <2>3 DEF Effect
<1>3. CASE records[k].pending # g
  <2>1. UNCHANGED <<records, history, worker>>
    BY <1>3 DEF BecomeUnknown
  <2> QED BY <2>1, NoEffect
<1> QED BY <1>2, <1>3

LEMMA AcceptEffect ==
  ASSUME HubInv, NEW g \in Generations, Started(g), worker[g].progress # "PreAccepted",
         OnAccepted(keyOf[g], g)
  PROVE  Effect(keyOf[g], g)
<1> DEFINE k == keyOf[g]
           r == [records[k] EXCEPT !.pending = 0, !.generation = g, !.state = "Accepted",
                                   !.discovering = TRUE, !.failure = 0]
<1>1. /\ k \in Keys /\ records[k] \in RecordStates /\ g \in Nat
      /\ records \in [Keys -> RecordStates] /\ history \in [Generations -> HistoryStates]
  BY StartedFacts DEF HubInv, HubTypeOK
<1>2. CASE records[k].pending = g /\ records[k].unknown = 0
  <2>1. /\ records' = [records EXCEPT ![k] = r] /\ history' = [history EXCEPT ![g] = "Accepted"]
        /\ CancelReplaced(records[k].generation, g)
    BY <1>1, <1>2 DEF OnAccepted, RecordStates
  <2>2. g \in 0 .. MaxGeneration /\ 0 \in 0 .. MaxGeneration
    BY HubAssumption DEF Generations
  <2>3. r \in RecordStates /\ "Accepted" \in HistoryStates
    BY <1>1, <2>2 DEF RecordStates, HistoryStates, Shown
  <2>4. Accepts(k, g, r, "Accepted")
    BY <1>1, <1>2, <2>1 DEF Accepts, RecordStates
  <2> QED BY <2>1, <2>3, <2>4 DEF Effect
<1>3. CASE ~(records[k].pending = g /\ records[k].unknown = 0)
  <2>1. UNCHANGED <<records, history, worker>>
    BY <1>3 DEF OnAccepted
  <2> QED BY <2>1, NoEffect
<1> QED BY <1>2, <1>3

(* A cancellation is reported only by a thread that was cancelled. *)
LEMMA CancelledEffect ==
  ASSUME HubInv, NEW g \in Generations, Started(g), ~Going(g), server[g] \in {"none", "rejected"},
         worker[g].cancelled, OnCancelled(keyOf[g], g)
  PROVE  Effect(keyOf[g], g)
<1> DEFINE k == keyOf[g]
           r == [records[k] EXCEPT !.pending = 0]
<1>1. /\ k \in Keys /\ records[k] \in RecordStates /\ g \in Nat
      /\ records \in [Keys -> RecordStates] /\ history \in [Generations -> HistoryStates]
  BY StartedFacts DEF HubInv, HubTypeOK
<1>2. CASE records[k].pending = g
  <2>1. records' = [records EXCEPT ![k] = r] /\ history' = [history EXCEPT ![g] = "absent"]
    BY <1>1, <1>2 DEF OnCancelled, RecordStates
  <2>2. 0 \in 0 .. MaxGeneration
    BY HubAssumption
  <2>3. r \in RecordStates /\ "absent" \in HistoryStates
    BY <1>1, <2>2 DEF RecordStates, HistoryStates
  <2>4. Fails(k, g, r, "absent")
    BY <1>1, <1>2 DEF Fails, OnCancelled, RecordStates
  <2> QED BY <2>1, <2>3, <2>4 DEF Effect
<1>3. CASE records[k].pending # g
  <2>1. UNCHANGED <<records, history, worker>>
    BY <1>3 DEF OnCancelled
  <2> QED BY <2>1, NoEffect
<1> QED BY <1>2, <1>3

(* A panic is noted as the failure of the attempt. *)
LEMMA NoteEffect ==
  ASSUME HubInv, NEW g \in Generations, Started(g), panics > 0, UNCHANGED <<history, worker>>,
         records' = [records EXCEPT ![keyOf[g]].failure =
                       IF records[keyOf[g]].generation = g THEN g ELSE @]
  PROVE  Effect(keyOf[g], g)
<1> DEFINE k == keyOf[g]
           r == [records[k] EXCEPT !.failure = IF records[k].generation = g THEN g ELSE @]
<1>1. /\ k \in Keys /\ records[k] \in RecordStates /\ history[g] \in HistoryStates
      /\ records \in [Keys -> RecordStates] /\ history \in [Generations -> HistoryStates]
  BY StartedFacts DEF HubInv, HubTypeOK
<1>2. records' = [records EXCEPT ![k] = r] /\ history' = [history EXCEPT ![g] = history[g]]
  BY <1>1 DEF RecordStates
<1>3. g \in 0 .. MaxGeneration
  BY HubAssumption DEF Generations
<1>4. r \in RecordStates
  BY <1>1, <1>3 DEF RecordStates
<1>5. OnlyNotes(k, g, r, history[g])
  BY <1>1 DEF OnlyNotes, RecordStates
<1> QED BY <1>1, <1>2, <1>4, <1>5 DEF Effect

(* The tracking of the current submission is lost. *)
LEMMA UntrackedEffect ==
  ASSUME HubInv, NEW g \in Generations, Started(g), panics > 0,
         records[keyOf[g]].generation = g, records[keyOf[g]].state # "Finished",
         NEW r \in RecordStates,
         r.pending = records[keyOf[g]].pending, r.generation = g, r.state = "Untracked",
         \/ r.unknown = records[keyOf[g]].unknown
         \/ records[keyOf[g]].unknown = g /\ r.unknown = 0,
         r.failure = g,
         records' = [records EXCEPT ![keyOf[g]] = r], history' = [history EXCEPT ![g] = "Untracked"],
         worker' = worker
  PROVE  Effect(keyOf[g], g)
<1>1. Updates(keyOf[g], g, r, "Untracked")
  BY DEF Updates
<1>2. "Untracked" \in HistoryStates
  BY DEF HistoryStates, Shown
<1> QED BY <1>1, <1>2 DEF Effect

LEMMA PanicEffect ==
  ASSUME HubInv, NEW g \in Generations, Started(g), ~Going(g), panics > 0,
         OnPanic(keyOf[g], g, worker[g].postStarted)
  PROVE  Effect(keyOf[g], g)
<1> DEFINE k == keyOf[g]
           r == [records[k] EXCEPT !.state = "Untracked", !.discovering = FALSE, !.failure = g]
<1>1. /\ k \in Keys /\ records[k] \in RecordStates /\ ThreadAgrees(g)
      /\ records \in [Keys -> RecordStates]
  BY StartedFacts DEF HubInv, HubTypeOK
<1>2. CASE records[k].pending = g /\ worker[g].postStarted
  BY <1>2, UnknownEffect DEF OnPanic
<1>3. CASE records[k].pending = g /\ ~worker[g].postStarted
  <2>1. server[g] \in {"none", "rejected"}
    BY <1>1, <1>3 DEF ThreadAgrees
  <2> QED BY <1>3, <2>1, FailEffect DEF OnPanic
<1>4. CASE records[k].pending # g /\ records[k].generation = g /\ records[k].state # "Finished"
  <2>1. /\ records' = [records EXCEPT ![k] = r] /\ history' = [history EXCEPT ![g] = "Untracked"]
        /\ worker' = worker
    BY <1>1, <1>4 DEF OnPanic, RecordStates
  <2>2. g \in 0 .. MaxGeneration
    BY HubAssumption DEF Generations
  <2>3. /\ r \in RecordStates /\ r.pending = records[k].pending /\ r.generation = g
        /\ r.state = "Untracked" /\ r.unknown = records[k].unknown /\ r.failure = g
    BY <1>1, <1>4, <2>2 DEF RecordStates, Shown
  <2> QED BY <1>4, <2>1, <2>3, UntrackedEffect
<1>5. CASE records[k].pending # g /\ ~(records[k].generation = g /\ records[k].state # "Finished")
  BY <1>5, NoteEffect DEF OnPanic
<1> QED BY <1>2, <1>3, <1>4, <1>5

LEMMA ApplyEffect ==
  ASSUME HubInv, ApplyEvent
  PROVE  Effect(keyOf[Head(events).generation], Head(events).generation)
<1> DEFINE e == Head(events)
           g == e.generation
           k == keyOf[g]
<1>1. /\ events # <<>> /\ events' = Tail(events) /\ Apply(e)
      /\ e \in Reports /\ g \in Generations /\ ReportAgrees(e) /\ Started(g)
  BY ReportFacts DEF ApplyEvent
<1>2. \E i \in 1 .. Len(events) : events[i].generation = g
  BY <1>1, Oldest DEF HubInv
<1>3. e.kind \in {"Accepted", "TrackingStarted", "Status", "TrackingUnavailable", "Failed",
                  "Cancelled", "Unknown", "Panicked"}
  BY <1>1 DEF Reports
<1>4. CASE e.kind = "Accepted"
  <2>1. OnAccepted(k, g)
    BY <1>1, <1>4 DEF Apply
  <2>2. worker[g].progress # "PreAccepted"
    BY <1>1, <1>4 DEF ReportAgrees
  <2> QED BY <1>1, <2>1, <2>2, AcceptEffect
<1>5. CASE e.kind \in {"TrackingStarted", "TrackingUnavailable"}
  <2>1. UpdateCurrent(k, g, "Accepted") \/ UpdateCurrent(k, g, "Untracked")
    BY <1>1, <1>5 DEF Apply
  <2> QED BY <1>1, <1>2, <2>1, UpdateEffect DEF Shown
<1>6. CASE e.kind = "Status"
  <2>1. UpdateCurrent(k, g, e.value)
    BY <1>1, <1>6 DEF Apply
  <2>2. e.value \in {"Judging", "Finished"} /\ (e.value = "Finished" => ~Going(g))
    BY <1>1, <1>6 DEF ReportAgrees
  <2>3. e.value = "Finished" => \A i \in 1 .. Len(events') : events'[i].generation # g
    BY <1>1, <1>6, NothingAfterVerdict DEF IsVerdict
  <2> QED BY <1>1, <1>2, <2>1, <2>2, <2>3, UpdateEffect DEF Shown
<1>7. CASE e.kind = "Failed"
  <2>1. FailPending(k, g)
    BY <1>1, <1>7 DEF Apply
  <2> QED BY <1>1, <1>7, <2>1, FailEffect DEF ReportAgrees
<1>8. CASE e.kind = "Cancelled"
  <2>1. OnCancelled(k, g)
    BY <1>1, <1>8 DEF Apply
  <2> QED BY <1>1, <1>8, <2>1, CancelledEffect DEF ReportAgrees
<1>9. CASE e.kind = "Unknown"
  <2>1. BecomeUnknown(k, g, records[k].failure)
    BY <1>1, <1>9 DEF Apply
  <2> QED BY <1>1, <1>9, <2>1, UnknownEffect DEF ReportAgrees
<1>10. CASE e.kind = "Panicked"
  <2>1. OnPanic(k, g, e.value = "posted")
    BY <1>1, <1>10 DEF Apply
  <2>2. /\ ~Going(g) /\ panics > 0 /\ worker[g].postStarted \in BOOLEAN
        /\ (e.value = "posted" <=> worker[g].postStarted)
    BY <1>1, <1>10 DEF ReportAgrees, HubInv, HubTypeOK, WorkerStates
  <2>3. (e.value = "posted") = worker[g].postStarted
    BY <2>2
  <2>4. OnPanic(k, g, worker[g].postStarted)
    BY <2>1, <2>3
  <2> QED BY <1>1, <2>2, <2>4, PanicEffect
<1> QED BY <1>3, <1>4, <1>5, <1>6, <1>7, <1>8, <1>9, <1>10

LEMMA JoinEffect ==
  ASSUME HubInv, NEW g \in Generations, worker[g].pc = "crashed", OnJoinPanic(keyOf[g], g)
  PROVE  Effect(keyOf[g], g)
<1> DEFINE k == keyOf[g]
           lost == [records[k] EXCEPT !.pending = 0, !.unknown = g, !.failure = g]
           r == [records[k] EXCEPT !.pending = IF @ = g THEN 0 ELSE @,
                                   !.unknown = IF @ = g THEN 0 ELSE @,
                                   !.generation = g, !.state = "Untracked",
                                   !.discovering = FALSE, !.failure = g]
<1>1. Started(g) /\ ~Going(g)
  BY DEF Started, Going
<1>2. /\ k \in Keys /\ records[k] \in RecordStates /\ ThreadAgrees(g) /\ g \in Nat \ {0}
      /\ RecordAgrees(k) /\ records \in [Keys -> RecordStates]
  BY <1>1, StartedFacts DEF HubInv, HubTypeOK
<1>3. panics > 0
  BY <1>2 DEF ThreadAgrees
<1>4. g \in 0 .. MaxGeneration /\ 0 \in 0 .. MaxGeneration
  BY HubAssumption DEF Generations
<1>5. CASE \/ records[k].generation = g /\ records[k].state = "Finished"
           \/ records[k].pending # g /\ records[k].generation # g
  BY <1>1, <1>3, <1>5, NoteEffect DEF OnJoinPanic
<1>6. CASE /\ ~(records[k].generation = g /\ records[k].state = "Finished")
           /\ ~(records[k].pending # g /\ records[k].generation # g)
           /\ worker[g].progress = "PreAccepted"
  <2>1. records[k].generation # g
    BY <1>2, <1>6 DEF RecordAgrees
  <2>2. CASE ~worker[g].postStarted
    <3>1. server[g] \in {"none", "rejected"}
      BY <1>2, <2>2 DEF ThreadAgrees
    <3>2. FailPending(k, g)
      BY <1>6, <2>2 DEF OnJoinPanic
    <3> QED BY <1>1, <3>1, <3>2, FailEffect
  <2>3. CASE worker[g].postStarted
    <3>1. records[k].pending = g
      BY <1>6, <2>1
    <3>2. /\ records' = [records EXCEPT ![k] = lost] /\ history' = [history EXCEPT ![g] = "Unknown"]
          /\ worker' = worker
      BY <1>2, <1>6, <2>3, <3>1 DEF OnJoinPanic, RecordStates
    <3>3. lost \in RecordStates /\ "Unknown" \in HistoryStates
      BY <1>2, <1>4 DEF RecordStates, HistoryStates
    <3>4. Loses(k, g, lost, "Unknown")
      BY <1>1, <1>2, <3>1, <3>2 DEF Loses, RecordStates
    <3> QED BY <3>2, <3>3, <3>4 DEF Effect
  <2> QED BY <2>2, <2>3
<1>7. CASE /\ ~(records[k].generation = g /\ records[k].state = "Finished")
           /\ ~(records[k].pending # g /\ records[k].generation # g)
           /\ worker[g].progress # "PreAccepted"
  <2>1. /\ records' = [records EXCEPT ![k] = r] /\ history' = [history EXCEPT ![g] = "Untracked"]
        /\ CancelReplaced(records[k].generation, g)
    BY <1>2, <1>7 DEF OnJoinPanic, RecordStates
  <2>2. r \in RecordStates /\ "Untracked" \in HistoryStates
    BY <1>2, <1>4 DEF RecordStates, HistoryStates, Shown
  <2>3. /\ r.pending = IF records[k].pending = g THEN 0 ELSE records[k].pending
        /\ r.unknown = IF records[k].unknown = g THEN 0 ELSE records[k].unknown
        /\ r.generation = g /\ r.state = "Untracked" /\ r.failure = g
    BY <1>2 DEF RecordStates
  <2> HIDE DEF r
  <2>4. CASE records[k].pending = g
    <3>1. records[k].unknown = 0
      BY <1>2, <2>4 DEF RecordAgrees
    <3>2. Accepts(k, g, r, "Untracked")
      BY <1>2, <1>7, <2>1, <2>3, <2>4, <3>1 DEF Accepts
    <3> QED BY <2>1, <2>2, <3>2 DEF Effect
  <2>5. CASE records[k].pending # g
    <3>1. records[k].generation = g /\ records[k].state # "Finished"
      BY <1>7, <2>5
    <3>2. worker' = worker
      BY <2>1, <3>1 DEF CancelReplaced
    <3> QED BY <1>1, <1>3, <2>1, <2>2, <2>3, <2>5, <3>1, <3>2, UntrackedEffect
  <2> QED BY <2>4, <2>5
<1> QED BY <1>5, <1>6, <1>7

LEMMA ApplyRecords ==
  ASSUME HubInv, ApplyEvent
  PROVE  Recording(Head(events).generation)
<1> DEFINE g == Head(events).generation
<1>1. g \in Generations /\ Started(g) /\ keyOf[g] \in Keys
  BY ReportFacts, StartedFacts DEF ApplyEvent
<1>2. Effect(keyOf[g], g)
  BY ApplyEffect
<1> QED BY <1>1, <1>2 DEF ApplyEvent, Recording, remote

LEMMA ReapRecords ==
  ASSUME HubInv, NEW g \in Generations, ReapOne(g)
  PROVE  Recording(g)
<1>1. Started(g) /\ ~Going(g)
  BY DEF ReapOne, Ended, Started, Going
<1>2. keyOf[g] \in Keys
  BY <1>1, StartedFacts
<1>3. Effect(keyOf[g], g)
  BY <1>1, NoEffect, JoinEffect DEF ReapOne
<1> QED BY <1>1, <1>2, <1>3 DEF ReapOne, Recording, remote

-----------------------------------------------------------------------------
(* A step that records an outcome keeps the invariant. *)

SameThread(x) ==
  /\ worker'[x].pc = worker[x].pc /\ worker'[x].postStarted = worker[x].postStarted
  /\ worker'[x].progress = worker[x].progress
  /\ worker'[x].known = worker[x].known /\ worker'[x].tracked = worker[x].tracked

(* It changes no thread, but that the one replaced is told to stop. *)
LEMMA ThreadsAfterRecording ==
  ASSUME HubInv, NEW g \in Generations, Recording(g)
  PROVE  /\ worker' \in [Generations -> WorkerStates]
         /\ \A x \in Generations :
              /\ SameThread(x)
              /\ ~Started(x) => worker'[x] = worker[x]
              /\ worker[x].cancelled => worker'[x].cancelled
              /\ worker'[x].cancelled /\ ~worker[x].cancelled =>
                   /\ x = records[keyOf[g]].generation /\ x # 0
                   /\ records'[keyOf[g]].generation = g
                   /\ records[keyOf[g]].pending = g
<1> DEFINE k == keyOf[g]
           old == records[k].generation
<1>1. worker \in [Generations -> WorkerStates] /\ k \in Keys /\ Started(g)
  BY DEF HubInv, HubTypeOK, Recording
<1>2. worker' = worker \/ (\E r, h : Accepts(k, g, r, h) /\ records' = [records EXCEPT ![k] = r])
  BY DEF Recording, Effect, OnlyNotes, Updates, Fails, Loses
<1>3. CASE worker' = worker
  BY <1>1, <1>3 DEF SameThread
<1>4. CASE worker' # worker
  <2>1. PICK r, h : Accepts(k, g, r, h) /\ records' = [records EXCEPT ![k] = r]
    BY <1>2, <1>4
  <2>2. old # 0 /\ old # g /\ old \in workers /\ worker' = Cancel(old)
    BY <1>4, <2>1 DEF Accepts, CancelReplaced
  <2>3. worker' = [worker EXCEPT ![old] = [worker[old] EXCEPT !.cancelled = TRUE]]
    BY <1>1, <2>2 DEF Cancel
  <2>4. old \in Generations /\ Started(old)
    BY <2>2 DEF HubInv, HubTypeOK, ThreadInv, ThreadAgrees
  <2>5. records'[k].generation = g /\ records[k].pending = g
    BY <1>1, <2>1 DEF Accepts, HubInv, HubTypeOK
  <2>6. \A x \in Generations : x # old => worker'[x] = worker[x]
    BY <1>1, <2>3
  <2>7. /\ worker'[old] = [worker[old] EXCEPT !.cancelled = TRUE]
        /\ worker[old] \in WorkerStates
    BY <1>1, <2>3, <2>4
  <2>8. /\ worker'[old] \in WorkerStates
        /\ SameThread(old)
        /\ worker'[old].cancelled
    BY <2>7 DEF WorkerStates, SameThread
  <2>9. worker' \in [Generations -> WorkerStates]
    BY <1>1, <2>3, <2>4, <2>7, <2>8
  <2>10. \A x \in Generations :
           /\ SameThread(x)
           /\ ~Started(x) => worker'[x] = worker[x]
           /\ worker[x].cancelled => worker'[x].cancelled
           /\ worker'[x].cancelled /\ ~worker[x].cancelled => x = old /\ x # 0
    BY <2>2, <2>4, <2>6, <2>8 DEF SameThread
  <2> QED BY <2>5, <2>9, <2>10
<1> QED BY <1>3, <1>4

LEMMA RecordAfterRecording ==
  ASSUME HubInv, NEW g \in Generations, Recording(g)
  PROVE  /\ records' \in [Keys -> RecordStates] /\ history' \in [Generations -> HistoryStates]
         /\ \A k \in Keys : k # keyOf[g] => records'[k] = records[k]
         /\ \A x \in Generations : x # g => history'[x] = history[x]
         /\ LET k == keyOf[g]
                r == records'[k]
                h == history'[g]
            IN  \/ OnlyNotes(k, g, r, h) \/ Accepts(k, g, r, h) \/ Updates(k, g, r, h)
                \/ Fails(k, g, r, h) \/ Loses(k, g, r, h)
<1> DEFINE k == keyOf[g]
<1>1. /\ k \in Keys /\ records \in [Keys -> RecordStates] /\ history \in [Generations -> HistoryStates]
  BY DEF Recording, HubInv, HubTypeOK
<1>2. PICK r \in RecordStates, h \in HistoryStates :
        /\ records' = [records EXCEPT ![k] = r]
        /\ history' = [history EXCEPT ![g] = h]
        /\ \/ OnlyNotes(k, g, r, h) \/ Accepts(k, g, r, h) \/ Updates(k, g, r, h)
           \/ Fails(k, g, r, h) \/ Loses(k, g, r, h)
  BY DEF Recording, Effect
<1>3. records'[k] = r /\ history'[g] = h
  BY <1>1, <1>2
<1> QED BY <1>1, <1>2, <1>3

LEMMA ThreadsKeepAgreeing ==
  ASSUME HubInv, NEW g \in Generations, Recording(g)
  PROVE  ThreadInv' /\ ListInv'
<1>1. /\ \A x \in Generations : /\ SameThread(x)
                                /\ ~Started(x) => worker'[x] = worker[x]
      /\ UNCHANGED <<next, keyOf, server, listed, panics>>
      /\ workers' = workers \/ (workers' = workers \ {g} /\ ~Going(g))
  BY ThreadsAfterRecording DEF Recording
<1>2. ASSUME NEW x \in Generations PROVE ThreadAgrees(x)'
  BY <1>1 DEF HubInv, ThreadInv, ThreadAgrees, Started, Going, SameThread
<1>3. ASSUME NEW x \in Generations PROVE ListAgrees(x)'
  BY <1>1 DEF HubInv, ListInv, ListAgrees, SameThread
<1> QED BY <1>2, <1>3 DEF ThreadInv, ListInv

LEMMA ReportsKeepAgreeing ==
  ASSUME HubInv, NEW g \in Generations, Recording(g)
  PROVE  /\ events' \in Seq(Reports)
         /\ ReportInv' /\ VerdictIsLast'
         /\ \A i \in 1 .. Len(events') : \E j \in 1 .. Len(events) : events'[i] = events[j]
<1>1. /\ \A x \in Generations : SameThread(x) /\ (worker[x].cancelled => worker'[x].cancelled)
      /\ UNCHANGED <<server, panics>>
  BY ThreadsAfterRecording DEF Recording
<1>2. /\ events \in Seq(Reports) /\ Len(events) \in Nat
      /\ \A i \in 1 .. Len(events) : events[i] \in Reports /\ ReportAgrees(events[i])
  BY LenProperties, ElementOfSeq DEF HubInv, HubTypeOK, ReportInv
<1>3. ASSUME NEW e \in Reports, ReportAgrees(e) PROVE ReportAgrees(e)'
  <2>1. e.generation \in Generations
    BY DEF Reports
  <2> QED BY <1>1, <1>3, <2>1 DEF ReportAgrees, SameThread, Started, Going
<1>4. CASE events' = events
  BY <1>2, <1>3, <1>4 DEF ReportInv, HubInv, VerdictIsLast
<1>5. CASE events # <<>> /\ events' = Tail(events)
  <2>1. /\ events' \in Seq(Reports) /\ Len(events') = Len(events) - 1
        /\ \A i \in 1 .. Len(events') : i + 1 \in 1 .. Len(events) /\ events'[i] = events[i + 1]
    BY <1>5, Oldest DEF HubInv
  <2>2. ReportInv'
    BY <1>2, <1>3, <2>1 DEF ReportInv
  <2>3. VerdictIsLast'
    <3>1. SUFFICES ASSUME NEW i \in 1 .. Len(events'), NEW j \in 1 .. Len(events'), i < j,
                          IsVerdict(events'[i])
                   PROVE  events'[j].generation # events'[i].generation
      BY DEF VerdictIsLast, IsVerdict
    <3>2. i + 1 \in 1 .. Len(events) /\ j + 1 \in 1 .. Len(events) /\ i + 1 < j + 1
      BY <1>2, <2>1, <3>1
    <3> QED BY <2>1, <3>1, <3>2 DEF HubInv, VerdictIsLast
  <2> QED BY <2>1, <2>2, <2>3
<1> QED BY <1>4, <1>5 DEF Recording

LEMMA RecordsKeepAgreeing ==
  ASSUME HubInv, NEW g \in Generations, Recording(g)
  PROVE  RecordInv'
<1>0. PICK k \in Keys : k = keyOf[g]
  BY DEF Recording
<1> DEFINE s == records[k]
           r == records'[k]
           h == history'[g]
<1>1. /\ \A x \in Generations : SameThread(x)
      /\ UNCHANGED keyOf
  BY ThreadsAfterRecording DEF Recording
<1>2. \A i \in 1 .. Len(events') : \E j \in 1 .. Len(events) : events'[i] = events[j]
  BY ReportsKeepAgreeing
<1>3. /\ k \in Keys /\ Started(g) /\ RecordAgrees(k) /\ s \in RecordStates /\ g \in Nat \ {0}
  BY <1>0, StartedFacts DEF Recording
<1>4. ASSUME NEW j \in Keys, j # k PROVE RecordAgrees(j)'
  <2>1. records'[j] = records[j] /\ records[j] \in RecordStates /\ RecordAgrees(j)
    BY <1>0, <1>4, RecordAfterRecording DEF HubInv, RecordInv, HubTypeOK
  <2>2. records[j].generation # 0 => records[j].generation \in Generations
    BY <2>1, HubAssumption DEF RecordStates, Generations
  <2> QED BY <1>1, <1>2, <2>1, <2>2 DEF RecordAgrees, SameThread, Going
<1>5. /\ r \in RecordStates
      /\ \/ OnlyNotes(k, g, r, h) \/ Accepts(k, g, r, h) \/ Updates(k, g, r, h)
         \/ Fails(k, g, r, h) \/ Loses(k, g, r, h)
  BY <1>0, <1>3, RecordAfterRecording
<1>6. s.generation # 0 => s.generation \in Generations
  BY <1>3, HubAssumption DEF RecordStates, Generations
<1> HIDE DEF h
<1>7. RecordAgrees(k)'
  <2>1. CASE OnlyNotes(k, g, r, h) \/ Fails(k, g, r, h)
    <3>1. /\ r.pending \in {0, s.pending} /\ r.generation = s.generation
          /\ r.unknown = s.unknown /\ r.state = s.state
      BY <2>1 DEF OnlyNotes, Fails
    <3>2. /\ \A x \in {r.pending, r.generation, r.unknown} : x # 0 => keyOf'[x] = k
          /\ r.pending # 0 => /\ r.unknown = 0
                              /\ r.generation < r.pending
                              /\ \A x \in Generations : keyOf'[x] = k => x <= r.pending
      BY <1>1, <1>3, <3>1 DEF RecordAgrees
    <3>3. /\ r.generation # 0 => worker'[r.generation].progress # "PreAccepted"
          /\ r.state = "Finished" => /\ r.generation # 0
                                     /\ worker'[r.generation].pc \in {"none", "done", "crashed"}
      BY <1>1, <1>3, <1>6, <3>1 DEF RecordAgrees, SameThread, Going
    <3>4. r.state = "Finished" => \A i \in 1 .. Len(events') :
                                    events'[i].generation # r.generation
      BY <1>2, <1>3, <3>1 DEF RecordAgrees
    <3> QED BY <3>2, <3>3, <3>4 DEF RecordAgrees, Going
  <2>2. CASE Accepts(k, g, r, h)
    BY <1>0, <1>1, <1>2, <1>3, <1>5, <1>6, <2>2 DEF Accepts, RecordAgrees, SameThread, Going, RecordStates
  <2>3. CASE Updates(k, g, r, h)
    BY <1>0, <1>1, <1>2, <1>3, <1>5, <1>6, <2>3 DEF Updates, RecordAgrees, SameThread, Going, RecordStates
  <2>4. CASE Loses(k, g, r, h)
    BY <1>0, <1>1, <1>2, <1>3, <1>5, <1>6, <2>4 DEF Loses, RecordAgrees, SameThread, Going, RecordStates
  <2> QED BY <1>5, <2>1, <2>2, <2>3, <2>4
<1> QED BY <1>4, <1>7 DEF RecordInv

LEMMA AccountsAfterRecording ==
  ASSUME HubInv, NEW g \in Generations, Recording(g)
  PROVE  AccountInv'
<1>0. PICK k \in Keys : k = keyOf[g]
  BY DEF Recording
<1> DEFINE s == records[k]
           r == records'[k]
           h == history'[g]
<1>1. /\ \A x \in Generations : SameThread(x)
      /\ \A x \in Generations : worker'[x].cancelled =>
           worker[x].cancelled \/ (x = s.generation /\ x # 0 /\ r.generation = g /\ s.pending = g)
      /\ \A x \in Generations : worker[x].cancelled => worker'[x].cancelled
      /\ UNCHANGED <<keyOf, server, stopping>>
  BY <1>0, ThreadsAfterRecording DEF Recording
<1>2. /\ Started(g) /\ RecordAgrees(k) /\ s \in RecordStates /\ g \in Nat \ {0}
  BY <1>0, StartedFacts DEF Recording
<1>3. /\ \A j \in Keys : j # k => records'[j] = records[j]
      /\ \A x \in Generations : x # g => history'[x] = history[x]
      /\ \/ OnlyNotes(k, g, r, h) \/ Accepts(k, g, r, h) \/ Updates(k, g, r, h)
         \/ Fails(k, g, r, h) \/ Loses(k, g, r, h)
  BY <1>0, RecordAfterRecording
<1>4. ASSUME NEW x \in Generations, Started(x) PROVE IsAccounted(x)'
  <2>1. keyOf[x] \in Keys /\ IsAccounted(x) /\ x \in Nat \ {0} /\ ThreadAgrees(x)
    BY <1>4, StartedFacts
  <2>2. CASE keyOf[x] # k
    <3>1. records'[keyOf[x]] = records[keyOf[x]] /\ history'[x] = history[x]
      BY <1>0, <1>3, <2>1, <2>2
    <3>2. worker'[x].cancelled => worker[x].cancelled
      BY <1>1, <1>2, <2>2 DEF RecordAgrees
    <3> QED BY <1>1, <2>1, <3>1, <3>2 DEF IsAccounted, SameThread, Going
  <2>3. CASE keyOf[x] = k
    <3>1. Going(x) /\ ~worker[x].postStarted => r.pending = x
      BY <1>2, <1>3, <2>1, <2>3
      DEF IsAccounted, RecordAgrees, ThreadAgrees, OnlyNotes, Accepts, Updates, Fails, Loses
    <3>2. server[x] \in {"sent", "accepted"} => x <= r.generation \/ x \in {r.pending, r.unknown}
      BY <1>2, <1>3, <2>1, <2>3
      DEF IsAccounted, RecordAgrees, OnlyNotes, Accepts, Updates, Fails, Loses, RecordStates
    <3>3. history'[x] = "absent" => server[x] \in {"none", "rejected"} /\ ~Going(x)
      BY <1>3, <2>1 DEF IsAccounted, OnlyNotes, Accepts, Updates, Fails, Loses
    <3>4. s.generation <= r.generation
      BY <1>2, <1>3
      DEF RecordAgrees, OnlyNotes, Accepts, Updates, Fails, Loses, RecordStates
    <3>5. worker'[x].cancelled => stopping \/ x < r.generation
      <4>1. CASE worker[x].cancelled
        <5>1. r.generation \in Nat
          BY <1>0, RecordAfterRecording, HubAssumption DEF RecordStates
        <5> QED BY <1>2, <2>1, <2>3, <3>4, <4>1, <5>1 DEF IsAccounted, RecordStates
      <4>2. CASE worker'[x].cancelled /\ ~worker[x].cancelled
        BY <1>1, <1>2, <4>2 DEF RecordAgrees
      <4> QED BY <4>1, <4>2
    <3>6. stopping /\ Going(x) => worker'[x].cancelled
      BY <1>1, <2>1 DEF IsAccounted
    <3> QED BY <1>1, <2>3, <3>1, <3>2, <3>3, <3>5, <3>6 DEF IsAccounted, SameThread, Going
  <2> QED BY <2>2, <2>3
<1>5. \A x \in Generations : Started(x)' <=> Started(x)
  BY <1>1 DEF Started, SameThread
<1> QED BY <1>4, <1>5 DEF AccountInv

(* What the modal waits for stays decided, or the one known case happens.  *)
LEMMA ModalAfterRecording ==
  ASSUME HubInv, NEW g \in Generations, Recording(g)
  PROVE  ModalAgrees'
<1>0. PICK k \in Keys : k = keyOf[g]
  BY DEF Recording
<1> DEFINE s == records[k]
           r == records'[k]
           h == history'[g]
<1>1. UNCHANGED <<keyOf, waiting, next, phase, panics>> /\ phase \in {"drain", "reap"}
  BY DEF Recording
<1> SUFFICES ASSUME waiting # 0 PROVE ModalAgrees'
  BY <1>1 DEF ModalAgrees
<1>2. /\ waiting \in Generations /\ waiting = next - 1 /\ Started(waiting) /\ next \in Nat
      /\ \/ waiting \in {records[keyOf[waiting]].pending, records[keyOf[waiting]].unknown,
                         records[keyOf[waiting]].generation, records[keyOf[waiting]].failure}
         \/ FailureOverwritten(keyOf[waiting], waiting)
  BY <1>1, HubAssumption DEF HubInv, HubTypeOK, ModalAgrees, Generations
<1>3. Started(waiting)'
  BY <1>1, <1>2, ThreadsAfterRecording DEF Started, SameThread
<1>4. keyOf[waiting] \in Keys /\ waiting \in Nat \ {0}
  BY <1>2, StartedFacts
<1>5. /\ \A j \in Keys : j # k => records'[j] = records[j]
      /\ \/ OnlyNotes(k, g, r, h) \/ Accepts(k, g, r, h) \/ Updates(k, g, r, h)
         \/ Fails(k, g, r, h) \/ Loses(k, g, r, h)
      /\ r \in RecordStates
  BY <1>0, RecordAfterRecording
<1>6. /\ g < next /\ g \in Nat \ {0} /\ RecordAgrees(k) /\ s \in RecordStates /\ IsAccounted(g)
  BY <1>0, StartedFacts DEF Recording
<1>7. CASE keyOf[waiting] # k
  BY <1>1, <1>2, <1>3, <1>4, <1>5, <1>7 DEF ModalAgrees, FailureOverwritten
<1>8. CASE keyOf[waiting] = k
  <2>1. g <= waiting
    BY <1>2, <1>6
  <2>2. s.pending = g => g = waiting
    BY <1>2, <1>4, <1>6, <1>8, <2>1 DEF RecordAgrees
  <2>3. ~stopping
    BY <1>1 DEF HubInv, StopInv
  <2>4. ~(s.pending = g /\ worker[g].cancelled)
    BY <1>0, <1>6, <2>3 DEF IsAccounted, RecordAgrees, RecordStates
  <2>5. \/ waiting \in {r.pending, r.unknown, r.generation, r.failure}
        \/ panics > 0 /\ r.failure \in 1 .. waiting - 1
    <3>0. \/ waiting \in {s.pending, s.unknown, s.generation, s.failure}
          \/ panics > 0 /\ s.failure \in 1 .. waiting - 1
      BY <1>2, <1>8 DEF FailureOverwritten
    <3>1. CASE OnlyNotes(k, g, r, h)
      BY <1>4, <1>6, <2>1, <3>0, <3>1 DEF OnlyNotes
    <3>2. CASE Accepts(k, g, r, h)
      BY <2>2, <3>2 DEF Accepts
    <3>3. CASE Updates(k, g, r, h)
      BY <1>4, <1>6, <2>1, <3>0, <3>3 DEF Updates
    <3>4. CASE Fails(k, g, r, h)
      BY <2>2, <2>4, <3>4 DEF Fails
    <3>5. CASE Loses(k, g, r, h)
      BY <2>2, <3>5 DEF Loses
    <3> QED BY <1>5, <3>1, <3>2, <3>3, <3>4, <3>5
  <2> QED BY <1>1, <1>2, <1>3, <1>8, <2>5 DEF ModalAgrees, FailureOverwritten
<1> QED BY <1>7, <1>8

LEMMA RecordingInv ==
  ASSUME HubInv, NEW g \in Generations, Recording(g), budget' \in 0 .. EventsPerTick
  PROVE  HubInv'
<1>1. /\ worker' \in [Generations -> WorkerStates] /\ events' \in Seq(Reports)
      /\ records' \in [Keys -> RecordStates] /\ history' \in [Generations -> HistoryStates]
  BY ThreadsAfterRecording, ReportsKeepAgreeing, RecordAfterRecording
<1>2. HubTypeOK'
  BY <1>1 DEF HubInv, HubTypeOK, Recording
<1>3. StopInv'
  BY DEF HubInv, StopInv, Recording
<1> QED BY <1>2, <1>3, ThreadsKeepAgreeing, ReportsKeepAgreeing, RecordsKeepAgreeing,
           AccountsAfterRecording, ModalAfterRecording DEF HubInv

-----------------------------------------------------------------------------
(* A step of a thread keeps the invariant. *)

(* The thread says nothing, or something that is true. *)
Tells(g) ==
  \/ events' = events
  \/ \E e \in Reports : /\ e.generation = g
                        /\ events' = Append(events, e)
                        /\ Going(g)
                        /\ ReportAgrees(e)'

(* A thread that takes a submission t to track: when its own is listed, it *)
(* takes that one. *)
Follows(g, t) == t = worker[g].tracked \/ (g \in listed[keyOf[g]] => t = g)

(* What the steps of a thread have in common. *)
ThreadStep(g) ==
  /\ UNCHANGED <<hub, listed>>
  /\ worker[g].pc \notin {"none", "crashed"}
  /\ worker' \in [Generations -> WorkerStates]
  /\ server' \in [Generations -> {"none", "sent", "accepted", "rejected"}]
  /\ \A x \in Generations : x # g => worker'[x] = worker[x] /\ server'[x] = server[x]
  /\ worker'[g].cancelled = worker[g].cancelled
  /\ Started(g)' /\ (Going(g)' => Going(g))
  /\ worker[g].progress # "PreAccepted" => worker'[g].progress # "PreAccepted"
  /\ panics' \in 0 .. MaxPanics /\ panics <= panics'
  /\ ThreadAgrees(g)'
  /\ g \notin worker'[g].known /\ Follows(g, worker'[g].tracked)
  /\ \/ server'[g] = server[g] /\ worker'[g].postStarted = worker[g].postStarted
     \/ /\ worker[g].pc = "slot" /\ ~worker[g].cancelled
        /\ server[g] = "none" /\ server'[g] = "sent"
        /\ worker'[g].postStarted /\ events' = events
  /\ Tells(g)

LEMMA OneThread ==
  ASSUME HubTypeOK, NEW g \in Generations, NEW w \in WorkerStates,
         worker' = [worker EXCEPT ![g] = w]
  PROVE  /\ worker' \in [Generations -> WorkerStates] /\ worker'[g] = w
         /\ \A x \in Generations : x # g => worker'[x] = worker[x]
BY DEF HubTypeOK

LEMMA GoingFacts ==
  ASSUME HubInv, NEW g \in Generations, worker[g].pc # "none"
  PROVE  /\ Started(g) /\ worker[g] \in WorkerStates
         /\ keyOf[g] # NoKey /\ keyOf[g] \in Keys /\ g < next
         /\ g \in workers \/ ~Going(g)
         /\ ThreadAgrees(g) /\ ListAgrees(g)
         /\ server \in [Generations -> {"none", "sent", "accepted", "rejected"}]
         /\ panics \in 0 .. MaxPanics
<1>1. Started(g)
  BY DEF Started
<1> QED BY <1>1, StartedFacts
        DEF HubInv, HubTypeOK, ListInv, ThreadAgrees

(* A thread that goes on to w: what w has to agree with. *)
LEMMA GoesOn ==
  ASSUME HubInv, NEW g \in Generations, Going(g), NEW w \in WorkerStates,
         worker' = [worker EXCEPT ![g] = w],
         UNCHANGED <<hub, remote, panics>>,
         w.pc \notin {"none", "crashed"}, w.pc = "caught" => panics > 0,
         w.cancelled = worker[g].cancelled, w.postStarted = worker[g].postStarted,
         w.pc \in BeforePost => ~w.postStarted,
         w.pc = "answer" => w.postStarted,
         w.pc \in AfterAnswer \/ w.progress # "PreAccepted" => server[g] = "accepted",
         worker[g].progress # "PreAccepted" => w.progress # "PreAccepted",
         g \notin w.known, Follows(g, w.tracked),
         Tells(g)
  PROVE  ThreadStep(g)
<1>1. /\ worker' \in [Generations -> WorkerStates] /\ worker'[g] = w
      /\ \A x \in Generations : x # g => worker'[x] = worker[x]
  BY OneThread DEF HubInv
<1>2. /\ worker[g].pc \notin {"none", "crashed"} /\ Started(g)' /\ (Going(g)' => Going(g))
  BY <1>1 DEF Going, Started
<1>3. /\ keyOf[g] # NoKey /\ g < next /\ g \in workers /\ ThreadAgrees(g)
      /\ server \in [Generations -> {"none", "sent", "accepted", "rejected"}]
      /\ panics \in 0 .. MaxPanics
  BY <1>2, GoingFacts
<1>4. ThreadAgrees(g)'
  BY <1>1, <1>2, <1>3 DEF ThreadAgrees, Started, Going, hub, remote
<1>5. panics <= panics'
  BY <1>3, HubAssumption
<1> QED BY <1>1, <1>2, <1>3, <1>4, <1>5 DEF ThreadStep, remote

(* The special case where only the program counter changes. *)
LEMMA OnlySteps ==
  ASSUME HubInv, NEW g \in Generations, Going(g), NEW pc \in ThreadSteps, Step(g, pc),
         UNCHANGED <<hub, remote, panics>>,
         pc \notin {"none", "caught", "crashed"},
         pc \in BeforePost => ~worker[g].postStarted,
         pc = "answer" => worker[g].postStarted,
         pc \in AfterAnswer => server[g] = "accepted",
         Tells(g)
  PROVE  ThreadStep(g)
<1> DEFINE w == [worker[g] EXCEPT !.pc = pc]
<1>1. worker[g] \in WorkerStates /\ worker \in [Generations -> WorkerStates]
  BY DEF HubInv, HubTypeOK
<1>2. worker' = [worker EXCEPT ![g] = w]
  BY <1>1 DEF Step
<1>3. /\ w \in WorkerStates /\ w.pc = pc /\ w.cancelled = worker[g].cancelled
      /\ w.postStarted = worker[g].postStarted /\ w.progress = worker[g].progress
      /\ w.known = worker[g].known /\ w.tracked = worker[g].tracked
  BY <1>1 DEF WorkerStates
<1>4. ThreadAgrees(g) /\ ListAgrees(g)
  BY GoingFacts DEF Going
<1> HIDE DEF w
<1>5. /\ w.pc \in AfterAnswer \/ w.progress # "PreAccepted" => server[g] = "accepted"
      /\ g \notin w.known /\ Follows(g, w.tracked)
  BY <1>3, <1>4 DEF ThreadAgrees, ListAgrees, Follows
<1> QED BY <1>2, <1>3, <1>5, GoesOn

(* The thread ends with the report of its result. *)
LEMMA FinishTells ==
  ASSUME HubInv, NEW g \in Generations, Going(g), NEW kind, Finish(g, kind),
         kind \in {"Failed", "Cancelled", "Unknown", "TrackingUnavailable"},
         kind \in {"Failed", "Cancelled"} => server[g] \in {"none", "rejected"},
         kind = "Cancelled" => worker[g].cancelled,
         UNCHANGED <<hub, remote, panics>>
  PROVE  ThreadStep(g)
<1> DEFINE e == Event(g, kind, "none")
<1>1. worker[g] \in WorkerStates /\ worker \in [Generations -> WorkerStates]
  BY DEF HubInv, HubTypeOK
<1>2. /\ worker'[g] = [worker[g] EXCEPT !.pc = "done"]
      /\ events' = Append(events, e) /\ Step(g, "done")
  BY <1>1 DEF Finish, Send, Step
<1>3. worker'[g].pc = "done" /\ worker'[g].cancelled = worker[g].cancelled
  BY <1>1, <1>2 DEF WorkerStates
<1>4. e \in Reports /\ e.generation = g /\ e.kind = kind
  BY DEF Event, Reports
<1> HIDE DEF e
<1>5. ReportAgrees(e)'
  BY <1>3, <1>4 DEF ReportAgrees, Started, Going, remote
<1>6. Tells(g)
  BY <1>2, <1>4, <1>5 DEF Tells
<1> QED BY <1>2, <1>6, OnlySteps DEF ThreadSteps, BeforePost, AfterAnswer

LEMMA FetchStep ==
  ASSUME HubInv, NEW g \in Generations, FetchSubmitPage(g)
  PROVE  ThreadStep(g)
<1>1. /\ Going(g) /\ UNCHANGED <<hub, remote, panics>>
      /\ worker[g].pc = "ready"
  BY DEF FetchSubmitPage, At, Going, Alone
<1>2. server[g] = "none" /\ ~worker[g].postStarted
  BY <1>1, GoingFacts DEF ThreadAgrees, BeforePost
<1>3. CASE worker[g].cancelled /\ Finish(g, "Cancelled")
  BY <1>1, <1>2, <1>3, FinishTells
<1>4. CASE Finish(g, "Failed")
  BY <1>1, <1>2, <1>4, FinishTells
<1>5. CASE Step(g, "baseline") /\ Silent
  BY <1>1, <1>2, <1>5, OnlySteps DEF ThreadSteps, BeforePost, AfterAnswer, Tells, Silent
<1> QED BY <1>3, <1>4, <1>5 DEF FetchSubmitPage

LEMMA BaselineStep ==
  ASSUME HubInv, NEW g \in Generations, CaptureBaseline(g)
  PROVE  ThreadStep(g)
<1> DEFINE noted == [worker[g] EXCEPT !.pc = "slot", !.baseline = "captured",
                                      !.known = listed[keyOf[g]]]
           unnoted == [worker[g] EXCEPT !.pc = "slot", !.baseline = "failed"]
<1>1. /\ Going(g) /\ UNCHANGED <<hub, remote, panics>> /\ Tells(g)
      /\ worker[g].pc = "baseline" /\ worker \in [Generations -> WorkerStates]
  BY DEF CaptureBaseline, At, Going, Alone, Tells, Silent, HubInv, HubTypeOK
<1>2. /\ server[g] = "none" /\ ~worker[g].postStarted /\ keyOf[g] \in Keys
      /\ worker[g] \in WorkerStates /\ ThreadAgrees(g) /\ ListAgrees(g)
  BY <1>1, GoingFacts DEF ThreadAgrees, BeforePost
<1>3. g \notin listed[keyOf[g]] /\ listed[keyOf[g]] \subseteq Generations \cup Others
  BY <1>2 DEF ListAgrees, HubInv, HubTypeOK
<1>4. CASE worker' = [worker EXCEPT ![g].pc = "slot", ![g].baseline = "captured",
                                    ![g].known = listed[keyOf[g]]]
  <2>1. worker' = [worker EXCEPT ![g] = noted]
    BY <1>1, <1>2, <1>4 DEF WorkerStates
  <2>2. /\ noted \in WorkerStates /\ noted.pc = "slot" /\ noted.cancelled = worker[g].cancelled
        /\ noted.postStarted = worker[g].postStarted /\ noted.progress = worker[g].progress
        /\ noted.known = listed[keyOf[g]] /\ noted.tracked = worker[g].tracked
    BY <1>2, <1>3 DEF WorkerStates, ThreadSteps
  <2> HIDE DEF noted
  <2>3. /\ noted.pc \in AfterAnswer \/ noted.progress # "PreAccepted" => server[g] = "accepted"
        /\ Follows(g, noted.tracked)
    BY <1>2, <2>2 DEF ThreadAgrees, ListAgrees, Follows, AfterAnswer
  <2> QED BY <1>1, <1>2, <1>3, <2>1, <2>2, <2>3, GoesOn
<1>5. CASE worker' = [worker EXCEPT ![g].pc = "slot", ![g].baseline = "failed"]
  <2>1. worker' = [worker EXCEPT ![g] = unnoted]
    BY <1>1, <1>2, <1>5 DEF WorkerStates
  <2>2. /\ unnoted \in WorkerStates /\ unnoted.pc = "slot"
        /\ unnoted.cancelled = worker[g].cancelled
        /\ unnoted.postStarted = worker[g].postStarted /\ unnoted.progress = worker[g].progress
        /\ unnoted.known = worker[g].known /\ unnoted.tracked = worker[g].tracked
    BY <1>2 DEF WorkerStates, ThreadSteps
  <2> HIDE DEF unnoted
  <2>3. /\ unnoted.pc \in AfterAnswer \/ unnoted.progress # "PreAccepted" => server[g] = "accepted"
        /\ Follows(g, unnoted.tracked) /\ g \notin unnoted.known
    BY <1>2, <2>2 DEF ThreadAgrees, ListAgrees, Follows, AfterAnswer
  <2> QED BY <1>1, <1>2, <2>1, <2>2, <2>3, GoesOn
<1> QED BY <1>4, <1>5 DEF CaptureBaseline

(* The gate: the one step that begins a POST. *)
LEMMA GateStep ==
  ASSUME HubInv, NEW g \in Generations, PassGate(g)
  PROVE  ThreadStep(g)
<1> DEFINE w == [worker[g] EXCEPT !.pc = "answer", !.postStarted = TRUE]
<1>1. /\ Going(g) /\ UNCHANGED <<hub, panics>>
      /\ worker[g].pc = "slot" /\ worker \in [Generations -> WorkerStates]
  BY DEF PassGate, At, Going, Alone, HubInv, HubTypeOK
<1>2. /\ server[g] = "none" /\ ~worker[g].postStarted
      /\ worker[g] \in WorkerStates /\ ThreadAgrees(g) /\ ListAgrees(g)
      /\ server \in [Generations -> {"none", "sent", "accepted", "rejected"}]
      /\ keyOf[g] # NoKey /\ g < next /\ g \in workers /\ panics \in 0 .. MaxPanics
  BY <1>1, GoingFacts DEF ThreadAgrees, BeforePost
<1>3. CASE worker[g].cancelled /\ Finish(g, "Cancelled") /\ UNCHANGED remote
  BY <1>1, <1>2, <1>3, FinishTells
<1>4. CASE Finish(g, "Failed") /\ UNCHANGED remote
  BY <1>1, <1>2, <1>4, FinishTells
<1>5. CASE /\ TryBeginPost(g)
           /\ worker' = [worker EXCEPT ![g].pc = "answer", ![g].postStarted = TRUE]
           /\ server' = [server EXCEPT ![g] = "sent"]
           /\ Silent /\ UNCHANGED listed
  <2>1. worker' = [worker EXCEPT ![g] = w]
    BY <1>1, <1>2, <1>5 DEF WorkerStates
  <2>2. /\ w \in WorkerStates /\ w.pc = "answer" /\ w.cancelled = worker[g].cancelled
        /\ w.postStarted /\ w.progress = worker[g].progress
        /\ w.known = worker[g].known /\ w.tracked = worker[g].tracked
    BY <1>2 DEF WorkerStates, ThreadSteps
  <2> HIDE DEF w
  <2>3. /\ worker' \in [Generations -> WorkerStates] /\ worker'[g] = w
        /\ \A x \in Generations : x # g => worker'[x] = worker[x]
    BY <2>1, <2>2, OneThread DEF HubInv
  <2>4. /\ server' \in [Generations -> {"none", "sent", "accepted", "rejected"}]
        /\ server'[g] = "sent"
        /\ \A x \in Generations : x # g => server'[x] = server[x]
    BY <1>2, <1>5
  <2>5. ThreadAgrees(g)'
    BY <1>1, <1>2, <2>2, <2>3, <2>4
    DEF ThreadAgrees, Started, Going, hub, BeforePost, AfterAnswer
  <2>6. panics <= panics'
    BY <1>1, <1>2, HubAssumption
  <2>7. Started(g)' /\ g \notin w.known /\ Follows(g, w.tracked)
    BY <1>2, <2>2, <2>3 DEF Started, ListAgrees, Follows
  <2>8. ~worker[g].cancelled /\ events' = events /\ Tells(g) /\ listed' = listed
    BY <1>5 DEF TryBeginPost, Silent, Tells
  <2> QED BY <1>1, <1>2, <2>2, <2>3, <2>4, <2>5, <2>6, <2>7, <2>8 DEF ThreadStep
<1> QED BY <1>3, <1>4, <1>5 DEF PassGate

LEMMA AnswerStep ==
  ASSUME HubInv, NEW g \in Generations, Answer(g)
  PROVE  ThreadStep(g)
<1>1. Going(g) /\ UNCHANGED <<hub, remote, panics>>
  BY DEF Answer, At, Going, Alone
<1>2. CASE Finish(g, "Unknown")
  BY <1>1, <1>2, FinishTells
<1>3. CASE server[g] = "rejected" /\ Finish(g, "Failed")
  BY <1>1, <1>3, FinishTells
<1>4. CASE server[g] = "accepted" /\ Step(g, "tellAccepted") /\ Silent
  BY <1>1, <1>4, OnlySteps DEF ThreadSteps, BeforePost, AfterAnswer, Tells, Silent
<1> QED BY <1>2, <1>3, <1>4 DEF Answer

LEMMA AcceptedStep ==
  ASSUME HubInv, NEW g \in Generations, TellAccepted(g)
  PROVE  ThreadStep(g)
<1> DEFINE pc == Unless(g, IF worker[g].baseline = "captured" THEN "discover" ELSE "untracked")
           w == [worker[g] EXCEPT !.progress = "AcceptedKnown", !.pc = pc]
           e == Event(g, "Accepted", "none")
<1>1. /\ Going(g) /\ UNCHANGED <<hub, remote, panics>> /\ events' = Append(events, e)
      /\ worker[g].pc = "tellAccepted" /\ worker \in [Generations -> WorkerStates]
  BY DEF TellAccepted, At, Going, Alone, Send, HubInv, HubTypeOK
<1>2. /\ server[g] = "accepted" /\ worker[g] \in WorkerStates /\ ThreadAgrees(g) /\ ListAgrees(g)
  BY <1>1, GoingFacts DEF ThreadAgrees, AfterAnswer
<1>3. pc \in {"discover", "untracked", "done"}
  BY DEF Unless
<1>4. worker' = [worker EXCEPT ![g] = w]
  BY <1>1, <1>2 DEF TellAccepted, WorkerStates
<1> HIDE DEF pc
<1>5. /\ w \in WorkerStates /\ w.pc = pc /\ w.cancelled = worker[g].cancelled
      /\ w.postStarted = worker[g].postStarted /\ w.progress = "AcceptedKnown"
      /\ w.known = worker[g].known /\ w.tracked = worker[g].tracked
  BY <1>2, <1>3 DEF WorkerStates, ThreadSteps
<1>6. e \in Reports /\ e.generation = g /\ e.kind = "Accepted"
  BY DEF Event, Reports
<1>7. worker'[g] = w
  BY <1>1, <1>4
<1> HIDE DEF w, e
<1>8. ReportAgrees(e)'
  BY <1>3, <1>5, <1>6, <1>7 DEF ReportAgrees, Started
<1>9. Tells(g)
  BY <1>1, <1>6, <1>8 DEF Tells
<1>10. g \notin w.known /\ Follows(g, w.tracked)
  BY <1>2, <1>5 DEF ListAgrees, Follows
<1> QED BY <1>1, <1>2, <1>3, <1>4, <1>5, <1>9, <1>10, GoesOn DEF BeforePost

LEMMA UntrackedStep ==
  ASSUME HubInv, NEW g \in Generations, TellUntracked(g)
  PROVE  ThreadStep(g)
<1>1. Going(g) /\ UNCHANGED <<hub, remote, panics>> /\ Finish(g, "TrackingUnavailable")
  BY DEF TellUntracked, At, Going, Alone
<1> QED BY <1>1, FinishTells

(* One's own submission, when listed, is among the new ones of the last    *)
(* look, so a single candidate is one's own.                               *)
LEMMA OwnCandidate ==
  ASSUME HubInv, NEW g \in Generations, worker[g].pc = "discover", g \in listed[keyOf[g]],
         NEW id \in Candidates(worker[g].found \cup (listed[keyOf[g]] \ worker[g].known))
  PROVE  id = g
<1> DEFINE found == worker[g].found \cup (listed[keyOf[g]] \ worker[g].known)
<1>1. /\ server[g] = "accepted" /\ worker[g] \in WorkerStates /\ keyOf[g] \in Keys
      /\ ListAgrees(g)
  BY GoingFacts DEF ThreadAgrees, AfterAnswer
<1>2. g \in found
  BY <1>1 DEF ListAgrees
<1>3. found \in SUBSET (Generations \cup Others)
  BY <1>1 DEF WorkerStates, HubInv, HubTypeOK
<1>4. IsFiniteSet(Generations \cup Others)
  <2>1. IsFiniteSet(Generations) /\ IsFiniteSet(Others)
    BY HubAssumption, FS_Interval DEF Generations
  <2> QED BY <2>1, FS_Union
<1>5. IsFiniteSet(found)
  BY <1>3, <1>4, FS_Subset
<1> HIDE DEF found
<1>6. id \in found /\ Cardinality(found) = 1
  BY DEF Candidates, found
<1>7. PICK x : found = {x}
  BY <1>5, <1>6, FS_Singleton
<1> QED BY <1>2, <1>6, <1>7

LEMMA DiscoverStep ==
  ASSUME HubInv, NEW g \in Generations, Discover(g)
  PROVE  ThreadStep(g)
<1> DEFINE found == worker[g].found \cup (listed[keyOf[g]] \ worker[g].known)
<1>1. /\ Going(g) /\ UNCHANGED <<hub, remote, panics>> /\ Tells(g)
      /\ worker[g].pc = "discover" /\ worker \in [Generations -> WorkerStates]
  BY DEF Discover, At, Going, Alone, Silent, Tells, HubInv, HubTypeOK
<1>2. /\ server[g] = "accepted" /\ worker[g] \in WorkerStates /\ keyOf[g] \in Keys
      /\ ThreadAgrees(g) /\ ListAgrees(g)
  BY <1>1, GoingFacts DEF ThreadAgrees, AfterAnswer
<1>3. found \in SUBSET (Generations \cup Others)
  BY <1>2 DEF WorkerStates, HubInv, HubTypeOK
<1> HIDE DEF found
<1>4. CASE Step(g, "done")
  BY <1>1, <1>2, <1>4, OnlySteps DEF ThreadSteps, BeforePost, AfterAnswer
<1>5. CASE Step(g, "untracked")
  BY <1>1, <1>2, <1>5, OnlySteps DEF ThreadSteps, BeforePost, AfterAnswer
<1>6. CASE worker' = [worker EXCEPT ![g].found = found, ![g].attempt = @ + 1,
                                    ![g].pc = Unless(g, "discover")]
  <2> DEFINE pc == Unless(g, "discover")
             n == worker[g].attempt + 1
             w == [worker[g] EXCEPT !.found = found, !.attempt = n, !.pc = pc]
  <2>1. pc \in {"discover", "done"}
    BY DEF Unless
  <2>2. worker' = [worker EXCEPT ![g] = w]
    BY <1>1, <1>2, <1>6 DEF WorkerStates
  <2>0. n \in Nat
    BY <1>2 DEF WorkerStates
  <2> HIDE DEF pc, n
  <2>3. /\ w \in WorkerStates /\ w.pc = pc /\ w.cancelled = worker[g].cancelled
        /\ w.postStarted = worker[g].postStarted /\ w.progress = worker[g].progress
        /\ w.known = worker[g].known /\ w.tracked = worker[g].tracked
    BY <1>2, <1>3, <2>0, <2>1 DEF WorkerStates, ThreadSteps
  <2> HIDE DEF w
  <2>4. g \notin w.known /\ Follows(g, w.tracked)
    BY <1>2, <2>3 DEF ListAgrees, Follows
  <2> QED BY <1>1, <1>2, <2>1, <2>2, <2>3, <2>4, GoesOn DEF BeforePost
<1>7. ASSUME NEW id \in Candidates(found),
             worker' = [worker EXCEPT ![g].pc = "tellStarted", ![g].tracked = id,
                                      ![g].found = {}, ![g].attempt = 0]
      PROVE  ThreadStep(g)
  <2> DEFINE w == [worker[g] EXCEPT !.pc = "tellStarted", !.tracked = id, !.found = {}, !.attempt = 0]
  <2>1. id \in Generations \cup Others /\ (g \in listed[keyOf[g]] => id = g)
    BY <1>1, <1>3, OwnCandidate DEF found, Candidates
  <2>2. worker' = [worker EXCEPT ![g] = w]
    BY <1>1, <1>2, <1>7 DEF WorkerStates
  <2>3. /\ w \in WorkerStates /\ w.pc = "tellStarted" /\ w.cancelled = worker[g].cancelled
        /\ w.postStarted = worker[g].postStarted /\ w.progress = worker[g].progress
        /\ w.known = worker[g].known /\ w.tracked = id
    BY <1>2, <2>1 DEF WorkerStates, ThreadSteps
  <2> HIDE DEF w
  <2>4. g \notin w.known /\ Follows(g, w.tracked)
    BY <1>2, <2>1, <2>3 DEF ListAgrees, Follows
  <2> QED BY <1>1, <1>2, <2>2, <2>3, <2>4, GoesOn DEF BeforePost
<1> QED BY <1>4, <1>5, <1>6, <1>7 DEF Discover, found

LEMMA StartedStep ==
  ASSUME HubInv, NEW g \in Generations, TellStarted(g)
  PROVE  ThreadStep(g)
<1> DEFINE e == Event(g, "TrackingStarted", "none")
           pc == Unless(g, "poll")
<1>1. /\ Going(g) /\ UNCHANGED <<hub, remote, panics>> /\ events' = Append(events, e)
      /\ worker[g].pc = "tellStarted" /\ Step(g, pc)
      /\ worker \in [Generations -> WorkerStates]
  BY DEF TellStarted, At, Going, Alone, Send, HubInv, HubTypeOK
<1>2. server[g] = "accepted" /\ worker[g] \in WorkerStates
  BY <1>1, GoingFacts DEF ThreadAgrees, AfterAnswer
<1>3. pc \in {"poll", "done"}
  BY DEF Unless
<1> HIDE DEF pc
<1>4. worker'[g].pc = pc
  BY <1>1, <1>2 DEF Step, WorkerStates
<1>5. e \in Reports /\ e.generation = g /\ e.kind = "TrackingStarted"
  BY DEF Event, Reports
<1> HIDE DEF e
<1>6. ReportAgrees(e)'
  BY <1>3, <1>4, <1>5 DEF ReportAgrees, Started
<1>7. Tells(g)
  BY <1>1, <1>5, <1>6 DEF Tells
<1> QED BY <1>1, <1>2, <1>3, <1>7, OnlySteps DEF ThreadSteps, BeforePost, AfterAnswer

LEMMA PollStep ==
  ASSUME HubInv, NEW g \in Generations, Poll(g)
  PROVE  ThreadStep(g)
<1>1. /\ Going(g) /\ UNCHANGED <<hub, remote, panics>>
      /\ worker[g].pc = "poll" /\ worker \in [Generations -> WorkerStates]
  BY DEF Poll, At, Going, Alone, HubInv, HubTypeOK
<1>2. /\ server[g] = "accepted" /\ worker[g] \in WorkerStates
      /\ ThreadAgrees(g) /\ ListAgrees(g)
  BY <1>1, GoingFacts DEF ThreadAgrees, AfterAnswer
<1>3. CASE (Step(g, "done") \/ Step(g, "untracked")) /\ Silent
  BY <1>1, <1>2, <1>3, OnlySteps DEF ThreadSteps, BeforePost, AfterAnswer, Silent, Tells
<1>4. CASE /\ Send(g, "Status", "Finished")
           /\ worker' = [worker EXCEPT ![g].pc = "done", ![g].progress = "FinishedKnown"]
  <2> DEFINE w == [worker[g] EXCEPT !.pc = "done", !.progress = "FinishedKnown"]
             e == Event(g, "Status", "Finished")
  <2>1. worker' = [worker EXCEPT ![g] = w] /\ events' = Append(events, e)
    BY <1>1, <1>2, <1>4 DEF WorkerStates, Send
  <2>2. /\ w \in WorkerStates /\ w.pc = "done" /\ w.cancelled = worker[g].cancelled
        /\ w.postStarted = worker[g].postStarted /\ w.progress = "FinishedKnown"
        /\ w.known = worker[g].known /\ w.tracked = worker[g].tracked
    BY <1>2 DEF WorkerStates, ThreadSteps
  <2>3. e \in Reports /\ e.generation = g /\ e.kind = "Status" /\ e.value = "Finished"
    BY DEF Event, Reports
  <2>4. worker'[g] = w
    BY <1>1, <2>1
  <2> HIDE DEF w, e
  <2>5. ReportAgrees(e)'
    BY <2>2, <2>3, <2>4 DEF ReportAgrees, Started, Going
  <2>6. Tells(g)
    BY <1>1, <2>1, <2>3, <2>5 DEF Tells
  <2>7. g \notin w.known /\ Follows(g, w.tracked)
    BY <1>2, <2>2 DEF ListAgrees, Follows
  <2> QED BY <1>1, <1>2, <2>1, <2>2, <2>6, <2>7, GoesOn DEF BeforePost
<1>5. CASE /\ worker' = [worker EXCEPT
                ![g].previous = "Judging", ![g].attempt = @ + 1,
                ![g].pc = Unless(g, IF worker[g].attempt + 1 = StatusPolls THEN "untracked"
                                                                          ELSE "poll")]
           /\ IF worker[g].previous = "Judging" THEN Silent ELSE Send(g, "Status", "Judging")
  <2> DEFINE pc == Unless(g, IF worker[g].attempt + 1 = StatusPolls THEN "untracked" ELSE "poll")
             n == worker[g].attempt + 1
             w == [worker[g] EXCEPT !.previous = "Judging", !.attempt = n, !.pc = pc]
             e == Event(g, "Status", "Judging")
  <2>1. pc \in {"poll", "untracked", "done"}
    BY DEF Unless
  <2>2. worker' = [worker EXCEPT ![g] = w] /\ (events' = events \/ events' = Append(events, e))
    BY <1>1, <1>2, <1>5 DEF WorkerStates, Send, Silent
  <2>0. n \in Nat
    BY <1>2 DEF WorkerStates
  <2> HIDE DEF pc, n
  <2>3. /\ w \in WorkerStates /\ w.pc = pc /\ w.cancelled = worker[g].cancelled
        /\ w.postStarted = worker[g].postStarted /\ w.progress = worker[g].progress
        /\ w.known = worker[g].known /\ w.tracked = worker[g].tracked
    BY <1>2, <2>0, <2>1 DEF WorkerStates, ThreadSteps
  <2>4. e \in Reports /\ e.generation = g /\ e.kind = "Status" /\ e.value = "Judging"
    BY DEF Event, Reports
  <2>5. worker'[g] = w
    BY <1>1, <2>2
  <2> HIDE DEF w, e
  <2>6. ReportAgrees(e)'
    BY <2>1, <2>3, <2>4, <2>5 DEF ReportAgrees, Started
  <2>7. Tells(g)
    BY <1>1, <2>2, <2>4, <2>6 DEF Tells
  <2>8. g \notin w.known /\ Follows(g, w.tracked)
    BY <1>2, <2>3 DEF ListAgrees, Follows
  <2> QED BY <1>1, <1>2, <2>1, <2>2, <2>3, <2>7, <2>8, GoesOn DEF BeforePost
<1> QED BY <1>3, <1>4, <1>5 DEF Poll

LEMMA ReportPanicStep ==
  ASSUME HubInv, NEW g \in Generations, ReportPanic(g)
  PROVE  ThreadStep(g)
<1>0. PICK v \in {"posted", "none"} : v = IF worker[g].postStarted THEN "posted" ELSE "none"
  OBVIOUS
<1> DEFINE e == Event(g, "Panicked", v)
<1>1. /\ Going(g) /\ UNCHANGED <<hub, remote, panics>> /\ events' = Append(events, e)
      /\ worker[g].pc = "caught" /\ Step(g, "done")
      /\ worker \in [Generations -> WorkerStates]
  BY <1>0 DEF ReportPanic, At, Going, Alone, Send, HubInv, HubTypeOK
<1>2. panics > 0 /\ worker[g] \in WorkerStates
  BY <1>1, GoingFacts DEF ThreadAgrees
<1>3. worker'[g].pc = "done" /\ worker'[g].postStarted = worker[g].postStarted
  BY <1>1, <1>2 DEF Step, WorkerStates
<1>4. /\ e \in Reports /\ e.generation = g /\ e.kind = "Panicked"
      /\ (e.value = "posted" <=> worker[g].postStarted)
  BY <1>0 DEF Event, Reports
<1> HIDE DEF e
<1>5. ReportAgrees(e)'
  BY <1>1, <1>2, <1>3, <1>4 DEF ReportAgrees, Started, Going
<1>6. Tells(g)
  BY <1>1, <1>4, <1>5 DEF Tells
<1> QED BY <1>1, <1>6, OnlySteps DEF ThreadSteps, BeforePost, AfterAnswer

(* A panic, caught or not. *)
LEMMA PanicStep ==
  ASSUME HubInv, NEW g \in Generations, Panic(g) \/ ContainmentFails(g)
  PROVE  ThreadStep(g)
<1> DEFINE pc == IF Panic(g) THEN "caught" ELSE "crashed"
           w == [worker[g] EXCEPT !.pc = pc]
<1>0. pc \in {"caught", "crashed"} /\ Step(g, pc)
  BY DEF Panic, ContainmentFails
<1>1. /\ UNCHANGED <<hub, remote>> /\ events' = events
      /\ panics' = panics + 1 /\ panics < MaxPanics
      /\ worker[g].pc \notin {"none", "crashed"}
      /\ pc = "caught" => Going(g)
      /\ worker \in [Generations -> WorkerStates]
  BY DEF Panic, ContainmentFails, Going, Silent, HubInv, HubTypeOK
<1> HIDE DEF pc
<1>2. /\ worker[g] \in WorkerStates /\ ThreadAgrees(g) /\ ListAgrees(g) /\ panics \in 0 .. MaxPanics
      /\ server \in [Generations -> {"none", "sent", "accepted", "rejected"}]
  BY <1>1, GoingFacts
<1>3. worker' = [worker EXCEPT ![g] = w]
  BY <1>0, <1>1, <1>2 DEF Step, WorkerStates
<1>4. /\ w \in WorkerStates /\ w.pc = pc /\ w.cancelled = worker[g].cancelled
      /\ w.postStarted = worker[g].postStarted /\ w.progress = worker[g].progress
      /\ w.known = worker[g].known /\ w.tracked = worker[g].tracked
  BY <1>0, <1>2 DEF WorkerStates, ThreadSteps
<1> HIDE DEF w
<1>5. /\ worker' \in [Generations -> WorkerStates] /\ worker'[g] = w
      /\ \A x \in Generations : x # g => worker'[x] = worker[x]
  BY <1>3, <1>4, OneThread DEF HubInv
<1>6. panics' \in 0 .. MaxPanics /\ panics <= panics' /\ panics' > 0
  BY <1>1, <1>2, HubAssumption
<1>7. Started(g)' /\ (Going(g)' => Going(g))
  BY <1>0, <1>1, <1>4, <1>5 DEF Started, Going
<1>8. ThreadAgrees(g)'
  BY <1>0, <1>1, <1>2, <1>4, <1>5, <1>6, <1>7
  DEF ThreadAgrees, Started, Going, hub, remote, BeforePost, AfterAnswer
<1>9. g \notin w.known /\ Follows(g, w.tracked)
  BY <1>2, <1>4 DEF ListAgrees, Follows
<1> QED BY <1>1, <1>2, <1>4, <1>5, <1>6, <1>7, <1>8, <1>9 DEF ThreadStep, Tells, remote

LEMMA ReportsAfterStep ==
  ASSUME HubInv, NEW g \in Generations, ThreadStep(g)
  PROVE  events' \in Seq(Reports) /\ ReportInv' /\ VerdictIsLast'
<1>1. /\ \A x \in Generations : x # g => worker'[x] = worker[x] /\ server'[x] = server[x]
      /\ worker'[g].cancelled = worker[g].cancelled /\ Started(g)'
      /\ Going(g)' => Going(g)
      /\ worker[g].progress # "PreAccepted" => worker'[g].progress # "PreAccepted"
      /\ ~Going(g) => server'[g] = server[g] /\ worker'[g].postStarted = worker[g].postStarted
      /\ panics > 0 => panics' > 0
  BY HubAssumption DEF ThreadStep, Going, HubInv, HubTypeOK
<1>2. /\ events \in Seq(Reports) /\ Len(events) \in Nat
      /\ \A i \in 1 .. Len(events) : events[i] \in Reports /\ ReportAgrees(events[i])
  BY LenProperties, ElementOfSeq DEF HubInv, HubTypeOK, ReportInv
<1>3. ASSUME NEW e \in Reports, ReportAgrees(e), e.generation # g PROVE ReportAgrees(e)'
  <2>1. e.generation \in Generations
    BY DEF Reports
  <2> QED BY <1>1, <1>3, <2>1 DEF ReportAgrees, Started, Going
<1>4. ASSUME NEW e \in Reports, ReportAgrees(e), e.generation = g PROVE ReportAgrees(e)'
  <2>1. CASE Going(g)
    <3>1. e.kind \notin {"Failed", "Cancelled", "Unknown", "Panicked"} /\ ~IsVerdict(e)
      BY <1>4, <2>1 DEF ReportAgrees, IsVerdict
    <3> QED BY <1>1, <1>4, <3>1 DEF ReportAgrees, IsVerdict
  <2>2. CASE ~Going(g)
    BY <1>1, <1>4, <2>2 DEF ReportAgrees
  <2> QED BY <2>1, <2>2
<1>5. CASE events' = events
  <2>1. ReportInv'
    BY <1>2, <1>3, <1>4, <1>5 DEF ReportInv
  <2>2. VerdictIsLast'
    BY <1>5 DEF HubInv, VerdictIsLast, IsVerdict
  <2> QED BY <1>2, <1>5, <2>1, <2>2
<1>6. CASE events' # events
  <2>1. PICK e \in Reports : /\ e.generation = g
                             /\ events' = Append(events, e)
                             /\ Going(g)
                             /\ ReportAgrees(e)'
    BY <1>6 DEF ThreadStep, Tells
  <2>2. /\ events' \in Seq(Reports) /\ Len(events') = Len(events) + 1
        /\ \A i \in 1 .. Len(events) : events'[i] = events[i]
        /\ events'[Len(events) + 1] = e
    BY <2>1, Reported DEF HubInv
  <2>3. \A i \in 1 .. Len(events') : i \in 1 .. Len(events) \/ i = Len(events) + 1
    BY <1>2, <2>2
  <2>4. ReportInv'
    BY <1>2, <1>3, <1>4, <2>1, <2>2, <2>3 DEF ReportInv
  <2>5. VerdictIsLast'
    <3>1. SUFFICES ASSUME NEW i \in 1 .. Len(events'), NEW j \in 1 .. Len(events'), i < j,
                          IsVerdict(events'[i])
                   PROVE  events'[j].generation # events'[i].generation
      BY DEF VerdictIsLast, IsVerdict
    <3>2. i \in 1 .. Len(events) /\ events'[i] = events[i]
      BY <1>2, <2>2, <2>3, <3>1
    <3>3. CASE j \in 1 .. Len(events)
      BY <2>2, <3>1, <3>2, <3>3 DEF HubInv, VerdictIsLast
    <3>4. CASE j = Len(events) + 1
      <4>1. ~Going(events[i].generation)
        BY <1>2, <3>1, <3>2 DEF IsVerdict, ReportAgrees
      <4> QED BY <2>1, <2>2, <3>2, <3>4, <4>1
    <3> QED BY <2>3, <3>3, <3>4
  <2> QED BY <2>2, <2>4, <2>5
<1> QED BY <1>5, <1>6

LEMMA RecordsAfterStep ==
  ASSUME HubInv, NEW g \in Generations, ThreadStep(g)
  PROVE  RecordInv'
<1> SUFFICES ASSUME NEW k \in Keys PROVE RecordAgrees(k)'
  BY DEF RecordInv
<1> DEFINE r == records[k]
<1>1. /\ UNCHANGED <<records, keyOf>>
      /\ \A x \in Generations : x # g => worker'[x] = worker[x]
      /\ Going(g)' => Going(g)
      /\ worker[g].progress # "PreAccepted" => worker'[g].progress # "PreAccepted"
  BY DEF ThreadStep, hub
<1>2. RecordAgrees(k) /\ r \in RecordStates
  BY DEF HubInv, RecordInv, HubTypeOK
<1>3. r.generation # 0 => r.generation \in Generations
  BY <1>2, HubAssumption DEF RecordStates, Generations
<1>4. /\ \A x \in {r.pending, r.generation, r.unknown} : x # 0 => keyOf'[x] = k
      /\ r.pending # 0 => /\ r.unknown = 0
                          /\ r.generation < r.pending
                          /\ \A x \in Generations : keyOf'[x] = k => x <= r.pending
  BY <1>1, <1>2 DEF RecordAgrees
<1>5. r.generation # 0 => worker'[r.generation].progress # "PreAccepted"
  BY <1>1, <1>2, <1>3 DEF RecordAgrees
<1>6. ASSUME r.state = "Finished"
      PROVE  /\ r.generation # 0
             /\ ~Going(r.generation)'
             /\ \A i \in 1 .. Len(events') : events'[i].generation # r.generation
  <2>1. /\ r.generation # 0 /\ ~Going(r.generation)
        /\ \A i \in 1 .. Len(events) : events[i].generation # r.generation
    BY <1>2, <1>6 DEF RecordAgrees
  <2>2. ~Going(r.generation)'
    BY <1>1, <1>3, <2>1 DEF Going
  <2>3. CASE events' = events
    BY <2>1, <2>2, <2>3
  <2>4. CASE events' # events
    <3>1. PICK e \in Reports : e.generation = g /\ events' = Append(events, e) /\ Going(g)
      BY <2>4 DEF ThreadStep, Tells
    <3>2. /\ Len(events') = Len(events) + 1 /\ Len(events) \in Nat
          /\ \A i \in 1 .. Len(events) : events'[i] = events[i]
          /\ events'[Len(events) + 1] = e
      BY <3>1, Reported DEF HubInv
    <3>3. \A i \in 1 .. Len(events') : i \in 1 .. Len(events) \/ i = Len(events) + 1
      BY <3>2
    <3> QED BY <2>1, <2>2, <3>1, <3>2, <3>3
  <2> QED BY <2>3, <2>4
<1> QED BY <1>1, <1>4, <1>5, <1>6 DEF RecordAgrees

LEMMA ThreadStepInv ==
  ASSUME HubInv, NEW g \in Generations, ThreadStep(g)
  PROVE  HubInv'
<1>1. /\ UNCHANGED <<records, history, next, workers, stopping, phase, budget, waiting, keyOf, listed>>
      /\ \A x \in Generations : x # g => worker'[x] = worker[x] /\ server'[x] = server[x]
      /\ worker'[g].cancelled = worker[g].cancelled
      /\ Started(g) /\ Started(g)'
      /\ Going(g)' => Going(g)
      /\ panics \in 0 .. MaxPanics /\ panics' \in 0 .. MaxPanics /\ panics <= panics'
  BY DEF ThreadStep, hub, HubInv, HubTypeOK, Started
<1>2. /\ ThreadAgrees(g) /\ ListAgrees(g) /\ IsAccounted(g) /\ RecordAgrees(keyOf[g])
  BY <1>1, StartedFacts DEF HubInv, ListInv
<1>3. HubTypeOK'
  BY <1>1, ReportsAfterStep DEF HubInv, HubTypeOK, ThreadStep
<1>4. ThreadInv'
  <2>1. ASSUME NEW x \in Generations, x # g PROVE ThreadAgrees(x)'
    <3>1. ThreadAgrees(x)
      BY DEF HubInv, ThreadInv
    <3>2. panics > 0 => panics' > 0
      BY <1>1, HubAssumption
    <3> QED BY <1>1, <2>1, <3>1, <3>2 DEF ThreadAgrees, Started, Going
  <2> QED BY <2>1 DEF ThreadInv, ThreadStep
<1>5. server[g] = "accepted" <=> server'[g] = "accepted"
  BY DEF ThreadStep
<1>6. ListInv'
  <2>1. ASSUME NEW x \in Generations PROVE ListAgrees(x)'
    <3>1. ListAgrees(x)
      BY DEF HubInv, ListInv
    <3>2. CASE x = g
      BY <1>1, <1>5, <3>1, <3>2 DEF ListAgrees, ThreadStep
    <3>3. CASE x # g
      BY <1>1, <3>1, <3>3 DEF ListAgrees
    <3> QED BY <3>2, <3>3
  <2> QED BY <2>1 DEF ListInv
<1>7. AccountInv'
  <2>1. ASSUME NEW x \in Generations, Started(x)', x # g PROVE IsAccounted(x)'
    <3>1. IsAccounted(x)
      BY <1>1, <2>1 DEF HubInv, AccountInv, Started
    <3> QED BY <1>1, <2>1, <3>1 DEF IsAccounted, Going
  <2>2. IsAccounted(g)'
    <3>1. CASE server'[g] = server[g] /\ worker'[g].postStarted = worker[g].postStarted
      BY <1>1, <1>2, <3>1 DEF IsAccounted
    <3>2. CASE ~(server'[g] = server[g] /\ worker'[g].postStarted = worker[g].postStarted)
      <4>1. /\ worker[g].pc = "slot" /\ worker'[g].postStarted
        BY <3>2 DEF ThreadStep
      <4>2. Going(g) /\ ~worker[g].postStarted
        BY <1>2, <4>1 DEF Going, ThreadAgrees, BeforePost
      <4>3. records[keyOf[g]].pending = g /\ history[g] # "absent"
        BY <1>2, <4>2 DEF IsAccounted
      <4> QED BY <1>1, <1>2, <4>1, <4>2, <4>3 DEF IsAccounted
    <3> QED BY <3>1, <3>2
  <2> QED BY <2>1, <2>2 DEF AccountInv
<1>8. StopInv'
  BY <1>1 DEF HubInv, StopInv
<1>9. ModalAgrees'
  <2>1. CASE waiting = 0
    BY <1>1, <2>1 DEF ModalAgrees
  <2>2. CASE waiting # 0
    <3>1. waiting \in Generations
      BY <2>2, HubAssumption DEF HubInv, HubTypeOK, Generations
    <3>2. Started(waiting) /\ Started(waiting)'
      BY <1>1, <2>2, <3>1 DEF HubInv, ModalAgrees, Started
    <3>3. panics > 0 => panics' > 0
      BY <1>1, HubAssumption
    <3> QED BY <1>1, <2>2, <3>2, <3>3 DEF HubInv, ModalAgrees, FailureOverwritten
  <2> QED BY <2>1, <2>2
<1> QED BY <1>3, <1>4, <1>6, <1>7, <1>8, <1>9, ReportsAfterStep, RecordsAfterStep DEF HubInv

-----------------------------------------------------------------------------
(* The server decides about a POST and lists what it accepted; others      *)
(* submit. *)
LEMMA ServerInv ==
  ASSUME HubInv, NEW g \in Generations, ServerAccepts(g) \/ ServerRejects(g)
  PROVE  HubInv'
<1>1. /\ server[g] = "sent" /\ UNCHANGED <<hub, events, worker, panics>>
      /\ server \in [Generations -> {"none", "sent", "accepted", "rejected"}]
      /\ listed \in [Keys -> SUBSET (Generations \cup Others)]
  BY DEF ServerAccepts, ServerRejects, HubInv, HubTypeOK
<1>2. ThreadAgrees(g) /\ Started(g)
  BY <1>1 DEF HubInv, ThreadInv, ThreadAgrees, NoWorker
<1>3. keyOf[g] \in Keys /\ IsAccounted(g)
  BY <1>2, StartedFacts
<1>4. /\ server'[g] \in {"accepted", "rejected"}
      /\ \A x \in Generations : x # g => server'[x] = server[x]
      /\ server' \in [Generations -> {"none", "sent", "accepted", "rejected"}]
  BY <1>1 DEF ServerAccepts, ServerRejects
<1>5. listed' = listed
  BY DEF ServerAccepts, ServerRejects
<1>6. HubTypeOK'
  BY <1>1, <1>4, <1>5 DEF HubInv, HubTypeOK, hub
<1>7. ThreadInv'
  <2>1. ASSUME NEW x \in Generations PROVE ThreadAgrees(x)'
    BY <1>1, <1>4 DEF HubInv, ThreadInv, ThreadAgrees, hub, Started, Going
  <2> QED BY <2>1 DEF ThreadInv
<1>8. ListInv'
  <2>1. ASSUME NEW x \in Generations PROVE ListAgrees(x)'
    <3>1. ListAgrees(x) /\ \A k \in Keys : g \notin listed[k]
      BY <1>1 DEF HubInv, ListInv, ListAgrees
    <3>2. worker' = worker /\ keyOf' = keyOf
      BY <1>1 DEF hub
    <3>3. CASE x = g
      BY <1>5, <3>1, <3>2, <3>3 DEF ListAgrees
    <3>4. CASE x # g
      BY <1>4, <1>5, <3>1, <3>2, <3>4 DEF ListAgrees
    <3> QED BY <3>3, <3>4
  <2> QED BY <2>1 DEF ListInv
<1>9. ReportInv'
  <2>1. ASSUME NEW i \in 1 .. Len(events) PROVE ReportAgrees(events[i])'
    <3>1. ReportAgrees(events[i]) /\ events[i] \in Reports
      BY ElementOfSeq DEF HubInv, HubTypeOK, ReportInv
    <3>2. events[i].generation \in Generations
      BY <3>1 DEF Reports
    <3> QED BY <1>1, <1>4, <3>1, <3>2 DEF ReportAgrees, Started, Going
  <2> QED BY <1>1, <2>1 DEF ReportInv
<1>10. VerdictIsLast' /\ RecordInv' /\ StopInv' /\ ModalAgrees'
  BY <1>1 DEF HubInv, VerdictIsLast, RecordInv, RecordAgrees, StopInv, ModalAgrees, hub,
              FailureOverwritten, Started, Going, IsVerdict
<1>11. AccountInv'
  <2>1. ASSUME NEW x \in Generations, Started(x) PROVE IsAccounted(x)'
    BY <1>1, <1>3, <1>4, <2>1 DEF HubInv, AccountInv, IsAccounted, hub, Going
  <2> QED BY <1>1, <2>1 DEF AccountInv, Started
<1> QED BY <1>6, <1>7, <1>8, <1>9, <1>10, <1>11 DEF HubInv

(* The list grows: only what is said of the list depends on it. *)
LEMMA ListGrows ==
  ASSUME HubInv, UNCHANGED <<hub, events, worker, server, panics>>,
         listed' \in [Keys -> SUBSET (Generations \cup Others)],
         \A k \in Keys, x \in Generations :
           x \in listed'[k] => x \in listed[k] \/ (keyOf[x] = k /\ server[x] = "accepted")
  PROVE  HubInv'
<1>1. HubTypeOK'
  BY DEF HubInv, HubTypeOK, hub
<1>2. ListInv'
  <2>1. ASSUME NEW x \in Generations PROVE ListAgrees(x)'
    <3>1. ListAgrees(x)
      BY DEF HubInv, ListInv
    <3> QED BY <3>1 DEF ListAgrees, hub
  <2> QED BY <2>1 DEF ListInv
<1>3. /\ ThreadInv' /\ ReportInv' /\ VerdictIsLast' /\ RecordInv'
      /\ AccountInv' /\ StopInv' /\ ModalAgrees'
  BY DEF HubInv, ThreadInv, ThreadAgrees, ReportInv, ReportAgrees, VerdictIsLast, IsVerdict,
         RecordInv, RecordAgrees, AccountInv, IsAccounted, StopInv, ModalAgrees, hub,
         FailureOverwritten, Started, Going
<1> QED BY <1>1, <1>2, <1>3 DEF HubInv

LEMMA ListsInv ==
  ASSUME HubInv, NEW g \in Generations, ServerLists(g)
  PROVE  HubInv'
<1>1. /\ listed \in [Keys -> SUBSET (Generations \cup Others)]
      /\ listed' = [listed EXCEPT ![keyOf[g]] = @ \cup {g}]
  BY DEF ServerLists, HubInv, HubTypeOK
<1>2. server[g] = "accepted" /\ Started(g)
  BY DEF ServerLists, HubInv, ThreadInv, ThreadAgrees, NoWorker
<1>3. keyOf[g] \in Keys
  BY <1>2, StartedFacts
<1>4. listed' \in [Keys -> SUBSET (Generations \cup Others)]
  BY <1>1, <1>3
<1>5. \A k \in Keys, x \in Generations :
        x \in listed'[k] => x \in listed[k] \/ (keyOf[x] = k /\ server[x] = "accepted")
  BY <1>1, <1>2, <1>3
<1> QED BY <1>4, <1>5, ListGrows DEF ServerLists

LEMMA OthersInv ==
  ASSUME HubInv, NEW k \in Keys, OtherSubmits(k)
  PROVE  HubInv'
<1>1. PICK id \in Others : listed' = [listed EXCEPT ![k] = @ \cup {id}]
  BY DEF OtherSubmits
<1>2. id \notin Generations
  BY HubAssumption
<1>3. listed \in [Keys -> SUBSET (Generations \cup Others)]
  BY DEF HubInv, HubTypeOK
<1>4. /\ listed' \in [Keys -> SUBSET (Generations \cup Others)]
      /\ \A j \in Keys, x \in Generations : x \in listed'[j] => x \in listed[j]
  BY <1>1, <1>2, <1>3
<1> QED BY <1>4, ListGrows DEF OtherSubmits

-----------------------------------------------------------------------------
(* The user interface. *)

(* Nothing that only moves the UI thread on disturbs more than what is     *)
(* said of the modal and of a stop.                                        *)
LEMMA UiStepInv ==
  ASSUME HubInv,
         UNCHANGED <<records, history, next, stopping, keyOf, events, worker, remote, panics>>,
         phase' \in {"free", "drain", "reap", "closed"}, budget' \in 0 .. EventsPerTick,
         waiting' \in 0 .. MaxGeneration, StopInv', ModalAgrees',
         workers' = workers \/ (workers' = {} /\ \A g \in workers : ~Going(g))
  PROVE  HubInv'
<1>1. HubTypeOK'
  BY DEF HubInv, HubTypeOK, remote
<1>2. ThreadInv'
  <2>1. ASSUME NEW x \in Generations PROVE ThreadAgrees(x)'
    BY DEF HubInv, ThreadInv, ThreadAgrees, remote, Started, Going
  <2> QED BY <2>1 DEF ThreadInv
<1>3. /\ ListInv' /\ ReportInv' /\ VerdictIsLast' /\ RecordInv' /\ AccountInv'
  BY DEF HubInv, ListInv, ListAgrees, ReportInv, ReportAgrees, VerdictIsLast, IsVerdict,
         RecordInv, RecordAgrees, AccountInv, IsAccounted, remote, Started, Going
<1> QED BY <1>1, <1>2, <1>3 DEF HubInv

LEMMA TickInv ==
  ASSUME HubInv, BeginTick \/ EndDrain \/ EndTick
  PROVE  HubInv'
<1>1. /\ UNCHANGED <<records, history, next, stopping, keyOf, events, worker, remote, panics>>
      /\ workers' = workers /\ phase' \in {"free", "drain", "reap"}
      /\ waiting' \in {0, waiting}
      /\ waiting \in 0 .. MaxGeneration /\ ModalAgrees /\ StopInv
  BY DEF BeginTick, EndDrain, EndTick, HubInv, HubTypeOK
<1>2. budget' \in 0 .. EventsPerTick /\ waiting' \in 0 .. MaxGeneration
  BY <1>1, HubAssumption DEF BeginTick, EndDrain, EndTick, HubInv, HubTypeOK
<1>3. StopInv'
  BY <1>1 DEF BeginTick, EndDrain, EndTick, StopInv
<1>4. ModalAgrees'
  <2>1. CASE waiting' = 0
    BY <2>1 DEF ModalAgrees
  <2>2. CASE waiting' # 0 /\ BeginTick
    BY <1>1, <2>2 DEF ModalAgrees, BeginTick, FailureOverwritten, Started
  <2>3. CASE waiting' # 0 /\ EndDrain
    BY <1>1, <2>3 DEF ModalAgrees, EndDrain, FailureOverwritten, Started
  <2>4. CASE waiting' # 0 /\ EndTick
    <3>1. waiting' = waiting /\ waiting # 0 /\ phase = "reap" /\ phase' = "free"
      BY <1>1, <2>4 DEF EndTick
    <3>2. Resolution(keyOf[waiting], waiting) \in {"Pending", "none"}
      BY <2>4, <3>1 DEF EndTick
    <3>3. \/ records[keyOf[waiting]].pending = waiting
          \/ waiting \notin {records[keyOf[waiting]].unknown, records[keyOf[waiting]].generation,
                             records[keyOf[waiting]].failure}
      BY <3>2 DEF Resolution
    <3> QED BY <1>1, <3>1, <3>3 DEF ModalAgrees, FailureOverwritten, Started
  <2> QED BY <2>1, <2>2, <2>3, <2>4
<1> QED BY <1>1, <1>2, <1>3, <1>4, UiStepInv

LEMMA CloseInv ==
  ASSUME HubInv, CloseModal \/ Shutdown
  PROVE  HubInv'
<1>1. CASE CloseModal
  <2>1. waiting' \in 0 .. MaxGeneration /\ budget' \in 0 .. EventsPerTick
        /\ phase' \in {"free", "drain", "reap", "closed"}
    BY <1>1, HubAssumption DEF CloseModal, HubInv, HubTypeOK
  <2>2. StopInv' /\ ModalAgrees'
    BY <1>1 DEF CloseModal, HubInv, StopInv, ModalAgrees
  <2> QED BY <1>1, <2>1, <2>2, UiStepInv DEF CloseModal
<1>2. CASE Shutdown
  <2>1. waiting' \in 0 .. MaxGeneration /\ budget' \in 0 .. EventsPerTick
    BY <1>2 DEF Shutdown, HubInv, HubTypeOK
  <2>2. StopInv' /\ ModalAgrees'
    BY <1>2 DEF Shutdown, HubInv, StopInv, ModalAgrees, Started
  <2>3. \A g \in workers : ~Going(g)
    BY <1>2 DEF Shutdown, Ended, Going
  <2> QED BY <1>2, <2>1, <2>2, <2>3, UiStepInv DEF Shutdown
<1> QED BY <1>1, <1>2

LEMMA StopInvariant ==
  ASSUME HubInv, RequestStop
  PROVE  HubInv'
<1>1. /\ UNCHANGED <<records, history, next, workers, phase, budget, waiting, keyOf, events, remote,
                     panics>>
      /\ phase = "free" /\ stopping'
      /\ worker \in [Generations -> WorkerStates]
  BY DEF RequestStop, HubInv, HubTypeOK
<1>2. \A x \in Generations :
        /\ worker'[x] \in WorkerStates
        /\ SameThread(x)
        /\ worker[x].cancelled => worker'[x].cancelled
        /\ x \in workers => worker'[x].cancelled
        /\ x \notin workers => worker'[x] = worker[x]
  BY <1>1 DEF RequestStop, WorkerStates, SameThread
<1>3. worker' \in [Generations -> WorkerStates]
  BY <1>2 DEF RequestStop
<1>4. HubTypeOK'
  BY <1>1, <1>3 DEF RequestStop, HubInv, HubTypeOK, remote
<1>5. ThreadInv'
  <2>1. ASSUME NEW x \in Generations PROVE ThreadAgrees(x)'
    <3>1. ThreadAgrees(x)
      BY DEF HubInv, ThreadInv
    <3> QED BY <1>1, <1>2, <3>1 DEF ThreadAgrees, remote, Started, Going, SameThread
  <2> QED BY <2>1 DEF ThreadInv
<1>6. ListInv'
  <2>1. ASSUME NEW x \in Generations PROVE ListAgrees(x)'
    BY <1>1, <1>2 DEF HubInv, ListInv, ListAgrees, remote, SameThread
  <2> QED BY <2>1 DEF ListInv
<1>7. ReportInv'
  <2>1. ASSUME NEW i \in 1 .. Len(events) PROVE ReportAgrees(events[i])'
    <3>1. ReportAgrees(events[i]) /\ events[i] \in Reports
      BY ElementOfSeq DEF HubInv, HubTypeOK, ReportInv
    <3>2. events[i].generation \in Generations
      BY <3>1 DEF Reports
    <3> QED BY <1>1, <1>2, <3>1, <3>2 DEF ReportAgrees, Started, Going, SameThread, remote
  <2> QED BY <1>1, <2>1 DEF ReportInv
<1>8. RecordInv'
  <2>1. ASSUME NEW k \in Keys PROVE RecordAgrees(k)'
    <3>1. RecordAgrees(k) /\ records[k] \in RecordStates
      BY DEF HubInv, RecordInv, HubTypeOK
    <3>2. records[k].generation # 0 => records[k].generation \in Generations
      BY <3>1, HubAssumption DEF RecordStates, Generations
    <3> QED BY <1>1, <1>2, <3>1, <3>2 DEF RecordAgrees, Going, SameThread
  <2> QED BY <2>1 DEF RecordInv
<1>9. AccountInv'
  <2>1. ASSUME NEW x \in Generations, Started(x) PROVE IsAccounted(x)'
    <3>1. ThreadAgrees(x) /\ IsAccounted(x)
      BY <2>1 DEF HubInv, ThreadInv, AccountInv
    <3> QED BY <1>1, <1>2, <3>1 DEF IsAccounted, ThreadAgrees, Going, SameThread, remote
  <2> QED BY <1>2, <2>1 DEF AccountInv, Started, SameThread
<1>10. StopInv' /\ VerdictIsLast'
  BY <1>1 DEF HubInv, StopInv, VerdictIsLast, IsVerdict
<1>11. ModalAgrees'
  <2>1. waiting # 0 => waiting \in Generations
    BY HubAssumption DEF HubInv, HubTypeOK, Generations
  <2> QED BY <1>1, <1>2, <2>1 DEF HubInv, ModalAgrees, Started, SameThread, FailureOverwritten
<1> QED BY <1>4, <1>5, <1>6, <1>7, <1>8, <1>9, <1>10, <1>11 DEF HubInv

(* A start that could not spawn its thread leaves a gap, nothing else. *)
LEMMA GapInv ==
  ASSUME HubInv, NEW k \in Keys, Start(k), workers' = workers,
         UNCHANGED <<records, history, waiting, keyOf, worker>>
  PROVE  HubInv'
<1>1. /\ UNCHANGED <<stopping, phase, budget, events, remote, panics>>
      /\ next' = next + 1 /\ next <= MaxGeneration /\ waiting = 0 /\ next \in 1 .. MaxGeneration + 1
  BY DEF Start, HubInv, HubTypeOK
<1>2. HubTypeOK'
  BY <1>1, HubAssumption DEF HubInv, HubTypeOK, remote
<1>3. ThreadInv'
  <2>1. ASSUME NEW x \in Generations PROVE ThreadAgrees(x)'
    <3>1. x \in Nat
      BY HubAssumption DEF Generations
    <3>2. ThreadAgrees(x)
      BY DEF HubInv, ThreadInv
    <3>3. x < next => x < next'
      BY <1>1, <3>1, HubAssumption
    <3> QED BY <1>1, <3>2, <3>3 DEF ThreadAgrees, remote, Started, Going
  <2> QED BY <2>1 DEF ThreadInv
<1>4. ListInv' /\ ReportInv' /\ VerdictIsLast' /\ RecordInv' /\ AccountInv' /\ StopInv'
  BY <1>1 DEF HubInv, ListInv, ListAgrees, ReportInv, ReportAgrees, VerdictIsLast, IsVerdict,
              RecordInv, RecordAgrees, AccountInv, IsAccounted, remote, Started, Going, StopInv
<1>5. ModalAgrees'
  BY <1>1 DEF ModalAgrees
<1> QED BY <1>2, <1>3, <1>4, <1>5 DEF HubInv

LEMMA SpawnInv ==
  ASSUME HubInv, NEW k \in Keys, Start(k), workers' # workers
  PROVE  HubInv'
<1>0. PICK n \in Generations : n = next
  BY HubAssumption DEF Start, HubInv, HubTypeOK, Generations
<1> DEFINE r == [records[k] EXCEPT !.pending = n]
           w == [worker[n] EXCEPT !.pc = "ready"]
<1>1. /\ phase = "free" /\ ~stopping /\ waiting = 0 /\ StartAllowed(k)
      /\ next' = n + 1
      /\ workers' = workers \cup {n} /\ waiting' = n
      /\ UNCHANGED <<stopping, phase, budget, events, remote, panics>>
      /\ n \in Nat \ {0} /\ n <= MaxGeneration /\ n < next'
  BY <1>0, HubAssumption DEF Start, Generations
<1>2. ~Started(n) /\ ThreadAgrees(n) /\ ListAgrees(n)
  BY <1>0, <1>1 DEF HubInv, ThreadInv, ListInv, ThreadAgrees
<1>3. worker[n] = NoWorker /\ server[n] = "none"
  BY <1>2 DEF ThreadAgrees, NoWorker
<1>4. /\ records \in [Keys -> RecordStates] /\ history \in [Generations -> HistoryStates]
      /\ worker \in [Generations -> WorkerStates] /\ keyOf \in [Generations -> Keys \cup {NoKey}]
      /\ events \in Seq(Reports)
  BY DEF HubInv, HubTypeOK
<1>5. /\ records' = [records EXCEPT ![k] = r] /\ history' = [history EXCEPT ![n] = "Submitting"]
      /\ keyOf' = [keyOf EXCEPT ![n] = k] /\ worker' = [worker EXCEPT ![n] = w]
  <2>1. /\ records' = [records EXCEPT ![k].pending = n]
        /\ history' = [history EXCEPT ![n] = "Submitting"]
        /\ keyOf' = [keyOf EXCEPT ![n] = k] /\ worker' = [worker EXCEPT ![n].pc = "ready"]
    BY <1>0 DEF Start
  <2> QED BY <1>4, <2>1 DEF RecordStates, WorkerStates
<1>6. n \in 0 .. MaxGeneration
  BY <1>1, HubAssumption
<1>7. /\ r \in RecordStates /\ r.pending = n /\ r.unknown = records[k].unknown
      /\ r.generation = records[k].generation /\ r.state = records[k].state
      /\ r.failure = records[k].failure
  BY <1>4, <1>6 DEF RecordStates
<1>8. /\ w \in WorkerStates /\ w.pc = "ready" /\ ~w.cancelled /\ ~w.postStarted
      /\ w.progress = "PreAccepted" /\ w.known = {} /\ w.tracked = 0
  <2>1. worker[n] \in WorkerStates
    BY <1>4
  <2>2. w \in WorkerStates
    BY <2>1 DEF WorkerStates, ThreadSteps
  <2>3. w = [NoWorker EXCEPT !.pc = "ready"]
    BY <1>3
  <2> QED BY <2>2, <2>3 DEF NoWorker
<1> HIDE DEF r, w
<1>9. /\ records'[k] = r /\ worker'[n] = w /\ keyOf'[n] = k /\ history'[n] = "Submitting"
      /\ \A j \in Keys : j # k => records'[j] = records[j]
      /\ \A x \in Generations : x # n => /\ worker'[x] = worker[x] /\ keyOf'[x] = keyOf[x]
                                         /\ history'[x] = history[x]
  BY <1>4, <1>5
<1>10. HubTypeOK'
  <2>1. "Submitting" \in HistoryStates /\ next' \in 1 .. MaxGeneration + 1
    BY <1>1, HubAssumption DEF HistoryStates
  <2>2. /\ records' \in [Keys -> RecordStates] /\ history' \in [Generations -> HistoryStates]
        /\ worker' \in [Generations -> WorkerStates] /\ keyOf' \in [Generations -> Keys \cup {NoKey}]
    BY <1>4, <1>5, <1>7, <1>8, <2>1
  <2> QED BY <1>1, <1>6, <2>1, <2>2 DEF HubInv, HubTypeOK, remote
<1>11. ThreadInv'
  <2>1. ASSUME NEW x \in Generations, x # n PROVE ThreadAgrees(x)'
    <3>1. ThreadAgrees(x) /\ x \in Nat /\ (x < next => x < next')
      BY <1>0, <1>1, HubAssumption DEF HubInv, ThreadInv, Generations
    <3> QED BY <1>1, <1>9, <2>1, <3>1 DEF ThreadAgrees, remote, Started, Going
  <2>2. ThreadAgrees(n)'
    BY <1>1, <1>3, <1>8, <1>9, HubAssumption
    DEF ThreadAgrees, remote, Started, Going, BeforePost, AfterAnswer
  <2> QED BY <2>1, <2>2 DEF ThreadInv
<1>12. ListInv'
  <2>1. ASSUME NEW x \in Generations, x # n PROVE ListAgrees(x)'
    BY <1>1, <1>9, <2>1 DEF HubInv, ListInv, ListAgrees, remote
  <2>2. ListAgrees(n)'
    BY <1>1, <1>2, <1>3, <1>8, <1>9 DEF ListAgrees, remote
  <2> QED BY <2>1, <2>2 DEF ListInv
<1>13. /\ Len(events) \in Nat
       /\ \A i \in 1 .. Len(events) : /\ events[i] \in Reports /\ ReportAgrees(events[i])
                                      /\ events[i].generation \in Generations
                                      /\ events[i].generation # n
  <2>1. ASSUME NEW i \in 1 .. Len(events)
        PROVE  events[i] \in Reports /\ ReportAgrees(events[i])
    BY <1>4, ElementOfSeq DEF HubInv, ReportInv
  <2> QED BY <1>2, <1>4, <2>1, LenProperties DEF ReportAgrees, Reports
<1>14. ReportInv' /\ VerdictIsLast' /\ StopInv'
  <2>1. ASSUME NEW i \in 1 .. Len(events) PROVE ReportAgrees(events[i])'
    BY <1>1, <1>9, <1>13 DEF ReportAgrees, Started, Going, remote
  <2> QED BY <1>1, <2>1 DEF ReportInv, HubInv, VerdictIsLast, IsVerdict, StopInv
<1>15. \A j \in Keys : /\ RecordAgrees(j) /\ records[j] \in RecordStates
                       /\ records[j].generation # 0 => /\ records[j].generation \in Generations
                                                       /\ records[j].generation # n
  <2>1. ASSUME NEW j \in Keys PROVE RecordAgrees(j) /\ records[j] \in RecordStates
    BY <1>4 DEF HubInv, RecordInv
  <2>2. ASSUME NEW j \in Keys, records[j].generation # 0
        PROVE  records[j].generation \in Generations /\ records[j].generation # n
    <3>1. records[j].generation \in Generations
      BY <2>1, <2>2, HubAssumption DEF RecordStates, Generations
    <3>2. worker[records[j].generation].progress # "PreAccepted"
      BY <2>1, <2>2 DEF RecordAgrees
    <3> QED BY <1>3, <3>1, <3>2 DEF NoWorker
  <2> QED BY <2>1, <2>2
<1>16. keyOf[n] = NoKey
  BY <1>2 DEF ThreadAgrees
<1>17. RecordInv'
  <2>1. ASSUME NEW j \in Keys, j # k PROVE RecordAgrees(j)'
    <3>1. RecordAgrees(j) /\ records'[j] = records[j] /\ records[j] \in RecordStates
      BY <1>9, <1>15, <2>1
    <3>2. \A x \in {records[j].pending, records[j].generation, records[j].unknown} :
            x # 0 => x \in Generations /\ keyOf'[x] = j
      <4>1. \A x \in {records[j].pending, records[j].generation, records[j].unknown} :
              x # 0 => x \in Generations /\ keyOf[x] = j
        BY <3>1, HubAssumption DEF RecordAgrees, RecordStates, Generations
      <4>2. j # NoKey
        BY HubAssumption
      <4> QED BY <1>9, <1>16, <4>1, <4>2
    <3>3. \A x \in Generations : keyOf'[x] = j => keyOf[x] = j
      BY <1>9, <2>1
    <3>4. records[j].generation # 0 =>
            worker'[records[j].generation] = worker[records[j].generation]
      BY <1>9, <1>15
    <3> QED BY <1>1, <3>1, <3>2, <3>3, <3>4 DEF RecordAgrees, Going
  <2>2. RecordAgrees(k)'
    <3>1. RecordAgrees(k) /\ records[k].unknown = 0
      BY <1>1, <1>15 DEF StartAllowed
    <3>2. r.generation # 0 => /\ r.generation \in Generations /\ r.generation # n
                              /\ keyOf[r.generation] = k
                              /\ worker'[r.generation] = worker[r.generation]
                              /\ worker[r.generation].progress # "PreAccepted"
                              /\ Started(r.generation)
      <4>1. ASSUME r.generation # 0
            PROVE  /\ r.generation \in Generations /\ r.generation # n
                   /\ keyOf[r.generation] = k
                   /\ worker[r.generation].progress # "PreAccepted"
        BY <1>7, <1>15, <4>1 DEF RecordAgrees
      <4>2. ASSUME r.generation # 0 PROVE Started(r.generation)
        BY <4>1, <4>2, HubAssumption DEF HubInv, ThreadInv, ThreadAgrees
      <4> QED BY <1>9, <4>1, <4>2
    <3>3. r.generation < n
      <4>1. CASE r.generation = 0
        BY <1>1, <4>1 DEF Generations
      <4>2. CASE r.generation # 0
        <5>1. ThreadAgrees(r.generation)
          BY <3>2, <4>2 DEF HubInv, ThreadInv
        <5>2. r.generation < next
          BY <3>2, <4>2, <5>1 DEF ThreadAgrees
        <5> QED BY <1>0, <5>2
      <4> QED BY <4>1, <4>2
    <3>4. \A x \in Generations : keyOf'[x] = k => x <= n
      <4>1. ASSUME NEW x \in Generations, keyOf'[x] = k, x # n PROVE x < n
        BY <1>0, <1>9, <4>1, HubAssumption DEF HubInv, ThreadInv, ThreadAgrees
      <4>2. \A x \in Generations : x \in Nat
        BY HubAssumption DEF Generations
      <4> QED BY <1>1, <4>1, <4>2
    <3>5. \A x \in {r.pending, r.generation, r.unknown} : x # 0 => keyOf'[x] = k
      BY <1>7, <1>9, <3>1, <3>2
    <3>6. r.state = "Finished" => /\ r.generation # 0
                                  /\ worker'[r.generation].pc \in {"none", "done", "crashed"}
                                  /\ \A i \in 1 .. Len(events) :
                                       events[i].generation # r.generation
      BY <1>7, <3>1, <3>2 DEF RecordAgrees, Going
    <3>7. r.generation # 0 => worker'[r.generation].progress # "PreAccepted"
      BY <3>2
    <3>8. r.pending # 0 /\ r.unknown = 0 /\ r.generation < r.pending
      BY <1>1, <1>7, <3>1, <3>3
    <3> QED BY <1>1, <1>7, <1>9, <3>4, <3>5, <3>6, <3>7, <3>8 DEF RecordAgrees, Going
  <2> QED BY <2>1, <2>2 DEF RecordInv
<1>18. AccountInv'
  <2>1. ASSUME NEW x \in Generations, Started(x)', x # n PROVE IsAccounted(x)'
    <3>1. Started(x) /\ keyOf'[x] = keyOf[x]
      BY <1>9, <2>1 DEF Started
    <3>2. IsAccounted(x) /\ keyOf[x] \in Keys /\ x \in Nat \ {0}
      BY <3>1, StartedFacts
    <3>3. CASE keyOf[x] # k
      BY <1>1, <1>9, <2>1, <3>1, <3>2, <3>3 DEF IsAccounted, Going, remote
    <3>4. CASE keyOf[x] = k
      <4>1. records[k].pending = 0 /\ records[k].unknown = 0
        BY <1>1 DEF StartAllowed
      <4> QED BY <1>1, <1>7, <1>9, <2>1, <3>1, <3>2, <3>4, <4>1 DEF IsAccounted, Going, remote
    <3> QED BY <3>3, <3>4
  <2>2. IsAccounted(n)'
    BY <1>1, <1>3, <1>7, <1>8, <1>9 DEF IsAccounted, remote
  <2> QED BY <2>1, <2>2 DEF AccountInv
<1>19. ModalAgrees'
  BY <1>1, <1>7, <1>8, <1>9 DEF ModalAgrees, Started
<1> QED BY <1>10, <1>11, <1>12, <1>14, <1>17, <1>18, <1>19 DEF HubInv

LEMMA StartInv ==
  ASSUME HubInv, NEW k \in Keys, Start(k)
  PROVE  HubInv'
<1>1. CASE workers' # workers
  BY <1>1, SpawnInv
<1>2. CASE workers' = workers
  <2>1. next \notin workers
    BY HubAssumption DEF Start, HubInv, HubTypeOK, ThreadInv, ThreadAgrees, Generations
  <2>2. UNCHANGED <<records, history, waiting, keyOf, worker>>
    BY <1>2, <2>1 DEF Start
  <2> QED BY <1>2, <2>2, GapInv
<1> QED BY <1>1, <1>2
-----------------------------------------------------------------------------
(* The invariant holds in every behaviour. *)
LEMMA HubInitInv ==
  ASSUME HubInit
  PROVE  HubInv
<1>1. /\ NoRecord \in RecordStates /\ "absent" \in HistoryStates /\ NoWorker \in WorkerStates
      /\ events = <<>> /\ Len(events) = 0 /\ <<>> \in Seq(Reports)
  BY HubAssumption
  DEF HubInit, NoRecord, RecordStates, HistoryStates, NoWorker, WorkerStates, ThreadSteps
<1>2. HubTypeOK
  <2>1. /\ records \in [Keys -> RecordStates] /\ history \in [Generations -> HistoryStates]
        /\ worker \in [Generations -> WorkerStates] /\ events \in Seq(Reports)
    BY <1>1 DEF HubInit
  <2>2. /\ next \in 1 .. MaxGeneration + 1 /\ budget \in 0 .. EventsPerTick
        /\ waiting \in 0 .. MaxGeneration /\ panics \in 0 .. MaxPanics
    BY HubAssumption DEF HubInit
  <2> QED BY <2>1, <2>2 DEF HubInit, HubTypeOK
<1>3. \A g \in Generations : /\ worker[g] = NoWorker /\ ~Started(g) /\ ~Going(g) /\ keyOf[g] = NoKey
                             /\ server[g] = "none"
  BY DEF HubInit, Started, Going, NoWorker
<1>4. ThreadInv /\ ListInv
  BY <1>3
  DEF HubInit, ThreadInv, ThreadAgrees, ListInv, ListAgrees, NoWorker, BeforePost, AfterAnswer
<1>5. RecordInv
  BY DEF HubInit, RecordInv, RecordAgrees, NoRecord
<1>6. ReportInv /\ VerdictIsLast /\ AccountInv /\ StopInv /\ ModalAgrees
  BY <1>1, <1>3 DEF HubInit, ReportInv, VerdictIsLast, AccountInv, StopInv, ModalAgrees
<1> QED BY <1>2, <1>4, <1>5, <1>6 DEF HubInv

LEMMA WorkSteps ==
  ASSUME HubInv, NEW g \in Generations, Work(g)
  PROVE  ThreadStep(g)
BY FetchStep, BaselineStep, GateStep, AnswerStep, AcceptedStep, UntrackedStep, DiscoverStep,
   StartedStep, PollStep, ReportPanicStep DEF Work

(* Every step is one of five kinds, which the action properties need too. *)
LEMMA HubSteps ==
  ASSUME HubInv, [HubNext]_hubVars
  PROVE  \/ \E g \in Generations : Recording(g) /\ budget' \in 0 .. EventsPerTick
         \/ \E g \in Generations : ThreadStep(g)
         \/ \E k \in Keys : Start(k)
         \/ \E g \in Generations : ServerAccepts(g) \/ ServerRejects(g)
         \/ /\ UNCHANGED <<records, server>>
            /\ \/ \E g \in Generations : ServerLists(g)
               \/ \E k \in Keys : OtherSubmits(k)
               \/ BeginTick \/ EndDrain \/ EndTick \/ CloseModal \/ Shutdown \/ RequestStop
               \/ UNCHANGED hubVars
<1>1. CASE ApplyEvent
  <2>1. Head(events).generation \in Generations /\ Recording(Head(events).generation)
    BY <1>1, ReportFacts, ApplyRecords DEF ApplyEvent
  <2>2. budget' \in 0 .. EventsPerTick
    BY <1>1, HubAssumption DEF ApplyEvent, HubInv, HubTypeOK
  <2> QED BY <2>1, <2>2
<1>2. CASE \E g \in Generations : ReapOne(g)
  <2>1. PICK g \in Generations : ReapOne(g)
    BY <1>2
  <2>2. budget' \in 0 .. EventsPerTick
    BY <2>1 DEF ReapOne, HubInv, HubTypeOK
  <2> QED BY <2>1, <2>2, ReapRecords
<1>3. CASE \E g \in Generations : Work(g) \/ Panic(g) \/ ContainmentFails(g)
  BY <1>3, WorkSteps, PanicStep
<1>4. CASE (\E g \in Generations : ServerLists(g)) \/ (\E k \in Keys : OtherSubmits(k))
  BY <1>4 DEF ServerLists, OtherSubmits, hub
<1>5. CASE BeginTick \/ EndDrain \/ EndTick \/ CloseModal \/ Shutdown \/ RequestStop
  BY <1>5 DEF BeginTick, EndDrain, EndTick, CloseModal, Shutdown, RequestStop, remote
<1>6. CASE Closed \/ UNCHANGED hubVars
  BY <1>6 DEF Closed, hubVars, hub, remote
<1> QED BY <1>1, <1>2, <1>3, <1>4, <1>5, <1>6 DEF HubNext, Tick

LEMMA HubNextInv ==
  ASSUME HubInv, [HubNext]_hubVars
  PROVE  HubInv'
<1>1. CASE \E g \in Generations : Recording(g) /\ budget' \in 0 .. EventsPerTick
  BY <1>1, RecordingInv
<1>2. CASE \E g \in Generations : ThreadStep(g)
  BY <1>2, ThreadStepInv
<1>3. CASE \E k \in Keys : Start(k)
  BY <1>3, StartInv
<1>4. CASE \E g \in Generations : ServerAccepts(g) \/ ServerRejects(g)
  BY <1>4, ServerInv
<1>5. CASE (\E g \in Generations : ServerLists(g)) \/ (\E k \in Keys : OtherSubmits(k))
  BY <1>5, ListsInv, OthersInv
<1>6. CASE BeginTick \/ EndDrain \/ EndTick \/ CloseModal \/ Shutdown \/ RequestStop
  BY <1>6, TickInv, CloseInv, StopInvariant
<1>7. CASE UNCHANGED hubVars
  <2>1. UNCHANGED <<records, history, next, workers, stopping, phase, budget, waiting, keyOf, events,
                    worker, server, listed, panics>>
    BY <1>7 DEF hubVars, hub, remote
  <2>2. HubTypeOK' /\ StopInv' /\ ModalAgrees'
    BY <2>1 DEF HubInv, HubTypeOK, StopInv, ModalAgrees, Started, FailureOverwritten
  <2>3. ThreadInv' /\ ListInv' /\ ReportInv' /\ VerdictIsLast'
    BY <2>1 DEF HubInv, ThreadInv, ThreadAgrees, ListInv, ListAgrees, ReportInv, ReportAgrees,
                VerdictIsLast, IsVerdict, Started, Going
  <2>4. RecordInv' /\ AccountInv'
    BY <2>1 DEF HubInv, RecordInv, RecordAgrees, AccountInv, IsAccounted, Started, Going
  <2> QED BY <2>2, <2>3, <2>4 DEF HubInv
<1> QED BY <1>1, <1>2, <1>3, <1>4, <1>5, <1>6, <1>7, HubSteps

(* Every behaviour of the hub, its threads and the server keeps the        *)
(* inductive invariant.                                                    *)
THEOREM HubInvariant == HubSpec => []HubInv
BY HubInitInv, HubNextInv, PTL DEF HubSpec

(* Every variable of the submission hub and of its threads has its type,   *)
(* whatever is submitted, cancelled, panics or is listed by the server.    *)
THEOREM HubTypeCorrect == HubSpec => []HubTypeOK
<1>1. HubInv => HubTypeOK
  BY DEF HubInv
<1> QED BY <1>1, HubInvariant, PTL

(* A submission the server accepted, or whose POST may still arrive, stays *)
(* in the history: only one that never reached the server leaves it.       *)
THEOREM AcceptedIsRemembered == HubSpec => []AcceptedIsNeverForgotten
<1>1. HubInv => AcceptedIsNeverForgotten
  <2> SUFFICES ASSUME HubInv, NEW g \in Generations, server[g] \in {"sent", "accepted"}
               PROVE  history[g] # "absent"
    BY DEF AcceptedIsNeverForgotten
  <2>1. Started(g)
    BY DEF HubInv, ThreadInv, ThreadAgrees, NoWorker
  <2> QED BY <2>1 DEF HubInv, AccountInv, IsAccounted
<1> QED BY <1>1, HubInvariant, PTL

(* The user cannot start a second submission of a problem while one is     *)
(* unaccounted for: pending and unknown name at most one between them.     *)
THEOREM NoRetryIsBlind == HubSpec => []NoBlindRetry
<1>1. HubInv => NoBlindRetry
  <2> SUFFICES ASSUME HubInv, NEW k \in Keys PROVE Cardinality(Unaccounted(k)) <= 1
    BY DEF NoBlindRetry
  <2>1. records[k] \in RecordStates /\ RecordAgrees(k)
    BY DEF HubInv, HubTypeOK, RecordInv
  <2>2. PICK x \in {records[k].pending, records[k].unknown} : Unaccounted(k) \subseteq {x}
    <3>1. ASSUME NEW g \in Unaccounted(k)
          PROVE  g # 0 /\ g \in {records[k].pending, records[k].unknown}
      <4>1. /\ g \in Generations /\ keyOf[g] = k /\ server[g] \in {"sent", "accepted"}
            /\ g > records[k].generation /\ g \in Nat \ {0}
        BY HubAssumption DEF Unaccounted, Generations
      <4>2. Started(g) /\ records[k].generation \in Nat
        BY <2>1, <4>1, HubAssumption DEF HubInv, ThreadInv, ThreadAgrees, RecordStates
      <4>3. IsAccounted(g)
        BY <4>1, <4>2 DEF HubInv, AccountInv
      <4> QED BY <4>1, <4>2, <4>3 DEF IsAccounted
    <3>2. records[k].pending = 0 \/ records[k].unknown = 0
      BY <2>1 DEF RecordAgrees
    <3>3. CASE records[k].pending = 0
      BY <3>1, <3>3
    <3>4. CASE records[k].unknown = 0
      BY <3>1, <3>4
    <3> QED BY <3>2, <3>3, <3>4
  <2>3. Unaccounted(k) = {} \/ Unaccounted(k) = {x}
    BY <2>2
  <2>4. Cardinality(Unaccounted(k)) \in {0, 1}
    BY <2>3, FS_EmptySet, FS_Singleton
  <2> QED BY <2>4
<1> QED BY <1>1, HubInvariant, PTL

(* Between two ticks the modal waits for nothing that is decided already,  *)
(* but for the failure that a panic of the thread before overwrote.        *)
THEOREM ModalIsAnswered == HubSpec => []ModalNeverHangs
<1>1. HubInv => ModalNeverHangs
  BY DEF HubInv, ModalAgrees, ModalNeverHangs
<1> QED BY <1>1, HubInvariant, PTL

(* Discovery never takes somebody else's submission when the user's own is *)
(* listed by the last look, in whatever order they came to be listed.      *)
THEOREM TracksOwn == HubSpec => TracksOwnSubmission
<1>1. ASSUME HubInv, [HubNext]_hubVars, NEW g \in Generations,
             worker'[g].tracked # worker[g].tracked, g \in listed[keyOf[g]]
      PROVE  worker'[g].tracked = g
  <2>1. ASSUME NEW x \in Generations, Recording(x) PROVE FALSE
    <3>1. SameThread(g)
      BY <1>1, <2>1, ThreadsAfterRecording
    <3> QED BY <1>1, <3>1 DEF SameThread
  <2>2. ASSUME NEW k \in Keys, Start(k) PROVE FALSE
    <3>1. worker' \in {worker, [worker EXCEPT ![next].pc = "ready"]}
      BY <2>2 DEF Start
    <3>2. worker \in [Generations -> WorkerStates]
      BY <1>1 DEF HubInv, HubTypeOK
    <3>3. worker'[g].tracked = worker[g].tracked
      BY <3>1, <3>2 DEF WorkerStates
    <3> QED BY <1>1, <3>3
  <2>3. ASSUME RequestStop PROVE FALSE
    BY <1>1, <2>3 DEF RequestStop, HubInv, HubTypeOK, WorkerStates
  <2>4. ASSUME worker' = worker PROVE FALSE
    BY <1>1, <2>4
  <2>5. PICK x \in Generations : ThreadStep(x)
    BY <1>1, <2>1, <2>2, <2>3, <2>4, HubSteps
    DEF ServerAccepts, ServerRejects, ServerLists, OtherSubmits, BeginTick, EndDrain, EndTick,
        CloseModal, Shutdown, hubVars
  <2>6. x = g
    BY <1>1, <2>5 DEF ThreadStep
  <2> QED BY <1>1, <2>5, <2>6 DEF ThreadStep, Follows
<1>2. HubInv /\ [HubNext]_hubVars =>
        [\A g \in Generations :
           worker'[g].tracked # worker[g].tracked /\ g \in listed[keyOf[g]]
             => worker'[g].tracked = g]_hubVars
  BY <1>1
<1> QED BY <1>2, HubInvariant, PTL DEF HubSpec, TracksOwnSubmission

(* What recording an outcome, or starting a submission, does to a verdict. *)
LEMMA VerdictStep ==
  ASSUME HubInv, [HubNext]_hubVars, NEW k \in Keys
  PROVE  /\ records'[k].generation >= records[k].generation
         /\ records[k].state = "Finished" /\ records'[k].generation = records[k].generation
              => records'[k].state = "Finished"
<1>1. /\ records \in [Keys -> RecordStates] /\ records[k] \in RecordStates
      /\ records[k].generation \in Nat
  BY HubAssumption DEF HubInv, HubTypeOK, RecordStates
<1>2. ASSUME NEW g \in Generations, Recording(g)
      PROVE  /\ records'[k].generation >= records[k].generation
             /\ records[k].state = "Finished" /\ records'[k].generation = records[k].generation
                  => records'[k].state = "Finished"
  <2>1. CASE k # keyOf[g]
    BY <1>1, <1>2, <2>1, RecordAfterRecording
  <2>2. CASE k = keyOf[g]
    <3>1. PICK r \in RecordStates, h \in HistoryStates :
            /\ r = records'[k]
            /\ \/ OnlyNotes(k, g, r, h) \/ Accepts(k, g, r, h) \/ Updates(k, g, r, h)
               \/ Fails(k, g, r, h) \/ Loses(k, g, r, h)
      BY <1>2, <2>2, RecordAfterRecording DEF HubInv
    <3>2. CASE Accepts(k, g, r, h)
      BY <1>1, <3>1, <3>2, HubAssumption
      DEF Accepts, HubInv, RecordInv, RecordAgrees, Generations
    <3>3. CASE ~Accepts(k, g, r, h)
      BY <1>1, <3>1, <3>3 DEF OnlyNotes, Updates, Fails, Loses
    <3> QED BY <3>2, <3>3
  <2> QED BY <2>1, <2>2
<1>3. ASSUME NEW j \in Keys, Start(j)
      PROVE  records'[k].generation = records[k].generation /\ records'[k].state = records[k].state
  BY <1>1, <1>3 DEF Start, RecordStates
<1>4. CASE UNCHANGED records
  BY <1>1, <1>4
<1> QED BY <1>1, <1>2, <1>3, <1>4, HubSteps DEF ThreadStep, ServerAccepts, ServerRejects, hub

(* The newest accepted submission of a problem is never replaced by an     *)
(* older one, and no late report or panic takes its verdict away.          *)
THEOREM VerdictIsKept == HubSpec => VerdictStays
<1>1. HubInv /\ [HubNext]_hubVars =>
        [\A k \in Keys :
           /\ records'[k].generation >= records[k].generation
           /\ records[k].state = "Finished" /\ records'[k].generation = records[k].generation
                => records'[k].state = "Finished"]_hubVars
  BY VerdictStep
<1> QED BY <1>1, HubInvariant, PTL DEF HubSpec, VerdictStays

(* Once the workspace is being left every thread still at work is          *)
(* cancelled, and a cancelled thread does not pass the gate to its POST.   *)
THEOREM NoPostAfterStop == HubSpec => StoppedNeverPosts
<1>1. ASSUME HubInv, [HubNext]_hubVars, NEW g \in Generations,
             server[g] = "none", server'[g] = "sent"
      PROVE  ~stopping
  <2>1. server \in [Generations -> {"none", "sent", "accepted", "rejected"}]
    BY <1>1 DEF HubInv, HubTypeOK
  <2>2. PICK x \in Generations : ThreadStep(x)
    <3>1. ASSUME NEW x \in Generations, ServerAccepts(x) \/ ServerRejects(x) PROVE FALSE
      BY <1>1, <2>1, <3>1 DEF ServerAccepts, ServerRejects
    <3> QED BY <1>1, <3>1, HubSteps DEF Recording, Start, remote
  <2>3. x = g /\ worker[g].pc = "slot" /\ ~worker[g].cancelled
    BY <1>1, <2>2 DEF ThreadStep
  <2>4. Started(g) /\ Going(g)
    BY <2>3 DEF Started, Going
  <2> QED BY <1>1, <2>3, <2>4 DEF HubInv, AccountInv, IsAccounted
<1>2. HubInv /\ [HubNext]_hubVars =>
        [\A g \in Generations : server[g] = "none" /\ server'[g] = "sent" => ~stopping]_hubVars
  BY <1>1
<1> QED BY <1>2, HubInvariant, PTL DEF HubSpec, StoppedNeverPosts

-----------------------------------------------------------------------------
(* The rows of user inputs. *)
EditIsWhole ==
  /\ edit.target = Other => edit = NoEdit
  /\ edit.target # Other => edit.buffer \in Texts

CallAgrees ==
  /\ call.step = "none" <=> call = NoCall
  /\ call.step # "none" => call.id \in Ids /\ here
  /\ call.step = "created" => edit.target = Draft /\ selected = Draft
  /\ call.step \in {"missing", "conflict", "error"} => edit.target = call.id /\ selected = call.id
  /\ call.step = "notFound" => edit.target # call.id

MineAgrees ==
  /\ edit.target # Draft => mine = {}
  /\ call.step # "created" => mine \subseteq {edit.installed}
  /\ call.step = "created" =>
       mine \subseteq {call.id} /\ \A i \in mine : disk[i] = edit.buffer

RowsInv == EditorTypeOK /\ EditIsWhole /\ CallAgrees
EditorInv == RowsInv /\ MineAgrees /\ ShownIsTrue

LEMMA EffectiveNextFacts ==
  ASSUME EditorTypeOK
  PROVE  /\ EffectiveNext \in 1 .. MaxId + 1 /\ EffectiveNext >= nextId
         /\ \A i \in Present(disk) : EffectiveNext > i
<1> DEFINE T == {n \in 1 .. MaxId + 1 : n >= nextId /\ \A i \in Present(disk) : n > i}
<1>1. MaxId + 1 \in T /\ T \subseteq Nat
  BY EditorAssumption DEF EditorTypeOK, Present, Ids
<1>2. PICK m \in T : \A n \in T : m <= n
  BY <1>1, LeastNatural
<1>3. m = nextId \/ m - 1 \in Present(disk)
  <2>1. SUFFICES ASSUME m # nextId, m - 1 \notin Present(disk) PROVE FALSE
    OBVIOUS
  <2>2. m - 1 \in T
    BY <2>1, <1>1, EditorAssumption DEF EditorTypeOK, Present, Ids
  <2>3. QED  BY <2>2, <1>2, <1>1
<1>4. QED  BY <1>2, <1>3 DEF EffectiveNext

LEMMA EditorConstants ==
  /\ Ids \subseteq Nat /\ 0 \notin Ids /\ InputRows = Ids \cup {Draft}
  /\ Draft \notin Ids /\ Other \notin Ids /\ Draft # Other /\ Draft # 0 /\ Other # 0
  /\ Other \notin InputRows /\ Ids \subseteq InputRows /\ Draft \in InputRows
  /\ Absent \notin Texts /\ Empty \in Texts /\ MaybeTexts = Texts \cup {Absent}
  /\ Ids \subseteq Int
BY EditorAssumption DEF Ids, InputRows, MaybeTexts

(* The pieces of the type invariant. *)
Runs == [InputRows -> [status : {"none", "active", "done"}, input : MaybeTexts]]
Edits == [target : InputRows \cup {Other}, buffer : MaybeTexts, installed : {0} \cup Ids,
          back : Ids \cup {Other, Absent}]

LEMMA RunsTyped ==
  ASSUME EditorTypeOK
  PROVE  /\ \A list \in [Ids -> MaybeTexts] : RunsFor(list) \in Runs
         /\ \A rs \in Runs : \A row : Dropping(rs, row) \in Runs
         /\ \A rs \in Runs : Retired(rs) \in Runs
         /\ [r \in InputRows |-> NoRun] \in Runs
<1>1. NoRun \in [status : {"none", "active", "done"}, input : MaybeTexts]
  BY DEF NoRun, MaybeTexts
<1>2. runs \in Runs  BY DEF EditorTypeOK, Runs
<1>3. QED  BY <1>1, <1>2 DEF Runs, RunsFor, Dropping, Retired

LEMMA EnqueueTyped ==
  ASSUME NEW rs \in Runs, NEW row \in InputRows, NEW text \in MaybeTexts,
         Enqueue(rs, row, text), EditorTypeOK
  PROVE  runs' \in Runs
<1>1. Retired(rs) \in Runs /\ Dropping(rs, row) \in Runs  BY RunsTyped
<1>2. [Retired(rs) EXCEPT ![row] = [status |-> "active", input |-> text]] \in Runs
  BY <1>1 DEF Runs
<1>3. QED  BY <1>1, <1>2 DEF Enqueue

(* What may be selected. *)
LEMMA SelectionFacts ==
  /\ \A list, e : FirstSelection(list, e) \subseteq Selectable(list, e)
  /\ \A list, e, i : Fallback(list, e, i) \subseteq Selectable(list, e)
  /\ \A list, e : Other \in Selectable(list, e)
  /\ \A list, e : Selectable(list, e) \subseteq Ids \cup {Other, Draft}
BY DEF FirstSelection, Fallback, Selectable, Present

LEMMA ReselectKeeps ==
  ASSUME NEW list, selected \in Selectable(cache, edit), here, ReselectRow(list)
  PROVE  /\ selected' \in Selectable(list, edit)
         /\ selected \in Ids /\ list[selected] # Absent => selected' = selected
<1>1. CASE selected \in Ids /\ list[selected] = Absent
  BY <1>1, SelectionFacts DEF ReselectRow
<1>2. CASE ~(selected \in Ids /\ list[selected] = Absent)
  <2>1. selected' = selected  BY <1>2 DEF ReselectRow
  <2>2. QED  BY <1>2, <2>1 DEF Selectable, Present
<1>3. QED  BY <1>1, <1>2

-----------------------------------------------------------------------------
(* The type invariant in parts: the files, the edit, the rows. *)
LEMMA RowsTyped ==
  ASSUME RowsInv
  PROVE  /\ disk \in [Ids -> MaybeTexts] /\ nextId \in 1 .. MaxId + 1
         /\ cache \in [Ids -> MaybeTexts]
         /\ edit \in Edits /\ runs \in Runs
         /\ selected \in Selectable(cache, edit)
BY DEF RowsInv, EditorTypeOK, Edits, Runs

LEMMA TroublesTyped ==
  ASSUME EditorTypeOK, Trouble \/ UNCHANGED troubles
  PROVE  troubles' \in 0 .. MaxTroubles
BY EditorAssumption DEF EditorTypeOK, Trouble

LEMMA EnterKeepsRows ==
  ASSUME RowsInv, EnterProblem
  PROVE  RowsInv'
<1> USE DEF Ours, files, view, editorHistory, Idle
<1>1. runs' \in Runs
  BY RunsTyped DEF RowsInv, EnterProblem, EditorTypeOK, Runs
<1>2. selected' \in Selectable(cache', edit')
  <2>1. FirstSelection(cache, edit) \cap Present(disk) \subseteq Selectable(disk, edit)
    BY DEF Selectable
  <2>2. QED  BY <2>1, SelectionFacts DEF EnterProblem
<1>3. troubles' \in 0 .. MaxTroubles
  BY TroublesTyped DEF EnterProblem, RowsInv
<1>4. QED
  BY <1>1, <1>2, <1>3 DEF EnterProblem, RowsInv, EditorTypeOK, Runs, EditIsWhole, CallAgrees, NoCall

LEMMA LeaveKeepsRows ==
  ASSUME RowsInv, LeaveProblem
  PROVE  RowsInv'
BY SelectionFacts DEF LeaveProblem, RowsInv, EditorTypeOK, EditIsWhole, CallAgrees, NoCall, Idle, Ours,
   files, editorHistory

LEMMA SelectKeepsRows ==
  ASSUME RowsInv, NEW row \in InputRows \cup {Other}, Select(row)
  PROVE  RowsInv'
BY DEF Select, RowsInv, EditorTypeOK, EditIsWhole, CallAgrees, NoCall, Idle, Ours, files, editorHistory

LEMMA NewKeepsRows ==
  ASSUME RowsInv, NewInput
  PROVE  RowsInv'
<1> USE DEF Ours, files, view, editorHistory, Idle
<1>1. runs' \in Runs
  BY RunsTyped DEF RowsInv, NewInput, EditorTypeOK, Runs
<1>2. edit' \in Edits /\ edit'.target = Draft /\ edit'.buffer \in Texts
  <2>1. CASE edit = NoEdit
    <3>1. selected \in Ids \cup {Other}
      BY <2>1, EditorConstants DEF RowsInv, EditorTypeOK, Selectable, Present, NoEdit
    <3>2. QED  BY <2>1, <3>1, EditorConstants DEF NewInput, Edits
  <2>2. CASE edit # NoEdit
    BY <2>2, EditorConstants DEF NewInput, RowsInv, EditorTypeOK, EditIsWhole, Edits
  <2>3. QED  BY <2>1, <2>2
<1>3. selected' \in Selectable(cache', edit')
  BY <1>2 DEF Selectable, NewInput
<1>4. QED
  BY <1>1, <1>2, <1>3, EditorConstants
  DEF NewInput, RowsInv, EditorTypeOK, Runs, Edits, EditIsWhole, CallAgrees, NoCall

LEMMA BeginKeepsRows ==
  ASSUME RowsInv, BeginEdit
  PROVE  RowsInv'
<1> USE DEF Ours, files, view, editorHistory, Idle
<1>1. runs' \in Runs
  BY RunsTyped DEF RowsInv, BeginEdit, EditorTypeOK, Runs
<1>2. CASE cache' = disk /\ ReselectRow(disk)
           /\ IF disk[selected] # Absent
              THEN edit' = [target |-> selected, buffer |-> disk[selected], installed |-> 0,
                            back |-> Absent]
              ELSE edit' = edit
  <2>1. selected' \in Selectable(disk, edit)
        /\ (disk[selected] # Absent => selected' = selected)
    BY <1>2, ReselectKeeps DEF BeginEdit, RowsInv, EditorTypeOK
  <2>2. edit' \in Edits /\ EditIsWhole' /\ selected' \in Selectable(cache', edit')
    <3>1. CASE disk[selected] # Absent
      BY <1>2, <2>1, <3>1, EditorConstants
      DEF BeginEdit, RowsInv, EditorTypeOK, Edits, EditIsWhole, Selectable, Present
    <3>2. CASE disk[selected] = Absent
      BY <1>2, <2>1, <3>2 DEF RowsInv, EditorTypeOK, Edits, EditIsWhole
    <3>3. QED  BY <3>1, <3>2
  <2>3. shown' \in MaybeTexts /\ mine' \subseteq Ids /\ taken' \in {0} \cup Ids
    BY DEF BeginEdit, RowsInv, EditorTypeOK
  <2>4. QED
    BY <1>1, <1>2, <2>2, <2>3, TroublesTyped DEF BeginEdit, RowsInv, EditorTypeOK, Runs, Edits, CallAgrees, NoCall
<1>3. CASE Trouble /\ UNCHANGED <<cache, runs, selected, edit, editorHistory>>
  BY <1>1, <1>3, TroublesTyped DEF BeginEdit, RowsInv, EditorTypeOK, EditIsWhole, CallAgrees, NoCall
<1>4. QED  BY <1>2, <1>3 DEF BeginEdit

LEMMA TypeKeepsRows ==
  ASSUME RowsInv, NEW text \in Texts, Type(text)
  PROVE  RowsInv'
<1> USE DEF Ours, files, view, editorHistory, Idle
<1>1. runs' \in Runs
  BY RunsTyped DEF RowsInv, Type, EditorTypeOK, Runs
<1>2. edit' \in Edits /\ edit'.target = edit.target /\ edit'.buffer = text
  BY EditorConstants DEF RowsInv, Type, EditorTypeOK, Edits
<1>3. QED
  BY <1>1, <1>2, EditorConstants
  DEF Type, EditorActive, RowsInv, EditorTypeOK, Runs, Edits, EditIsWhole, CallAgrees, NoCall, Selectable

LEMMA CancelKeepsRows ==
  ASSUME RowsInv, CancelEdit
  PROVE  RowsInv'
<1> USE DEF Ours, files, view, editorHistory, Idle
<1>1. runs' \in Runs
  BY RunsTyped DEF RowsInv, CancelEdit, EditorTypeOK, Runs
<1>2. edit' \in Edits /\ edit' = NoEdit
  BY EditorConstants DEF CancelEdit, Edits, NoEdit
<1>3. selected' \in Selectable(cache, NoEdit)
  <2>1. CASE edit.target = Draft
    BY <2>1, SelectionFacts DEF CancelEdit
  <2>2. CASE edit.target # Draft
    BY <2>2, EditorConstants DEF CancelEdit, EditorActive, RowsInv, EditorTypeOK, Selectable, NoEdit
  <2>3. QED  BY <2>1, <2>2
<1>4. QED
  BY <1>1, <1>2, <1>3, EditorConstants
  DEF CancelEdit, RowsInv, EditorTypeOK, Runs, Edits, EditIsWhole, CallAgrees, NoCall, NoEdit

-----------------------------------------------------------------------------
(* A save that ends the edit. *)
LEMMA CompleteTyped ==
  ASSUME RowsInv, NEW list \in [Ids -> MaybeTexts], NEW rs \in Runs, NEW i \in Ids, list[i] # Absent,
         edit.target # Other, Complete(list, rs, i)
  PROVE  /\ cache' \in [Ids -> MaybeTexts] /\ edit' = NoEdit /\ edit' \in Edits
         /\ runs' \in Runs /\ selected' \in Selectable(cache', edit')
         /\ call' = NoCall /\ shown' = Absent /\ mine' = {} /\ taken' = 0
<1>1. edit.buffer \in MaybeTexts  BY EditorConstants DEF RowsInv, EditIsWhole
<1>2. runs' \in Runs
  BY <1>1, RunsTyped, EnqueueTyped, EditorConstants DEF Complete, RowsInv
<1>3. NoEdit \in Edits  BY EditorConstants DEF NoEdit, Edits
<1>4. QED  BY <1>2, <1>3 DEF Complete, Selectable, Present

LEMMA CompleteKeepsRows ==
  ASSUME RowsInv, NEW list \in [Ids -> MaybeTexts], NEW rs \in Runs, NEW i \in Ids, list[i] # Absent,
         edit.target # Other, Complete(list, rs, i), Ours, here' = here,
         disk' \in [Ids -> MaybeTexts], nextId' \in 1 .. MaxId + 1, troubles' \in 0 .. MaxTroubles
  PROVE  RowsInv'
<1>1. /\ cache' \in [Ids -> MaybeTexts] /\ edit' = NoEdit /\ edit' \in Edits
      /\ runs' \in Runs /\ selected' \in Selectable(cache', edit')
      /\ call' = NoCall /\ shown' = Absent /\ mine' = {} /\ taken' = 0
  BY CompleteTyped
<1>2. EditorTypeOK'
  BY <1>1, EditorConstants DEF Ours, RowsInv, EditorTypeOK, Runs, Edits, NoCall
<1>3. EditIsWhole' /\ CallAgrees'
  BY <1>1 DEF EditIsWhole, CallAgrees, NoCall, NoEdit
<1>4. QED  BY <1>2, <1>3 DEF RowsInv

LEMMA SaveDraftKeepsRows ==
  ASSUME RowsInv, SaveDraft
  PROVE  RowsInv'
<1> USE DEF Ours
<1> DEFINE n == EffectiveNext
<1>1. n \in 1 .. MaxId + 1 /\ n >= nextId
  BY EffectiveNextFacts DEF RowsInv
<1>2. edit.buffer \in Texts /\ edit.target = Draft /\ selected = Draft /\ here /\ call = NoCall
  BY EditorConstants DEF SaveDraft, EditorActive, Idle, RowsInv, EditIsWhole
<1>3. disk' \in [Ids -> MaybeTexts] /\ nextId' \in 1 .. MaxId + 1 /\ troubles' \in 0 .. MaxTroubles
  BY <1>1, <1>2, TroublesTyped, EditorConstants, EditorAssumption
  DEF SaveDraft, Creates, RowsInv, EditorTypeOK
<1> HIDE DEF n
<1>4. CASE /\ n \in Ids
           /\ Complete([cache EXCEPT ![n] = edit.buffer], runs, n)
  <2>1. [cache EXCEPT ![n] = edit.buffer] \in [Ids -> MaybeTexts]
        /\ [cache EXCEPT ![n] = edit.buffer][n] # Absent
    BY <1>2, <1>4, EditorConstants DEF RowsInv, EditorTypeOK
  <2>2. QED
    BY <1>2, <1>3, <1>4, <2>1, CompleteKeepsRows, RowsTyped, EditorConstants DEF SaveDraft
<1>5. CASE /\ n \in Ids
           /\ edit' = [edit EXCEPT !.installed = n]
           /\ mine' = mine \cup {n}
           /\ UNCHANGED <<cache, selected, runs, call, shown, taken>>
  BY <1>2, <1>3, <1>5, EditorConstants
  DEF SaveDraft, RowsInv, EditorTypeOK, EditIsWhole, CallAgrees, NoCall, NoEdit, Selectable
<1>6. CASE /\ n \in Ids
           /\ call' = [step |-> "created", id |-> n]
           /\ mine' = mine \cup {n}
           /\ KeepEdit
  BY <1>2, <1>3, <1>6, EditorConstants
  DEF SaveDraft, RowsInv, EditorTypeOK, EditIsWhole, CallAgrees, NoCall, NoEdit, KeepEdit
<1>7. CASE KeepEdit /\ UNCHANGED <<disk, call, mine>>
  BY <1>2, <1>3, <1>7
  DEF SaveDraft, RowsInv, EditorTypeOK, EditIsWhole, CallAgrees, NoCall, NoEdit, KeepEdit
<1>8. n <= MaxId => n \in Ids
  BY <1>1, EditorAssumption DEF Ids, n
<1>9. QED
  BY <1>4, <1>5, <1>6, <1>7, <1>8 DEF SaveDraft, n

LEMMA ReloadCreatedKeepsRows ==
  ASSUME RowsInv, ReloadCreated
  PROVE  RowsInv'
<1> USE DEF Ours, files
<1> DEFINE i == call.id
<1>1. i \in Ids /\ edit.target = Draft /\ selected = Draft /\ here /\ edit.buffer \in Texts
  BY EditorConstants DEF ReloadCreated, RowsInv, CallAgrees, EditIsWhole
<1>2. troubles' \in 0 .. MaxTroubles
  BY TroublesTyped DEF ReloadCreated, RowsInv
<1>3. disk \in [Ids -> MaybeTexts] /\ RunsFor(disk) \in Runs
      /\ Dropping(RunsFor(disk), Draft) \in Runs
  BY RunsTyped DEF RowsInv, EditorTypeOK
<1>4. CASE disk[i] = edit.buffer /\ Complete(disk, RunsFor(disk), i)
  <2>1. disk[i] # Absent  BY <1>1, <1>4, EditorConstants
  <2>2. QED
    BY <1>1, <1>2, <1>3, <1>4, <2>1, CompleteKeepsRows, RowsTyped, EditorConstants DEF ReloadCreated
<1>5. CASE /\ disk[i] \notin {edit.buffer, Absent}
           /\ cache' = disk /\ runs' = Dropping(RunsFor(disk), Draft)
           /\ edit' = [edit EXCEPT !.target = i, !.installed = 0, !.back = Absent]
           /\ selected' = i /\ shown' = disk[i] /\ taken' = i
           /\ call' = NoCall /\ mine' = mine
  <2>1. edit' \in Edits /\ edit'.target = i /\ edit'.buffer = edit.buffer
    BY <1>1, <1>5, RowsTyped, EditorConstants DEF Edits
  <2>2. selected' \in Selectable(cache', edit')
    BY <1>1, <1>5 DEF Selectable, Present
  <2>3. QED
    BY <1>1, <1>2, <1>3, <1>5, <2>1, <2>2, EditorConstants
    DEF ReloadCreated, RowsInv, EditorTypeOK, EditIsWhole, CallAgrees, Runs, Edits, NoCall
<1>6. CASE /\ edit' = [edit EXCEPT !.installed = i]
           /\ call' = NoCall
           /\ UNCHANGED <<cache, selected, runs, editorHistory>>
  BY <1>1, <1>2, <1>6, EditorConstants
  DEF ReloadCreated, RowsInv, EditorTypeOK, EditIsWhole, CallAgrees, NoCall, NoEdit, Selectable, editorHistory
<1>7. QED  BY <1>4, <1>5, <1>6 DEF ReloadCreated

LEMMA SavePersistedKeepsRows ==
  ASSUME RowsInv, SavePersisted
  PROVE  RowsInv'
<1> USE DEF Ours
<1> DEFINE i == edit.target
<1> DEFINE list == [cache EXCEPT ![i] = edit.buffer]
<1>1. /\ i \in Ids /\ edit.buffer \in Texts /\ i = selected /\ here /\ call = NoCall /\ i # Other
      /\ here' = here
  BY EditorConstants DEF SavePersisted, EditorActive, Idle, RowsInv, EditIsWhole
<1>2. /\ disk' \in [Ids -> MaybeTexts] /\ nextId' \in 1 .. MaxId + 1
      /\ troubles' \in 0 .. MaxTroubles
  BY <1>1, EffectiveNextFacts, TroublesTyped, EditorConstants
  DEF SavePersisted, files, RowsInv, EditorTypeOK
<1>3. CASE Complete(list, runs, i)
  <2>1. list \in [Ids -> MaybeTexts] /\ list[i] # Absent
    BY <1>1, RowsTyped, EditorConstants
  <2>2. QED
    BY <1>1, <1>2, <1>3, <2>1, CompleteKeepsRows, RowsTyped DEF SavePersisted
<1>4. ASSUME NEW step \in {"missing", "conflict", "error"},
             call' = [step |-> step, id |-> i], KeepEdit, UNCHANGED mine
      PROVE  RowsInv'
  <2>1. EditorTypeOK'
    BY <1>1, <1>2, <1>4 DEF SavePersisted, KeepEdit, RowsInv, EditorTypeOK
  <2>2. EditIsWhole' /\ CallAgrees'
    BY <1>1, <1>4 DEF KeepEdit, RowsInv, EditIsWhole, CallAgrees, NoCall, NoEdit
  <2>3. QED  BY <2>1, <2>2 DEF RowsInv
<1>5. QED  BY <1>3, <1>4 DEF SavePersisted

LEMMA RecoverTyped ==
  ASSUME RowsInv, NEW list \in [Ids -> MaybeTexts], RecoverDraft(list), edit.target # Other
  PROVE  /\ cache' \in [Ids -> MaybeTexts] /\ edit' \in Edits
         /\ edit'.target = Draft /\ edit'.buffer = edit.buffer /\ edit'.installed = 0
         /\ runs' \in Runs /\ selected' \in Selectable(cache', edit')
         /\ shown' = Absent /\ taken' = 0
<1>1. runs' \in Runs  BY RunsTyped DEF RecoverDraft, RowsInv
<1>2. edit' \in Edits /\ edit'.target = Draft /\ edit'.buffer = edit.buffer /\ edit'.installed = 0
  BY RowsTyped, EditorConstants DEF RecoverDraft, Edits
<1>3. QED  BY <1>1, <1>2 DEF RecoverDraft, Selectable

LEMMA ReloadAfterSaveKeepsRows ==
  ASSUME RowsInv, ReloadAfterSave
  PROVE  RowsInv'
<1> USE DEF Ours, files
<1> DEFINE i == call.id
<1>1. i \in Ids /\ edit.target = i /\ selected = i /\ here /\ edit.buffer \in Texts /\ i # Other
  BY EditorConstants DEF ReloadAfterSave, RowsInv, CallAgrees, EditIsWhole
<1>2. troubles' \in 0 .. MaxTroubles
  BY TroublesTyped DEF ReloadAfterSave, RowsInv
<1>3. disk \in [Ids -> MaybeTexts] /\ RunsFor(disk) \in Runs
  BY RunsTyped DEF RowsInv, EditorTypeOK
<1>4. CASE disk[i] = edit.buffer /\ Complete(disk, RunsFor(disk), i)
  <2>1. disk[i] # Absent  BY <1>1, <1>4, EditorConstants
  <2>2. QED
    BY <1>1, <1>2, <1>3, <1>4, <2>1, CompleteKeepsRows, RowsTyped DEF ReloadAfterSave
<1>5. CASE /\ disk[i] # Absent /\ cache' = disk /\ runs' = RunsFor(disk)
           /\ shown' = disk[i] /\ call' = NoCall
           /\ UNCHANGED <<edit, selected, troubles, mine, taken>>
  <2>1. selected' \in Selectable(cache', edit')
    BY <1>1, <1>5 DEF Selectable, Present
  <2>2. EditorTypeOK'
    BY <1>1, <1>2, <1>3, <1>5, <2>1, EditorConstants
    DEF ReloadAfterSave, RowsInv, EditorTypeOK, Runs, NoCall
  <2>3. EditIsWhole' /\ CallAgrees'
    BY <1>5 DEF RowsInv, EditIsWhole, CallAgrees, NoCall
  <2>4. QED  BY <2>2, <2>3 DEF RowsInv
<1>6. ASSUME NEW list \in [Ids -> MaybeTexts], RecoverDraft(list), call' = NoCall, UNCHANGED mine
      PROVE  RowsInv'
  <2>1. EditorTypeOK'
    BY <1>1, <1>2, <1>6, RecoverTyped, EditorConstants
    DEF ReloadAfterSave, RowsInv, EditorTypeOK, Runs, Edits, NoCall
  <2>2. EditIsWhole' /\ CallAgrees'
    BY <1>1, <1>6, RecoverTyped, EditorConstants DEF EditIsWhole, CallAgrees, NoCall
  <2>3. QED  BY <2>1, <2>2 DEF RowsInv
<1>7. CASE KeepEdit /\ call' = NoCall /\ UNCHANGED mine
  <2>1. EditorTypeOK'
    BY <1>2, <1>7 DEF ReloadAfterSave, KeepEdit, RowsInv, EditorTypeOK, NoCall
  <2>2. EditIsWhole' /\ CallAgrees'
    BY <1>7 DEF KeepEdit, RowsInv, EditIsWhole, CallAgrees, NoCall
  <2>3. QED  BY <2>1, <2>2 DEF RowsInv
<1>8. [cache EXCEPT ![i] = Absent] \in [Ids -> MaybeTexts]
  BY RowsTyped, EditorConstants
<1>9. QED  BY <1>3, <1>4, <1>5, <1>6, <1>7, <1>8 DEF ReloadAfterSave

-----------------------------------------------------------------------------
(* Deletes, runs, notifications and others. *)
LEMMA DeletedTyped ==
  ASSUME RowsInv, NEW i \in Ids, here, Deleted(i)
  PROVE  /\ cache' = [cache EXCEPT ![i] = Absent]
         /\ cache' \in [Ids -> MaybeTexts] /\ runs' \in Runs
         /\ selected' \in Selectable(cache', edit)
<1>1. cache' \in [Ids -> MaybeTexts] /\ runs' \in Runs
  BY RowsTyped, RunsTyped, EditorConstants DEF Deleted, RowsInv
<1>2. selected' \in Selectable(cache', edit)
  BY RowsTyped, ReselectKeeps DEF Deleted
<1>3. QED  BY <1>1, <1>2 DEF Deleted

LEMMA DeleteKeepsRows ==
  ASSUME RowsInv, NEW i \in Ids, Delete(i)
  PROVE  RowsInv'
<1> USE DEF Ours
<1>1. /\ disk' \in [Ids -> MaybeTexts] /\ nextId' \in 1 .. MaxId + 1
      /\ troubles' \in 0 .. MaxTroubles /\ mine' \subseteq Ids
  BY EffectiveNextFacts, TroublesTyped, EditorConstants
  DEF Delete, Removes, files, RowsInv, EditorTypeOK
<1>2. cache' \in [Ids -> MaybeTexts] /\ runs' \in Runs /\ selected' \in Selectable(cache', edit)
  BY DeletedTyped, RowsTyped DEF Delete, NotDeleted
<1>3. EditorTypeOK'
  BY <1>1, <1>2, EditorConstants DEF Delete, RowsInv, EditorTypeOK, Runs
<1>4. EditIsWhole' /\ call = NoCall /\ here /\ edit.target # i
  BY DEF Delete, Idle, Deletable, RowsInv, EditIsWhole
<1>5. CallAgrees'
  BY <1>4 DEF Delete, CallAgrees, NoCall
<1>6. QED  BY <1>3, <1>4, <1>5 DEF RowsInv

LEMMA ReloadAfterDeleteKeepsRows ==
  ASSUME RowsInv, ReloadAfterDelete
  PROVE  RowsInv'
<1> USE DEF Ours, files, editorHistory
<1>1. call.id \in Ids /\ here
  BY DEF ReloadAfterDelete, RowsInv, CallAgrees
<1>2. cache' \in [Ids -> MaybeTexts] /\ runs' \in Runs /\ selected' \in Selectable(cache', edit)
  BY <1>1, DeletedTyped, RowsTyped DEF ReloadAfterDelete, NotDeleted
<1>3. troubles' \in 0 .. MaxTroubles
  BY TroublesTyped DEF ReloadAfterDelete, RowsInv
<1>4. EditorTypeOK'
  BY <1>2, <1>3 DEF ReloadAfterDelete, RowsInv, EditorTypeOK, Runs, NoCall
<1>5. EditIsWhole' /\ CallAgrees'
  BY DEF ReloadAfterDelete, RowsInv, EditIsWhole, CallAgrees, NoCall
<1>6. QED  BY <1>4, <1>5 DEF RowsInv

LEMMA RunEditKeepsRows ==
  ASSUME RowsInv, RunEdit
  PROVE  RowsInv'
<1> USE DEF Ours, files, view, editorHistory
<1>1. selected \in InputRows /\ edit.buffer \in MaybeTexts
  BY RowsTyped, EditorConstants DEF RunEdit, EditorActive, Edits
<1>2. runs' \in Runs
  BY <1>1, RowsTyped, EnqueueTyped DEF RunEdit, RowsInv
<1>3. EditorTypeOK'
  BY <1>2 DEF RunEdit, RowsInv, EditorTypeOK, Runs
<1>4. EditIsWhole' /\ CallAgrees'
  BY DEF RunEdit, RowsInv, EditIsWhole, CallAgrees
<1>5. QED  BY <1>3, <1>4 DEF RowsInv

LEMMA RunRowKeepsRows ==
  ASSUME RowsInv, RunRow
  PROVE  RowsInv'
<1> USE DEF Ours, files, editorHistory
<1>1. selected \in Ids /\ here /\ disk[selected] \in MaybeTexts
  BY RowsTyped DEF RunRow
<1>2. Refreshed(selected) \in [Ids -> MaybeTexts]
  BY <1>1, RowsTyped DEF Refreshed
<1>3. runs' \in Runs
  BY <1>1, RowsTyped, RunsTyped, EnqueueTyped, EditorConstants DEF RunRow, RowsInv
<1>4. cache' \in [Ids -> MaybeTexts] /\ selected' \in Selectable(cache', edit)
  <2>1. CASE disk[selected] # Absent /\ cache' = Refreshed(selected) /\ UNCHANGED selected
    BY <1>1, <1>2, <2>1, RowsTyped DEF Refreshed, Selectable, Present
  <2>2. CASE cache' = Refreshed(selected) /\ ReselectRow(cache')
    BY <1>1, <1>2, <2>2, RowsTyped, ReselectKeeps
  <2>3. CASE UNCHANGED <<runs, cache, selected>>
    BY <2>3, RowsTyped
  <2>4. QED  BY <2>1, <2>2, <2>3 DEF RunRow
<1>5. troubles' \in 0 .. MaxTroubles
  BY TroublesTyped DEF RunRow, RowsInv
<1>6. EditorTypeOK'
  BY <1>3, <1>4, <1>5 DEF RunRow, RowsInv, EditorTypeOK, Runs
<1>7. EditIsWhole' /\ CallAgrees'
  BY DEF RunRow, Idle, RowsInv, EditIsWhole, CallAgrees, NoCall
<1>8. QED  BY <1>6, <1>7 DEF RowsInv

LEMMA RunChangeKeepsRows ==
  ASSUME RowsInv,
         \/ \E row \in InputRows : FinishRun(row)
         \/ StartOther \/ SourceChanged \/ SourceRemoved
  PROVE  RowsInv'
<1> USE DEF Ours, files, view, editorHistory
<1>1. runs' \in Runs
  <2>1. ASSUME NEW row \in InputRows, FinishRun(row) PROVE runs' \in Runs
    BY <2>1, RowsTyped DEF FinishRun, Runs
  <2>2. QED  BY <2>1, RowsTyped, RunsTyped DEF StartOther, SourceChanged, SourceRemoved, RowsInv
<1>2. selected' \in Selectable(cache, edit) /\ here' \in BOOLEAN
  BY RowsTyped, SelectionFacts DEF FinishRun, StartOther, SourceChanged, SourceRemoved, RowsInv, EditorTypeOK
<1>3. EditorTypeOK'
  BY <1>1, <1>2 DEF FinishRun, StartOther, SourceChanged, SourceRemoved, RowsInv, EditorTypeOK, Runs
<1>4. EditIsWhole' /\ CallAgrees'
  BY DEF FinishRun, StartOther, SourceChanged, SourceRemoved, Idle, RowsInv, EditIsWhole, CallAgrees, NoCall
<1>5. QED  BY <1>3, <1>4 DEF RowsInv

(* What another process does: one file is another, and nothing on the screen. *)
OtherStep ==
  \/ \E text \in Texts : OthersCreate(text)
  \/ \E i \in Ids : OthersRemove(i)
  \/ \E i \in Ids, text \in Texts : OthersWrite(i, text) \/ OthersPut(i, text)

LEMMA OtherEffect ==
  ASSUME RowsInv, OtherStep
  PROVE  \E i \in Ids, text \in MaybeTexts :
           /\ disk' = [disk EXCEPT ![i] = text]
           /\ OthersChange(i) /\ nextId' \in 1 .. MaxId + 1
<1>1. ASSUME NEW text \in Texts, OthersCreate(text)
      PROVE  /\ EffectiveNext \in Ids
             /\ disk' = [disk EXCEPT ![EffectiveNext] = text]
             /\ OthersChange(EffectiveNext) /\ nextId' \in 1 .. MaxId + 1
  BY <1>1, EffectiveNextFacts, EditorAssumption DEF OthersCreate, RowsInv, EditorTypeOK, Ids
<1>2. nextId \in 1 .. MaxId + 1 /\ Texts \subseteq MaybeTexts /\ Absent \in MaybeTexts
  BY RowsTyped, EditorConstants
<1>3. QED
  BY <1>1, <1>2 DEF OtherStep, OthersRemove, OthersWrite, OthersPut

LEMMA OtherKeepsRows ==
  ASSUME RowsInv, OtherStep
  PROVE  RowsInv'
<1>1. PICK i \in Ids, text \in MaybeTexts :
        /\ disk' = [disk EXCEPT ![i] = text]
        /\ OthersChange(i) /\ nextId' \in 1 .. MaxId + 1
  BY OtherEffect
<1>2. disk' \in [Ids -> MaybeTexts] /\ changes' \in 0 .. MaxChanges /\ mine' \subseteq Ids
  BY <1>1, EditorAssumption DEF OthersChange, RowsInv, EditorTypeOK
<1>3. EditorTypeOK'
  BY <1>1, <1>2 DEF OthersChange, view, RowsInv, EditorTypeOK
<1>4. EditIsWhole' /\ CallAgrees'
  BY <1>1 DEF OthersChange, view, RowsInv, EditIsWhole, CallAgrees
<1>5. QED  BY <1>3, <1>4 DEF RowsInv

LEMMA RowsInit ==
  EditorInit => RowsInv
<1> SUFFICES ASSUME EditorInit PROVE RowsInv
  OBVIOUS
<1>1. runs \in [InputRows -> [status : {"none", "active", "done"}, input : MaybeTexts]]
  BY EditorConstants DEF EditorInit, NoRun
<1>2. EditorTypeOK
  BY <1>1, SelectionFacts, EditorConstants, EditorAssumption
  DEF EditorInit, EditorTypeOK, NoEdit, NoCall
<1>3. QED
  BY <1>2 DEF EditorInit, RowsInv, EditIsWhole, CallAgrees, NoEdit, NoCall

LEMMA RowsStep ==
  RowsInv /\ [EditorNext]_editorVars => RowsInv'
<1> SUFFICES ASSUME RowsInv, [EditorNext]_editorVars PROVE RowsInv'
  OBVIOUS
<1>1. CASE UNCHANGED editorVars
  BY <1>1 DEF editorVars, files, view, editorHistory, RowsInv, EditorTypeOK, EditIsWhole, CallAgrees
<1>2. CASE EditorNext
  <2>1. CASE EnterProblem \/ LeaveProblem \/ NewInput \/ BeginEdit \/ CancelEdit
    BY <2>1, EnterKeepsRows, LeaveKeepsRows, NewKeepsRows, BeginKeepsRows, CancelKeepsRows
  <2>2. CASE \E row \in InputRows \cup {Other} : Select(row)
    BY <2>2, SelectKeepsRows
  <2>3. CASE \E text \in Texts : Type(text)
    BY <2>3, TypeKeepsRows
  <2>4. CASE SaveDraft \/ ReloadCreated \/ SavePersisted \/ ReloadAfterSave
    BY <2>4, SaveDraftKeepsRows, ReloadCreatedKeepsRows, SavePersistedKeepsRows, ReloadAfterSaveKeepsRows
  <2>5. CASE (\E i \in Ids : Delete(i)) \/ ReloadAfterDelete
    BY <2>5, DeleteKeepsRows, ReloadAfterDeleteKeepsRows
  <2>6. CASE RunEdit \/ RunRow
    BY <2>6, RunEditKeepsRows, RunRowKeepsRows
  <2>7. CASE (\E row \in InputRows : FinishRun(row)) \/ StartOther \/ SourceChanged \/ SourceRemoved
    BY <2>7, RunChangeKeepsRows
  <2>8. CASE OtherStep
    BY <2>8, OtherKeepsRows
  <2>9. QED  BY <1>2, <2>1, <2>2, <2>3, <2>4, <2>5, <2>6, <2>7, <2>8 DEF EditorNext, OtherStep
<1>3. QED  BY <1>1, <1>2

-----------------------------------------------------------------------------
(* The files the present edit has created. *)
LEMMA CompleteKeepsMine ==
  ASSUME NEW list, NEW rs, NEW i, Complete(list, rs, i)
  PROVE  MineAgrees'
BY DEF Complete, MineAgrees, NoCall

LEMMA MineStep ==
  ASSUME RowsInv, MineAgrees, EditorNext
  PROVE  MineAgrees'
<1> USE DEF Ours, files, view, editorHistory, Idle
<1>1. CASE EnterProblem \/ LeaveProblem \/ (\E row \in InputRows \cup {Other} : Select(row)) \/ RunEdit
           \/ RunRow \/ (\E row \in InputRows : FinishRun(row)) \/ StartOther \/ SourceChanged
           \/ SourceRemoved \/ ReloadAfterDelete
  BY <1>1 DEF EnterProblem, LeaveProblem, Select, RunEdit, RunRow, FinishRun, StartOther, SourceChanged,
     SourceRemoved, ReloadAfterDelete, MineAgrees, NoCall
<1>2. CASE NewInput \/ BeginEdit
  BY <1>2, EditorConstants DEF NewInput, BeginEdit, MineAgrees, NoCall, RowsInv, EditIsWhole
<1>3. CASE \E text \in Texts : Type(text)
  BY <1>3, RowsTyped DEF Type, MineAgrees, NoCall, Edits
<1>4. CASE CancelEdit
  BY <1>4 DEF CancelEdit, MineAgrees, NoCall
<1>5. CASE SaveDraft
  <2> DEFINE n == EffectiveNext
  <2>1. n \in 1 .. MaxId + 1 /\ (n <= MaxId => n \in Ids)
    BY EffectiveNextFacts, EditorAssumption DEF RowsInv, Ids
  <2>2. edit.target = Draft /\ edit.installed = 0 /\ call = NoCall /\ mine = {}
    BY <1>5, EditorConstants DEF SaveDraft, MayCreate, MineAgrees, NoCall, RowsInv, EditorTypeOK
  <2> HIDE DEF n
  <2>3. CASE Complete([cache EXCEPT ![n] = edit.buffer], runs, n)
    BY <2>3, CompleteKeepsMine
  <2>4. CASE edit' = [edit EXCEPT !.installed = n] /\ mine' = mine \cup {n} /\ call' = call
    BY <2>2, <2>4, RowsTyped DEF MineAgrees, NoCall, Edits
  <2>5. CASE /\ n \in Ids /\ disk' = [disk EXCEPT ![n] = edit.buffer]
             /\ call' = [step |-> "created", id |-> n] /\ mine' = mine \cup {n} /\ KeepEdit
    <3>1. disk'[n] = edit'.buffer /\ edit' = edit  BY <2>5, RowsTyped DEF KeepEdit
    <3>2. QED  BY <2>2, <2>5, <3>1 DEF MineAgrees
  <2>6. CASE KeepEdit /\ UNCHANGED <<disk, call, mine>>
    BY <2>6 DEF KeepEdit, MineAgrees
  <2>7. QED  BY <1>5, <2>1, <2>3, <2>4, <2>5, <2>6 DEF SaveDraft, Creates, n
<1>6. CASE ReloadCreated
  <2> DEFINE i == call.id
  <2>1. edit.target = Draft /\ mine \subseteq {i} /\ (i \in mine => disk[i] = edit.buffer)
    BY <1>6 DEF ReloadCreated, RowsInv, CallAgrees, MineAgrees
  <2>2. CASE Complete(disk, RunsFor(disk), i)
    BY <2>2, CompleteKeepsMine
  <2>3. CASE disk[i] # edit.buffer /\ UNCHANGED mine /\ call' = NoCall
    BY <2>1, <2>3 DEF MineAgrees, NoCall
  <2>4. CASE edit' = [edit EXCEPT !.installed = i] /\ call' = NoCall /\ UNCHANGED mine
    BY <2>1, <2>4, RowsTyped DEF MineAgrees, NoCall, Edits
  <2>5. QED  BY <1>6, <2>2, <2>3, <2>4 DEF ReloadCreated
<1>7. CASE SavePersisted
  <2>1. mine = {}
    BY <1>7, EditorConstants DEF SavePersisted, MineAgrees
  <2>2. CASE Complete([cache EXCEPT ![edit.target] = edit.buffer], runs, edit.target)
    BY <2>2, CompleteKeepsMine
  <2>3. CASE KeepEdit /\ UNCHANGED mine
    BY <2>1, <2>3 DEF MineAgrees
  <2>4. QED  BY <1>7, <2>2, <2>3 DEF SavePersisted
<1>8. CASE ReloadAfterSave
  <2>1. mine = {}
    BY <1>8, EditorConstants DEF ReloadAfterSave, RowsInv, CallAgrees, MineAgrees
  <2>2. CASE Complete(disk, RunsFor(disk), call.id)
    BY <2>2, CompleteKeepsMine
  <2>3. CASE mine' = mine
    BY <2>1, <2>3 DEF MineAgrees
  <2>4. QED  BY <1>8, <2>2, <2>3 DEF ReloadAfterSave
<1>9. CASE \E i \in Ids : Delete(i)
  <2>1. PICK i \in Ids : Delete(i)  BY <1>9
  <2>2. call = NoCall /\ call'.step # "created" /\ edit' = edit /\ mine' \subseteq mine
    BY <2>1 DEF Delete, Removes, NoCall
  <2>3. QED  BY <2>2 DEF MineAgrees, NoCall
<1>10. CASE OtherStep
  <2>1. PICK i \in Ids, text \in MaybeTexts :
          /\ disk' = [disk EXCEPT ![i] = text]
          /\ OthersChange(i)
    BY <1>10, OtherEffect
  <2>2. mine' = mine \ {i} /\ UNCHANGED <<edit, call>>
    BY <2>1 DEF OthersChange
  <2>3. \A j \in mine' : disk'[j] = disk[j]
    BY <2>1, <2>2, RowsTyped DEF RowsInv, EditorTypeOK
  <2>4. QED  BY <2>2, <2>3 DEF MineAgrees
<1>11. QED
  BY <1>1, <1>2, <1>3, <1>4, <1>5, <1>6, <1>7, <1>8, <1>9, <1>10 DEF EditorNext, OtherStep

-----------------------------------------------------------------------------
(* What an edit is based on has been shown. *)
LEMMA EditBaselineStep ==
  ASSUME RowsInv, BaselineIsWhatWasShown, EditorNext
  PROVE  BaselineIsWhatWasShown'
<1> USE DEF Ours, files, view, editorHistory, Idle
<1>0. ASSUME NEW list, NEW rs, NEW i, Complete(list, rs, i) PROVE BaselineIsWhatWasShown'
  BY <1>0, EditorConstants DEF Complete, BaselineIsWhatWasShown, NoEdit
<1>1. CASE LeaveProblem \/ (\E row \in InputRows \cup {Other} : Select(row)) \/ RunEdit
           \/ (\E row \in InputRows : FinishRun(row)) \/ StartOther \/ SourceChanged \/ SourceRemoved
  BY <1>1 DEF LeaveProblem, Select, RunEdit, FinishRun, StartOther, SourceChanged,
     SourceRemoved, BaselineIsWhatWasShown
<1>2. CASE EnterProblem \/ NewInput \/ BeginEdit \/ CancelEdit
  BY <1>2, EditorConstants
  DEF EnterProblem, MayReload, NewInput, BeginEdit, CancelEdit, BaselineIsWhatWasShown, NoEdit,
      RowsInv, EditIsWhole
<1>3. CASE \E text \in Texts : Type(text)
  BY <1>3, RowsTyped DEF Type, BaselineIsWhatWasShown, Edits
<1>4. CASE SaveDraft
  <2>1. edit.target = Draft  BY <1>4 DEF SaveDraft
  <2>2. CASE edit'.target = Draft
    BY <2>2, EditorConstants DEF BaselineIsWhatWasShown
  <2>3. QED  BY <1>0, <1>4, <2>1, <2>2, RowsTyped DEF SaveDraft, KeepEdit, Edits
<1>5. CASE ReloadCreated
  <2>1. edit.target = Draft  BY <1>5 DEF ReloadCreated, RowsInv, CallAgrees
  <2>2. CASE edit'.target = Draft
    BY <2>2, EditorConstants DEF BaselineIsWhatWasShown
  <2>3. CASE /\ disk[call.id] # Absent /\ cache' = disk /\ shown' = disk[call.id]
             /\ edit' = [edit EXCEPT !.target = call.id, !.installed = 0, !.back = Absent]
    BY <2>3, RowsTyped DEF BaselineIsWhatWasShown, Edits
  <2>4. QED  BY <1>0, <1>5, <2>1, <2>2, <2>3, RowsTyped DEF ReloadCreated, Edits
<1>6. CASE SavePersisted
  BY <1>0, <1>6 DEF SavePersisted, KeepEdit, BaselineIsWhatWasShown
<1>7. CASE ReloadAfterSave
  <2>1. edit.target = call.id /\ call.id \in Ids
    BY <1>7 DEF ReloadAfterSave, RowsInv, CallAgrees
  <2>2. CASE \E list : RecoverDraft(list)
    BY <2>2, RowsTyped, EditorConstants DEF RecoverDraft, BaselineIsWhatWasShown, Edits
  <2>3. CASE disk[call.id] # Absent /\ cache' = disk /\ shown' = disk[call.id] /\ edit' = edit
    BY <2>1, <2>3 DEF BaselineIsWhatWasShown
  <2>4. CASE KeepEdit
    BY <2>4 DEF KeepEdit, BaselineIsWhatWasShown
  <2>5. QED  BY <1>0, <1>7, <2>2, <2>3, <2>4 DEF ReloadAfterSave
<1>8. CASE (\E i \in Ids : Delete(i)) \/ ReloadAfterDelete
  <2>1. PICK i \in Ids : edit.target # i /\ edit' = edit /\ shown' = shown
                         /\ (cache' = cache \/ cache' = [cache EXCEPT ![i] = Absent])
    <3>1. ASSUME NEW i \in Ids, Delete(i)
          PROVE  edit.target # i /\ edit' = edit /\ shown' = shown
                 /\ (cache' = cache \/ cache' = [cache EXCEPT ![i] = Absent])
      BY <3>1 DEF Delete, Deletable, Deleted, NotDeleted
    <3>2. ASSUME ReloadAfterDelete
          PROVE  /\ call.id \in Ids /\ edit.target # call.id /\ edit' = edit /\ shown' = shown
                 /\ (cache' = cache \/ cache' = [cache EXCEPT ![call.id] = Absent])
      BY <3>2 DEF ReloadAfterDelete, Deleted, NotDeleted, RowsInv, CallAgrees
    <3>3. QED  BY <1>8, <3>1, <3>2
  <2>2. QED  BY <2>1, RowsTyped DEF BaselineIsWhatWasShown
<1>9. CASE RunRow
  <2>1. selected # edit.target \/ edit.target = Other
    BY <1>9 DEF RunRow, EditorActive
  <2>2. edit' = edit /\ shown' = shown /\ (cache' = cache \/ cache' = [cache EXCEPT ![selected] = disk[selected]])
    BY <1>9 DEF RunRow, Refreshed
  <2>3. QED  BY <2>1, <2>2, RowsTyped, EditorConstants DEF BaselineIsWhatWasShown
<1>10. CASE OtherStep
  BY <1>10, OtherEffect DEF OthersChange, BaselineIsWhatWasShown
<1>11. QED
  BY <1>1, <1>2, <1>3, <1>4, <1>5, <1>6, <1>7, <1>8, <1>9, <1>10 DEF EditorNext, OtherStep

-----------------------------------------------------------------------------
(* A result that is on the screen after a step was there before it. *)
LEMMA RunsForFacts ==
  ASSUME NEW list, NEW r \in InputRows, RunsFor(list)[r].status = "done"
  PROVE  /\ RunsFor(list)[r] = runs[r]
         /\ r = Draft \/ (cache[r] # Absent /\ list[r] = cache[r])
BY DEF RunsFor, NoRun

LEMMA DroppingFacts ==
  ASSUME NEW rs \in Runs, NEW row, NEW r \in InputRows, Dropping(rs, row)[r].status = "done"
  PROVE  r # row /\ Dropping(rs, row)[r] = rs[r]
BY DEF Dropping, Runs, NoRun

LEMMA EnqueueFacts ==
  ASSUME NEW rs \in Runs, NEW row \in InputRows, NEW text, Enqueue(rs, row, text),
         NEW r \in InputRows, runs'[r].status = "done"
  PROVE  r # row /\ runs'[r] = rs[r]
<1>1. Retired(rs) \in Runs  BY RunsTyped, DroppingFacts DEF Retired, Runs, NoRun, MaybeTexts
<1>2. CASE source
  BY <1>1, <1>2 DEF Enqueue, Retired, Runs, NoRun
<1>3. CASE ~source
  BY <1>3, DroppingFacts DEF Enqueue
<1>4. QED  BY <1>2, <1>3

IsForTheText(r) ==
  \/ runs[r].input = TextOf(r, cache, edit)
  \/ r = taken /\ r = edit.target /\ runs[r].input = cache[r]

(* A save leaves only results of rows it has not touched. *)
LEMMA CompleteKeepsResults ==
  ASSUME RowsInv, ResultIsForTheText, NEW list \in [Ids -> MaybeTexts], NEW rs \in Runs, NEW i \in Ids,
         edit.target \in {Draft, i}, Complete(list, rs, i),
         \A r \in Ids \ {i} : rs[r].status = "done" => rs[r] = runs[r] /\ list[r] = cache[r]
  PROVE  ResultIsForTheText'
<1> SUFFICES ASSUME NEW r \in InputRows, runs'[r].status = "done"
             PROVE  IsForTheText(r)'
  BY DEF ResultIsForTheText, IsForTheText
<1>1. Dropping(rs, Draft) \in Runs  BY RunsTyped DEF RowsInv
<1>2. r # i /\ r # Draft /\ runs'[r] = rs[r]
  BY <1>1, EnqueueFacts, DroppingFacts, EditorConstants DEF Complete
<1>3. r \in Ids /\ runs'[r] = runs[r] /\ list[r] = cache[r]
  BY <1>2, EditorConstants
<1>4. runs[r].input = cache[r]
  BY <1>2, <1>3 DEF ResultIsForTheText, TextOf
<1>5. QED
  BY <1>2, <1>3, <1>4, EditorConstants DEF Complete, IsForTheText, TextOf, NoEdit

LEMMA ResultStep ==
  ASSUME RowsInv, ResultIsForTheText, EditorNext
  PROVE  ResultIsForTheText'
<1> USE DEF Ours, files, view, editorHistory, Idle
<1>0. /\ runs \in Runs /\ cache \in [Ids -> MaybeTexts] /\ disk \in [Ids -> MaybeTexts] /\ edit \in Edits
      /\ \A list \in [Ids -> MaybeTexts] : RunsFor(list) \in Runs
      /\ taken \in {0} \cup Ids
  BY RowsTyped, RunsTyped DEF RowsInv, EditorTypeOK
<1>1. CASE LeaveProblem \/ (\E row \in InputRows \cup {Other} : Select(row))
  BY <1>1 DEF LeaveProblem, Select, ResultIsForTheText
<1>2. CASE OtherStep
  BY <1>2, OtherEffect DEF OthersChange, ResultIsForTheText
<1> SUFFICES ASSUME NEW r \in InputRows, runs'[r].status = "done",
                    ~LeaveProblem, ~(\E row \in InputRows \cup {Other} : Select(row)), ~OtherStep
             PROVE  IsForTheText(r)'
  BY <1>1, <1>2 DEF ResultIsForTheText, IsForTheText
<1> USE EditorConstants
<1>3. CASE EnterProblem
  <2>1. CASE UNCHANGED <<cache, runs>>
    BY <1>3, <2>1 DEF EnterProblem, ResultIsForTheText, IsForTheText
  <2>2. CASE edit = NoEdit /\ cache' = disk /\ runs' = RunsFor(disk)
    BY <1>3, <2>2, RunsForFacts DEF EnterProblem, ResultIsForTheText, IsForTheText, TextOf, NoEdit
  <2>3. QED  BY <1>3, <2>1, <2>2 DEF EnterProblem, MayReload
<1>4. CASE NewInput
  <2>1. CASE edit = NoEdit
    <3>1. r # Draft /\ runs'[r] = runs[r]
      BY <1>0, <1>4, <2>1, DroppingFacts DEF NewInput
    <3>2. QED  BY <1>4, <2>1, <3>1 DEF NewInput, ResultIsForTheText, IsForTheText, TextOf, NoEdit
  <2>2. CASE edit # NoEdit
    BY <1>4, <2>2 DEF NewInput, ResultIsForTheText, IsForTheText
  <2>3. QED  BY <2>1, <2>2
<1>5. CASE BeginEdit
  <2>1. CASE Trouble /\ UNCHANGED <<cache, runs, selected, edit, editorHistory>>
    BY <2>1 DEF ResultIsForTheText, IsForTheText
  <2>2. CASE /\ edit = NoEdit /\ cache' = disk /\ runs' = RunsFor(disk)
             /\ \/ edit' = edit
                \/ edit' = [target |-> selected, buffer |-> disk[selected], installed |-> 0,
                            back |-> Absent] /\ selected \in Ids
    BY <2>2, RunsForFacts DEF ResultIsForTheText, IsForTheText, TextOf, NoEdit
  <2>3. QED  BY <1>5, <2>1, <2>2 DEF BeginEdit, MayReload
<1>6. CASE \E text \in Texts : Type(text)
  <2>1. r # edit.target /\ runs'[r] = runs[r] /\ cache' = cache /\ edit'.target = edit.target
    BY <1>0, <1>6, DroppingFacts DEF Type, EditorActive, Edits
  <2>2. QED  BY <2>1 DEF ResultIsForTheText, IsForTheText, TextOf
<1>7. CASE CancelEdit
  <2>1. runs'[r] = runs[r] /\ (edit.target = Draft => r # Draft)
        /\ (edit.target # Draft /\ edit.buffer # cache[edit.target] => r # edit.target)
    BY <1>0, <1>7, DroppingFacts DEF CancelEdit
  <2>2. edit' = NoEdit /\ cache' = cache  BY <1>7 DEF CancelEdit
  <2>3. QED  BY <1>7, <2>1, <2>2 DEF ResultIsForTheText, IsForTheText, TextOf, NoEdit
<1>8. CASE SaveDraft
  <2> DEFINE n == EffectiveNext
  <2>1. n \in 1 .. MaxId + 1 /\ (n <= MaxId => n \in Ids)
    BY EffectiveNextFacts, EditorAssumption DEF RowsInv, Ids
  <2>2. edit.target = Draft /\ edit.buffer \in Texts
    BY <1>8 DEF SaveDraft, RowsInv, EditIsWhole
  <2> HIDE DEF n
  <2>3. CASE n \in Ids /\ Complete([cache EXCEPT ![n] = edit.buffer], runs, n)
    <3>1. [cache EXCEPT ![n] = edit.buffer] \in [Ids -> MaybeTexts]
          /\ \A j \in Ids \ {n} : [cache EXCEPT ![n] = edit.buffer][j] = cache[j]
      BY <1>0, <2>2, <2>3
    <3>2. ResultIsForTheText'
      BY <1>0, <2>2, <2>3, <3>1, CompleteKeepsResults
    <3>3. QED  BY <3>2 DEF ResultIsForTheText, IsForTheText
  <2>4. CASE UNCHANGED <<cache, runs, taken>>
             /\ edit'.target = edit.target /\ edit'.buffer = edit.buffer
    BY <2>4 DEF ResultIsForTheText, IsForTheText, TextOf
  <2>5. QED  BY <1>0, <1>8, <2>1, <2>3, <2>4 DEF SaveDraft, KeepEdit, Edits, n
<1>9. CASE ReloadCreated
  <2> DEFINE i == call.id
  <2>1. i \in Ids /\ edit.target = Draft
    BY <1>9 DEF ReloadCreated, RowsInv, CallAgrees
  <2>2. CASE Complete(disk, RunsFor(disk), i)
    <3>1. \A j \in Ids \ {i} : RunsFor(disk)[j].status = "done" =>
             RunsFor(disk)[j] = runs[j] /\ disk[j] = cache[j]
      BY RunsForFacts
    <3>2. ResultIsForTheText'
      BY <1>0, <2>1, <2>2, <3>1, CompleteKeepsResults
    <3>3. QED  BY <3>2 DEF ResultIsForTheText, IsForTheText
  <2>3. CASE /\ cache' = disk /\ runs' = Dropping(RunsFor(disk), Draft)
             /\ edit' = [edit EXCEPT !.target = i, !.installed = 0, !.back = Absent]
             /\ taken' = i
    <3>1. r # Draft /\ runs'[r] = runs[r] /\ disk[r] = cache[r]
      BY <1>0, <2>3, DroppingFacts, RunsForFacts
    <3>2. runs[r].input = cache[r]
      BY <2>1, <3>1 DEF ResultIsForTheText, TextOf
    <3>3. edit'.target = i  BY <1>0, <2>3 DEF Edits
    <3>4. QED  BY <2>3, <3>1, <3>2, <3>3 DEF IsForTheText, TextOf
  <2>4. CASE edit' = [edit EXCEPT !.installed = i] /\ UNCHANGED <<cache, runs, taken>>
    BY <1>0, <2>4 DEF ResultIsForTheText, IsForTheText, TextOf, Edits
  <2>5. QED  BY <1>9, <2>2, <2>3, <2>4 DEF ReloadCreated
<1>10. CASE SavePersisted
  <2> DEFINE i == edit.target
  <2>1. i \in Ids /\ edit.buffer \in Texts
    BY <1>10 DEF SavePersisted, RowsInv, EditIsWhole
  <2>2. CASE Complete([cache EXCEPT ![i] = edit.buffer], runs, i)
    <3>1. [cache EXCEPT ![i] = edit.buffer] \in [Ids -> MaybeTexts]
          /\ \A j \in Ids \ {i} : [cache EXCEPT ![i] = edit.buffer][j] = cache[j]
      BY <1>0, <2>1
    <3>2. ResultIsForTheText'
      BY <1>0, <2>1, <2>2, <3>1, CompleteKeepsResults
    <3>3. QED  BY <3>2 DEF ResultIsForTheText, IsForTheText
  <2>3. CASE KeepEdit
    BY <2>3 DEF KeepEdit, ResultIsForTheText, IsForTheText
  <2>4. QED  BY <1>10, <2>2, <2>3 DEF SavePersisted
<1>11. CASE ReloadAfterSave
  <2> DEFINE i == call.id
  <2>1. i \in Ids /\ edit.target = i
    BY <1>11 DEF ReloadAfterSave, RowsInv, CallAgrees
  <2>2. CASE Complete(disk, RunsFor(disk), i)
    <3>1. \A j \in Ids \ {i} : RunsFor(disk)[j].status = "done" =>
             RunsFor(disk)[j] = runs[j] /\ disk[j] = cache[j]
      BY RunsForFacts
    <3>2. ResultIsForTheText'
      BY <1>0, <2>1, <2>2, <3>1, CompleteKeepsResults
    <3>3. QED  BY <3>2 DEF ResultIsForTheText, IsForTheText
  <2>3. CASE cache' = disk /\ runs' = RunsFor(disk) /\ UNCHANGED <<edit, taken>>
    BY <2>1, <2>3, RunsForFacts DEF ResultIsForTheText, IsForTheText, TextOf
  <2>4. ASSUME NEW list \in [Ids -> MaybeTexts], list[i] = Absent, RecoverDraft(list)
        PROVE  IsForTheText(r)'
    <3>1. r # Draft /\ runs'[r] = runs[r] /\ cache[r] # Absent /\ list[r] = cache[r] /\ r # i
      BY <1>0, <2>4, DroppingFacts, RunsForFacts DEF RecoverDraft
    <3>2. runs[r].input = cache[r]
      BY <2>1, <3>1 DEF ResultIsForTheText, TextOf
    <3>3. edit'.target = Draft  BY <1>0, <2>4 DEF RecoverDraft, Edits
    <3>4. QED  BY <2>4, <3>1, <3>2, <3>3 DEF RecoverDraft, IsForTheText, TextOf
  <2>5. CASE KeepEdit
    BY <2>5 DEF KeepEdit, ResultIsForTheText, IsForTheText
  <2>6. [cache EXCEPT ![i] = Absent] \in [Ids -> MaybeTexts] /\ [cache EXCEPT ![i] = Absent][i] = Absent
    BY <1>0, <2>1
  <2>7. QED  BY <1>0, <1>11, <2>2, <2>3, <2>4, <2>5, <2>6 DEF ReloadAfterSave
<1>12. CASE (\E i \in Ids : Delete(i)) \/ ReloadAfterDelete
  <2>1. CASE UNCHANGED <<cache, runs, edit, taken>>
    BY <2>1 DEF ResultIsForTheText, IsForTheText
  <2>2. ASSUME NEW i \in Ids, Deleted(i), UNCHANGED <<edit, taken>>
        PROVE  IsForTheText(r)'
    <3>1. r # i /\ runs'[r] = runs[r] /\ (r \in Ids => cache'[r] = cache[r])
      BY <1>0, <2>2, DroppingFacts DEF Deleted
    <3>2. QED  BY <1>0, <2>2, <3>1 DEF ResultIsForTheText, IsForTheText, TextOf
  <2>3. QED
    BY <1>12, <2>1, <2>2 DEF Delete, ReloadAfterDelete, NotDeleted, RowsInv, CallAgrees
<1>13. CASE RunEdit
  <2>1. runs'[r] = runs[r]
    BY <1>0, <1>13, EnqueueFacts DEF RunEdit, EditorActive, Edits
  <2>2. QED  BY <1>13, <2>1 DEF RunEdit, ResultIsForTheText, IsForTheText
<1>14. CASE RunRow
  <2>1. CASE UNCHANGED <<runs, cache>>
    BY <1>14, <2>1 DEF RunRow, ResultIsForTheText, IsForTheText
  <2>2. CASE /\ cache' = Refreshed(selected)
             /\ Enqueue(runs, selected, disk[selected]) \/ runs' = Dropping(runs, selected)
    <3>1. r # selected /\ runs'[r] = runs[r] /\ (r \in Ids => cache'[r] = cache[r])
      BY <1>0, <1>14, <2>2, EnqueueFacts, DroppingFacts DEF RunRow, Refreshed
    <3>2. QED  BY <1>0, <1>14, <3>1 DEF RunRow, ResultIsForTheText, IsForTheText, TextOf
  <2>3. QED  BY <1>14, <2>1, <2>2 DEF RunRow
<1>15. CASE \E row \in InputRows : FinishRun(row)
  <2>1. PICK row \in InputRows : FinishRun(row)  BY <1>15
  <2>2. CASE r = row
    BY <1>0, <2>1, <2>2 DEF FinishRun, Applies, IsForTheText, Runs
  <2>3. CASE r # row
    BY <1>0, <2>1, <2>3 DEF FinishRun, ResultIsForTheText, IsForTheText, Runs
  <2>4. QED  BY <2>2, <2>3
<1>16. CASE StartOther \/ SourceChanged \/ SourceRemoved
  BY <1>0, <1>16 DEF StartOther, SourceChanged, SourceRemoved, Retired, NoRun, ResultIsForTheText, IsForTheText
<1>17. QED
  BY <1>3, <1>4, <1>5, <1>6, <1>7, <1>8, <1>9, <1>10, <1>11, <1>12, <1>13, <1>14, <1>15, <1>16
  DEF EditorNext, OtherStep

-----------------------------------------------------------------------------
(* The text of an edit goes away only when it may, and into one file. *)
OneFile ==
  /\ edit # NoEdit /\ edit'.buffer # edit.buffer
       => CancelEdit \/ (\E text \in Texts : Type(text)) \/ \E i \in Ids : disk'[i] = edit.buffer
  /\ changes' = changes /\ (\E i \in Ids : disk[i] = Absent /\ disk'[i] # Absent)
       => mine = {}

LEMMA OneFileStep ==
  ASSUME RowsInv, MineAgrees, EditorNext
  PROVE  OneFile
<1> USE EditorConstants DEF Ours, files, view, editorHistory, Idle
<1>1. CASE SaveDraft
  <2> DEFINE n == EffectiveNext
  <2>1. n \in 1 .. MaxId + 1 /\ (n <= MaxId => n \in Ids)
    BY EffectiveNextFacts, EditorAssumption DEF RowsInv, Ids
  <2>2. mine = {}
    BY <1>1 DEF SaveDraft, MayCreate, MineAgrees, NoCall, RowsInv, EditorTypeOK
  <2> HIDE DEF n
  <2>3. CASE n \in Ids /\ disk' = [disk EXCEPT ![n] = edit.buffer]
    <3>1. disk'[n] = edit.buffer  BY <2>3, RowsTyped
    <3>2. QED  BY <2>2, <2>3, <3>1 DEF OneFile
  <2>4. CASE KeepEdit
    BY <2>2, <2>4 DEF KeepEdit, OneFile
  <2>5. QED  BY <1>1, <2>1, <2>3, <2>4 DEF SaveDraft, Creates, n
<1>2. CASE SavePersisted
  <2> DEFINE i == edit.target
  <2>1. i \in Ids  BY <1>2 DEF SavePersisted
  <2>2. \A j \in Ids : disk[j] = Absent => disk'[j] = disk[j]
    BY <1>2, <2>1, RowsTyped DEF SavePersisted
  <2>3. edit'.buffer = edit.buffer \/ disk'[i] = edit.buffer
    BY <1>2, <2>1, RowsTyped DEF SavePersisted, KeepEdit, Expected
  <2>4. QED  BY <2>1, <2>2, <2>3 DEF OneFile
<1>3. CASE \E i \in Ids : Delete(i)
  BY <1>3, RowsTyped DEF Delete, Removes, OneFile
<1>4. CASE OtherStep
  <2>1. PICK i \in Ids : OthersChange(i)
    BY <1>4, OtherEffect
  <2>2. changes' # changes /\ edit' = edit
    BY <2>1 DEF OthersChange, RowsInv, EditorTypeOK
  <2>3. QED  BY <2>2 DEF OneFile
<1>5. CASE CancelEdit \/ \E text \in Texts : Type(text)
  BY <1>5 DEF CancelEdit, Type, OneFile
<1>6. CASE ReloadCreated \/ ReloadAfterSave
  <2>1. disk' = disk /\ call.id \in Ids
    BY <1>6 DEF ReloadCreated, ReloadAfterSave, RowsInv, CallAgrees
  <2>2. disk[call.id] = edit.buffer \/ edit'.buffer = edit.buffer
    BY <1>6, RowsTyped DEF ReloadCreated, ReloadAfterSave, RecoverDraft, KeepEdit, Edits
  <2>3. QED  BY <2>1, <2>2 DEF OneFile
<1>7. CASE EnterProblem \/ LeaveProblem \/ (\E row \in InputRows \cup {Other} : Select(row)) \/ RunEdit
           \/ RunRow \/ (\E row \in InputRows : FinishRun(row)) \/ StartOther \/ SourceChanged
           \/ SourceRemoved \/ ReloadAfterDelete
  BY <1>7 DEF EnterProblem, LeaveProblem, Select, RunEdit, RunRow, FinishRun, StartOther, SourceChanged,
     SourceRemoved, ReloadAfterDelete, OneFile
<1>8. CASE NewInput \/ BeginEdit
  BY <1>8 DEF NewInput, BeginEdit, MayReload, OneFile
<1>9. QED
  BY <1>1, <1>2, <1>3, <1>4, <1>5, <1>6, <1>7, <1>8 DEF EditorNext, OtherStep

LEMMA EditorInitially == EditorInit => EditorInv
<1> SUFFICES ASSUME EditorInit PROVE EditorInv
  OBVIOUS
<1>1. RowsInv  BY RowsInit
<1>2. MineAgrees  BY EditorConstants DEF EditorInit, MineAgrees
<1>3. ShownIsTrue
  BY EditorConstants DEF EditorInit, ShownIsTrue, BaselineIsWhatWasShown, ResultIsForTheText, NoEdit, NoRun
<1>4. QED  BY <1>1, <1>2, <1>3 DEF EditorInv

LEMMA EditorStep == EditorInv /\ [EditorNext]_editorVars => EditorInv'
<1> SUFFICES ASSUME EditorInv, [EditorNext]_editorVars PROVE EditorInv'
  OBVIOUS
<1>1. RowsInv'  BY RowsStep DEF EditorInv
<1>2. CASE EditorNext
  BY <1>1, <1>2, MineStep, EditBaselineStep, ResultStep DEF EditorInv, ShownIsTrue
<1>3. CASE UNCHANGED editorVars
  BY <1>1, <1>3 DEF EditorInv, ShownIsTrue, MineAgrees, BaselineIsWhatWasShown, ResultIsForTheText,
     editorVars, files, view, editorHistory
<1>4. QED  BY <1>2, <1>3

THEOREM EditorInvariant == EditorSpec => []EditorInv
<1>1. EditorInit => EditorInv  BY EditorInitially
<1>2. EditorInv /\ [EditorNext]_editorVars => EditorInv'  BY EditorStep
<1>3. QED  BY <1>1, <1>2, PTL DEF EditorSpec

(* Every variable of the rows keeps its type; the selected row exists. *)
THEOREM EditorTypeCorrect == EditorSpec => []EditorTypeOK
<1>1. EditorInv => EditorTypeOK  BY DEF EditorInv, RowsInv
<1>2. QED  BY <1>1, EditorInvariant, PTL

(* What a save would overwrite was shown to the user, and a result on the  *)
(* screen is the result for the text above it.                             *)
THEOREM TheScreenIsTrue == EditorSpec => []ShownIsTrue
<1>1. EditorInv => ShownIsTrue  BY DEF EditorInv
<1>2. QED  BY <1>1, EditorInvariant, PTL

(* The text of an edit is never lost, and never saved into two files.      *)
THEOREM TextIsSavedOnce == EditorSpec => TextEndsInOneFile
<1>1. EditorInv /\ [EditorNext]_editorVars => [OneFile]_editorVars
  BY OneFileStep DEF EditorInv
<1>2. QED  BY <1>1, EditorInvariant, PTL DEF EditorSpec, TextEndsInOneFile, OneFile
=============================================================================
