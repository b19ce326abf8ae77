--------------------------- MODULE SourceWatchProofs ---------------------------
(***************************************************************************)
(* Proofs about the way of a change from the file system to the screen,    *)
(* for any problems and languages and any number of notifications.         *)
(*                                                                         *)
(* Both invariants speak about what is on its way.  A file that a message  *)
(* or the screen takes for existing and that is gone is followed by news   *)
(* of its removal (StaleInv); the file the user saved last is somewhere    *)
(* on the way, and what comes after it selects no other source of its      *)
(* problem (OrderInv).                                                     *)
(***************************************************************************)
EXTENDS SourceWatch, SequenceTheorems, TLAPS

(* News of the removal of f after the k-th message. *)
Followed(f, k) ==
    \/ Notified(f)
    \/ \E j \in DOMAIN messages : j > k /\ messages[j] = Removed(f)

StaleInv ==
    Live =>
        /\ \A p \in Problems :
              source[p] # NoSource /\ ~exists[<<p, source[p]>>] => Followed(<<p, source[p]>>, 0)
        /\ ui.at = "opening" /\ ~exists[ui.file] => Followed(ui.file, 0)
        /\ \A i \in DOMAIN messages :
              messages[i].type = "SourceChanged" /\ ~exists[messages[i].file]
                => Followed(messages[i].file, i)

(* The other sources of the problem of f that come after position k are    *)
(* gone: they will be reported as removed.                                 *)
Rival(g, f) == Problem(g) = Problem(f) /\ g # f
Harmless(seq, k, f) ==
    \A j \in DOMAIN seq : j > k /\ Rival(seq[j], f) => ~exists[seq[j]]
LastIn(seq, f) == \E k \in DOMAIN seq : seq[k] = f /\ Harmless(seq, k, f)

(* No message after the k-th one moves the selection away from f. *)
Undisturbed(k, f) ==
    \A j \in DOMAIN messages : j > k =>
        /\ messages[j] # Removed(f)
        /\ \A g \in Files : Rival(g, f) => messages[j] # Changed(g)

Wins(f) ==
    \/ LastIn(events, f)
    \/ Harmless(events, 0, f) /\ LastIn(batch, f)
    \/ /\ Harmless(events, 0, f) /\ Harmless(batch, 0, f)
       /\ \E k \in DOMAIN messages : messages[k] = Changed(f) /\ Undisturbed(k, f)
    \/ /\ Harmless(events, 0, f) /\ Harmless(batch, 0, f)
       /\ source[Problem(f)] = Language(f) /\ Undisturbed(0, f)

OrderInv ==
    Live =>
        \A p \in Problems :
            newest[p] # NoSource /\ exists[<<p, newest[p]>>] => Wins(<<p, newest[p]>>)

-------------------------------------------------------------------------------
(* Files and sequences.                                                    *)

LEMMA FileFacts ==
    ASSUME NEW f \in Files
    PROVE /\ Problem(f) \in Problems /\ Language(f) \in Languages
          /\ f = <<Problem(f), Language(f)>> /\ Language(f) # NoSource
BY WatchAssumption DEF Files, Problem, Language

LEMMA PairFacts ==
    ASSUME NEW p \in Problems, NEW l \in Languages
    PROVE /\ <<p, l>> \in Files
          /\ Problem(<<p, l>>) = p /\ Language(<<p, l>>) = l
BY DEF Files, Problem, Language

LEMMA MessageFacts ==
    ASSUME NEW f \in Files
    PROVE /\ Changed(f) \in Message /\ Removed(f) \in Message /\ WatcherFailed \in Message
          /\ Changed(f).type = "SourceChanged" /\ Changed(f).file = f
          /\ Removed(f).type = "SourceRemoved" /\ Removed(f).file = f
          /\ WatcherFailed # Changed(f) /\ WatcherFailed # Removed(f)
          /\ \A g \in Files : /\ Changed(f) # Removed(g)
                              /\ Changed(f) = Changed(g) => f = g
                              /\ Removed(f) = Removed(g) => f = g
<1>1. /\ Changed(f).type = "SourceChanged" /\ Removed(f).type = "SourceRemoved"
      /\ WatcherFailed.type = "WatcherFailed"
  BY DEF Changed, Removed, WatcherFailed
<1>2. /\ Changed(f) \in Message /\ Removed(f) \in Message /\ WatcherFailed \in Message
      /\ Changed(f).file = f /\ Removed(f).file = f
  BY DEF Changed, Removed, WatcherFailed, Message
<1>3. \A g \in Files : /\ Changed(g).file = g /\ Removed(g).file = g
                       /\ Removed(g).type = "SourceRemoved"
  BY DEF Changed, Removed
<1> QED BY <1>1, <1>2, <1>3

LEMMA MessageKinds ==
    ASSUME NEW m \in Message
    PROVE /\ m.type = "SourceChanged" => m.file \in Files /\ m = Changed(m.file)
          /\ m.type = "SourceRemoved" => m.file \in Files /\ m = Removed(m.file)
          /\ m.type \notin {"SourceChanged", "SourceRemoved"} => m = WatcherFailed
BY DEF Message, Changed, Removed, WatcherFailed

LEMMA AppendFacts ==
    ASSUME NEW S, NEW seq \in Seq(S), NEW e \in S, NEW t, t = Append(seq, e)
    PROVE /\ t \in Seq(S) /\ Len(t) = Len(seq) + 1
          /\ Len(t) \in DOMAIN t /\ t[Len(t)] = e
          /\ \A i \in DOMAIN seq : i \in DOMAIN t /\ t[i] = seq[i] /\ i < Len(t)
          /\ \A i \in DOMAIN t : i \in DOMAIN seq \/ i = Len(t)
OBVIOUS

LEMMA AppendContains ==
    ASSUME NEW S, NEW seq \in Seq(S), NEW e \in S
    PROVE /\ Append(seq, e) \in Seq(S) /\ Contains(Append(seq, e), e)
          /\ \A h : Contains(seq, h) => Contains(Append(seq, e), h)
BY AppendFacts DEF Contains

LEMMA TailFacts ==
    ASSUME NEW S, NEW seq \in Seq(S), seq # <<>>, NEW t, t = Tail(seq)
    PROVE /\ Head(seq) = seq[1] /\ Head(seq) \in S /\ 1 \in DOMAIN seq
          /\ t \in Seq(S) /\ Len(t) = Len(seq) - 1
          /\ \A i \in DOMAIN t : i + 1 \in DOMAIN seq /\ t[i] = seq[i + 1]
          /\ \A i \in DOMAIN seq : i > 1 => i - 1 \in DOMAIN t /\ t[i - 1] = seq[i]
BY HeadTailProperties

LEMMA TailContains ==
    ASSUME NEW S, NEW seq \in Seq(S), seq # <<>>, NEW h, Contains(seq, h), h # Head(seq)
    PROVE Contains(Tail(seq), h)
<1>1. PICK i \in 1..Len(seq) : seq[i] = h
  BY DEF Contains
<1>2. i > 1
  BY <1>1, TailFacts
<1>3. PICK t : t = Tail(seq)
  OBVIOUS
<1>4. t \in Seq(S) /\ i - 1 \in DOMAIN t /\ t[i - 1] = h
  BY <1>1, <1>2, <1>3, TailFacts
<1> QED BY <1>3, <1>4 DEF Contains

LEMMA JoinFacts ==
    ASSUME NEW S, NEW seq \in Seq(S), NEW e \in S, NEW g \in S
    PROVE /\ seq \o <<e>> = Append(seq, e)
          /\ seq \o <<e, g>> = Append(Append(seq, e), g)
OBVIOUS

LEMMA ConcatFacts ==
    ASSUME NEW S, NEW a \in Seq(S), NEW b \in Seq(S), NEW r, r = a \o b
    PROVE /\ r \in Seq(S) /\ Len(r) = Len(a) + Len(b)
          /\ \A i \in 1..(Len(a) + Len(b)) :
                r[i] = IF i <= Len(a) THEN a[i] ELSE b[i - Len(a)]
BY ConcatProperties

LEMMA RemoveFacts ==
    ASSUME NEW S, NEW seq \in Seq(S), NEW p \in DOMAIN seq, NEW r, r = RemoveAt(seq, p)
    PROVE /\ r \in Seq(S) /\ Len(r) = Len(seq) - 1
          /\ \A i \in 1..(Len(seq) - 1) : r[i] = IF i < p THEN seq[i] ELSE seq[i + 1]
<1>1. PICK a : a = SubSeq(seq, 1, p - 1)
  OBVIOUS
<1>2. PICK b : b = SubSeq(seq, p + 1, Len(seq))
  OBVIOUS
<1>3. a \in Seq(S) /\ Len(a) = p - 1 /\ \A i \in 1..(p - 1) : a[i] = seq[i]
  BY <1>1
<1>4. /\ b \in Seq(S) /\ Len(b) = Len(seq) - p
      /\ \A i \in 1..(Len(seq) - p) : b[i] = seq[p + i]
  BY <1>2
<1>5. r = a \o b
  BY <1>1, <1>2 DEF RemoveAt
<1>6. /\ r \in Seq(S) /\ Len(r) = Len(a) + Len(b)
      /\ \A i \in 1..(Len(a) + Len(b)) :
            r[i] = IF i <= Len(a) THEN a[i] ELSE b[i - Len(a)]
  <2>1. a \in Seq(S) /\ b \in Seq(S)
    BY <1>3, <1>4
  <2> QED BY <2>1, <1>5, ConcatFacts
<1>7. Len(seq) \in Nat /\ p \in 1..Len(seq) /\ Len(a) + Len(b) = Len(seq) - 1
  BY <1>3, <1>4
<1>8. ASSUME NEW i \in 1..(Len(seq) - 1)
      PROVE r[i] = IF i < p THEN seq[i] ELSE seq[i + 1]
  <2>1. r[i] = IF i <= Len(a) THEN a[i] ELSE b[i - Len(a)]
    BY <1>6, <1>7
  <2>2. CASE i < p
    BY <2>1, <2>2, <1>3, <1>7
  <2>3. CASE ~(i < p)
    <3>1. r[i] = b[i - (p - 1)] /\ i - (p - 1) \in 1..(Len(seq) - p)
      BY <2>1, <2>3, <1>3, <1>7
    <3>2. b[i - (p - 1)] = seq[p + (i - (p - 1))]
      BY <3>1, <1>4
    <3>3. p + (i - (p - 1)) = i + 1
      BY <1>7
    <3> QED BY <2>3, <3>1, <3>2, <3>3
  <2> QED BY <2>2, <2>3
<1> QED BY <1>6, <1>7, <1>8

(* What is merged comes last, the other paths keep their order. *)
Merged(seq, f, t) ==
    /\ t \in Seq(Files) /\ Len(t) \in DOMAIN t /\ t[Len(t)] = f
    /\ \A i \in DOMAIN t : t[i] = f \/ \E j \in DOMAIN seq : t[i] = seq[j]
    /\ \A i \in DOMAIN seq : seq[i] # f =>
          \E k \in DOMAIN t :
              /\ t[k] = seq[i]
              /\ \A n \in DOMAIN t : n > k =>
                    t[n] = f \/ \E j \in DOMAIN seq : j > i /\ t[n] = seq[j]

LEMMA MergeFacts ==
    ASSUME NEW seq \in Seq(Files), NEW f \in Files, NEW t, t = Merge(seq, f)
    PROVE Merged(seq, f, t)
<1>1. CASE ~Contains(seq, f)
  <2>1. t = Append(seq, f)
    BY <1>1 DEF Merge
  <2>2. \A i \in DOMAIN t : i \in DOMAIN seq \/ i = Len(t)
    BY <2>1, AppendFacts
  <2> QED BY <2>1, <2>2, AppendFacts DEF Merged
<1>2. CASE Contains(seq, f)
  <2> DEFINE p == Position(seq, f)
             r == RemoveAt(seq, p)
  <2>1. p \in DOMAIN seq /\ seq[p] = f
    BY <1>2 DEF Contains, Position
  <2>2. /\ r \in Seq(Files) /\ Len(r) = Len(seq) - 1
        /\ \A i \in 1..(Len(seq) - 1) : r[i] = IF i < p THEN seq[i] ELSE seq[i + 1]
    BY <2>1, RemoveFacts
  <2>3. t = Append(r, f)
    BY <1>2 DEF Merge
  <2> HIDE DEF p, r
  <2>4. /\ t \in Seq(Files) /\ Len(t) = Len(seq) /\ Len(t) \in DOMAIN t /\ t[Len(t)] = f
        /\ \A i \in 1..(Len(seq) - 1) : t[i] = IF i < p THEN seq[i] ELSE seq[i + 1]
    <3>1. /\ t \in Seq(Files) /\ Len(t) = Len(r) + 1 /\ t[Len(t)] = f
          /\ \A i \in DOMAIN r : t[i] = r[i]
      BY <2>2, <2>3, AppendFacts
    <3>2. Len(seq) \in Nat
      OBVIOUS
    <3> QED BY <2>1, <2>2, <3>1, <3>2
  <2>5. \A i \in DOMAIN t : t[i] = f \/ \E j \in DOMAIN seq : t[i] = seq[j]
    BY <2>1, <2>4
  <2>6. ASSUME NEW i \in DOMAIN seq, seq[i] # f
        PROVE \E k \in DOMAIN t :
                 /\ t[k] = seq[i]
                 /\ \A n \in DOMAIN t : n > k =>
                       t[n] = f \/ \E j \in DOMAIN seq : j > i /\ t[n] = seq[j]
    <3> DEFINE k == IF i < p THEN i ELSE i - 1
    <3>1. i # p
      BY <2>1, <2>6
    <3>2. k \in DOMAIN t /\ t[k] = seq[i]
      BY <2>1, <2>4, <3>1
    <3>3. ASSUME NEW n \in DOMAIN t, n > k, n # Len(t)
          PROVE \E j \in DOMAIN seq : j > i /\ t[n] = seq[j]
      <4>1. n \in 1..(Len(seq) - 1)
        BY <2>4, <3>3
      <4>2. CASE n < p
        BY <2>1, <2>4, <3>1, <3>3, <4>1, <4>2
      <4>3. CASE ~(n < p)
        <5>1. t[n] = seq[n + 1] /\ n + 1 \in DOMAIN seq /\ n + 1 > i
          BY <2>1, <2>4, <3>1, <3>3, <4>1, <4>3
        <5> QED BY <5>1
      <4> QED BY <4>2, <4>3
    <3> HIDE DEF k
    <3> QED BY <2>4, <3>2, <3>3
  <2> QED BY <2>4, <2>5, <2>6 DEF Merged
<1> QED BY <1>1, <1>2

LEMMA MergeContains ==
    ASSUME NEW seq \in Seq(Files), NEW f \in Files
    PROVE /\ Contains(Merge(seq, f), f)
          /\ \A h : Contains(seq, h) => Contains(Merge(seq, f), h)
<1>1. PICK t : t = Merge(seq, f)
  OBVIOUS
<1>2. t \in Seq(Files) /\ Len(t) \in DOMAIN t /\ t[Len(t)] = f
  BY <1>1, MergeFacts DEF Merged
<1>3. Contains(t, f)
  BY <1>2 DEF Contains
<1>4. ASSUME NEW h, h # f, Contains(seq, h) PROVE Contains(t, h)
  <2>1. PICK i \in DOMAIN seq : seq[i] = h
    BY <1>4 DEF Contains
  <2>2. \A n \in DOMAIN seq : seq[n] # f => \E k \in DOMAIN t : t[k] = seq[n]
    BY <1>1, MergeFacts DEF Merged
  <2>3. PICK k \in DOMAIN t : t[k] = seq[i]
    BY <1>4, <2>1, <2>2
  <2> QED BY <1>2, <2>1, <2>3 DEF Contains
<1> QED BY <1>1, <1>3, <1>4

-------------------------------------------------------------------------------
(* Type correctness, one step per action. *)

LEMMA NotifyType ==
    ASSUME WatchTypeOK, NEW f \in Files, NEW g \in Files,
           Notify(<<f>>) \/ Notify(<<f, g>>)
    PROVE events' \in Seq(Files)
<1>1. Append(events, f) \in Seq(Files) /\ Append(Append(events, f), g) \in Seq(Files)
  BY DEF WatchTypeOK
<1>2. events \o <<f>> = Append(events, f) /\ events \o <<f, g>> = Append(Append(events, f), g)
  BY JoinFacts DEF WatchTypeOK
<1> QED BY <1>1, <1>2 DEF Notify, WatchTypeOK

LEMMA InitType == Init => WatchTypeOK
BY DEF Init, WatchTypeOK, Idle

LEMMA NextType ==
    ASSUME WatchTypeOK, [Next]_vars
    PROVE WatchTypeOK'
<1> USE DEF WatchTypeOK
<1>1. CASE UserChange
  <2>1. ASSUME NEW f \in Files, Save(f) PROVE WatchTypeOK'
    BY <2>1, NotifyType, FileFacts DEF Save, watcherVars, uiVars
  <2>2. ASSUME NEW f \in Files, Delete(f) PROVE WatchTypeOK'
    BY <2>2, NotifyType, FileFacts DEF Delete, watcherVars, uiVars
  <2>3. ASSUME NEW f \in Files, NEW g \in Files, Rename(f, g) PROVE WatchTypeOK'
    BY <2>3, NotifyType, FileFacts DEF Rename, watcherVars, uiVars
  <2> QED BY <1>1, <2>1, <2>2, <2>3 DEF UserChange
<1>2. CASE UserInput
  BY <1>2 DEF UserInput, Quit, OpenExisting, CreateMissing, diskVars, watcherVars, uiVars,
              InLoop, Idle
<1>3. CASE Receive
  <2>1. Head(events) \in Files /\ Tail(events) \in Seq(Files)
    BY <1>3, TailFacts DEF Receive
  <2>2. batch' \in Seq(Files) /\ batch' # <<>>
    <3>1. batch \in Seq(Files) /\ batch' = Merge(batch, Head(events))
      BY <1>3 DEF Receive
    <3>2. batch' \in Seq(Files) /\ Len(batch') \in DOMAIN batch'
      BY <2>1, <3>1, MergeFacts DEF Merged
    <3> QED BY <3>2
  <2> QED BY <1>3, <2>1, <2>2 DEF Receive, uiVars
<1>4. CASE CloseBatch
  BY <1>4 DEF CloseBatch, diskVars, uiVars
<1>5. ASSUME pc = "deliver", NextPath
      PROVE /\ Head(batch) \in Files /\ batch' \in Seq(Files)
            /\ pc' \in {"wait", "deliver"} /\ (pc' = "deliver" => batch' # <<>>)
  <2>1. /\ Head(batch) \in Files /\ batch' \in Seq(Files) /\ Len(batch') = Len(batch) - 1
    BY <1>5, TailFacts DEF NextPath
  <2>2. Len(batch) # 1 => Len(batch') # 0
    BY <2>1
  <2> QED BY <1>5, <2>1, <2>2 DEF NextPath
<1>6. CASE SendSourceChange
  <2>1. Head(batch) \in Files
    BY <1>5, <1>6 DEF SendSourceChange
  <2>2. messages' \in Seq(Message)
    <3>1. Changed(Head(batch)) \in Message /\ Removed(Head(batch)) \in Message
      BY <2>1, MessageFacts
    <3> QED BY <1>6, <3>1 DEF SendSourceChange, Report
  <2> QED BY <1>5, <1>6, <2>2 DEF SendSourceChange, diskVars
<1>7. CASE TestPath
  BY <1>5, <1>7 DEF TestPath, uiVars
<1>8. CASE WatcherFails
  <2>1. messages' \in Seq(Message)
    <3>1. WatcherFailed \in Message
      BY DEF Message
    <3>2. Append(messages, WatcherFailed) \in Seq(Message)
      <4> HIDE DEF Message
      <4> QED BY <3>1
    <3> QED BY <1>8, <3>2 DEF WatcherFails
  <2> QED BY <1>8, <2>1 DEF WatcherFails
<1>9. CASE Handle
  <2>1. CASE HandleChanged
    <3>1. Head(messages) \in Message /\ Tail(messages) \in Seq(Message)
      BY <2>1, TailFacts DEF HandleChanged
    <3>2. Head(messages).file \in Files
      BY <2>1, <3>1, MessageKinds DEF HandleChanged
    <3> QED BY <2>1, <3>1, <3>2, FileFacts DEF HandleChanged, watcherVars
  <2>2. CASE HandleRemoved
    <3>1. Head(messages) \in Message /\ Tail(messages) \in Seq(Message)
      BY <2>2, TailFacts DEF HandleRemoved
    <3>2. Head(messages).file \in Files
      BY <2>2, <3>1, MessageKinds DEF HandleRemoved
    <3> QED BY <2>2, <3>1, <3>2, FileFacts DEF HandleRemoved, diskVars, watcherVars
  <2>3. CASE HandleWatcherFailed
    BY <2>3 DEF HandleWatcherFailed, diskVars, watcherVars, uiVars
  <2> QED BY <1>9, <2>1, <2>2, <2>3 DEF Handle
<1>10. CASE CreateSource
  <2>1. ui.file \in Files /\ ui # Idle
    BY <1>10 DEF CreateSource, Idle
  <2>2. Notify(<<ui.file>>) => events' \in Seq(Files)
    BY <2>1, NotifyType
  <2>3. CASE ui' = Idle /\ UNCHANGED diskVars
    BY <1>10, <2>3 DEF CreateSource, diskVars, watcherVars
  <2>4. CASE /\ exists' = [exists EXCEPT ![ui.file] = TRUE] /\ Notify(<<ui.file>>)
             /\ unseen' = unseen \cup {ui.file}
             /\ newest' = [newest EXCEPT ![Problem(ui.file)] = Language(ui.file)]
             /\ ui' = [ui EXCEPT !.at = "opening"]
    <3>1. ui \in [at : {"opening", "creating", "away"}, file : Files]
      BY <2>1
    <3>2. ui' \in [at : {"opening", "creating", "away"}, file : Files]
      BY <2>4, <3>1
    <3>3. /\ exists' \in [Files -> BOOLEAN] /\ unseen' \subseteq Files
          /\ newest' \in [Problems -> Languages \cup {NoSource}]
      BY <2>1, <2>4, FileFacts
    <3> QED BY <1>10, <2>2, <2>4, <3>2, <3>3 DEF CreateSource, watcherVars
  <2> QED BY <1>10, <2>3, <2>4 DEF CreateSource
<1>11. CASE SelectSource
  <2>1. ui.file \in Files /\ ui # Idle
    BY <1>11 DEF SelectSource, Idle
  <2> QED BY <1>11, <2>1, FileFacts DEF SelectSource, watcherVars, Idle
<1>12. CASE EditorExits
  BY <1>12 DEF EditorExits, diskVars, watcherVars, Idle
<1>13. CASE UNCHANGED vars
  BY <1>13 DEF vars
<1> QED BY <1>1, <1>2, <1>3, <1>4, <1>6, <1>7, <1>8, <1>9, <1>10, <1>11, <1>12, <1>13
        DEF Next, Deliver, UiStep

(* WatchTypeOK: every variable keeps its type, for any problems, languages *)
(* and any number of notifications.                                        *)
THEOREM WatchTypeCorrect == Spec => []WatchTypeOK
<1>1. WatchTypeOK /\ [Next]_vars => WatchTypeOK'
  BY NextType
<1> QED BY InitType, <1>1, PTL DEF Spec

-------------------------------------------------------------------------------
(* No stale source. *)

LEMMA NotifyFacts ==
    ASSUME WatchTypeOK, pc # "gone", NEW f \in Files, NEW g \in Files,
           Notify(<<f>>) \/ Notify(<<g, f>>)
    PROVE /\ \A h \in Files : Contains(events, h) => Contains(events', h)
          /\ Contains(events', f)
          /\ Notify(<<g, f>>) => Contains(events', g)
<1>1. /\ events \o <<f>> = Append(events, f)
      /\ events \o <<g, f>> = Append(Append(events, g), f)
  BY JoinFacts DEF WatchTypeOK
<1>2. PICK t : t = IF Notify(<<f>>) THEN events ELSE Append(events, g)
  OBVIOUS
<1>3. t \in Seq(Files) /\ (t = events \/ t = Append(events, g))
      /\ (Notify(<<g, f>>) /\ ~Notify(<<f>>) => t = Append(events, g))
  BY <1>2, AppendFacts DEF WatchTypeOK
<1>4. events' = Append(t, f)
  BY <1>1, <1>2 DEF Notify
<1>5. \A h \in Files : Contains(events, h) => Contains(t, h)
  <2>1. events \in Seq(Files)
    BY DEF WatchTypeOK
  <2>2. \A h \in Files : Contains(events, h) => Contains(Append(events, g), h)
    BY <2>1, AppendContains
  <2> QED BY <1>3, <2>2
<1>6. Contains(events', f) /\ \A h \in Files : Contains(t, h) => Contains(events', h)
  BY <1>3, <1>4, AppendContains
<1>7. Notify(<<g, f>>) => Contains(events', g)
  <2>1. events \in Seq(Files)
    BY DEF WatchTypeOK
  <2>2. t = Append(events, g) => Contains(events', g)
    BY <1>6, <2>1, AppendContains
  <2>3. Notify(<<f>>) /\ Notify(<<g, f>>) => FALSE
    <3>1. Len(Append(events, f)) # Len(Append(Append(events, g), f))
      BY <2>1
    <3> QED BY <1>1, <3>1 DEF Notify
  <2> QED BY <1>3, <2>2, <2>3
<1> QED BY <1>5, <1>6, <1>7

(* A step that sends no message keeps the invariant if it announces every  *)
(* file it removes.                                                        *)
LEMMA StaleKept ==
    ASSUME WatchTypeOK, StaleInv, Live' => Live, messages' = messages, source' = source,
           ui' = ui \/ ui'.at # "opening" \/ exists'[ui'.file],
           ui' = ui /\ ui.at = "opening" => ui.file \in Files,
           Live' => \A f \in Files : Notified(f) \/ (exists[f] /\ ~exists'[f]) => Notified(f)'
    PROVE StaleInv'
<1> SUFFICES ASSUME Live' PROVE StaleInv'
  BY DEF StaleInv
<1>1. \A f \in Files : \A k : Followed(f, k) => Followed(f, k)'
  BY DEF Followed
<1>2. \A f \in Files : exists[f] /\ ~exists'[f] => \A k : Followed(f, k)'
  BY DEF Followed
<1>3. ASSUME NEW p \in Problems, source'[p] # NoSource, ~exists'[<<p, source'[p]>>]
      PROVE Followed(<<p, source[p]>>, 0)'
  <2>1. <<p, source[p]>> \in Files /\ source[p] # NoSource
    BY <1>3, PairFacts DEF WatchTypeOK
  <2> QED BY <1>1, <1>2, <1>3, <2>1 DEF StaleInv
<1>4. ASSUME ui'.at = "opening", ~exists'[ui'.file] PROVE Followed(ui.file, 0)'
  BY <1>1, <1>2, <1>4 DEF StaleInv
<1>5. ASSUME NEW i \in DOMAIN messages, messages[i].type = "SourceChanged",
             ~exists'[messages[i].file]
      PROVE Followed(messages[i].file, i)'
  <2>1. messages[i].file \in Files
    BY <1>5, MessageKinds DEF WatchTypeOK
  <2> QED BY <1>1, <1>2, <1>5, <2>1 DEF StaleInv
<1> QED BY <1>3, <1>4, <1>5 DEF StaleInv

LEMMA StaleUserChange ==
    ASSUME WatchTypeOK, StaleInv, UserChange
    PROVE StaleInv'
<1>1. /\ Live' => Live
      /\ messages' = messages /\ source' = source /\ ui' = ui /\ batch' = batch
      /\ ui.at = "opening" => ui.file \in Files
  <2>1. front' = front /\ session' = session /\ UNCHANGED <<watcherVars, uiVars>>
    BY DEF UserChange, Save, Delete, Rename
  <2>2. ui.at = "opening" => ui.file \in Files
    BY DEF WatchTypeOK, Idle
  <2> QED BY <2>1, <2>2 DEF watcherVars, uiVars, Live
<1>2. ASSUME Live', NEW f \in Files, Notified(f) \/ (exists[f] /\ ~exists'[f])
      PROVE Notified(f)'
  <2>1. pc # "gone"
    BY <1>1, <1>2 DEF Live
  <2>2. ASSUME NEW h \in Files, Save(h) PROVE Notified(f)'
    BY <1>1, <1>2, <2>1, <2>2, NotifyFacts DEF Save, Notified, WatchTypeOK
  <2>3. ASSUME NEW h \in Files, Delete(h) PROVE Notified(f)'
    BY <1>1, <1>2, <2>1, <2>3, NotifyFacts DEF Delete, Notified, WatchTypeOK
  <2>4. ASSUME NEW h \in Files, NEW g \in Files, Rename(h, g) PROVE Notified(f)'
    BY <1>1, <1>2, <2>1, <2>4, NotifyFacts DEF Rename, Notified, WatchTypeOK
  <2> QED BY <2>2, <2>3, <2>4 DEF UserChange
<1> QED BY <1>1, <1>2, StaleKept

LEMMA StaleReceive ==
    ASSUME WatchTypeOK, StaleInv, Receive
    PROVE StaleInv'
<1>1. /\ Live' => Live
      /\ messages' = messages /\ source' = source /\ ui' = ui /\ exists' = exists
      /\ ui.at = "opening" => ui.file \in Files
  BY DEF Receive, uiVars, Live, WatchTypeOK, Idle
<1>2. /\ events \in Seq(Files) /\ events # <<>> /\ events' = Tail(events)
      /\ batch \in Seq(Files) /\ batch' = Merge(batch, Head(events))
  BY DEF Receive, WatchTypeOK
<1>3. Head(events) \in Files
  BY <1>2, TailFacts
<1>4. ASSUME NEW f \in Files, Notified(f) PROVE Notified(f)'
  <2>1. CASE f = Head(events)
    <3>1. Contains(batch', f)
      BY <1>2, <1>3, <2>1, MergeContains
    <3> QED BY <3>1 DEF Notified
  <2>2. CASE f # Head(events) /\ Contains(events, f)
    <3>1. Contains(events', f)
      BY <1>2, <2>2, TailContains
    <3> QED BY <3>1 DEF Notified
  <2>3. CASE f # Head(events) /\ Contains(batch, f)
    <3>1. Contains(batch', f)
      BY <1>2, <1>3, <2>3, MergeContains
    <3> QED BY <3>1 DEF Notified
  <2> QED BY <1>4, <2>1, <2>2, <2>3 DEF Notified
<1> QED BY <1>1, <1>4, StaleKept

(* The path that is sent is announced by its message. *)
LEMMA StaleSend ==
    ASSUME WatchTypeOK, StaleInv, SendSourceChange
    PROVE StaleInv'
<1> DEFINE f == Head(batch)
           m == IF exists[f] THEN Changed(f) ELSE Removed(f)
<1> SUFFICES ASSUME Live' PROVE StaleInv'
  BY DEF StaleInv
<1>1. /\ Live /\ exists' = exists /\ source' = source /\ ui' = ui /\ events' = events
      /\ batch \in Seq(Files) /\ batch # <<>> /\ batch' = Tail(batch)
      /\ messages \in Seq(Message) /\ messages' = Append(messages, m)
  BY DEF SendSourceChange, NextPath, Report, diskVars, Live, WatchTypeOK
<1>2. f \in Files /\ m \in Message
  BY <1>1, TailFacts, MessageFacts
<1>3. /\ \A i \in DOMAIN messages : i \in DOMAIN messages' /\ messages'[i] = messages[i]
                                                            /\ i < Len(messages')
      /\ Len(messages') \in DOMAIN messages' /\ messages'[Len(messages')] = m
      /\ \A i \in DOMAIN messages' : i \in DOMAIN messages \/ i = Len(messages')
      /\ Len(messages') = Len(messages) + 1
  <2> HIDE DEF m
  <2> QED BY <1>1, <1>2, AppendFacts
<1>4. ASSUME NEW g \in Files, ~exists[g], NEW k \in 0..Len(messages), Followed(g, k)
      PROVE Followed(g, k)'
  <2>1. CASE g = f
    <3>1. messages'[Len(messages')] = Removed(g) /\ Len(messages') > k
      BY <1>1, <1>3, <1>4, <2>1
    <3> QED BY <1>3, <3>1 DEF Followed
  <2>2. CASE g # f /\ Notified(g)
    <3>1. Contains(batch, g) => Contains(batch', g)
      BY <1>1, <2>2, TailContains
    <3> QED BY <1>1, <2>2, <3>1 DEF Followed, Notified
  <2>3. CASE \E j \in DOMAIN messages : j > k /\ messages[j] = Removed(g)
    BY <1>3, <2>3 DEF Followed
  <2> QED BY <1>4, <2>1, <2>2, <2>3 DEF Followed
<1>5. ASSUME NEW p \in Problems, source[p] # NoSource, ~exists[<<p, source[p]>>]
      PROVE Followed(<<p, source[p]>>, 0)'
  <2>1. <<p, source[p]>> \in Files
    BY <1>5, PairFacts DEF WatchTypeOK
  <2>2. 0 \in 0..Len(messages)
    BY <1>1
  <2> QED BY <1>1, <1>4, <1>5, <2>1, <2>2 DEF StaleInv
<1>6. ASSUME ui.at = "opening", ~exists[ui.file] PROVE Followed(ui.file, 0)'
  <2>1. ui.file \in Files
    BY <1>6 DEF WatchTypeOK, Idle
  <2>2. 0 \in 0..Len(messages)
    BY <1>1
  <2> QED BY <1>1, <1>4, <1>6, <2>1, <2>2 DEF StaleInv
<1>7. ASSUME NEW i \in DOMAIN messages', NEW g, g = messages'[i].file,
             messages'[i].type = "SourceChanged", ~exists[g]
      PROVE Followed(g, i)'
  <2>1. CASE i \in DOMAIN messages
    <3>1. messages[i] = messages'[i] /\ messages[i] \in Message /\ i \in 0..Len(messages)
      BY <1>1, <1>3, <2>1
    <3>2. g \in Files
      BY <1>7, <3>1, MessageKinds
    <3>3. Followed(g, i)
      BY <1>1, <1>7, <2>1, <3>1 DEF StaleInv
    <3> QED BY <1>4, <1>7, <3>1, <3>2, <3>3
  <2>2. CASE i = Len(messages')
    <3>1. m.type = "SourceChanged" /\ m.file = g
      BY <1>3, <1>7, <2>2
    <3>2. exists[f]
      BY <1>2, <3>1, MessageFacts
    <3>3. g = f
      BY <1>2, <3>1, <3>2, MessageFacts
    <3> QED BY <1>7, <3>2, <3>3
  <2> QED BY <1>3, <1>7, <2>1, <2>2
<1> HIDE DEF f, m
<1> QED BY <1>1, <1>5, <1>6, <1>7 DEF StaleInv

(* The message that is handled takes its news with it: what is announced   *)
(* after the (k+1)-st message is announced after the k-th of the rest, and *)
(* what any message but the first announces is announced by the rest.      *)
LEMMA FollowedShift ==
    ASSUME WatchTypeOK, messages # <<>>, messages' = Tail(messages),
           events' = events, batch' = batch, NEW f \in Files
    PROVE /\ \A k \in Nat : Followed(f, k + 1) => Followed(f, k)'
          /\ Followed(f, 0) /\ Head(messages) # Removed(f) => Followed(f, 0)'
<1>1. messages \in Seq(Message) /\ Head(messages) = messages[1]
  BY TailFacts DEF WatchTypeOK
<1>2. \A j \in DOMAIN messages : j > 1 =>
          j - 1 \in DOMAIN messages' /\ messages'[j - 1] = messages[j]
  BY <1>1, TailFacts
<1>3. Notified(f) => Notified(f)'
  BY DEF Notified
<1>4. ASSUME NEW k \in Nat, Followed(f, k + 1) PROVE Followed(f, k)'
  <2>1. CASE Notified(f)
    BY <1>3, <2>1 DEF Followed
  <2>2. CASE \E j \in DOMAIN messages : j > k + 1 /\ messages[j] = Removed(f)
    <3>1. PICK j \in DOMAIN messages : j > k + 1 /\ messages[j] = Removed(f)
      BY <2>2
    <3>2. j - 1 \in DOMAIN messages' /\ messages'[j - 1] = Removed(f) /\ j - 1 > k
      BY <1>1, <1>2, <3>1
    <3> QED BY <3>2 DEF Followed, Removed
  <2> QED BY <1>4, <2>1, <2>2 DEF Followed
<1>5. ASSUME Followed(f, 0), Head(messages) # Removed(f) PROVE Followed(f, 0)'
  <2>1. CASE Notified(f)
    BY <1>3, <2>1 DEF Followed
  <2>2. CASE \E j \in DOMAIN messages : j > 0 /\ messages[j] = Removed(f)
    <3>1. PICK j \in DOMAIN messages : j > 0 /\ messages[j] = Removed(f)
      BY <2>2
    <3>2. j - 1 \in DOMAIN messages' /\ messages'[j - 1] = Removed(f) /\ j - 1 > 0
      BY <1>1, <1>2, <1>5, <3>1
    <3> QED BY <3>2 DEF Followed, Removed
  <2> QED BY <1>5, <2>1, <2>2 DEF Followed
<1> QED BY <1>4, <1>5

(* What is left of the messages keeps its news. *)
LEMMA MessagesShift ==
    ASSUME WatchTypeOK, StaleInv, Live, messages # <<>>, messages' = Tail(messages),
           events' = events, batch' = batch, exists' = exists
    PROVE \A i \in DOMAIN messages' : \A g :
              /\ messages'[i].type = "SourceChanged" /\ g = messages'[i].file
              /\ ~exists[g]
              => Followed(g, i)'
<1> SUFFICES ASSUME NEW i \in DOMAIN messages', messages'[i].type = "SourceChanged",
                    NEW g, g = messages'[i].file, ~exists[g]
             PROVE Followed(g, i)'
  OBVIOUS
<1>1. messages \in Seq(Message) /\ i \in Nat
  BY TailFacts DEF WatchTypeOK
<1>2. i + 1 \in DOMAIN messages /\ messages'[i] = messages[i + 1]
  BY <1>1, TailFacts
<1>3. g \in Files
  BY <1>1, <1>2, MessageKinds
<1>4. Followed(g, i + 1)
  BY <1>2 DEF StaleInv
<1> QED BY <1>1, <1>3, <1>4, FollowedShift

LEMMA StaleHandle ==
    ASSUME WatchTypeOK, StaleInv, HandleChanged \/ HandleRemoved
    PROVE StaleInv'
<1> SUFFICES ASSUME Live' PROVE StaleInv'
  BY DEF StaleInv
<1>1. /\ Live /\ messages # <<>> /\ messages' = Tail(messages)
      /\ events' = events /\ batch' = batch /\ exists' = exists /\ ui' = Idle
  BY DEF HandleChanged, HandleRemoved, InLoop, diskVars, watcherVars, Live
<1> DEFINE m == Head(messages)
<1>2. messages \in Seq(Message) /\ m \in Message /\ m = messages[1] /\ 1 \in DOMAIN messages
  BY <1>1, TailFacts DEF WatchTypeOK
<1>3. ASSUME NEW p \in Problems, NEW g, g = <<p, source'[p]>>,
             source'[p] # NoSource, ~exists[g]
      PROVE Followed(g, 0)'
  <2>1. CASE m.type = "SourceChanged"
    <3>1. m.file \in Files /\ m = Changed(m.file)
      BY <1>2, <2>1, MessageKinds
    <3>2. source' = [source EXCEPT ![Problem(m.file)] = Language(m.file)]
      BY <2>1 DEF HandleChanged, HandleRemoved
    <3>3. CASE p = Problem(m.file)
      <4>1. g = m.file
        BY <1>3, <3>1, <3>2, <3>3, FileFacts DEF WatchTypeOK
      <4>2. Followed(g, 1)
        BY <1>1, <1>2, <1>3, <2>1, <4>1 DEF StaleInv
      <4>3. Followed(g, 0 + 1)
        BY <4>2
      <4> QED BY <1>1, <3>1, <4>1, <4>3, FollowedShift
    <3>4. CASE p # Problem(m.file)
      <4>1. g = <<p, source[p]>> /\ source[p] # NoSource /\ g \in Files
        BY <1>3, <3>2, <3>4, PairFacts DEF WatchTypeOK
      <4>2. Followed(g, 0) /\ m # Removed(g)
        BY <1>1, <1>3, <3>1, <4>1, MessageFacts DEF StaleInv
      <4> QED BY <1>1, <4>1, <4>2, FollowedShift
    <3> QED BY <3>3, <3>4
  <2>2. CASE m.type = "SourceRemoved"
    <3>1. m.file \in Files /\ m = Removed(m.file)
      BY <1>2, <2>2, MessageKinds
    <3>2. source' = [source EXCEPT ![Problem(m.file)] = IF @ = Language(m.file) THEN NoSource
                                                                              ELSE @]
      BY <2>2 DEF HandleChanged, HandleRemoved
    <3>3. g = <<p, source[p]>> /\ source[p] # NoSource
          /\ (p = Problem(m.file) => source[p] # Language(m.file))
      BY <1>3, <3>2 DEF WatchTypeOK
    <3>4. g \in Files /\ g # m.file
      BY <3>1, <3>3, PairFacts DEF WatchTypeOK
    <3>5. m # Removed(g)
      BY <3>1, <3>4, MessageFacts
    <3>6. Followed(g, 0)
      BY <1>1, <1>3, <3>3 DEF StaleInv
    <3> QED BY <1>1, <3>4, <3>5, <3>6, FollowedShift
  <2> QED BY <2>1, <2>2 DEF HandleChanged, HandleRemoved
<1>4. ui'.at # "opening"
  BY <1>1 DEF Idle
<1>5. \A i \in DOMAIN messages' : \A g :
          messages'[i].type = "SourceChanged" /\ g = messages'[i].file /\ ~exists[g]
            => Followed(g, i)'
  BY <1>1, MessagesShift
<1> HIDE DEF m
<1> QED BY <1>1, <1>3, <1>4, <1>5 DEF StaleInv

LEMMA StaleUi ==
    ASSUME WatchTypeOK, StaleInv, UiStep
    PROVE StaleInv'
<1>1. CASE CreateSource
  <2>1. /\ Live' => Live
        /\ messages' = messages /\ source' = source /\ batch' = batch /\ ui.at = "creating"
        /\ ui.file \in Files
    BY <1>1 DEF CreateSource, watcherVars, Live, WatchTypeOK, Idle
  <2>2. ui'.at # "opening" \/ exists'[ui'.file]
    <3>1. CASE ui' = Idle
      BY <3>1 DEF Idle
    <3>2. CASE /\ exists' = [exists EXCEPT ![ui.file] = TRUE]
               /\ ui' = [ui EXCEPT !.at = "opening"]
      <4>1. ui \in [at : {"opening", "creating", "away"}, file : Files]
        BY <2>1 DEF WatchTypeOK, Idle
      <4>2. ui'.file = ui.file
        BY <3>2, <4>1
      <4> QED BY <2>1, <3>2, <4>2 DEF WatchTypeOK
    <3> QED BY <1>1, <3>1, <3>2 DEF CreateSource
  <2>3. ASSUME Live', NEW f \in Files, Notified(f) \/ (exists[f] /\ ~exists'[f])
        PROVE Notified(f)'
    <3>1. pc # "gone"
      BY <2>1, <2>3 DEF Live
    <3>2. CASE UNCHANGED diskVars
      BY <1>1, <2>1, <2>3, <3>2 DEF diskVars, Notified
    <3>3. CASE exists' = [exists EXCEPT ![ui.file] = TRUE] /\ Notify(<<ui.file>>)
      BY <2>1, <2>3, <3>1, <3>3, NotifyFacts DEF Notified, WatchTypeOK
    <3> QED BY <1>1, <3>2, <3>3 DEF CreateSource
  <2> QED BY <2>1, <2>2, <2>3, StaleKept
<1>2. CASE SelectSource
  <2> SUFFICES ASSUME Live' PROVE StaleInv'
    BY DEF StaleInv
  <2>1. /\ Live /\ messages' = messages /\ events' = events /\ batch' = batch
        /\ exists' = exists /\ ui.at = "opening" /\ ui'.at # "opening" /\ ui.file \in Files
        /\ source' = [source EXCEPT ![Problem(ui.file)] = Language(ui.file)]
    BY <1>2 DEF SelectSource, watcherVars, Live, WatchTypeOK, Idle
  <2>2. \A f, k : Followed(f, k) => Followed(f, k)'
    BY <2>1 DEF Followed, Notified
  <2>3. ASSUME NEW p \in Problems, NEW g, g = <<p, source'[p]>>,
               source'[p] # NoSource, ~exists[g]
        PROVE Followed(g, 0)'
    <3>1. CASE p = Problem(ui.file)
      <4>1. g = ui.file
        BY <2>1, <2>3, <3>1, FileFacts DEF WatchTypeOK
      <4> QED BY <2>1, <2>2, <2>3, <4>1 DEF StaleInv
    <3>2. CASE p # Problem(ui.file)
      <4>1. g = <<p, source[p]>> /\ source[p] # NoSource
        BY <2>1, <2>3, <3>2 DEF WatchTypeOK
      <4> QED BY <2>1, <2>2, <2>3, <4>1 DEF StaleInv
    <3> QED BY <3>1, <3>2
  <2>4. ASSUME NEW i \in DOMAIN messages, messages[i].type = "SourceChanged",
               NEW g, g = messages[i].file, ~exists[g]
        PROVE Followed(g, i)'
    BY <2>1, <2>2, <2>4 DEF StaleInv
  <2> QED BY <2>1, <2>3, <2>4 DEF StaleInv
<1>3. CASE EditorExits
  <2>1. /\ Live' => Live
        /\ messages' = messages /\ source' = source /\ exists' = exists /\ ui'.at # "opening"
        /\ \A f \in Files : Notified(f) => Notified(f)'
    BY <1>3 DEF EditorExits, diskVars, watcherVars, Live, Idle, Notified
  <2>2. ui' = ui /\ ui.at = "opening" => ui.file \in Files
    BY <2>1
  <2> QED BY <2>1, <2>2, StaleKept
<1> QED BY <1>1, <1>2, <1>3 DEF UiStep

LEMMA InitStale == Init => StaleInv
BY DEF Init, StaleInv, Idle

LEMMA NextStale ==
    ASSUME WatchTypeOK, StaleInv, [Next]_vars
    PROVE StaleInv'
<1>1. CASE UserInput
  <2>1. CASE Quit
    BY <2>1 DEF Quit, StaleInv, Live
  <2>2. ASSUME NEW f \in Files, OpenExisting(f) \/ CreateMissing(f) PROVE StaleInv'
    <3>1. /\ Live' => Live
          /\ messages' = messages /\ source' = source /\ exists' = exists
          /\ ui'.at # "opening" \/ exists'[ui'.file]
          /\ ui.at # "opening"
          /\ \A h \in Files : Notified(h) => Notified(h)'
      BY <2>2 DEF OpenExisting, CreateMissing, InLoop, diskVars, watcherVars, Live, Idle, Notified
    <3> QED BY <3>1, StaleKept
  <2> QED BY <1>1, <2>1, <2>2 DEF UserInput
<1>2. CASE CloseBatch \/ UNCHANGED vars
  <2>1. /\ Live' => Live
        /\ messages' = messages /\ source' = source /\ exists' = exists /\ ui' = ui
        /\ \A h \in Files : Notified(h) => Notified(h)'
    BY <1>2 DEF CloseBatch, diskVars, uiVars, vars, Live, Notified
  <2>2. ui.at = "opening" => ui.file \in Files
    BY DEF WatchTypeOK, Idle
  <2> QED BY <2>1, <2>2, StaleKept
<1>3. CASE TestPath \/ WatcherFails \/ HandleWatcherFailed
  <2>1. ~Live'
    BY <1>3 DEF TestPath, WatcherFails, HandleWatcherFailed, Live
  <2> QED BY <2>1 DEF StaleInv
<1> QED BY <1>1, <1>2, <1>3, StaleUserChange, StaleReceive, StaleSend, StaleHandle, StaleUi
        DEF Next, Deliver, Handle

(* NoStaleSource: as long as the watcher of a session lives, a selected    *)
(* source that is missing will be deselected: a notification or the        *)
(* message about it is on its way.                                         *)
THEOREM NoSourceIsStale == Spec => []NoStaleSource
<1>1. Init => WatchTypeOK /\ StaleInv
  BY InitType, InitStale
<1>2. WatchTypeOK /\ StaleInv /\ [Next]_vars => (WatchTypeOK /\ StaleInv)'
  BY NextType, NextStale
<1>3. WatchTypeOK /\ StaleInv => NoStaleSource
  <2> SUFFICES ASSUME WatchTypeOK, StaleInv, Live, NEW p \in Problems,
                      source[p] # NoSource, ~exists[<<p, source[p]>>],
                      ~Notified(<<p, source[p]>>)
               PROVE RemovalQueued(<<p, source[p]>>)
    BY DEF NoStaleSource
  <2>1. PICK j \in DOMAIN messages : messages[j] = Removed(<<p, source[p]>>)
    BY DEF StaleInv, Followed
  <2>2. j \in 1..Len(messages)
    BY <2>1 DEF WatchTypeOK
  <2> QED BY <2>1, <2>2 DEF RemovalQueued, Contains
<1> QED BY <1>1, <1>2, <1>3, PTL DEF Spec

-------------------------------------------------------------------------------
(* The last save wins. *)

(* The file the user saved last in a problem, if it still exists. *)
Target(f) == newest[Problem(f)] = Language(f) /\ exists[f]

LEMMA TargetsWin ==
    ASSUME WatchTypeOK
    PROVE OrderInv <=> (Live => \A f \in Files : Target(f) => Wins(f))
<1>1. ASSUME Live, \A p \in Problems :
                newest[p] # NoSource /\ exists[<<p, newest[p]>>] => Wins(<<p, newest[p]>>),
             NEW f \in Files, Target(f)
      PROVE Wins(f)
  <2>1. Problem(f) \in Problems /\ Language(f) # NoSource /\ f = <<Problem(f), Language(f)>>
    BY FileFacts
  <2>2. newest[Problem(f)] = Language(f) /\ exists[f]
    BY <1>1 DEF Target
  <2>3. <<Problem(f), newest[Problem(f)]>> = f
    BY <2>1, <2>2
  <2> QED BY <1>1, <2>1, <2>2, <2>3
<1>2. ASSUME Live, \A f \in Files : Target(f) => Wins(f),
             NEW p \in Problems, newest[p] # NoSource, exists[<<p, newest[p]>>]
      PROVE Wins(<<p, newest[p]>>)
  <2>1. newest[p] \in Languages
    BY <1>2 DEF WatchTypeOK
  <2>2. /\ <<p, newest[p]>> \in Files
        /\ Problem(<<p, newest[p]>>) = p /\ Language(<<p, newest[p]>>) = newest[p]
    BY <2>1, PairFacts
  <2>3. Target(<<p, newest[p]>>)
    BY <1>2, <2>2 DEF Target
  <2> QED BY <1>2, <2>2, <2>3
<1> QED BY <1>1, <1>2 DEF OrderInv

(* What reports nothing about an existing rival, and creates none, leaves  *)
(* a file where it is on its way.                                          *)
LEMMA WinsKept ==
    ASSUME WatchTypeOK, NEW f \in Files, Wins(f),
           batch' = batch, messages' = messages,
           source'[Problem(f)] = source[Problem(f)],
           \A i \in DOMAIN events : i \in DOMAIN events' /\ events'[i] = events[i],
           \A i \in DOMAIN events' :
               i \in DOMAIN events \/ (Rival(events'[i], f) => ~exists'[events'[i]]),
           \A g \in Files : Rival(g, f) /\ ~exists[g] => ~exists'[g]
    PROVE Wins(f)'
<1>0. /\ \A i \in DOMAIN events : events[i] \in Files
      /\ \A i \in DOMAIN batch : batch[i] \in Files
  BY DEF WatchTypeOK
<1>1. \A k : Harmless(events, k, f) => Harmless(events, k, f)'
  BY <1>0 DEF Harmless
<1>2. \A k : Harmless(batch, k, f) => Harmless(batch, k, f)'
  BY <1>0 DEF Harmless
<1>3. \A k : Undisturbed(k, f) => Undisturbed(k, f)'
  BY DEF Undisturbed
<1>4. LastIn(events, f) => LastIn(events, f)'
  BY <1>1 DEF LastIn
<1>5. LastIn(batch, f) => LastIn(batch, f)'
  BY <1>2 DEF LastIn
<1> QED BY <1>1, <1>2, <1>3, <1>4, <1>5 DEF Wins

(* The announced paths follow those that were announced before. *)
LEMMA NotifyPositions ==
    ASSUME WatchTypeOK, pc # "gone", NEW f \in Files, NEW g \in Files,
           Notify(<<f>>) \/ Notify(<<g, f>>)
    PROVE /\ \A i \in DOMAIN events : i \in DOMAIN events' /\ events'[i] = events[i]
          /\ \A i \in DOMAIN events' : i \in DOMAIN events \/ events'[i] \in {f, g}
          /\ Len(events') \in DOMAIN events' /\ events'[Len(events')] = f
          /\ DOMAIN events' = 1..Len(events')
          /\ Notify(<<f>>) => \A i \in DOMAIN events' : i \in DOMAIN events \/ events'[i] = f
<1>1. events \in Seq(Files)
  BY DEF WatchTypeOK
<1>2. /\ events \o <<f>> = Append(events, f)
      /\ events \o <<g, f>> = Append(Append(events, g), f)
  BY <1>1, JoinFacts
<1>3. CASE Notify(<<f>>)
  <2>1. events' = Append(events, f)
    BY <1>2, <1>3 DEF Notify
  <2> QED BY <1>1, <2>1, AppendFacts
<1>4. CASE Notify(<<g, f>>) /\ ~Notify(<<f>>)
  <2>1. PICK t : t = Append(events, g)
    OBVIOUS
  <2>2. /\ t \in Seq(Files) /\ t[Len(t)] = g
        /\ \A i \in DOMAIN events : i \in DOMAIN t /\ t[i] = events[i]
        /\ \A i \in DOMAIN t : i \in DOMAIN events \/ i = Len(t)
    BY <1>1, <2>1, AppendFacts
  <2>3. events' = Append(t, f)
    BY <1>2, <1>4, <2>1 DEF Notify
  <2>4. /\ events' \in Seq(Files)
        /\ Len(events') \in DOMAIN events' /\ events'[Len(events')] = f
        /\ \A i \in DOMAIN t : i \in DOMAIN events' /\ events'[i] = t[i]
        /\ \A i \in DOMAIN events' : i \in DOMAIN t \/ i = Len(events')
    BY <2>2, <2>3, AppendFacts
  <2>5. \A i \in DOMAIN events' : i \in DOMAIN events \/ events'[i] \in {f, g}
    BY <2>2, <2>4
  <2>6. \A i \in DOMAIN events : i \in DOMAIN events' /\ events'[i] = events[i]
    BY <2>2, <2>4
  <2> QED BY <1>4, <2>4, <2>5, <2>6
<1> QED BY <1>3, <1>4

(* A file that was just announced wins. *)
LEMMA AnnouncedWins ==
    ASSUME NEW f \in Files, DOMAIN events' = 1..Len(events'),
           Len(events') \in DOMAIN events', events'[Len(events')] = f
    PROVE Wins(f)'
<1>1. Harmless(events, Len(events), f)'
  BY DEF Harmless
<1>2. LastIn(events, f)'
  BY <1>1 DEF LastIn
<1> QED BY <1>2 DEF Wins

(* A file appears: a save, or the template of a new source. *)
LEMMA AppearanceWins ==
    ASSUME WatchTypeOK, pc # "gone", NEW h \in Files,
           \A f \in Files : Target(f) => Wins(f),
           exists' = [exists EXCEPT ![h] = TRUE], Notify(<<h>>),
           newest' = [newest EXCEPT ![Problem(h)] = Language(h)],
           batch' = batch, messages' = messages, source' = source,
           NEW f \in Files, Target(f)'
    PROVE Wins(f)'
<1>1. CASE Problem(f) = Problem(h)
  <2>1. Language(f) = Language(h)
    BY <1>1, FileFacts DEF Target, WatchTypeOK
  <2>2. f = h
    BY <1>1, <2>1, FileFacts
  <2> QED BY <2>2, NotifyPositions, AnnouncedWins
<1>2. CASE Problem(f) # Problem(h)
  <2>1. Target(f)
    BY <1>2 DEF Target, WatchTypeOK
  <2>2. \A g : Rival(g, f) => g # h
    BY <1>2 DEF Rival
  <2>3. \A g \in Files : Rival(g, f) /\ ~exists[g] => ~exists'[g]
    BY <2>2 DEF WatchTypeOK
  <2>4. \A i \in DOMAIN events' : i \in DOMAIN events \/ ~Rival(events'[i], f)
    BY <2>2, NotifyPositions
  <2>5. \A i \in DOMAIN events : i \in DOMAIN events' /\ events'[i] = events[i]
    BY NotifyPositions
  <2> QED BY <2>1, <2>3, <2>4, <2>5, WinsKept
<1> QED BY <1>1, <1>2

LEMMA OrderUserChange ==
    ASSUME WatchTypeOK, Live, \A f \in Files : Target(f) => Wins(f), UserChange,
           NEW f \in Files, Target(f)'
    PROVE Wins(f)'
<1>1. pc # "gone" /\ batch' = batch /\ messages' = messages /\ source' = source
  <2>1. UNCHANGED <<watcherVars, uiVars>>
    BY DEF UserChange, Save, Delete, Rename
  <2> QED BY <2>1 DEF watcherVars, uiVars, Live
<1>2. ASSUME NEW h \in Files, Save(h) PROVE Wins(f)'
  BY <1>1, <1>2, AppearanceWins DEF Save
<1>3. ASSUME NEW h \in Files, Delete(h) PROVE Wins(f)'
  <2>1. exists' = [exists EXCEPT ![h] = FALSE] /\ Notify(<<h>>) /\ newest' = newest
    BY <1>3 DEF Delete
  <2>2. Target(f)
    BY <2>1 DEF Target, WatchTypeOK
  <2>3. ~exists'[h] /\ \A g \in Files : ~exists[g] => ~exists'[g]
    BY <2>1 DEF WatchTypeOK
  <2>4. \A i \in DOMAIN events' : i \in DOMAIN events \/ events'[i] = h
    BY <1>1, <2>1, NotifyPositions
  <2>5. \A i \in DOMAIN events : i \in DOMAIN events' /\ events'[i] = events[i]
    BY <1>1, <2>1, NotifyPositions
  <2> QED BY <1>1, <2>2, <2>3, <2>4, <2>5, WinsKept
<1>4. ASSUME NEW h \in Files, NEW g \in Files, Rename(h, g) PROVE Wins(f)'
  <2>1. /\ h # g /\ exists' = [exists EXCEPT ![h] = FALSE, ![g] = TRUE] /\ Notify(<<h, g>>)
        /\ newest' = [newest EXCEPT ![Problem(g)] = Language(g)]
    BY <1>4 DEF Rename
  <2>2. CASE Problem(f) = Problem(g)
    <3>1. Language(f) = Language(g)
      BY <2>1, <2>2, FileFacts DEF Target, WatchTypeOK
    <3>2. f = g
      BY <2>2, <3>1, FileFacts
    <3> QED BY <1>1, <2>1, <3>2, NotifyPositions, AnnouncedWins
  <2>3. CASE Problem(f) # Problem(g)
    <3>1. Target(f)
      BY <2>1, <2>3 DEF Target, WatchTypeOK
    <3>2. ~exists'[h] /\ \A r \in Files : r # g /\ ~exists[r] => ~exists'[r]
      BY <2>1 DEF WatchTypeOK
    <3>3. \A i \in DOMAIN events' : i \in DOMAIN events \/ events'[i] \in {h, g}
      BY <1>1, <2>1, NotifyPositions
    <3>4. \A i \in DOMAIN events : i \in DOMAIN events' /\ events'[i] = events[i]
      BY <1>1, <2>1, NotifyPositions
    <3>5. \A r : Rival(r, f) => r # g
      BY <2>3 DEF Rival
    <3> QED BY <1>1, <3>1, <3>2, <3>3, <3>4, <3>5, WinsKept
  <2> QED BY <2>2, <2>3
<1> QED BY <1>2, <1>3, <1>4 DEF UserChange

(* A sequence that loses its head. *)
LEMMA HarmlessTail ==
    ASSUME NEW seq \in Seq(Files), seq # <<>>, NEW t, t = Tail(seq), NEW f \in Files,
           NEW k \in Nat
    PROVE /\ Harmless(seq, k + 1, f) => Harmless(t, k, f)
          /\ Harmless(seq, 0, f) =>
                Harmless(t, 0, f) /\ (Rival(Head(seq), f) => ~exists[Head(seq)])
<1>1. /\ t \in Seq(Files) /\ Head(seq) = seq[1] /\ 1 \in DOMAIN seq
      /\ \A i \in DOMAIN t : i + 1 \in DOMAIN seq /\ t[i] = seq[i + 1]
  BY TailFacts
<1>2. \A i \in DOMAIN t : i \in Nat
  BY <1>1
<1> QED BY <1>1, <1>2 DEF Harmless

LEMMA LastInTail ==
    ASSUME NEW seq \in Seq(Files), seq # <<>>, NEW t, t = Tail(seq), NEW f \in Files,
           LastIn(seq, f)
    PROVE LastIn(t, f) \/ (Head(seq) = f /\ Harmless(t, 0, f))
<1>1. PICK k \in DOMAIN seq : seq[k] = f /\ Harmless(seq, k, f)
  BY DEF LastIn
<1>2. CASE k = 1
  <2>1. Harmless(seq, 0 + 1, f)
    BY <1>1, <1>2
  <2> QED BY <1>1, <1>2, <2>1, TailFacts, HarmlessTail
<1>3. CASE k # 1
  <2>1. k - 1 \in Nat /\ k - 1 \in DOMAIN t /\ t[k - 1] = f /\ Harmless(seq, (k - 1) + 1, f)
    <3>1. k > 1 /\ (k - 1) + 1 = k /\ k - 1 \in Nat
      BY <1>3
    <3> QED BY <1>1, <3>1, TailFacts
  <2>2. Harmless(t, k - 1, f)
    BY <2>1, HarmlessTail
  <2> QED BY <2>1, <2>2 DEF LastIn
<1> QED BY <1>2, <1>3

LEMMA OrderReceive ==
    ASSUME WatchTypeOK, Receive, NEW f \in Files, Wins(f)
    PROVE Wins(f)'
<1>1. /\ events \in Seq(Files) /\ events # <<>> /\ batch \in Seq(Files)
      /\ messages' = messages /\ source' = source /\ exists' = exists
  BY DEF Receive, uiVars, WatchTypeOK
<1>2. PICK e : e = Head(events)
  OBVIOUS
<1>3. PICK t : t = Tail(events)
  OBVIOUS
<1>4. PICK b : b = Merge(batch, e)
  OBVIOUS
<1>5. e \in Files /\ events' = t /\ batch' = b
  BY <1>1, <1>2, <1>3, <1>4, TailFacts DEF Receive
<1>6. Merged(batch, e, b)
  BY <1>1, <1>4, <1>5, MergeFacts
<1>7. e = f => LastIn(b, f)
  BY <1>6 DEF Merged, LastIn, Harmless
<1>8. CASE LastIn(events, f)
  <2>1. LastIn(t, f) \/ (e = f /\ Harmless(t, 0, f))
    BY <1>1, <1>2, <1>3, <1>8, LastInTail
  <2> QED BY <1>1, <1>5, <1>7, <2>1 DEF Wins, LastIn, Harmless
<1>9. CASE Harmless(events, 0, f)
  <2>1. Harmless(t, 0, f) /\ (Rival(e, f) => ~exists[e])
    <3>1. 0 \in Nat
      OBVIOUS
    <3> QED BY <1>1, <1>2, <1>3, <1>9, <3>1, HarmlessTail
  <2>2. CASE LastIn(batch, f)
    <3>1. e # f => LastIn(b, f)
      <4> SUFFICES ASSUME e # f PROVE LastIn(b, f)
        OBVIOUS
      <4>1. PICK i \in DOMAIN batch : batch[i] = f /\ Harmless(batch, i, f)
        BY <2>2 DEF LastIn
      <4>2. PICK k \in DOMAIN b :
                /\ b[k] = f
                /\ \A n \in DOMAIN b : n > k =>
                      b[n] = e \/ \E j \in DOMAIN batch : j > i /\ b[n] = batch[j]
        BY <1>6, <4>1 DEF Merged
      <4>3. Harmless(b, k, f)
        BY <2>1, <4>1, <4>2 DEF Harmless
      <4> QED BY <4>2, <4>3 DEF LastIn
    <3>2. LastIn(b, f)
      BY <1>7, <3>1
    <3> QED BY <1>1, <1>5, <2>1, <3>2 DEF Wins, LastIn, Harmless
  <2>3. CASE Harmless(batch, 0, f)
    <3>1. Harmless(b, 0, f)
      <4>1. \A j \in DOMAIN batch : j > 0
        BY <1>1
      <4> QED BY <1>6, <2>1, <2>3, <4>1 DEF Merged, Harmless
    <3>2. Harmless(events, 0, f)' /\ Harmless(batch, 0, f)'
      BY <1>1, <1>5, <2>1, <3>1 DEF Harmless
    <3>3. \A k : Undisturbed(k, f) => Undisturbed(k, f)'
      BY <1>1 DEF Undisturbed
    <3>4. CASE LastIn(batch, f)
      BY <2>2, <3>4
    <3>5. CASE \E k \in DOMAIN messages : messages[k] = Changed(f) /\ Undisturbed(k, f)
      BY <1>1, <3>2, <3>3, <3>5 DEF Wins, Changed
    <3>6. CASE source[Problem(f)] = Language(f) /\ Undisturbed(0, f)
      BY <1>1, <3>2, <3>3, <3>6 DEF Wins
    <3>7. CASE LastIn(events, f)
      BY <1>8, <3>7
    <3> QED BY <3>4, <3>5, <3>6, <3>7 DEF Wins
  <2> QED BY <1>8, <2>2, <2>3 DEF Wins
<1> QED BY <1>8, <1>9 DEF Wins

LEMMA OrderSend ==
    ASSUME WatchTypeOK, SendSourceChange, NEW f \in Files, exists[f], Wins(f)
    PROVE Wins(f)'
<1>1. PICK e : e = Head(batch)
  OBVIOUS
<1>2. PICK t : t = Tail(batch)
  OBVIOUS
<1>3. PICK m : m = IF exists[e] THEN Changed(e) ELSE Removed(e)
  OBVIOUS
<1>4. /\ batch \in Seq(Files) /\ batch # <<>> /\ batch' = t
      /\ events' = events /\ source' = source /\ exists' = exists
      /\ messages \in Seq(Message) /\ messages' = Append(messages, m)
  BY <1>1, <1>2, <1>3 DEF SendSourceChange, NextPath, Report, diskVars, WatchTypeOK
<1>5. e \in Files /\ m \in Message
  BY <1>1, <1>3, <1>4, TailFacts, MessageFacts
<1>6. /\ Len(messages') \in DOMAIN messages' /\ messages'[Len(messages')] = m
      /\ \A i \in DOMAIN messages : i \in DOMAIN messages' /\ messages'[i] = messages[i]
      /\ \A i \in DOMAIN messages' : i \in DOMAIN messages \/ i = Len(messages')
      /\ \A i \in DOMAIN messages' : ~(i > Len(messages'))
  <2>1. /\ messages' \in Seq(Message)
        /\ Len(messages') \in DOMAIN messages' /\ messages'[Len(messages')] = m
        /\ \A i \in DOMAIN messages : i \in DOMAIN messages' /\ messages'[i] = messages[i]
        /\ \A i \in DOMAIN messages' : i \in DOMAIN messages \/ i = Len(messages')
    BY <1>4, <1>5, AppendFacts
  <2>2. \A i \in DOMAIN messages' : ~(i > Len(messages'))
    BY <2>1
  <2> QED BY <2>1, <2>2
<1>7. \A k : Harmless(events, k, f) => Harmless(events, k, f)'
  BY <1>4 DEF Harmless
<1>8. CASE LastIn(events, f)
  BY <1>4, <1>7, <1>8 DEF Wins, LastIn
<1>9. CASE Harmless(events, 0, f) /\ LastIn(batch, f)
  <2>1. LastIn(t, f) \/ (e = f /\ Harmless(t, 0, f))
    BY <1>1, <1>2, <1>4, <1>9, LastInTail
  <2>2. CASE LastIn(t, f)
    <3>1. LastIn(batch, f)'
      BY <1>4, <2>2 DEF LastIn, Harmless
    <3> QED BY <1>7, <1>9, <3>1 DEF Wins
  <2>3. CASE e = f /\ Harmless(t, 0, f)
    <3>1. m = Changed(f)
      BY <1>3, <2>3
    <3>2. PICK n : n = Len(messages')
      OBVIOUS
    <3>3. n \in DOMAIN messages' /\ messages'[n] = Changed(f) /\ Undisturbed(n, f)'
      BY <1>6, <3>1, <3>2 DEF Undisturbed
    <3>4. Harmless(batch, 0, f)'
      <4>1. batch' = t /\ exists' = exists /\ Harmless(t, 0, f)
        BY <1>4, <2>3
      <4> QED BY <4>1 DEF Harmless
    <3> QED BY <1>7, <1>9, <3>3, <3>4 DEF Wins, Changed
  <2> QED BY <2>1, <2>2, <2>3
<1>10. CASE Harmless(events, 0, f) /\ Harmless(batch, 0, f)
  <2>1. Harmless(t, 0, f) /\ (Rival(e, f) => ~exists[e])
    <3>1. 0 \in Nat
      OBVIOUS
    <3> QED BY <1>1, <1>2, <1>4, <1>10, <3>1, HarmlessTail
  <2>2. m # Removed(f)
    BY <1>3, <1>5, MessageFacts
  <2>3. \A g \in Files : Rival(g, f) => m # Changed(g)
    BY <1>3, <1>5, <2>1, MessageFacts
  <2>4. \A k : Undisturbed(k, f) => Undisturbed(k, f)'
    BY <1>6, <2>2, <2>3 DEF Undisturbed, Changed, Removed
  <2>5. Harmless(events, 0, f)' /\ Harmless(batch, 0, f)'
    BY <1>4, <1>7, <1>10, <2>1 DEF Harmless
  <2>6. CASE \E k \in DOMAIN messages : messages[k] = Changed(f) /\ Undisturbed(k, f)
    BY <1>6, <2>4, <2>5, <2>6 DEF Wins, Changed
  <2>7. CASE source[Problem(f)] = Language(f) /\ Undisturbed(0, f)
    BY <1>4, <2>4, <2>5, <2>7 DEF Wins
  <2> QED BY <1>8, <1>9, <1>10, <2>6, <2>7 DEF Wins
<1> QED BY <1>8, <1>9, <1>10 DEF Wins

(* What the rest of the messages does to the selection. *)
LEMMA UndisturbedTail ==
    ASSUME WatchTypeOK, messages # <<>>, messages' = Tail(messages), NEW f \in Files
    PROVE /\ \A k \in Nat : Undisturbed(k + 1, f) => Undisturbed(k, f)'
          /\ Undisturbed(0, f) =>
                /\ Undisturbed(0, f)'
                /\ Head(messages) # Removed(f)
                /\ \A g \in Files : Rival(g, f) => Head(messages) # Changed(g)
<1>1. /\ messages \in Seq(Message) /\ Head(messages) = messages[1] /\ 1 \in DOMAIN messages
      /\ messages' \in Seq(Message)
      /\ \A i \in DOMAIN messages' : i + 1 \in DOMAIN messages /\ messages'[i] = messages[i + 1]
  BY TailFacts DEF WatchTypeOK
<1>2. \A i \in DOMAIN messages' : i \in Nat /\ i + 1 > 0
  BY <1>1
<1>3. ASSUME NEW k \in Nat, Undisturbed(k + 1, f) PROVE Undisturbed(k, f)'
  BY <1>1, <1>2, <1>3 DEF Undisturbed, Changed, Removed
<1>4. ASSUME Undisturbed(0, f)
      PROVE /\ Undisturbed(0, f)'
            /\ Head(messages) # Removed(f)
            /\ \A g \in Files : Rival(g, f) => Head(messages) # Changed(g)
  <2>1. Undisturbed(0, f)'
    BY <1>1, <1>2, <1>4 DEF Undisturbed, Changed, Removed
  <2>2. messages[1] # Removed(f) /\ \A g \in Files : Rival(g, f) => messages[1] # Changed(g)
    BY <1>1, <1>4 DEF Undisturbed
  <2> QED BY <1>1, <2>1, <2>2
<1> QED BY <1>3, <1>4

LEMMA OrderHandle ==
    ASSUME WatchTypeOK, HandleChanged \/ HandleRemoved, NEW f \in Files, Wins(f)
    PROVE Wins(f)'
<1>1. PICK m : m = Head(messages)
  OBVIOUS
<1>2. /\ messages \in Seq(Message) /\ messages # <<>> /\ messages' = Tail(messages)
      /\ events' = events /\ batch' = batch /\ exists' = exists
  BY DEF HandleChanged, HandleRemoved, diskVars, watcherVars, WatchTypeOK
<1>3. /\ m \in Message /\ m = messages[1] /\ m.file \in Files
      /\ m = Changed(m.file) \/ m = Removed(m.file)
  <2>1. m \in Message /\ m = messages[1] /\ m.type \in {"SourceChanged", "SourceRemoved"}
    BY <1>1, <1>2, TailFacts DEF HandleChanged, HandleRemoved
  <2> QED BY <2>1, MessageKinds
<1>4. (\A k : Harmless(events, k, f) => Harmless(events, k, f)')
      /\ (\A k : Harmless(batch, k, f) => Harmless(batch, k, f)')
  BY <1>2 DEF Harmless
<1>5. CASE LastIn(events, f)
  BY <1>2, <1>4, <1>5 DEF Wins, LastIn
<1>6. CASE Harmless(events, 0, f) /\ LastIn(batch, f)
  BY <1>2, <1>4, <1>6 DEF Wins, LastIn
<1>7. CASE /\ Harmless(events, 0, f) /\ Harmless(batch, 0, f)
           /\ \E k \in DOMAIN messages : messages[k] = Changed(f) /\ Undisturbed(k, f)
  <2>1. PICK k \in DOMAIN messages : messages[k] = Changed(f) /\ Undisturbed(k, f)
    BY <1>7
  <2>2. CASE k = 1
    <3>1. m = Changed(f)
      BY <1>3, <2>1, <2>2
    <3>2. m.file = f /\ m.type = "SourceChanged"
      BY <3>1, MessageFacts
    <3>3. source'[Problem(f)] = Language(f)
      BY <1>1, <3>2, FileFacts DEF HandleChanged, HandleRemoved, WatchTypeOK
    <3>4. Undisturbed(0, f)'
      <4>1. Undisturbed(0 + 1, f)
        BY <2>1, <2>2
      <4> QED BY <1>2, <4>1, UndisturbedTail
    <3> QED BY <1>4, <1>7, <3>3, <3>4 DEF Wins
  <2>3. CASE k # 1
    <3>1. k - 1 \in Nat /\ (k - 1) + 1 = k /\ k > 1
      BY <1>2, <2>1, <2>3
    <3>2. k - 1 \in DOMAIN messages' /\ messages'[k - 1] = Changed(f)
      BY <1>2, <2>1, <3>1, TailFacts
    <3>3. Undisturbed(k - 1, f)'
      BY <1>2, <2>1, <3>1, UndisturbedTail
    <3> QED BY <1>4, <1>7, <3>2, <3>3 DEF Wins, Changed
  <2> QED BY <2>2, <2>3
<1>8. CASE /\ Harmless(events, 0, f) /\ Harmless(batch, 0, f)
           /\ source[Problem(f)] = Language(f) /\ Undisturbed(0, f)
  <2>1. /\ Undisturbed(0, f)' /\ m # Removed(f)
        /\ \A g \in Files : Rival(g, f) => m # Changed(g)
    BY <1>1, <1>2, <1>8, UndisturbedTail
  <2>2. CASE m = Changed(m.file)
    <3>1. source' = [source EXCEPT ![Problem(m.file)] = Language(m.file)]
      BY <1>1, <1>3, <2>2, MessageFacts DEF HandleChanged, HandleRemoved
    <3>2. m.file = f \/ Problem(m.file) # Problem(f)
      BY <1>3, <2>1, <2>2 DEF Rival
    <3>3. source'[Problem(f)] = Language(f)
      BY <1>8, <3>1, <3>2, FileFacts DEF WatchTypeOK
    <3> QED BY <1>4, <1>8, <2>1, <3>3 DEF Wins
  <2>3. CASE m = Removed(m.file)
    <3>1. source' = [source EXCEPT ![Problem(m.file)] =
                                       IF @ = Language(m.file) THEN NoSource ELSE @]
      BY <1>1, <1>3, <2>3, MessageFacts DEF HandleChanged, HandleRemoved
    <3>2. m.file # f
      BY <2>1, <2>3
    <3>3. Problem(m.file) = Problem(f) => Language(m.file) # Language(f)
      BY <1>3, <3>2, FileFacts
    <3>4. source'[Problem(f)] = Language(f)
      BY <1>8, <3>1, <3>3, FileFacts DEF WatchTypeOK
    <3> QED BY <1>4, <1>8, <2>1, <3>4 DEF Wins
  <2> QED BY <1>3, <2>2, <2>3
<1> QED BY <1>5, <1>6, <1>7, <1>8 DEF Wins

(* The steps that move nothing that is on its way. *)
LEMMA OrderQuiet ==
    ASSUME WatchTypeOK, NEW f \in Files, Wins(f),
           events' = events, batch' = batch, messages' = messages, exists' = exists,
           source'[Problem(f)] = source[Problem(f)]
    PROVE Wins(f)'
BY WinsKept

LEMMA NextOrder ==
    ASSUME WatchTypeOK, OrderInv, [Next]_vars, WatchTypeOK'
    PROVE OrderInv'
<1> SUFFICES ASSUME Live', NEW f \in Files, Target(f)' PROVE Wins(f)'
  <2>1. ASSUME Live', NEW p \in Problems, NEW f, f = <<p, newest'[p]>>,
               newest'[p] # NoSource, exists'[f]
        PROVE f \in Files /\ Target(f)'
    <3>1. newest'[p] \in Languages
      BY <2>1 DEF WatchTypeOK
    <3> QED BY <2>1, <3>1, PairFacts DEF Target
  <2> QED BY <2>1 DEF OrderInv
<1>2. Live
  <2>1. CASE UserChange
    BY <2>1 DEF UserChange, Save, Delete, Rename, watcherVars, Live
  <2>2. CASE UserInput
    BY <2>2 DEF UserInput, Quit, OpenExisting, CreateMissing, watcherVars, Live
  <2>3. CASE Receive \/ CloseBatch \/ Deliver \/ WatcherFails
    BY <2>3 DEF Receive, CloseBatch, Deliver, SendSourceChange, TestPath, WatcherFails, Live
  <2>4. CASE Handle \/ UiStep \/ UNCHANGED vars
    BY <2>4 DEF Handle, HandleChanged, HandleRemoved, HandleWatcherFailed, UiStep,
                CreateSource, SelectSource, EditorExits, vars, watcherVars, Live
  <2> QED BY <2>1, <2>2, <2>3, <2>4 DEF Next
<1>3. \A g \in Files : Target(g) => Wins(g)
  BY <1>2, TargetsWin
<1>4. newest' = newest /\ exists' = exists => Target(f) /\ Wins(f) /\ exists[f]
  BY <1>3 DEF Target
<1>5. CASE UserChange
  BY <1>2, <1>3, <1>5, OrderUserChange
<1>6. CASE Receive
  <2>1. newest' = newest /\ exists' = exists
    BY <1>6 DEF Receive
  <2> QED BY <1>4, <1>6, <2>1, OrderReceive
<1>7. CASE SendSourceChange
  <2>1. newest' = newest /\ exists' = exists
    BY <1>7 DEF SendSourceChange, diskVars
  <2> QED BY <1>4, <1>7, <2>1, OrderSend
<1>8. CASE HandleChanged \/ HandleRemoved
  <2>1. newest' = newest /\ exists' = exists
    BY <1>8 DEF HandleChanged, HandleRemoved, diskVars
  <2> QED BY <1>4, <1>8, <2>1, OrderHandle
<1>9. CASE CreateSource
  <2>1. ui.file \in Files /\ batch' = batch /\ messages' = messages /\ source' = source
    BY <1>9 DEF CreateSource, watcherVars, WatchTypeOK, Idle
  <2>2. CASE UNCHANGED diskVars
    BY <1>4, <2>1, <2>2, OrderQuiet DEF diskVars
  <2>3. CASE /\ exists' = [exists EXCEPT ![ui.file] = TRUE] /\ Notify(<<ui.file>>)
             /\ newest' = [newest EXCEPT ![Problem(ui.file)] = Language(ui.file)]
    BY <1>2, <1>3, <2>1, <2>3, AppearanceWins DEF Live
  <2> QED BY <1>9, <2>2, <2>3 DEF CreateSource
<1>10. CASE SelectSource
  <2>1. /\ ui.file \in Files /\ events' = events /\ batch' = batch /\ messages' = messages
        /\ exists' = exists
        /\ source' = [source EXCEPT ![Problem(ui.file)] = Language(ui.file)]
        /\ newest' = [newest EXCEPT ![Problem(ui.file)] = NoSource]
    BY <1>10 DEF SelectSource, watcherVars, WatchTypeOK, Idle
  <2>2. Problem(f) # Problem(ui.file)
    BY <2>1, FileFacts DEF Target, WatchTypeOK
  <2>3. Target(f) /\ source'[Problem(f)] = source[Problem(f)]
    BY <2>1, <2>2, FileFacts DEF Target, WatchTypeOK
  <2> QED BY <1>3, <2>1, <2>3, OrderQuiet
<1>11. CASE EditorExits \/ CloseBatch \/ Quit \/ UNCHANGED vars
            \/ \E g \in Files : OpenExisting(g) \/ CreateMissing(g)
  <2>1. /\ events' = events /\ batch' = batch /\ messages' = messages /\ exists' = exists
        /\ newest' = newest /\ source' = source
    BY <1>11 DEF EditorExits, CloseBatch, Quit, OpenExisting, CreateMissing,
                 vars, diskVars, watcherVars, uiVars
  <2> QED BY <1>4, <2>1, OrderQuiet
<1>12. CASE TestPath \/ WatcherFails \/ HandleWatcherFailed
  <2>1. ~Live'
    BY <1>12 DEF TestPath, WatcherFails, HandleWatcherFailed, Live
  <2> QED BY <2>1
<1> QED BY <1>5, <1>6, <1>7, <1>8, <1>9, <1>10, <1>11, <1>12
        DEF Next, UserInput, Deliver, Handle, UiStep

(* LastSaveWins: once everything on its way has been handled, the selected *)
(* source of a problem is the one the user saved last.                     *)
THEOREM TheLastSaveWins == Spec => []LastSaveWins
<1>1. Init => WatchTypeOK /\ OrderInv
  <2>1. Init => OrderInv
    BY DEF Init, OrderInv
  <2> QED BY <2>1, InitType
<1>2. WatchTypeOK /\ OrderInv /\ [Next]_vars => (WatchTypeOK /\ OrderInv)'
  BY NextType, NextOrder
<1>3. WatchTypeOK /\ OrderInv => LastSaveWins
  <2> SUFFICES ASSUME WatchTypeOK, OrderInv, Live, Quiet, NEW p \in Problems,
                      newest[p] # NoSource, exists[<<p, newest[p]>>]
               PROVE source[p] = newest[p]
    BY DEF LastSaveWins
  <2>1. Wins(<<p, newest[p]>>)
    BY DEF OrderInv
  <2>2. DOMAIN events = {} /\ DOMAIN batch = {} /\ DOMAIN messages = {}
    BY DEF Quiet
  <2>3. source[Problem(<<p, newest[p]>>)] = Language(<<p, newest[p]>>)
    BY <2>1, <2>2 DEF Wins, LastIn
  <2> QED BY <2>3 DEF Problem, Language
<1> QED BY <1>1, <1>2, <1>3, PTL DEF Spec

===============================================================================
