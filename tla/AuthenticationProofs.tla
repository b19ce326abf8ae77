-------------------------- MODULE AuthenticationProofs --------------------------
(****************************************************************************)
(* Proofs about the credential store and the Authentication screen, for any *)
(* number of threads, logins, rotations and troubles.                       *)
(*                                                                          *)
(* That only successors replace needs to know of a thread between the       *)
(* decision of mutate_if_current and its rename that it holds the lock, and *)
(* that the file still holds what the thread compared it with, unless a     *)
(* program that ignores the lock changed it: the invariant StoreInv.        *)
(****************************************************************************)
EXTENDS Authentication, TLAPS

(* A thread t with the state r, when the file holds c and l has the lock: in *)
(* a critical section it is l; what it persists is not empty, and what it    *)
(* swaps expects c; what it saves is a login.                                *)
Safe(t, r, c, l, hit) ==
    /\ r.pc \in {"swap", "publish", "readback"} => l = t
    /\ r.pc \in {"persist", "swap"} => r.pending # <<>>
    /\ r.pc = "swap" /\ ~hit => c = Head(r.pending).old
    /\ r.pc \in {"lock", "publish"} => r.purpose # "Write" \/ r.login \in Logins
    /\ r.pc = "readback" => r.login \in Logins
StoreInv == \A t \in Workers : Safe(t, thread[t], cookie, lock, raced)

IInv == AuthenticationTypeOK /\ StoreInv

-------------------------------------------------------------------------------
(* A thread that is off is safe, and so is one that does nothing with the    *)
(* store yet.                                                                *)
LEMMA NoThreadTyped == NoThread \in Threads
  BY AuthenticationAssumption DEF NoThread, Threads, Values

LEMMA TaskTyped ==
    ASSUME NEW purpose \in {"Inspection", "Verification", "Write", "Reset"},
           NEW pc \in {"lock", "fresh", "sent", "done"}
    PROVE Task(purpose, pc) \in Threads
  BY NoThreadTyped DEF Task, Threads, NoThread

LEMMA SessionTyped ==
    ASSUME NEW r \in Threads, NEW v \in Values
    PROVE /\ WithSession(r, v) \in Threads
          /\ WithSession(r, v).pc = "sent"
<1>1. <<>> \in Seq(Changes)
  OBVIOUS
<1> QED BY <1>1 DEF WithSession, Threads

(* The step of one thread, which holds the lock or changes nothing of the    *)
(* store, leaves the others safe.                                            *)
LEMMA OneThread ==
    ASSUME IInv, NEW t \in Workers, NEW r \in Threads,
           thread' = [thread EXCEPT ![t] = r],
           Safe(t, r, cookie', lock', raced'), raced' = raced,
           UNCHANGED <<cookie, lock>> \/ lock \in {None, t}
    PROVE thread' \in [Workers -> Threads] /\ StoreInv'
<1>1. thread \in [Workers -> Threads]
  BY DEF IInv, AuthenticationTypeOK
<1>2. thread' \in [Workers -> Threads]
  BY <1>1
<1>3. \A u \in Workers : u # None
  BY AuthenticationAssumption
<1>4. ASSUME NEW u \in Workers PROVE Safe(u, thread'[u], cookie', lock', raced')
  <2>1. CASE u = t
    BY <2>1, <1>1
  <2>2. CASE u # t /\ UNCHANGED <<cookie, lock>>
    BY <2>2, <1>1 DEF IInv, StoreInv
  <2>3. CASE u # t /\ lock \in {None, t}
    <3>1. thread'[u] = thread[u] /\ Safe(u, thread[u], cookie, lock, raced)
      BY <2>3, <1>1 DEF IInv, StoreInv
    <3> QED BY <3>1, <2>3, <1>3 DEF Safe
  <2> QED BY <2>1, <2>2, <2>3
<1> QED BY <1>2, <1>4 DEF StoreInv

LEMMA InitInv == Init => IInv
<1> SUFFICES ASSUME Init PROVE IInv
  OBVIOUS
<1>1. AuthenticationTypeOK
  <2>1. \A l \in Logins : Pasted(l) \in Credentials
    BY AuthenticationAssumption DEF Pasted, Credentials
  <2>2. cookie \in Values \ {None}
    BY <2>1, AuthenticationAssumption DEF Init, Values, Credentials
  <2>3. Closed \in Screens
    <3>1. {} \in SUBSET Values /\ None \in Values
      BY DEF Values
    <3> QED BY <3>1 DEF Closed, Screens
  <2>4. thread \in [Workers -> Threads]
    BY NoThreadTyped DEF Init
  <2>5. lock \in Workers \cup {None} /\ screen \in Screens /\ raced \in BOOLEAN
    BY <2>3 DEF Init
  <2>6. issued \in 0..MaxIssued /\ outside \in Nat /\ faults \in Nat
    BY AuthenticationAssumption DEF Init
  <2> QED BY <2>2, <2>4, <2>5, <2>6 DEF AuthenticationTypeOK
<1>2. StoreInv
  BY NoThreadTyped DEF Init, StoreInv, Safe, NoThread
<1> QED BY <1>1, <1>2 DEF IInv

-------------------------------------------------------------------------------
(* The steps of a thread.                                                    *)
LEMMA NextPendingSafe ==
    ASSUME IInv, NEW t \in Workers, NextPending(t), thread[t].pending # <<>>,
           raced' = raced, UNCHANGED <<cookie, lock>> \/ lock \in {None, t}
    PROVE thread' \in [Workers -> Threads] /\ StoreInv'
<1> DEFINE rest == Tail(thread[t].pending)
           r == [thread[t] EXCEPT !.pending = rest,
                                  !.pc = IF rest = <<>> THEN "fresh" ELSE "persist"]
<1>1. thread[t] \in Threads /\ thread[t].pending \in Seq(Changes)
  BY DEF IInv, AuthenticationTypeOK, Threads
<1>2. rest \in Seq(Changes)
  BY <1>1
<1>3. r \in Threads /\ r.pc \in {"fresh", "persist"} /\ r.pending = rest
      /\ (r.pc = "persist" => rest # <<>>)
  <2> HIDE DEF rest
  <2> QED BY <1>1, <1>2 DEF Threads
<1>4. thread' = [thread EXCEPT ![t] = r]
  BY DEF NextPending, Become
<1>5. Safe(t, r, cookie', lock', raced')
  <2> HIDE DEF r
  <2> QED BY <1>3 DEF Safe
<1> HIDE DEF r
<1> QED BY <1>3, <1>4, <1>5, OneThread

(* A thread goes to a state in which it needs nothing of the store.          *)
LEMMA CalmThread ==
    ASSUME IInv, NEW t \in Workers, NEW r \in Threads,
           r.pc \in {"off", "sent", "fresh", "done", "dead", "reload"},
           Become(t, r), raced' = raced,
           UNCHANGED <<cookie, lock>> \/ lock \in {None, t}
    PROVE thread' \in [Workers -> Threads] /\ StoreInv'
<1>1. Safe(t, r, cookie', lock', raced')
  BY DEF Safe
<1> QED BY <1>1, OneThread DEF Become

LEMMA AfterFailureTyped ==
    ASSUME IInv, NEW t \in Workers
    PROVE AfterFailure(t) \in Threads /\ AfterFailure(t).pc \in {"reload", "fresh"}
<1>1. thread[t] \in Threads
  BY DEF IInv, AuthenticationTypeOK
<1> QED BY <1>1 DEF AfterFailure, Threads

(* What a step of a thread leaves alone.                                     *)
LEMMA ThreadFrame ==
    ASSUME IInv, thread' \in [Workers -> Threads] /\ StoreInv', Frame,
           cookie' \in Values \ {None}, lock' \in Workers \cup {None},
           issued' \in 0..MaxIssued, Calm \/ Faulty
    PROVE IInv'
<1>1. faults' \in Nat
  BY DEF IInv, AuthenticationTypeOK, Calm, Faulty
<1>2. screen' \in Screens /\ raced' \in BOOLEAN /\ outside' \in Nat
  BY DEF IInv, AuthenticationTypeOK, Frame
<1> QED BY <1>1, <1>2 DEF IInv, AuthenticationTypeOK

LEMMA Typed ==
    ASSUME IInv, NEW t \in Workers
    PROVE /\ cookie \in Values \ {None} /\ lock \in Workers \cup {None} /\ issued \in 0..MaxIssued
          /\ thread[t] \in Threads /\ thread[t].pending \in Seq(Changes)
          /\ Safe(t, thread[t], cookie, lock, raced)
  BY DEF IInv, AuthenticationTypeOK, StoreInv, Threads

LEMMA ConstantsDiffer ==
    /\ None \notin Credentials /\ Missing \notin Credentials /\ Malformed \notin Credentials
    /\ None # Missing /\ None # Malformed /\ None \notin Workers /\ None \notin Logins
  BY AuthenticationAssumption DEF Credentials

LEMMA MutationTyped ==
    ASSUME NEW r \in Threads, r.pc = "sent",
           NEW old \in Credentials, NEW new \in Credentials \cup {Missing}
    PROVE LET after == [r EXCEPT !.current = new,
                                 !.pending = Append(@, [old |-> old, new |-> new])]
          IN after \in Threads /\ after.pc = "sent"
<1>1. [old |-> old, new |-> new] \in Changes /\ new \in Values
  BY DEF Changes, Values
<1>2. r.pending \in Seq(Changes)
  BY DEF Threads
<1>3. Append(r.pending, [old |-> old, new |-> new]) \in Seq(Changes)
  BY <1>1, <1>2
<1> QED BY <1>1, <1>3 DEF Threads

LEMMA RotateInv ==
    ASSUME IInv, NEW t \in Workers, Rotate(t)
    PROVE IInv'
<1> DEFINE old == thread[t].current
           new == [login |-> old.login, n |-> issued + 1]
           r == [thread[t] EXCEPT !.current = new,
                                  !.pending = Append(@, [old |-> old, new |-> new])]
<1>1. old \in Credentials /\ thread[t].pc = "sent" /\ issued < MaxIssued /\ issued' = issued + 1
  BY DEF Rotate, IsCredential
<1>2. issued' \in 0..MaxIssued
  BY <1>1, Typed, AuthenticationAssumption
<1>3. new \in Credentials
  BY <1>1, <1>2 DEF Credentials
<1>4. Become(t, r) /\ Frame /\ UNCHANGED <<cookie, lock>> /\ Calm
  BY DEF Rotate, Calm
<1>5. r \in Threads /\ r.pc = "sent"
  <2> HIDE DEF new, old
  <2> QED BY <1>1, <1>3, Typed, MutationTyped
<1>6. thread' \in [Workers -> Threads] /\ StoreInv'
  <2> HIDE DEF r
  <2> QED BY <1>4, <1>5, CalmThread DEF Frame
<1> QED BY <1>2, <1>4, <1>6, Typed, ThreadFrame

LEMMA DeleteInv ==
    ASSUME IInv, NEW t \in Workers, Delete(t)
    PROVE IInv'
<1> DEFINE old == thread[t].current
           r == [thread[t] EXCEPT !.current = Missing,
                                  !.pending = Append(@, [old |-> old, new |-> Missing])]
<1>1. old \in Credentials /\ thread[t].pc = "sent" /\ issued' = issued
  BY DEF Delete, IsCredential
<1>2. Become(t, r) /\ Frame /\ UNCHANGED <<cookie, lock>> /\ Calm
  BY DEF Delete, Calm
<1>3. r \in Threads /\ r.pc = "sent"
  <2> HIDE DEF old
  <2> QED BY <1>1, Typed, MutationTyped
<1>4. thread' \in [Workers -> Threads] /\ StoreInv'
  <2> HIDE DEF r
  <2> QED BY <1>2, <1>3, CalmThread DEF Frame
<1> QED BY <1>1, <1>2, <1>4, Typed, ThreadFrame

LEMMA AnswerInv ==
    ASSUME IInv, NEW t \in Workers, NEW verdict \in Verdicts, Answer(t, verdict)
    PROVE IInv'
<1> DEFINE r == [thread[t] EXCEPT
                    !.verdict = IF Listened(t) THEN verdict ELSE None,
                    !.pc = IF thread[t].pending = <<>> THEN "fresh" ELSE "persist"]
<1>1. Become(t, r) /\ Frame /\ UNCHANGED <<cookie, lock, issued>> /\ Calm
  BY DEF Answer, Calm
<1>2. thread[t] \in Threads
  BY Typed
<1>3. r \in Threads /\ r.pc \in {"fresh", "persist"} /\ (r.pc = "persist" => r.pending # <<>>)
  BY <1>2 DEF Threads
<1>4. Safe(t, r, cookie', lock', raced')
  <2> HIDE DEF r
  <2> QED BY <1>3 DEF Safe
<1>5. thread' \in [Workers -> Threads] /\ StoreInv'
  <2> HIDE DEF r
  <2> QED BY <1>1, <1>3, <1>4, OneThread DEF Become, Frame
<1> QED BY <1>1, <1>5, Typed, ThreadFrame

LEMMA GoTyped ==
    ASSUME NEW r \in Threads,
           NEW pc \in {"off", "sent", "persist", "swap", "lock", "publish", "readback", "reload",
                       "fresh", "done", "dead"}
    PROVE LET after == [r EXCEPT !.pc = pc]
          IN  /\ after \in Threads /\ after.pc = pc /\ after.pending = r.pending
              /\ after.purpose = r.purpose /\ after.login = r.login
  BY DEF Threads

LEMMA PersistInv ==
    ASSUME IInv, NEW t \in Workers, Persist(t)
    PROVE IInv'
<1>1. /\ thread[t].pc = "persist" /\ thread[t].pending # <<>> /\ UNCHANGED <<cookie, issued>>
      /\ Frame /\ raced' = raced
  BY Typed DEF Persist, Frame, Safe
<1>2. CASE lock = None /\ HoldsExpected(Head(thread[t].pending)) /\ lock' = t /\ Go(t, "swap") /\ Calm
  <2> DEFINE r == [thread[t] EXCEPT !.pc = "swap"]
  <2>1. r \in Threads /\ r.pc = "swap" /\ r.pending = thread[t].pending
    BY Typed, GoTyped
  <2>2. Safe(t, r, cookie', lock', raced')
    <3> HIDE DEF r
    <3> QED BY <1>1, <1>2, <2>1 DEF Safe, HoldsExpected
  <2>3. thread' = [thread EXCEPT ![t] = r]
    BY <1>2 DEF Go, Become
  <2>4. thread' \in [Workers -> Threads] /\ StoreInv'
    <3> HIDE DEF r
    <3> QED BY <1>1, <1>2, <2>1, <2>2, <2>3, OneThread
  <2> QED BY <1>1, <1>2, <2>4, Typed, ThreadFrame
<1>3. CASE NextPending(t) /\ (Calm \/ Faulty) /\ UNCHANGED lock
  <2>1. thread' \in [Workers -> Threads] /\ StoreInv'
    BY <1>1, <1>3, NextPendingSafe
  <2> QED BY <1>1, <1>3, <2>1, Typed, ThreadFrame
<1> QED BY <1>2, <1>3 DEF Persist

LEMMA SwapInv ==
    ASSUME IInv, NEW t \in Workers, Swap(t)
    PROVE IInv'
<1>1. /\ thread[t].pending # <<>> /\ lock = t /\ lock' = None /\ NextPending(t)
      /\ issued' = issued /\ Frame /\ raced' = raced
  BY Typed DEF Swap, Safe, Frame
<1>2. Head(thread[t].pending) \in Changes
  BY <1>1, Typed
<1>3. Head(thread[t].pending).new \in Values \ {None}
  BY <1>2, ConstantsDiffer DEF Changes, Values
<1>4. cookie' \in Values \ {None} /\ (Calm \/ Faulty)
  BY <1>3, Typed DEF Swap
<1>5. thread' \in [Workers -> Threads] /\ StoreInv'
  BY <1>1, NextPendingSafe
<1> QED BY <1>1, <1>4, <1>5, Typed, ThreadFrame

LEMMA AcquireInv ==
    ASSUME IInv, NEW t \in Workers, Acquire(t)
    PROVE IInv'
<1>1. thread[t].pc = "lock" /\ lock = None /\ UNCHANGED <<cookie, issued, faults>> /\ Frame /\ raced' = raced
  BY DEF Acquire, Frame
<1>2. CASE Go(t, "fresh") /\ UNCHANGED lock
  <2>1. [thread[t] EXCEPT !.pc = "fresh"] \in Threads /\ [thread[t] EXCEPT !.pc = "fresh"].pc = "fresh"
    BY Typed, GoTyped
  <2>2. thread' \in [Workers -> Threads] /\ StoreInv'
    BY <1>1, <1>2, <2>1, CalmThread DEF Go
  <2> QED BY <1>1, <1>2, <2>2, Typed, ThreadFrame DEF Calm
<1>3. CASE Go(t, "publish") /\ lock' = t
  <2> DEFINE r == [thread[t] EXCEPT !.pc = "publish"]
  <2>1. r \in Threads /\ r.pc = "publish" /\ r.purpose = thread[t].purpose /\ r.login = thread[t].login
    BY Typed, GoTyped
  <2>2. Safe(t, r, cookie', lock', raced')
    <3> HIDE DEF r
    <3> QED BY <1>1, <1>3, <2>1, Typed DEF Safe
  <2>3. thread' = [thread EXCEPT ![t] = r]
    BY <1>3 DEF Go, Become
  <2>4. thread' \in [Workers -> Threads] /\ StoreInv'
    <3> HIDE DEF r
    <3> QED BY <1>1, <2>1, <2>2, <2>3, OneThread
  <2> QED BY <1>1, <1>3, <2>4, Typed, ThreadFrame DEF Calm
<1> QED BY <1>2, <1>3 DEF Acquire

LEMMA CannotAcquireInv ==
    ASSUME IInv, NEW t \in Workers, CannotAcquire(t)
    PROVE IInv'
<1>1. Become(t, AfterFailure(t)) /\ Faulty /\ UNCHANGED <<cookie, lock, issued>> /\ Frame /\ raced' = raced
  BY DEF CannotAcquire, Frame
<1>2. thread' \in [Workers -> Threads] /\ StoreInv'
  BY <1>1, AfterFailureTyped, CalmThread
<1> QED BY <1>1, <1>2, Typed, ThreadFrame

LEMMA PublishInv ==
    ASSUME IInv, NEW t \in Workers, Publish(t)
    PROVE IInv'
<1>1. /\ thread[t].pc = "publish" /\ lock = t /\ UNCHANGED issued /\ Frame /\ raced' = raced
      /\ (thread[t].purpose = "Write" => thread[t].login \in Logins)
  BY Typed DEF Publish, Safe, Frame
<1>2. cookie' \in Values \ {None}
  <2>1. thread[t].purpose = "Write" => Pasted(thread[t].login) \in Credentials
    BY <1>1, AuthenticationAssumption DEF Pasted, Credentials
  <2> QED BY <2>1, Typed, ConstantsDiffer DEF Publish, Values
<1>3. CASE thread[t].purpose = "Write" /\ Calm /\ Go(t, "readback") /\ UNCHANGED lock
  <2> DEFINE r == [thread[t] EXCEPT !.pc = "readback"]
  <2>1. r \in Threads /\ r.pc = "readback" /\ r.login = thread[t].login
    BY Typed, GoTyped
  <2>2. Safe(t, r, cookie', lock', raced')
    <3> HIDE DEF r
    <3> QED BY <1>1, <1>3, <2>1 DEF Safe
  <2>3. thread' = [thread EXCEPT ![t] = r]
    BY <1>3 DEF Go, Become
  <2>4. thread' \in [Workers -> Threads] /\ StoreInv'
    <3> HIDE DEF r
    <3> QED BY <1>1, <2>1, <2>2, <2>3, OneThread
  <2> QED BY <1>1, <1>2, <1>3, <2>4, Typed, ThreadFrame
<1>4. CASE Calm /\ Go(t, "fresh") /\ lock' = None
  <2>1. [thread[t] EXCEPT !.pc = "fresh"] \in Threads /\ [thread[t] EXCEPT !.pc = "fresh"].pc = "fresh"
    BY Typed, GoTyped
  <2>2. thread' \in [Workers -> Threads] /\ StoreInv'
    BY <1>1, <1>4, <2>1, CalmThread DEF Go
  <2> QED BY <1>1, <1>2, <1>4, <2>2, Typed, ThreadFrame
<1>5. CASE Faulty /\ Become(t, AfterFailure(t)) /\ lock' = None
  <2>1. thread' \in [Workers -> Threads] /\ StoreInv'
    BY <1>1, <1>5, AfterFailureTyped, CalmThread
  <2> QED BY <1>1, <1>2, <1>5, <2>1, Typed, ThreadFrame
<1> QED BY <1>3, <1>4, <1>5 DEF Publish

LEMMA ReadBackInv ==
    ASSUME IInv, NEW t \in Workers, ReadBack(t)
    PROVE IInv'
<1>1. /\ lock = t /\ lock' = None /\ UNCHANGED <<cookie, issued, faults>> /\ Frame /\ raced' = raced
  BY Typed DEF ReadBack, Safe, Frame
<1>2. CASE Become(t, WithSession([thread[t] EXCEPT !.login = None], cookie))
  <2> DEFINE base == [thread[t] EXCEPT !.login = None]
  <2>1. base \in Threads
    BY Typed DEF Threads
  <2>2. cookie \in Values
    BY Typed
  <2>3. WithSession(base, cookie) \in Threads /\ WithSession(base, cookie).pc = "sent"
    <3> HIDE DEF base
    <3> QED BY <2>1, <2>2, SessionTyped
  <2>4. thread' \in [Workers -> Threads] /\ StoreInv'
    <3> HIDE DEF base
    <3>1. Become(t, WithSession(base, cookie))
      BY <1>2 DEF base
    <3> QED BY <1>1, <2>3, <3>1, CalmThread
  <2> QED BY <1>1, <2>4, Typed, ThreadFrame DEF Calm
<1>3. CASE Become(t, AfterFailure(t))
  <2>1. thread' \in [Workers -> Threads] /\ StoreInv'
    BY <1>1, <1>3, AfterFailureTyped, CalmThread
  <2> QED BY <1>1, <2>1, Typed, ThreadFrame DEF Calm
<1> QED BY <1>2, <1>3 DEF ReadBack

LEMMA ReloadInv ==
    ASSUME IInv, NEW t \in Workers, Reload(t)
    PROVE IInv'
<1> DEFINE r == IF IsCredential(cookie) THEN WithSession(thread[t], cookie)
                ELSE [thread[t] EXCEPT !.pc = "fresh"]
<1>1. Become(t, r) /\ UNCHANGED <<cookie, lock, issued, faults>> /\ Frame /\ raced' = raced
  BY DEF Reload, Frame
<1>2. r \in Threads /\ r.pc \in {"sent", "fresh"}
  <2>1. WithSession(thread[t], cookie) \in Threads /\ WithSession(thread[t], cookie).pc = "sent"
    BY Typed, SessionTyped
  <2>2. [thread[t] EXCEPT !.pc = "fresh"] \in Threads /\ [thread[t] EXCEPT !.pc = "fresh"].pc = "fresh"
    BY Typed, GoTyped
  <2> QED BY <2>1, <2>2
<1>3. thread' \in [Workers -> Threads] /\ StoreInv'
  <2> HIDE DEF r
  <2> QED BY <1>1, <1>2, CalmThread
<1> QED BY <1>1, <1>3, Typed, ThreadFrame DEF Calm

LEMMA FreshInv ==
    ASSUME IInv, NEW t \in Workers, Fresh(t)
    PROVE IInv'
<1> DEFINE r == [thread[t] EXCEPT !.pc = "done", !.snapshot = cookie]
<1>1. Become(t, Ended(t, r)) /\ UNCHANGED <<cookie, lock, issued, faults>> /\ Frame /\ raced' = raced
  BY DEF Fresh, Frame
<1>2. r \in Threads /\ r.pc = "done"
  BY Typed DEF Threads
<1>3. Ended(t, r) \in Threads /\ Ended(t, r).pc \in {"done", "off"}
  <2>1. NoThread.pc = "off"
    BY DEF NoThread
  <2> HIDE DEF r
  <2> QED BY <1>2, <2>1, NoThreadTyped DEF Ended
<1>4. thread' \in [Workers -> Threads] /\ StoreInv'
  <2> HIDE DEF r
  <2> QED BY <1>1, <1>3, CalmThread
<1> QED BY <1>1, <1>4, Typed, ThreadFrame DEF Calm

LEMMA PanicInv ==
    ASSUME IInv, NEW t \in Workers, Panic(t)
    PROVE IInv'
<1> DEFINE r == [thread[t] EXCEPT !.pc = "dead"]
<1>1. /\ Become(t, Ended(t, r)) /\ UNCHANGED <<cookie, lock, issued>> /\ Frame /\ raced' = raced
      /\ Calm \/ Faulty
  BY DEF Panic, Frame
<1>2. r \in Threads /\ r.pc = "dead"
  BY Typed, GoTyped
<1>3. Ended(t, r) \in Threads /\ Ended(t, r).pc \in {"dead", "off"}
  <2>1. NoThread.pc = "off"
    BY DEF NoThread
  <2> HIDE DEF r
  <2> QED BY <1>2, <2>1, NoThreadTyped DEF Ended
<1>4. thread' \in [Workers -> Threads] /\ StoreInv'
  <2> HIDE DEF r
  <2> QED BY <1>1, <1>3, CalmThread
<1> QED BY <1>1, <1>4, Typed, ThreadFrame

-------------------------------------------------------------------------------
(* The steps of the screen.                                                  *)
ThreadsSafe(threads) ==
    /\ threads \in [Workers -> Threads]
    /\ \A t \in Workers : Safe(t, threads[t], cookie, lock, raced)

LEMMA DetachedSafe ==
    ASSUME IInv
    PROVE ThreadsSafe(Detached)
<1>1. ASSUME NEW t \in Workers
      PROVE Detached[t] \in Threads /\ Safe(t, Detached[t], cookie, lock, raced)
  <2>1. CASE Detached[t] = thread[t]
    BY <2>1, Typed
  <2>2. CASE Detached[t] = NoThread
    BY <2>2, NoThreadTyped DEF Safe, NoThread
  <2>3. CASE Detached[t] = [thread[t] EXCEPT !.verdict = None, !.bootstrap = None]
    <3> DEFINE r == [thread[t] EXCEPT !.verdict = None, !.bootstrap = None]
    <3>1. /\ r \in Threads /\ r.pc = thread[t].pc /\ r.pending = thread[t].pending
          /\ r.purpose = thread[t].purpose /\ r.login = thread[t].login
      <4>1. None \in Values
        BY DEF Values
      <4> QED BY <4>1, Typed DEF Threads
    <3>2. Safe(t, r, cookie, lock, raced)
      <4> HIDE DEF r
      <4> QED BY <3>1, Typed DEF Safe
    <3> QED BY <2>3, <3>1, <3>2
  <2> QED BY <2>1, <2>2, <2>3 DEF Detached
<1>2. Detached \in [Workers -> Threads]
  BY <1>1 DEF Detached
<1> QED BY <1>1, <1>2 DEF ThreadsSafe

(* A thread that is taken away, or dies with the process.                    *)
LEMMA WithoutSafe ==
    ASSUME IInv, NEW w \in Workers
    PROVE ThreadsSafe([thread EXCEPT ![w] = NoThread])
<1>1. thread \in [Workers -> Threads]
  BY DEF IInv, AuthenticationTypeOK
<1>2. Safe(w, NoThread, cookie, lock, raced)
  BY DEF Safe, NoThread
<1> QED BY <1>1, <1>2, NoThreadTyped DEF IInv, StoreInv, ThreadsSafe

LEMMA SpawnInv ==
    ASSUME IInv, Quiet, NEW threads, ThreadsSafe(threads), NEW r \in Threads, NEW next \in Screens,
           r.pc \in {"lock", "fresh", "sent"},
           r.pc = "lock" => r.purpose # "Write" \/ r.login \in Logins,
           Spawn(threads, r, next)
    PROVE IInv'
<1>1. PICK w \in Workers : thread' = [threads EXCEPT ![w] = r] /\ screen' = [next EXCEPT !.worker = w]
  BY DEF Spawn
<1>2. screen' \in Screens
  BY <1>1 DEF Screens
<1>3. UNCHANGED <<cookie, lock, issued, raced, outside, faults>>
  BY DEF Quiet, history
<1>4. thread' \in [Workers -> Threads]
  BY <1>1 DEF ThreadsSafe
<1>5. \A t \in Workers : Safe(t, r, cookie, lock, raced)
  BY DEF Safe
<1>6. StoreInv'
  BY <1>1, <1>3, <1>5 DEF StoreInv, ThreadsSafe
<1> QED BY <1>2, <1>3, <1>4, <1>6 DEF IInv, AuthenticationTypeOK

(* What the screen shows of a worker: with a verdict it shows, as stored,    *)
(* one of the credentials the verdict is about.                              *)
Honest(next) == next.about # {} => next.stored = "Configured" /\ next.seen \in next.about

LEMMA AppliedHonest ==
    ASSUME screen \in Screens, NEW r \in Threads
    PROVE Applied(r) \in Screens /\ Honest(Applied(r))
<1> DEFINE shown == [screen EXCEPT !.mutation = None, !.worker = None,
                                   !.stored = StoredState(r.snapshot), !.seen = r.snapshot,
                                   !.verification = "NotStarted", !.about = {}]
           verification == IF r.verdict = None THEN "Unavailable" ELSE r.verdict
           about == IF r.verdict = None THEN {} ELSE Lineage(r) \ {Missing}
<1>1. /\ r.snapshot \in Values /\ r.bootstrap \in Values /\ r.current \in Values
      /\ r.verdict \in Verdicts \cup {None}
  BY DEF Threads
<1>2. StoredState(r.snapshot) \in {"Inspecting", "Configured", "Missing", "Invalid"}
  BY DEF StoredState
<1>3. /\ shown \in Screens /\ shown.about = {} /\ shown.stored = StoredState(r.snapshot)
      /\ shown.seen = r.snapshot
  <2>1. {} \in SUBSET Values
    OBVIOUS
  <2> QED BY <1>1, <1>2, <2>1 DEF Screens
<1>4. CASE Applied(r) = shown
  BY <1>3, <1>4 DEF Honest
<1>5. CASE /\ Applied(r) = [shown EXCEPT !.verification = verification, !.about = about]
           /\ IsCredential(r.snapshot) /\ (r.verdict = None \/ MatchesSnapshot(r))
  <2>1. about \in SUBSET Values /\ verification \in {"Unavailable"} \cup Verdicts
    BY <1>1 DEF Lineage
  <2>2. about # {} => r.snapshot \in about
    BY <1>5, ConstantsDiffer DEF MatchesSnapshot, IsCredential
  <2>3. StoredState(r.snapshot) = "Configured"
    BY <1>5 DEF StoredState
  <2> DEFINE next == [shown EXCEPT !.verification = verification, !.about = about]
  <2>4. next \in Screens /\ next.about = about /\ next.stored = "Configured" /\ next.seen = r.snapshot
    <3> HIDE DEF shown, about, verification
    <3> QED BY <1>3, <2>1, <2>3 DEF Screens
  <2> HIDE DEF next
  <2>5. Applied(r) = next
    BY <1>5 DEF next
  <2> HIDE DEF about
  <2> QED BY <2>2, <2>4, <2>5 DEF Honest
<1> QED BY <1>4, <1>5 DEF Applied

LEMMA ClosedHonest ==
    /\ Closed \in Screens /\ Honest(Closed)
    /\ [Closed EXCEPT !.active = TRUE] \in Screens /\ Honest([Closed EXCEPT !.active = TRUE])
<1>1. {} \in SUBSET Values /\ None \in Values
  BY DEF Values
<1>2. Closed \in Screens /\ Honest(Closed)
  BY <1>1 DEF Closed, Screens, Honest
<1>3. [Closed EXCEPT !.active = TRUE] \in Screens
  BY <1>2 DEF Screens
<1>4. Honest([Closed EXCEPT !.active = TRUE])
  BY DEF Closed, Honest
<1> QED BY <1>2, <1>3, <1>4

LEMMA MutatingHonest ==
    ASSUME screen \in Screens, NEW kind \in {"Saving", "Resetting"}
    PROVE Mutating(kind) \in Screens /\ Honest(Mutating(kind))
<1>1. {} \in SUBSET Values
  OBVIOUS
<1> QED BY <1>1 DEF Mutating, Screens, Honest

LEMMA SpawnHonest ==
    ASSUME NEW threads, NEW r, NEW next \in Screens, Honest(next), Spawn(threads, r, next)
    PROVE Honest(screen')
<1>1. PICK w \in Workers : screen' = [next EXCEPT !.worker = w]
  BY DEF Spawn
<1>2. screen'.about = next.about /\ screen'.stored = next.stored /\ screen'.seen = next.seen
  BY <1>1 DEF Screens
<1> QED BY <1>2 DEF Honest

LEMMA ThreadsNow ==
    ASSUME IInv
    PROVE ThreadsSafe(thread) /\ screen \in Screens
  BY DEF IInv, AuthenticationTypeOK, StoreInv, ThreadsSafe

(* The screen takes no new thread.                                           *)
LEMMA QuietInv ==
    ASSUME IInv, Quiet, ThreadsSafe(thread'), screen' \in Screens
    PROVE IInv'
<1>1. UNCHANGED <<cookie, lock, issued, raced, outside, faults>>
  BY DEF Quiet, history
<1>2. StoreInv' /\ thread' \in [Workers -> Threads]
  BY <1>1 DEF ThreadsSafe, StoreInv
<1> QED BY <1>1, <1>2 DEF IInv, AuthenticationTypeOK

LEMMA UserStepInv ==
    ASSUME IInv, UserStep
    PROVE IInv' /\ Honest(screen')
<1>1. CASE Open
  <2> DEFINE r == Task("Inspection", "fresh")
             next == [Closed EXCEPT !.active = TRUE]
  <2>1. r \in Threads /\ r.pc = "fresh"
    BY TaskTyped DEF Task, NoThread
  <2>2. next \in Screens /\ Honest(next)
    BY ClosedHonest
  <2>3. Spawn(thread, r, next) /\ Quiet
    BY <1>1 DEF Open
  <2> HIDE DEF r, next
  <2> QED BY <2>1, <2>2, <2>3, ThreadsNow, SpawnInv, SpawnHonest
<1>2. CASE Close
  <2>1. ThreadsSafe(thread') /\ screen' = Closed /\ Quiet
    BY <1>2, DetachedSafe DEF Close
  <2> QED BY <2>1, ClosedHonest, QuietInv
<1>3. CASE StartReset
  <2> DEFINE r == Task("Reset", "lock")
             next == Mutating("Resetting")
  <2>1. r \in Threads /\ r.pc = "lock" /\ r.purpose = "Reset"
    BY TaskTyped DEF Task, NoThread
  <2>2. next \in Screens /\ Honest(next)
    BY ThreadsNow, MutatingHonest
  <2>3. Spawn(Detached, r, next) /\ Quiet
    BY <1>3 DEF StartReset
  <2> HIDE DEF r, next
  <2> QED BY <2>1, <2>2, <2>3, DetachedSafe, SpawnInv, SpawnHonest
<1>4. CASE \E l \in Logins : StartWrite(l)
  <2>1. PICK l \in Logins : StartWrite(l)
    BY <1>4
  <2> DEFINE r == [Task("Write", "lock") EXCEPT !.login = l]
             next == Mutating("Saving")
  <2>2. r \in Threads /\ r.pc = "lock" /\ r.login \in Logins
    <3>1. Task("Write", "lock") \in Threads /\ Task("Write", "lock").pc = "lock"
      BY TaskTyped DEF Task, NoThread
    <3> QED BY <3>1 DEF Threads
  <2>3. next \in Screens /\ Honest(next)
    BY ThreadsNow, MutatingHonest
  <2>4. Spawn(Detached, r, next) /\ Quiet
    BY <2>1 DEF StartWrite
  <2> HIDE DEF r, next
  <2> QED BY <2>2, <2>3, <2>4, DetachedSafe, SpawnInv, SpawnHonest
<1> QED BY <1>1, <1>2, <1>3, <1>4 DEF UserStep

LEMMA HearInv ==
    ASSUME IInv, Hear
    PROVE IInv' /\ Honest(screen')
<1> DEFINE w == screen.worker
           r == thread[w]
           without == [thread EXCEPT ![w] = NoThread]
<1>1. w \in Workers /\ Quiet
  BY ThreadsNow DEF Hear, Screens
<1>2. r \in Threads /\ ThreadsSafe(without)
  BY <1>1, Typed, WithoutSafe
<1>3. Applied(r) \in Screens /\ Honest(Applied(r))
  BY <1>2, ThreadsNow, AppliedHonest
<1>4. CASE thread' = without /\ screen' = Applied(r)
  BY <1>1, <1>2, <1>3, <1>4, QuietInv
<1>5. CASE Spawn(without, WithSession(Task("Verification", "sent"), r.snapshot),
                 [Applied(r) EXCEPT !.verification = "Verifying"])
  <2> DEFINE task == WithSession(Task("Verification", "sent"), r.snapshot)
             next == [Applied(r) EXCEPT !.verification = "Verifying"]
  <2>1. task \in Threads /\ task.pc = "sent"
    <3>1. r.snapshot \in Values
      BY <1>2 DEF Threads
    <3> QED BY <3>1, TaskTyped, SessionTyped
  <2>2. next \in Screens /\ Honest(next)
    <3> HIDE DEF r
    <3> QED BY <1>3 DEF Screens, Honest
  <2>3. Spawn(without, task, next)
    BY <1>5
  <2> HIDE DEF task, next, without
  <2> QED BY <1>1, <1>2, <2>1, <2>2, <2>3, SpawnInv, SpawnHonest
<1> QED BY <1>4, <1>5 DEF Hear

LEMMA RecoverInv ==
    ASSUME IInv, Honest(screen), Recover
    PROVE IInv' /\ Honest(screen')
<1> DEFINE w == screen.worker
           r == thread[w]
           without == [thread EXCEPT ![w] = NoThread]
           end == [Task(r.purpose, "done") EXCEPT !.snapshot = Malformed]
           again == [Task(r.purpose, "fresh") EXCEPT !.recovery = TRUE, !.error = TRUE]
<1>1. w \in Workers /\ Quiet
  BY ThreadsNow DEF Recover, Notices, Screens
<1>2. r \in Threads /\ ThreadsSafe(without)
  BY <1>1, Typed, WithoutSafe
<1>3. Task(r.purpose, "done") \in Threads /\ Task(r.purpose, "fresh") \in Threads
      /\ Task(r.purpose, "fresh").pc = "fresh"
  BY <1>2, NoThreadTyped DEF Task, Threads, NoThread
<1>4. end \in Threads
  BY <1>3 DEF Threads, Values
<1>5. again \in Threads /\ again.pc = "fresh"
  BY <1>3 DEF Threads
<1> HIDE DEF end, again
<1>6. CASE thread' = without /\ screen' = Applied(end)
  <2>1. Applied(end) \in Screens /\ Honest(Applied(end))
    BY <1>4, ThreadsNow, AppliedHonest
  <2> QED BY <1>1, <1>2, <1>6, <2>1, QuietInv
<1>7. CASE Spawn(without, again, screen)
  <2> HIDE DEF without
  <2> QED BY <1>1, <1>2, <1>5, <1>7, ThreadsNow, SpawnInv, SpawnHonest
<1> QED BY <1>6, <1>7 DEF Recover, end, again

-------------------------------------------------------------------------------
(* The end of the process, and changes from outside: a program that ignores  *)
(* the lock spoils what a thread that holds it expects, and no other thread. *)
LEMMA KilledInv ==
    ASSUME IInv, Killed
    PROVE IInv' /\ Honest(screen')
<1>1. /\ screen' = Closed /\ thread' = [t \in Workers |-> NoThread] /\ lock' = None /\ Faulty
      /\ UNCHANGED <<cookie, issued, raced, outside>>
  BY DEF Killed
<1>2. thread' \in [Workers -> Threads]
  BY <1>1, NoThreadTyped
<1>3. StoreInv'
  BY <1>1 DEF StoreInv, Safe, NoThread
<1>4. faults' \in Nat
  BY <1>1 DEF IInv, AuthenticationTypeOK, Faulty
<1>5. AuthenticationTypeOK'
  BY <1>1, <1>2, <1>4, ClosedHonest DEF IInv, AuthenticationTypeOK
<1> QED BY <1>1, <1>3, <1>5, ClosedHonest DEF IInv

LEMMA OutsideInv ==
    ASSUME IInv, UNCHANGED <<lock, thread, screen, faults>>,
           cookie' \in Values \ {None}, issued' \in 0..MaxIssued, outside' = outside + 1,
           \/ lock = None /\ raced' = raced
           \/ raced' = (raced \/ lock # None)
    PROVE IInv'
<1>1. raced' \in BOOLEAN
  <2>1. raced \in BOOLEAN
    BY DEF IInv, AuthenticationTypeOK
  <2> QED BY <2>1
<1>2. outside' \in Nat
  BY DEF IInv, AuthenticationTypeOK
<1>3. AuthenticationTypeOK'
  BY <1>1, <1>2 DEF IInv, AuthenticationTypeOK
<1>4. ASSUME NEW t \in Workers PROVE Safe(t, thread'[t], cookie', lock', raced')
  <2>1. Safe(t, thread[t], cookie, lock, raced)
    BY Typed
  <2>2. thread'[t].pc = "swap" => raced'
    <3>1. thread[t].pc = "swap" => lock # None
      BY <2>1, ConstantsDiffer DEF Safe
    <3>2. lock # None => raced'
      OBVIOUS
    <3> QED BY <3>1, <3>2
  <2> QED BY <2>1, <2>2 DEF Safe
<1> QED BY <1>3, <1>4 DEF IInv, StoreInv

LEMMA ElsewhereInv ==
    ASSUME IInv, Elsewhere
    PROVE IInv'
<1>1. /\ lock = None /\ raced' = raced /\ outside' = outside + 1
      /\ UNCHANGED <<lock, thread, screen, faults>>
  BY DEF Elsewhere
<1>2. CASE cookie' \in {Missing} \cup {Pasted(l) : l \in Logins} /\ UNCHANGED issued
  <2>1. \A l \in Logins : Pasted(l) \in Credentials
    BY AuthenticationAssumption DEF Pasted, Credentials
  <2>2. cookie' \in Values \ {None} /\ issued' \in 0..MaxIssued
    BY <1>2, <2>1, ConstantsDiffer DEF Values, IInv, AuthenticationTypeOK
  <2> QED BY <1>1, <2>2, OutsideInv
<1>3. CASE /\ IsCredential(cookie) /\ issued < MaxIssued /\ issued' = issued + 1
           /\ cookie' = [cookie EXCEPT !.n = issued + 1]
  <2>1. issued' \in 0..MaxIssued /\ issued + 1 \in 0..MaxIssued
    BY <1>3, AuthenticationAssumption DEF IInv, AuthenticationTypeOK
  <2>2. cookie' \in Credentials
    BY <1>3, <2>1 DEF IsCredential, Credentials
  <2>3. cookie' \in Values \ {None}
    BY <2>2, ConstantsDiffer DEF Values
  <2> QED BY <1>1, <2>1, <2>3, OutsideInv
<1> QED BY <1>2, <1>3 DEF Elsewhere

LEMMA EditedByHandInv ==
    ASSUME IInv, EditedByHand
    PROVE IInv'
<1>1. \A l \in Logins : Pasted(l) \in Credentials
  BY AuthenticationAssumption DEF Pasted, Credentials
<1>2. cookie' \in Values \ {None}
  BY <1>1, ConstantsDiffer DEF EditedByHand, Values
<1>3. issued' \in 0..MaxIssued
  BY DEF EditedByHand, IInv, AuthenticationTypeOK
<1>4. raced' = (raced \/ lock # None)
  BY DEF EditedByHand
<1>5. UNCHANGED <<lock, thread, screen, faults>> /\ outside' = outside + 1
  BY DEF EditedByHand
<1> QED BY <1>2, <1>3, <1>4, <1>5, OutsideInv

-------------------------------------------------------------------------------
LEMMA ThreadStepInv ==
    ASSUME IInv, NEW t \in Workers, ThreadStep(t) \/ Panic(t)
    PROVE IInv' /\ screen' = screen
<1>1. IInv'
  BY RotateInv, DeleteInv, AnswerInv, PersistInv, SwapInv, AcquireInv, CannotAcquireInv,
     PublishInv, ReadBackInv, ReloadInv, FreshInv, PanicInv DEF ThreadStep
<1>2. Frame
  BY DEF ThreadStep, Rotate, Delete, Answer, Persist, Swap, Acquire, CannotAcquire, Publish,
         ReadBack, Reload, Fresh, Panic
<1> QED BY <1>1, <1>2 DEF Frame

LEMMA NextInv ==
    ASSUME IInv, Honest(screen), [Next]_vars
    PROVE IInv' /\ Honest(screen')
<1>1. ASSUME NEW t \in Workers, ThreadStep(t) \/ Panic(t) PROVE IInv' /\ Honest(screen')
  BY <1>1, ThreadStepInv
<1>2. CASE Elsewhere
  <2>1. screen' = screen
    BY <1>2 DEF Elsewhere
  <2> QED BY <1>2, <2>1, ElsewhereInv
<1>3. CASE EditedByHand
  <2>1. screen' = screen
    BY <1>3 DEF EditedByHand
  <2> QED BY <1>3, <2>1, EditedByHandInv
<1>4. CASE UNCHANGED vars
  BY <1>4 DEF vars, IInv, AuthenticationTypeOK, StoreInv
<1> QED BY <1>1, <1>2, <1>3, <1>4, UserStepInv, HearInv, RecoverInv, KilledInv DEF Next, Poll

LEMMA Always == Spec => [](IInv /\ Honest(screen))
<1>1. Init => IInv /\ Honest(screen)
  BY InitInv, ClosedHonest DEF Init
<1>2. IInv /\ Honest(screen) /\ [Next]_vars => (IInv /\ Honest(screen))'
  BY NextInv
<1> QED BY <1>1, <1>2, PTL DEF Spec

(* The file, the lock, the threads and the screen always have their types:   *)
(* an empty batch of rotations is never persisted, a save always has a login *)
(* (AuthStore and the worker threads of the Authentication screen).          *)
THEOREM AuthenticationTypeCorrect == Spec => []AuthenticationTypeOK
<1>1. IInv => AuthenticationTypeOK
  BY DEF IInv
<1> QED BY <1>1, Always, PTL

(* Whatever verdict the screen shows was given about the credential that it  *)
(* shows as stored (apply_worker_message, AuthenticationLineage), whoever    *)
(* changed the file while the request was under way.                         *)
THEOREM VerdictsAreAboutStored == Spec => []VerdictIsAboutStored
<1>1. Honest(screen) => VerdictIsAboutStored
  BY DEF Honest, VerdictIsAboutStored
<1> QED BY <1>1, Always, PTL

(* The screen never changes the file itself.                                 *)
LEMMA OthersKeepCookie ==
    ASSUME UserStep \/ Poll \/ Killed \/ UNCHANGED vars
    PROVE UNCHANGED cookie
  BY DEF UserStep, Poll, Killed, vars, Open, Close, StartReset, StartWrite, Hear, Recover, Quiet

(* mutate_if_current applies a rotation only on top of the credential that   *)
(* the server replaced: the file is otherwise changed by the user, or by     *)
(* somebody outside, alone.                                                  *)
THEOREM SuccessorsOnly == Spec => OnlySuccessorsReplace
<1> DEFINE Replaces(t) ==
        /\ thread[t].pending # <<>> /\ thread'[t].pending = Tail(thread[t].pending)
        /\ Head(thread[t].pending) = [old |-> cookie, new |-> cookie']
<1>1. ASSUME IInv, [Next]_vars, cookie' # cookie, ~raced
      PROVE ByTheUser \/ \E t \in Workers : Replaces(t)
  <2>1. CASE Elsewhere \/ EditedByHand
    <3>1. outside' = outside + 1 /\ outside \in Nat
      BY <1>1, <2>1 DEF Elsewhere, EditedByHand, IInv, AuthenticationTypeOK
    <3> QED BY <3>1 DEF ByTheUser
  <2>2. ASSUME NEW t \in Workers, ThreadStep(t) \/ Panic(t)
        PROVE ByTheUser \/ \E u \in Workers : Replaces(u)
    <3>1. Publish(t) \/ Swap(t)
      BY <1>1, <2>2 DEF ThreadStep, Rotate, Delete, Answer, Persist, Acquire, CannotAcquire,
                        ReadBack, Reload, Fresh, Panic
    <3>2. thread \in [Workers -> Threads]
      BY <1>1 DEF IInv, AuthenticationTypeOK
    <3>3. CASE Publish(t)
      <4>1. AfterFailure(t).pc \in {"reload", "fresh"}
        BY <1>1, AfterFailureTyped
      <4>2. thread'[t].pc # "publish"
        <5>1. Go(t, "readback") \/ Go(t, "fresh") \/ Become(t, AfterFailure(t))
          BY <3>3 DEF Publish
        <5>2. CASE Become(t, AfterFailure(t))
          BY <3>2, <4>1, <5>2 DEF Become
        <5>3. CASE Go(t, "readback") \/ Go(t, "fresh")
          <6>1. PICK pc \in {"readback", "fresh"} : thread' = [thread EXCEPT ![t] = [thread[t] EXCEPT !.pc = pc]]
            BY <5>3 DEF Go, Become
          <6>2. [thread[t] EXCEPT !.pc = pc].pc = pc
            BY <1>1, Typed, GoTyped
          <6> QED BY <3>2, <6>1, <6>2
        <5> QED BY <5>1, <5>2, <5>3
      <4> QED BY <3>3, <4>2 DEF ByTheUser, Publish
    <3>4. CASE Swap(t)
      <4>1. /\ thread[t].pc = "swap" /\ thread[t].pending # <<>>
            /\ Head(thread[t].pending).old = cookie
        BY <1>1, <3>4, Typed DEF Swap, Safe
      <4>2. Head(thread[t].pending) \in Changes
        BY <1>1, <4>1, Typed
      <4>3. Head(thread[t].pending).new = cookie'
        BY <1>1, <3>4 DEF Swap
      <4>4. Head(thread[t].pending) = [old |-> cookie, new |-> cookie']
        BY <4>1, <4>2, <4>3 DEF Changes
      <4>5. thread'[t].pending = Tail(thread[t].pending)
        <5>1. thread[t] \in Threads
          BY <1>1, Typed
        <5> QED BY <3>2, <3>4, <5>1 DEF Swap, NextPending, Become, Threads
      <4> QED BY <4>1, <4>4, <4>5
    <3> QED BY <3>1, <3>3, <3>4
  <2> HIDE DEF Replaces
  <2> QED BY <1>1, <2>1, <2>2, OthersKeepCookie DEF Next
<1>2. IInv /\ [Next]_vars =>
        [cookie' # cookie /\ ~raced => ByTheUser \/ \E t \in Workers : Replaces(t)]_vars
  BY <1>1
<1> QED BY <1>2, Always, PTL DEF Spec, OnlySuccessorsReplace
=============================================================================
