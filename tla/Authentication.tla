---------------------------- MODULE Authentication ----------------------------
(****************************************************************************)
(* The AtCoder credential: its file (src/auth.rs, AuthStore), the sessions  *)
(* that follow the rotations the server answers with (SessionAuth and       *)
(* HttpSource::exchange of atcoder.rs), and the Authentication screen with  *)
(* its background threads (tui/authentication_modal.rs).  The screen drops  *)
(* a thread it no longer wants to hear of, but the thread runs on: an old   *)
(* verification may store a rotation while a new cookie is being saved.     *)
(* Other processes use the same file.                                       *)
(*                                                                          *)
(* A credential is the login the user pasted and the number under which the *)
(* server issued it, 0 for the pasted value itself.  What AtCoder answers,  *)
(* programs that ignore the lock and failing calls are nondeterministic and *)
(* bounded.  The generation numbers of the screen are the identity of the   *)
(* thread it listens to; the account label and the texts are left out.      *)
(****************************************************************************)
EXTENDS Naturals, Sequences

CONSTANTS
    Logins,      \* values the user may paste
    Workers,     \* bound: threads of the screen alive at a time
    Verdicts,    \* of AtCoder: Authenticated, Rejected, Unavailable
    Missing,     \* no cookie file
    Malformed,   \* a cookie file that does not parse
    None,
    MaxIssued,   \* bound: credentials the server issues
    MaxTroubles  \* bound: changes from outside, failing calls, panics, kills

ASSUME AuthenticationAssumption ==
    /\ {Missing, Malformed, None} \cap Logins = {} /\ None \notin Verdicts
    /\ {Missing, Malformed, None} \cap [login : Logins, n : 0..MaxIssued] = {}
    /\ Missing # Malformed /\ None \notin {Missing, Malformed} \cup Workers
    /\ MaxIssued \in Nat /\ MaxTroubles \in Nat

VARIABLES
    cookie,     \* the file: a credential, Missing or Malformed
    lock,       \* who holds the storage lock, None for nobody
    thread,     \* the threads of the screen, each with its SessionAuth
    screen,     \* AuthenticationModalController
    issued,     \* how many credentials the server has issued
    \* History.
    raced,      \* a change that ignored the lock hit a holder of the lock
    outside,    \* changes that came from outside the screen
    faults      \* everything else that went wrong

vars == <<cookie, lock, thread, screen, issued, raced, outside, faults>>
history == <<raced, outside, faults>>

Credentials == [login : Logins, n : 0..MaxIssued]
IsCredential(v) == v \in Credentials
Pasted(l) == [login |-> l, n |-> 0]

\* A thread: what it is for, the credential it writes, its SessionAuth
\* (bootstrap, current and pending), and the WorkerMessage it prepares.
NoThread == [purpose |-> None, pc |-> "off", login |-> None, bootstrap |-> None,
             current |-> None, pending |-> <<>>, snapshot |-> None,
             verdict |-> None, error |-> FALSE, recovery |-> FALSE]

Closed == [active |-> FALSE, stored |-> "Inspecting", verification |-> "NotStarted",
           mutation |-> None, worker |-> None, seen |-> None, about |-> {}]

Init ==
    /\ cookie \in {Missing, Malformed} \cup {Pasted(l) : l \in Logins}
    /\ lock = None
    /\ thread = [t \in Workers |-> NoThread]
    /\ screen = Closed
    /\ issued = 0 /\ raced = FALSE /\ outside = 0 /\ faults = 0

(****************************************************************************)
(* Workers                                                                  *)
(****************************************************************************)

\* A thread nobody listens to ends without a trace when its work is done.
Listened(t) == screen.worker = t
Ended(t, r) == IF Listened(t) THEN r ELSE NoThread

Become(t, r) == thread' = [thread EXCEPT ![t] = r]
Go(t, pc) == Become(t, [thread[t] EXCEPT !.pc = pc])
Faulty == outside + faults < MaxTroubles /\ faults' = faults + 1
Calm == UNCHANGED faults
Frame == UNCHANGED <<screen, raced, outside>>

\* SessionAuth::from_snapshot with a configured snapshot, and its request.
WithSession(r, v) ==
    [r EXCEPT !.bootstrap = v, !.current = v, !.pending = <<>>, !.pc = "sent"]

\* observe_trusted_set_cookie_batch on one response of a redirect chain: the
\* last mutation of the batch becomes the state of the session.
Rotate(t) ==
    LET old == thread[t].current
        new == [login |-> old.login, n |-> issued + 1]
    IN  /\ thread[t].pc = "sent" /\ IsCredential(old) /\ issued < MaxIssued
        /\ issued' = issued + 1
        /\ Become(t, [thread[t] EXCEPT !.current = new,
                                       !.pending = Append(@, [old |-> old, new |-> new])])
        /\ UNCHANGED <<cookie, lock, faults>> /\ Frame

Delete(t) ==
    LET old == thread[t].current
    IN  /\ thread[t].pc = "sent" /\ IsCredential(old)
        /\ Become(t, [thread[t] EXCEPT !.current = Missing,
                                       !.pending = Append(@, [old |-> old, new |-> Missing])])
        /\ UNCHANGED <<cookie, lock, issued, faults>> /\ Frame

\* The exchange ends with a verdict or without an answer.
Answer(t, verdict) ==
    /\ thread[t].pc = "sent"
    /\ Become(t, [thread[t] EXCEPT
                     !.verdict = IF Listened(t) THEN verdict ELSE None,
                     !.pc = IF thread[t].pending = <<>> THEN "fresh" ELSE "persist"])
    /\ UNCHANGED <<cookie, lock, issued, faults>> /\ Frame

\* The next pending mutation, when this one is done or was refused.
NextPending(t) ==
    LET rest == Tail(thread[t].pending)
    IN  Become(t, [thread[t] EXCEPT !.pending = rest,
                                    !.pc = IF rest = <<>> THEN "fresh" ELSE "persist"])

\* Mutant: any credential in the file is taken for the expected one.
MutantBelieves(change) == IsCredential(cookie)

\* mutate_if_current: Applied only if the file holds the expected value.
HoldsExpected(change) == cookie = change.old

\* mutate_if_current under the lock up to its decision: Missing, Conflict,
\* AlreadyApplied and a malformed file leave the file alone.
Persist(t) ==
    /\ thread[t].pc = "persist"
    /\ LET change == Head(thread[t].pending)
       IN  \/ /\ lock = None /\ HoldsExpected(change)
              /\ lock' = t /\ Go(t, "swap") /\ Calm
           \/ /\ lock = None /\ ~HoldsExpected(change)
              /\ NextPending(t) /\ Calm /\ UNCHANGED lock
           \/ NextPending(t) /\ Faulty /\ UNCHANGED lock
    /\ UNCHANGED <<cookie, issued>> /\ Frame

\* replace_cookie_file or remove_file; it fails before the rename, or only
\* with a warning after it.
Swap(t) ==
    /\ thread[t].pc = "swap"
    /\ \/ cookie' = Head(thread[t].pending).new /\ Calm
       \/ UNCHANGED cookie /\ Faulty
    /\ lock' = None
    /\ NextPending(t)
    /\ UNCHANGED issued /\ Frame

(****************************************************************************)
(* Explicit changes by the screen                                           *)
(****************************************************************************)

\* write_explicit and reset_explicit up to the change of the file; nothing
\* to remove is no change.
Acquire(t) ==
    /\ thread[t].pc = "lock" /\ lock = None
    /\ IF thread[t].purpose = "Reset" /\ cookie = Missing
       THEN Go(t, "fresh") /\ UNCHANGED lock
       ELSE Go(t, "publish") /\ lock' = t
    /\ UNCHANGED <<cookie, issued, faults>> /\ Frame

\* What a thread does after its change failed: the file is read again.
AfterFailure(t) ==
    [thread[t] EXCEPT !.error = TRUE, !.login = None,
                      !.pc = IF thread[t].purpose = "Write" THEN "reload" ELSE "fresh"]

CannotAcquire(t) ==
    /\ thread[t].pc = "lock" /\ Faulty
    /\ Become(t, AfterFailure(t))
    /\ UNCHANGED <<cookie, lock, issued>> /\ Frame

Publish(t) ==
    /\ thread[t].pc = "publish"
    /\ \/ /\ cookie' = IF thread[t].purpose = "Write" THEN Pasted(thread[t].login) ELSE Missing
          /\ \/ /\ thread[t].purpose = "Write" /\ Calm
                /\ Go(t, "readback") /\ UNCHANGED lock
             \/ thread[t].purpose = "Reset" /\ Calm /\ Go(t, "fresh") /\ lock' = None
             \/ Faulty /\ Become(t, AfterFailure(t)) /\ lock' = None   \* the sync failed
       \/ UNCHANGED cookie /\ Faulty /\ Become(t, AfterFailure(t)) /\ lock' = None
    /\ UNCHANGED issued /\ Frame

\* The locked read-back of write_explicit.
ReadBack(t) ==
    /\ thread[t].pc = "readback"
    /\ IF cookie = Pasted(thread[t].login)
       THEN Become(t, WithSession([thread[t] EXCEPT !.login = None], cookie))
       ELSE Become(t, AfterFailure(t))
    /\ lock' = None
    /\ UNCHANGED <<cookie, issued, faults>> /\ Frame

\* load_from after a failed save: whatever is configured is verified.
Reload(t) ==
    /\ thread[t].pc = "reload"
    /\ Become(t, IF IsCredential(cookie) THEN WithSession(thread[t], cookie)
                                         ELSE [thread[t] EXCEPT !.pc = "fresh"])
    /\ UNCHANGED <<cookie, lock, issued, faults>> /\ Frame

\* load_from at the end of every worker: the message is ready.
Fresh(t) ==
    /\ thread[t].pc = "fresh"
    /\ Become(t, Ended(t, [thread[t] EXCEPT !.pc = "done", !.snapshot = cookie]))
    /\ UNCHANGED <<cookie, lock, issued, faults>> /\ Frame

\* A worker panics, in library code it runs without the lock; a recovery
\* worker may panic too.
Panic(t) ==
    /\ lock # t /\ thread[t].pc \notin {"off", "done", "dead"}
    /\ IF thread[t].recovery THEN Calm ELSE Faulty
    /\ Become(t, Ended(t, [thread[t] EXCEPT !.pc = "dead"]))
    /\ UNCHANGED <<cookie, lock, issued>> /\ Frame

(****************************************************************************)
(* The screen                                                               *)
(****************************************************************************)

\* The threads once the screen stops listening: one that may still store
\* something runs on, its message is forgotten.
Detached ==
    [t \in Workers |->
        IF t # screen.worker THEN thread[t]
        ELSE IF thread[t].pc \in {"fresh", "done", "dead"} THEN NoThread
        ELSE [thread[t] EXCEPT !.verdict = None, !.bootstrap = None]]

\* spawn_worker: the new thread is the one the screen listens to.
Spawn(threads, r, next) ==
    \E w \in Workers :
        /\ threads[w].pc = "off"
        /\ thread' = [threads EXCEPT ![w] = r]
        /\ screen' = [next EXCEPT !.worker = w]

Task(purpose, pc) == [NoThread EXCEPT !.purpose = purpose, !.pc = pc]
Quiet == UNCHANGED <<cookie, lock, issued, history>>

Open ==
    /\ ~screen.active
    /\ Spawn(thread, Task("Inspection", "fresh"), [Closed EXCEPT !.active = TRUE])
    /\ Quiet

\* Escape on the main page; the other pages only return to it.
Close ==
    /\ screen.active /\ screen.mutation = None
    /\ screen' = Closed /\ thread' = Detached
    /\ Quiet

\* `p` and `r` open a page of their own only in a screen that is at rest; the
\* key that opens it and the Enter that leaves it are one step.
MayChange == screen.active /\ screen.mutation = None /\ screen.stored # "Inspecting"

Mutating(kind) ==
    [screen EXCEPT !.mutation = kind, !.verification = "NotStarted", !.about = {}]

StartWrite(l) ==
    /\ MayChange
    /\ Spawn(Detached, [Task("Write", "lock") EXCEPT !.login = l], Mutating("Saving"))
    /\ Quiet

StartReset ==
    /\ MayChange /\ screen.stored # "Missing"
    /\ Spawn(Detached, Task("Reset", "lock"), Mutating("Resetting"))
    /\ Quiet

StoredState(v) ==
    IF IsCredential(v) THEN "Configured" ELSE IF v = Missing THEN "Missing" ELSE "Invalid"

\* The credentials a verification is about: what its request was sent with
\* and what it ended with (AuthenticationLineage).
Lineage(r) == {r.bootstrap, r.current}

\* Mutant: a verdict is shown whatever the file holds by now.
MutantMatchesSnapshot(r) == TRUE

MatchesSnapshot(r) == r.snapshot \in Lineage(r)

\* apply_worker_message, but for the verification an inspection starts.
Applied(r) ==
    LET shown == [screen EXCEPT !.mutation = None, !.worker = None,
                                !.stored = StoredState(r.snapshot), !.seen = r.snapshot,
                                !.verification = "NotStarted", !.about = {}]
    IN  IF \/ r.purpose = "Inspection" \/ ~IsCredential(r.snapshot)
           \/ r.verdict # None /\ ~MatchesSnapshot(r)
           \/ r.verdict = None /\ r.purpose = "Reset"
        THEN shown
        ELSE [shown EXCEPT !.verification = IF r.verdict = None THEN "Unavailable" ELSE r.verdict,
                           !.about = IF r.verdict = None THEN {} ELSE Lineage(r) \ {Missing}]

\* poll takes the message of a worker.
Hear ==
    LET w == screen.worker
        r == thread[w]
        without == [thread EXCEPT ![w] = NoThread]
    IN  /\ w # None /\ r.pc = "done"
        /\ IF r.purpose = "Inspection" /\ ~r.error /\ IsCredential(r.snapshot)
           THEN Spawn(without, WithSession(Task("Verification", "sent"), r.snapshot),
                      [Applied(r) EXCEPT !.verification = "Verifying"])
           ELSE thread' = without /\ screen' = Applied(r)
        /\ Quiet

\* Mutant: a worker that died without a message is waited for.
MutantNotices(w) == FALSE

\* poll: the channel is disconnected, or the thread finished, without one.
Notices(w) == w # None /\ thread[w].pc = "dead"

\* The first such death reads the file again in a recovery thread; the
\* second is reported as a state that cannot be inspected.
Recover ==
    LET w == screen.worker
        r == thread[w]
        without == [thread EXCEPT ![w] = NoThread]
    IN  /\ Notices(w)
        /\ IF r.recovery
           THEN /\ thread' = without
                /\ screen' = Applied([Task(r.purpose, "done") EXCEPT !.snapshot = Malformed])
           ELSE Spawn(without, [Task(r.purpose, "fresh") EXCEPT !.recovery = TRUE, !.error = TRUE],
                      screen)
        /\ Quiet

\* The process ends: its threads end with it and release the lock.
Killed ==
    /\ screen.active \/ \E w \in Workers : thread[w].pc # "off"
    /\ Faulty
    /\ screen' = Closed
    /\ thread' = [t \in Workers |-> NoThread]
    /\ lock' = None
    /\ UNCHANGED <<cookie, issued, raced, outside>>

(****************************************************************************)
(* Others                                                                   *)
(****************************************************************************)

\* Another process changes the file under the lock: its Authentication screen
\* saves or resets, or its session stores a rotation of what the file holds.
Elsewhere ==
    /\ lock = None /\ outside + faults < MaxTroubles /\ outside' = outside + 1
    /\ \/ /\ cookie' \in {Missing} \cup {Pasted(l) : l \in Logins}
          /\ UNCHANGED issued
       \/ /\ IsCredential(cookie) /\ issued < MaxIssued
          /\ issued' = issued + 1
          /\ cookie' = [cookie EXCEPT !.n = issued + 1]
    /\ UNCHANGED <<lock, thread, screen, raced, faults>>

\* A program that knows nothing of the lock.
EditedByHand ==
    /\ outside + faults < MaxTroubles /\ outside' = outside + 1
    /\ cookie' \in {Missing, Malformed} \cup {Pasted(l) : l \in Logins}
    /\ raced' = (raced \/ lock # None)
    /\ UNCHANGED <<lock, thread, screen, issued, faults>>

ThreadStep(t) ==
    \/ Rotate(t) \/ Delete(t)
    \/ \E verdict \in Verdicts : Answer(t, verdict)
    \/ Persist(t) \/ Swap(t)
    \/ Acquire(t) \/ CannotAcquire(t) \/ Publish(t) \/ ReadBack(t) \/ Reload(t) \/ Fresh(t)

UserStep ==
    \/ Open \/ Close \/ StartReset
    \/ \E l \in Logins : StartWrite(l)

Poll == Hear \/ Recover

Next ==
    \/ \E t \in Workers : ThreadStep(t) \/ Panic(t)
    \/ UserStep \/ Poll \/ Killed
    \/ Elsewhere \/ EditedByHand

Spec == Init /\ [][Next]_vars

\* The screen polls in every round of the home loop; every thread goes on,
\* for a request ends with a timeout and the lock is held for a few calls.
FairSpec ==
    /\ Spec
    /\ WF_vars(Poll)
    /\ \A t \in Workers : WF_vars(ThreadStep(t))

(****************************************************************************)
(* Correctness                                                              *)
(****************************************************************************)

\* The store's variables, the threads and the screen keep their types.
Values == Credentials \cup {Missing, Malformed, None}
Changes == [old : Credentials, new : Credentials \cup {Missing}]
Threads ==
    [purpose : {None, "Inspection", "Verification", "Write", "Reset"},
     pc : {"off", "sent", "persist", "swap", "lock", "publish", "readback", "reload",
           "fresh", "done", "dead"},
     login : Logins \cup {None}, bootstrap : Values, current : Values,
     pending : Seq(Changes), snapshot : Values, verdict : Verdicts \cup {None},
     error : BOOLEAN, recovery : BOOLEAN]
Screens ==
    [active : BOOLEAN, stored : {"Inspecting", "Configured", "Missing", "Invalid"},
     verification : {"NotStarted", "Verifying", "Unavailable"} \cup Verdicts,
     mutation : {None, "Saving", "Resetting"}, worker : Workers \cup {None},
     seen : Values, about : SUBSET Values]
AuthenticationTypeOK ==
    /\ cookie \in Values \ {None}
    /\ lock \in Workers \cup {None}
    /\ thread \in [Workers -> Threads]
    /\ screen \in Screens
    /\ issued \in 0..MaxIssued
    /\ raced \in BOOLEAN /\ outside \in Nat /\ faults \in Nat

\* A change of the file is the user's (a pasted value, or a removal by a
\* reset), or the server's: then the file held exactly the credential that the
\* server replaced or deleted.  So a rotation seen by an old verification, or
\* by another process, never takes back a newer cookie, never brings back a
\* removed one, and never overtakes another rotation of the same cookie.
ByTheUser ==
    \/ outside' # outside
    \/ \E t \in Workers : thread[t].pc = "publish" /\ thread'[t].pc # "publish"
OnlySuccessorsReplace ==
    [][cookie' # cookie /\ ~raced =>
          \/ ByTheUser
          \/ \E t \in Workers :
                /\ thread[t].pending # <<>> /\ thread'[t].pending = Tail(thread[t].pending)
                /\ Head(thread[t].pending) = [old |-> cookie, new |-> cookie']]_vars

\* A verdict on the screen is about the credential the screen shows as
\* stored: it was the one the request was sent with or the last one that
\* request was given, whoever wrote the file meanwhile.
VerdictIsAboutStored ==
    screen.about # {} => screen.stored = "Configured" /\ screen.seen \in screen.about

\* Saving and resetting end, and so does every inspection and verification,
\* although threads panic and files fail: the screen never hangs.
Busy == screen.mutation # None \/ screen.stored = "Inspecting" \/ screen.verification = "Verifying"
ScreenSettles == (screen.active /\ Busy) ~> (~screen.active \/ ~Busy)

===============================================================================
