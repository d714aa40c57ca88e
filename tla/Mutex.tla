------------------------------- MODULE Mutex -------------------------------
(***************************************************************************)
(* async_lock::Mutex (mutex.rs): lock, lock_arc, lock_blocking, try_lock,  *)
(* try_lock_arc, the guards, and the slow path behind them.                *)
(*                                                                         *)
(* A task of Task is one caller: it runs one lock operation at a time, and *)
(* pc says which atomic access to shared memory its operation makes next.  *)
(* A call that is polled again resumes at the point where it returned      *)
(* Pending, which is "wait" or "fair_wait" only: there, and nowhere else,  *)
(* its future can be dropped.  The blocking variants run the same code and *)
(* sleep at the same points.                                               *)
(*                                                                         *)
(* A future keeps its event listener until the future itself is dropped,   *)
(* even after it returned a guard, so a task may be at "holding" or "idle" *)
(* while its listener is still in lock_ops: DropFuture removes it.         *)
(***************************************************************************)
EXTENDS EventListener

CONSTANTS Task,   \* the callers of the mutex
          MAX     \* usize::MAX, the largest value of the state word

\* Each lock operation in flight occupies memory, so their number stays far
\* below the largest usize: the starvation counter has room for all of them. (A
\* future that starves is pinned: its memory is not reused before it is dropped.)
\* The word has more than two bits.
ASSUME MutexAssumption ==
  /\ IsFiniteSet(Task)
  /\ MAX \in Nat /\ 3 < MAX
  /\ 2 * Cardinality(Task) + 1 <= MAX

VARIABLES state,      \* the atomic word: bit 0 is "locked", the other bits
                      \* count the starving lock operations
          lock_ops,   \* the event lock operations listen on
          pc,         \* where the operation of each task is
          aborted     \* the process was aborted

vars == <<state, lock_ops, pc, aborted>>

----------------------------------------------------------------------------
(* Control points *)

\* In the loop that competes with new callers (mutex.rs:533-585).
Hot  == {"listen", "try", "wait", "retry", "pass", "starve"}
\* Counted as starving: the fair loop (598-630), and "take", where the lock was
\* acquired and the counter is not yet decremented.
Fair == {"fair_listen", "fair_try", "fair_pass", "fair_wait", "fair_retry"}
Points == {"idle", "holding", "unlock", "take", "abort"} \cup Hot \cup Fair

In(P) == {t \in Task : pc[t] \in P}

Requesting == In(Hot \cup Fair \cup {"abort"})   \* operations that want the lock
Starving   == In(Fair \cup {"take", "abort"})
Owners     == In({"take", "holding"})       \* the lock is theirs

\* Wrapping arithmetic on the state word.
Wrap(x) == IF x > MAX THEN x - (MAX + 1) ELSE IF x < 0 THEN x + (MAX + 1) ELSE x

Locked(s) == s % 2 = 1

----------------------------------------------------------------------------
Init ==
  /\ state = 0
  /\ lock_ops = NewEvent
  /\ pc = [t \in Task |-> "idle"]
  /\ aborted = FALSE

At(t, p)   == ~aborted /\ pc[t] = p
Goto(t, p) == pc' = [pc EXCEPT ![t] = p] /\ UNCHANGED aborted

\* The task has no future left over from an earlier operation.
Fresh(t) == At(t, "idle") /\ t \notin Listeners(lock_ops)

----------------------------------------------------------------------------
(* The fast path *)

\* Broken variant: the fast path looks at the lock bit only.
TryLockBarges(t) ==
  /\ Fresh(t)
  /\ ~Locked(state)
  /\ state' = state + 1
  /\ Goto(t, "holding")
  /\ UNCHANGED lock_ops

\* try_lock, and the first poll of lock: succeed at once. (A try_lock that fails
\* changes nothing.)
TryLock(t) ==
  /\ Fresh(t)
  /\ state = 0
  /\ state' = 1
  /\ Goto(t, "holding")
  /\ UNCHANGED lock_ops

\* The first poll of lock finds the mutex taken, or somebody starving.
EnterSlow(t) ==
  /\ Fresh(t)
  /\ state # 0
  /\ Goto(t, "listen")
  /\ UNCHANGED <<state, lock_ops>>

----------------------------------------------------------------------------
(* The loop of an operation that is not starving *)

ListenFirst(t) ==
  /\ At(t, "listen")
  /\ lock_ops' = Listen(lock_ops, t)
  /\ Goto(t, "try")
  /\ UNCHANGED state

\* compare_exchange(0, 1) after registering. The listener stays in all cases.
TryAgain(t) ==
  /\ At(t, "try")
  /\ \/ state = 0 /\ state' = 1 /\ Goto(t, "holding")
     \/ state = 1 /\ Goto(t, "wait") /\ UNCHANGED state
     \/ state > 1 /\ Goto(t, "starve") /\ UNCHANGED state
  /\ UNCHANGED lock_ops

\* The task is polled after its listener was notified.
Wake(t) ==
  /\ At(t, "wait")
  /\ t \in lock_ops.notified
  /\ lock_ops' = Consume(lock_ops, t)
  /\ Goto(t, "retry")
  /\ UNCHANGED state

\* compare_exchange(0, 1) after a notification.
Retry(t) ==
  /\ At(t, "retry")
  /\ \/ state = 0 /\ state' = 1 /\ Goto(t, "holding")
     \/ state = 1 /\ Goto(t, "listen") /\ UNCHANGED state
     \/ state > 1 /\ Goto(t, "pass") /\ UNCHANGED state
  /\ UNCHANGED lock_ops

\* The same, but more than 500 microseconds after the first poll.
RetryTooLate(t) ==
  /\ At(t, "retry")
  /\ state = 1
  /\ Goto(t, "starve")
  /\ UNCHANGED <<state, lock_ops>>

\* Somebody is starving: the notification was probably meant for them.
PassOn(t) ==
  /\ At(t, "pass")
  /\ lock_ops' = Notify(lock_ops, 1)
  /\ Goto(t, "starve")
  /\ UNCHANGED state

----------------------------------------------------------------------------
(* The fair path of a starving operation *)

\* fetch_add(2). An operation that came from "try" still has its listener and
\* goes straight to waiting.
Starve(t) ==
  /\ At(t, "starve")
  /\ state' = Wrap(state + 2)
  /\ \/ state > MAX \div 2 /\ Goto(t, "abort")
     \/ state <= MAX \div 2 /\ t \in Listeners(lock_ops) /\ Goto(t, "fair_wait")
     \/ state <= MAX \div 2 /\ t \notin Listeners(lock_ops) /\ Goto(t, "fair_listen")
  /\ UNCHANGED lock_ops

\* crate::abort: the counter was about to overflow.
Abort(t) ==
  /\ At(t, "abort")
  /\ aborted' = TRUE
  /\ UNCHANGED <<state, lock_ops, pc>>

FairListen(t) ==
  /\ At(t, "fair_listen")
  /\ lock_ops' = Listen(lock_ops, t)
  /\ Goto(t, "fair_try")
  /\ UNCHANGED state

\* Broken variant: waits without a word to the operation whose turn it is.
FairTryKeepsQuiet(t) ==
  /\ At(t, "fair_try")
  /\ \/ state = 2 /\ state' = 3 /\ Goto(t, "take")
     \/ state # 2 /\ Goto(t, "fair_wait") /\ UNCHANGED state
  /\ UNCHANGED lock_ops

\* Broken variant: takes "locked" for success.
FairTryWrongArm(t) ==
  /\ At(t, "fair_try")
  /\ \/ state = 2 /\ state' = 3 /\ Goto(t, "take")
     \/ Locked(state) /\ Goto(t, "take") /\ UNCHANGED state
     \/ state # 2 /\ ~Locked(state) /\ Goto(t, "fair_pass") /\ UNCHANGED state
  /\ UNCHANGED lock_ops

\* compare_exchange(2, 3): the lock is free and only this operation starves.
FairTry(t) ==
  /\ At(t, "fair_try")
  /\ \/ state = 2 /\ state' = 3 /\ Goto(t, "take")
     \/ Locked(state) /\ Goto(t, "fair_wait") /\ UNCHANGED state
     \/ state # 2 /\ ~Locked(state) /\ Goto(t, "fair_pass") /\ UNCHANGED state
  /\ UNCHANGED lock_ops

\* Be fair: notify the first listener and wait in line.
FairPassOn(t) ==
  /\ At(t, "fair_pass")
  /\ lock_ops' = Notify(lock_ops, 1)
  /\ Goto(t, "fair_wait")
  /\ UNCHANGED state

FairWake(t) ==
  /\ At(t, "fair_wait")
  /\ t \in lock_ops.notified
  /\ lock_ops' = Consume(lock_ops, t)
  /\ Goto(t, "fair_retry")
  /\ UNCHANGED state

\* Broken variant: does not look at the old value.
FairRetryBlind(t) ==
  /\ At(t, "fair_retry")
  /\ state' = (IF Locked(state) THEN state ELSE state + 1)
  /\ Goto(t, "take")
  /\ UNCHANGED lock_ops

\* fetch_or(1): take the lock if it is free, whoever else waits.
FairRetry(t) ==
  /\ At(t, "fair_retry")
  /\ \/ ~Locked(state) /\ state' = state + 1 /\ Goto(t, "take")
     \/ Locked(state) /\ Goto(t, "fair_listen") /\ UNCHANGED state
  /\ UNCHANGED lock_ops

\* take_mutex after a starving operation got the lock: it starves no longer.
TakeMutex(t) ==
  /\ At(t, "take")
  /\ state' = Wrap(state - 2)
  /\ Goto(t, "holding")
  /\ UNCHANGED lock_ops

----------------------------------------------------------------------------
(* Guards and futures that are dropped *)

\* The guard is dropped: fetch_sub(1) ...
Unlock(t) ==
  /\ At(t, "holding")
  /\ state' = Wrap(state - 1)
  /\ Goto(t, "unlock")
  /\ UNCHANGED lock_ops

\* ... and then notify(1).
UnlockNotify(t) ==
  /\ At(t, "unlock")
  /\ lock_ops' = Notify(lock_ops, 1)
  /\ Goto(t, "idle")
  /\ UNCHANGED state

\* Broken variant: the counter keeps counting an operation that is gone.
CancelKeepsCount(t) ==
  /\ At(t, "wait") \/ At(t, "fair_wait")
  /\ Goto(t, "idle")
  /\ UNCHANGED <<state, lock_ops>>

\* Broken variant: the destructor does not ask whether the operation starves.
CancelAlwaysCounts(t) ==
  /\ At(t, "wait") \/ At(t, "fair_wait")
  /\ state' = Wrap(state - 2)
  /\ Goto(t, "idle")
  /\ UNCHANGED lock_ops

\* A pending future is dropped. Its destructor first takes the operation off the
\* starvation counter; the listener goes later, with DropFuture.
Cancel(t) ==
  /\ \/ At(t, "wait") /\ UNCHANGED state
     \/ At(t, "fair_wait") /\ state' = Wrap(state - 2)
  /\ Goto(t, "idle")
  /\ UNCHANGED lock_ops

\* Broken variant: a notification dies with the future it was sent to.
DropFutureSwallows(t) ==
  /\ \E p \in {"idle", "holding", "unlock"} : At(t, p)
  /\ t \in Listeners(lock_ops)
  /\ lock_ops' = [notified |-> lock_ops.notified \ {t},
                  queue    |-> Remove(lock_ops.queue, t)]
  /\ UNCHANGED <<state, pc, aborted>>

\* The listener of a future that was cancelled or has completed is dropped.
DropFuture(t) ==
  /\ \E p \in {"idle", "holding", "unlock"} : At(t, p)
  /\ t \in Listeners(lock_ops)
  /\ lock_ops' = DropListener(lock_ops, t)
  /\ UNCHANGED <<state, pc, aborted>>

----------------------------------------------------------------------------
\* What a task does when it is polled, until it waits or returns.
Poll(t) ==
  \/ ListenFirst(t) \/ TryAgain(t) \/ Wake(t) \/ Retry(t) \/ RetryTooLate(t)
  \/ PassOn(t) \/ Starve(t) \/ FairListen(t) \/ FairTry(t) \/ FairPassOn(t)
  \/ FairWake(t) \/ FairRetry(t) \/ TakeMutex(t)

Next == \E t \in Task :
  \/ TryLock(t) \/ EnterSlow(t) \/ Poll(t) \/ Abort(t)
  \/ Unlock(t) \/ UnlockNotify(t) \/ Cancel(t) \/ DropFuture(t)

Spec == Init /\ [][Next]_vars

\* Woken tasks are polled, an operation that is to abort does so, and guards and
\* finished futures are dropped. Nothing makes a task start an operation or give
\* one up, and nothing says that an operation that keeps losing the race ever finds
\* itself too late.
Fairness == \A t \in Task :
  /\ WF_vars(Poll(t) \/ Abort(t))
  /\ WF_vars(Unlock(t) \/ UnlockNotify(t)) /\ WF_vars(DropFuture(t))

FairSpec == Spec /\ Fairness
----------------------------------------------------------------------------
(* Correctness *)

\* Every variable stays in its type.
TypeOK ==
  /\ state \in 0..MAX
  /\ lock_ops \in EventOf(Task)
  /\ pc \in [Task -> Points]
  /\ aborted \in BOOLEAN

\* Two guards of one mutex never coexist, whichever of the five ways of taking
\* the lock (two compare_exchange(0, 1), try_lock, compare_exchange(2, 3),
\* fetch_or) each operation used.
MutualExclusion == \A t, u \in Owners : t = u

\* The state word says exactly how many operations starve and whether a guard is
\* alive, through cancellation, acquisition and the abort on overflow: a count
\* that is left behind would disable the fast path for good, one that is lost
\* would let the fetch_sub of another operation clear the lock bit.
WordInv == state = 2 * Cardinality(Starving) + (IF Owners = {} THEN 0 ELSE 1)

\* No operation wraps the word: it moves by one count at most, and a wrap would move
\* it by almost its whole range. What an operation adds to the counter is still there
\* when it, its destructor or take_mutex subtracts it (mutex.rs:508, 588), and
\* the lock bit when a guard clears it (205).
NeverWraps == [][state' - state \in (-2)..2]_vars

\* While the mutex is free and an operation sleeps, somebody is on the way who
\* takes the lock or notifies: a listener that was notified, or an operation
\* before its next attempt or its call of notify.
Responsible ==
  lock_ops.notified \cup In({"unlock", "retry", "pass", "starve", "abort",
                             "fair_listen", "fair_try", "fair_pass", "fair_retry"})

\* No wakeup is lost between the release of the lock and the notification, nor
\* by a cancelled future, nor by one that returned its guard and still listens.
NoLostWakeup ==
  (~Locked(state) /\ In({"wait", "fair_wait"}) \cap Asleep(lock_ops) # {})
    => Responsible # {}

\* Eventual fairness (mutex.rs:22-24): while an operation starves, none that does
\* not starve gets the lock, whatever it read before.
NoBarging == [][\A t \in Task :
  (pc[t] \in {"idle", "try", "retry"} /\ pc'[t] = "holding") => Starving = {}]_vars

\* The mutex is a lock: its steps are those of LockSpec, or change nothing there.
Lock == INSTANCE LockSpec WITH waiting <- Requesting, owners <- Owners

ImplementsLock == Lock!Spec

\* Unless the process aborts, the mutex does not stay free while an operation waits
\* for it, even when other operations are cancelled without end or completed futures
\* linger.
Progress == <>aborted \/ Lock!Progress
=============================================================================
