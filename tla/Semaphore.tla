----------------------------- MODULE Semaphore -----------------------------
(***************************************************************************)
(* async_lock::Semaphore (semaphore.rs): acquire, acquire_arc,             *)
(* acquire_blocking, try_acquire, try_acquire_arc, add_permits, the guards *)
(* and their forget.                                                       *)
(*                                                                         *)
(* A task runs one call at a time; pc says which access to shared memory   *)
(* the call makes next.  As in Mutex, a future keeps its listener until it *)
(* is dropped, and a pending future can be dropped at "wait" only.         *)
(***************************************************************************)
EXTENDS EventListener

CONSTANTS Task,      \* the callers of the semaphore
          Permits,   \* the permits it is created with
          MaxAdd,    \* bound: permits added by add_permits in one behaviour
          MaxForget, \* bound: guards forgotten in one behaviour
          MAX        \* usize::MAX, the largest count

\* What a program adds in all is not limited by what a usize counts.
ASSUME SemaphoreAssumption ==
  /\ IsFiniteSet(Task)
  /\ MAX \in Nat \ {0} /\ Permits \in 0..MAX
  /\ MaxAdd \in Nat /\ MaxForget \in Nat

VARIABLES count,     \* the atomic count of permits that can be taken
          event,     \* the event acquire operations listen on
          pc,        \* where the call of each task is
          seen,      \* the count a running try_acquire last read
          owed,      \* notifications a call announces after its fetch_add
          added,     \* permits that add_permits created (history)
          forgotten  \* permits that were forgotten (history)

vars == <<count, event, pc, seen, owed, added, forgotten>>

----------------------------------------------------------------------------
(* Control points: the loop of try_acquire runs on its own ("try_...") or    *)
(* inside the poll of an acquire future.                                     *)

Acquiring == {"load", "cas", "listen", "wait"}
Points == {"idle", "try_load", "try_cas", "holding", "notify"} \cup Acquiring

In(P) == {t \in Task : pc[t] \in P}

Waiting == In(Acquiring \cup {"try_load", "try_cas"})
Holders == In({"holding"})

\* Wrapping arithmetic on the count.
Wrap(x) == IF x > MAX THEN x - (MAX + 1) ELSE x

Init ==
  /\ count = Permits
  /\ event = NewEvent
  /\ pc = [t \in Task |-> "idle"]
  /\ seen = [t \in Task |-> 0]
  /\ owed = [t \in Task |-> 0]
  /\ added = 0 /\ forgotten = 0

Goto(t, p) == pc' = [pc EXCEPT ![t] = p]

\* The task has no future left over from an earlier call.
Fresh(t) == pc[t] = "idle" /\ t \notin Listeners(event)

----------------------------------------------------------------------------
(* try_acquire *)

Start(t) ==
  /\ Fresh(t)
  /\ \E p \in {"try_load", "load"} : Goto(t, p)
  /\ UNCHANGED <<count, event, seen, owed, added, forgotten>>

\* Broken variant: does not stop at zero.
ExamineGoesOn(t) ==
  /\ seen' = [seen EXCEPT ![t] = count]
  /\ Goto(t, IF pc[t] \in Acquiring THEN "cas" ELSE "try_cas")

\* What the loop does with the count it has read: try to take a permit, or
\* report that there is none. An acquire future then registers a listener, or,
\* if it has one, waits.
Examine(t) ==
  /\ seen' = [seen EXCEPT ![t] = count]
  /\ \/ count > 0 /\ Goto(t, IF pc[t] \in Acquiring THEN "cas" ELSE "try_cas")
     \/ count = 0 /\ pc[t] \notin Acquiring /\ Goto(t, "idle")
     \/ count = 0 /\ pc[t] \in Acquiring
          /\ Goto(t, IF t \in Listeners(event) THEN "wait" ELSE "listen")

Load(t) ==
  /\ pc[t] \in {"load", "try_load"}
  /\ Examine(t)
  /\ UNCHANGED <<count, event, owed, added, forgotten>>

\* compare_exchange_weak(count, count - 1) finds another count, or fails for no
\* reason: either way the loop goes on with the count it found.
CasFails(t) ==
  /\ pc[t] \in {"cas", "try_cas"}
  /\ Examine(t)
  /\ UNCHANGED <<count, event, owed, added, forgotten>>

\* Broken variant: stores count - 1 whatever the count is by now.
CasStoresBlindly(t) ==
  /\ pc[t] \in {"cas", "try_cas"}
  /\ count' = seen[t] - 1
  /\ seen' = [seen EXCEPT ![t] = 0]
  /\ Goto(t, "holding")
  /\ UNCHANGED <<event, owed, added, forgotten>>

\* It succeeds.
CasTakes(t) ==
  /\ pc[t] \in {"cas", "try_cas"}
  /\ count = seen[t]
  /\ count' = seen[t] - 1
  /\ seen' = [seen EXCEPT ![t] = 0]
  /\ Goto(t, "holding")
  /\ UNCHANGED <<event, owed, added, forgotten>>

----------------------------------------------------------------------------
(* The rest of an acquire future *)

\* Broken variant: goes to sleep without a second look at the count.
ListenAndWait(t) ==
  /\ pc[t] = "listen"
  /\ event' = Listen(event, t)
  /\ Goto(t, "wait")
  /\ UNCHANGED <<count, seen, owed, added, forgotten>>

ListenFirst(t) ==
  /\ pc[t] = "listen"
  /\ event' = Listen(event, t)
  /\ Goto(t, "load")
  /\ UNCHANGED <<count, seen, owed, added, forgotten>>

\* The future is polled after its listener was notified.
Wake(t) ==
  /\ pc[t] = "wait"
  /\ t \in event.notified
  /\ event' = Consume(event, t)
  /\ Goto(t, "load")
  /\ UNCHANGED <<count, seen, owed, added, forgotten>>

\* Broken variant: treats the pending future as a guard.
CancelGivesBack(t) ==
  /\ pc[t] = "wait"
  /\ count' = Wrap(count + 1)
  /\ Goto(t, "idle")
  /\ UNCHANGED <<event, seen, owed, added, forgotten>>

\* A pending future is dropped; its listener follows with DropFuture.
Cancel(t) ==
  /\ pc[t] = "wait"
  /\ Goto(t, "idle")
  /\ UNCHANGED <<count, event, seen, owed, added, forgotten>>

\* Broken variant: a notification dies with the future it was sent to.
DropFutureSwallows(t) ==
  /\ pc[t] \in {"idle", "holding", "notify"}
  /\ t \in Listeners(event)
  /\ event' = [notified |-> event.notified \ {t}, queue |-> Remove(event.queue, t)]
  /\ UNCHANGED <<count, pc, seen, owed, added, forgotten>>

\* The listener of a future that was cancelled or has completed is dropped.
DropFuture(t) ==
  /\ pc[t] \in {"idle", "holding", "notify"}
  /\ t \in Listeners(event)
  /\ event' = DropListener(event, t)
  /\ UNCHANGED <<count, pc, seen, owed, added, forgotten>>

----------------------------------------------------------------------------
(* Permits that come back, go away, and are new *)

\* fetch_add(n) by a call that then notifies n listeners.
Add(t, n) ==
  /\ count' = Wrap(count + n)
  /\ owed' = [owed EXCEPT ![t] = n]
  /\ Goto(t, "notify")
  /\ UNCHANGED <<event, seen>>

\* The guard is dropped.
Release(t) == pc[t] = "holding" /\ Add(t, 1) /\ UNCHANGED <<added, forgotten>>

AddPermits(t) ==
  /\ Fresh(t)
  /\ \E n \in 1..MAX : added + n <= MaxAdd /\ Add(t, n) /\ added' = added + n
  /\ UNCHANGED forgotten

\* The notification of the two calls above.
NotifyEvent(t) ==
  /\ pc[t] = "notify"
  /\ event' = Notify(event, owed[t])
  /\ owed' = [owed EXCEPT ![t] = 0]
  /\ Goto(t, "idle")
  /\ UNCHANGED <<count, seen, added, forgotten>>

\* The guard is forgotten: nothing is given back and nobody is notified.
Forget(t) ==
  /\ pc[t] = "holding"
  /\ forgotten < MaxForget
  /\ Goto(t, "idle")
  /\ forgotten' = forgotten + 1
  /\ UNCHANGED <<count, event, seen, owed, added>>

----------------------------------------------------------------------------
\* What a call does by itself once it was started.
Work(t) == Load(t) \/ CasTakes(t) \/ ListenFirst(t) \/ Wake(t) \/ NotifyEvent(t)

Next == \E t \in Task :
  \/ Start(t) \/ Work(t) \/ CasFails(t) \/ Cancel(t) \/ DropFuture(t)
  \/ Release(t) \/ AddPermits(t) \/ Forget(t)

Spec == Init /\ [][Next]_vars

\* Started calls run, woken futures are polled, finished futures are dropped, and
\* a compare_exchange is not disturbed for ever. Nothing makes a task release its
\* permit.
CallsRun == \A t \in Task :
  /\ WF_vars(Work(t) \/ (CasFails(t) /\ count # seen[t]))
  /\ SF_vars(CasTakes(t)) /\ WF_vars(DropFuture(t))

FairSpec == Spec /\ CallsRun

\* The same, in a program where guards are dropped in the end.
ReleasingSpec == FairSpec /\ \A t \in Task : WF_vars(Release(t))

----------------------------------------------------------------------------
(* Correctness *)

\* Every variable stays in its type; the count is never taken below zero.
TypeOK ==
  /\ count \in 0..MAX
  /\ event \in EventOf(Task)
  /\ pc \in [Task -> Points]
  /\ seen \in [Task -> 0..MAX]
  /\ owed \in [Task -> 0..MAX]
  /\ added \in 0..MaxAdd /\ forgotten \in 0..MaxForget

\* No permit is made up, and none is lost but by overflow: those that can be taken,
\* those that guards hold and those that were forgotten are the ones that were
\* created, less MAX + 1 for each time the unchecked fetch_add of add_permits, or of
\* a guard that is dropped, ran over. As long as no more than MAX were created it
\* never does.
Conservation == \E overflows \in 0..(Permits + added) :
  count + Cardinality(Holders) + forgotten + overflows * (MAX + 1) = Permits + added

\* While a permit is free and a call sleeps, somebody is on the way who takes the
\* permit or notifies, or a guard is alive or was forgotten. Without that last
\* part it would be false: the notifications of two releases can merge into one,
\* and the call that is woken does not notify the next (see PermitIsTaken).
OnTheWay ==
  event.notified \cup In({"load", "cas", "listen"}) \cup {t \in Task : owed[t] > 0}

NoLostWakeup ==
  (count > 0 /\ In({"wait"}) \cap Asleep(event) # {})
     => OnTheWay # {} \/ Holders # {} \/ forgotten > 0

\* The semaphore is a stock of permits.
Stock == INSTANCE SemaphoreSpec WITH supply  <- Permits + added - forgotten,
                                     waiting <- Waiting, holders <- Holders
ImplementsStock == Stock!Spec

\* An acquire future does not wait for ever beside a permit that nobody takes
\* ("Waits for a permit", semaphore.rs:79). It holds of a program where guards are
\* dropped in the end and none is forgotten; it is false where a guard may stay: two
\* releases that meet one pending notification wake a single call.
PermitIsTaken == \A t \in Task :
  (pc[t] = "wait" /\ count > 0) ~> (pc[t] # "wait" \/ count = 0 \/ forgotten > 0)
=============================================================================
