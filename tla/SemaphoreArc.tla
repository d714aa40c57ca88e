---------------------------- MODULE SemaphoreArc ----------------------------
(***************************************************************************)
(* The Semaphore behind an Arc (semaphore.rs): handles, the futures and    *)
(* guards that borrow it, and AcquireArc and SemaphoreGuardArc, which own  *)
(* counts of the Arc.  AcquireArc keeps its count until it is dropped,     *)
(* also after it returned a guard, which gets one of its own.              *)
(*                                                                         *)
(* The steps on the semaphore are those of Semaphore.  As there, a task    *)
(* runs one call at a time, and an EventListener may be dropped at any     *)
(* later time: it owns the event's list and does not touch the semaphore.  *)
(***************************************************************************)
EXTENDS Semaphore, ArcCount

VARIABLES call,     \* what the call of each task is: "ref", one that borrows from the
                    \* task's handle, or none; "arc", a try_acquire_arc; "unpolled" and
                    \* "future", an AcquireArc before and after its first poll
          owned     \* the tasks that have a SemaphoreGuardArc

arc == <<handles, call, owned, strong, freed>>
arcVars == <<vars, arc>>

ArcInit == Init /\ OneHandle(Task) /\ call = [t \in Task |-> "ref"] /\ owned = {}

Futures == {t \in Task : call[t] \in {"unpolled", "future"}}

\* A reference into the semaphore that was borrowed from the task's handle.
Borrows(t) == pc[t] # "idle" /\ t \notin Futures /\ t \notin owned

\* The call of t is now c.
Is(t, c) == call' = [call EXCEPT ![t] = c]

----------------------------------------------------------------------------
(* Handles *)

CloneHandle(t, u) == GiveHandle(t, u) /\ UNCHANGED <<vars, call, owned>>

DropHandle(t) == ~Borrows(t) /\ LoseHandle(t) /\ UNCHANGED <<vars, call, owned>>

----------------------------------------------------------------------------
(* Calls on a handle *)

Idle(t) == t \in handles /\ call[t] \in {"ref", "arc"} /\ t \notin owned

\* acquire, acquire_blocking, try_acquire and add_permits.
CallBorrowed(t) ==
  /\ Idle(t)
  /\ Start(t) \/ AddPermits(t)
  /\ Is(t, "ref")
  /\ UNCHANGED <<handles, owned, strong, freed>>

TryAcquireArc(t) ==
  /\ Idle(t)
  /\ Start(t) /\ pc'[t] = "try_load"
  /\ Is(t, "arc")
  /\ UNCHANGED <<handles, owned, strong, freed>>

\* acquire_arc and acquire_arc_blocking make the future.
CallAcquireArc(t) ==
  /\ Idle(t)
  /\ Fresh(t)
  /\ Is(t, "unpolled")
  /\ Increment
  /\ UNCHANGED <<vars, handles, owned>>

AcquireArcFirstPoll(t) ==
  /\ call[t] = "unpolled"
  /\ Start(t) /\ pc'[t] = "load"
  /\ Is(t, "future")
  /\ UNCHANGED <<handles, owned, strong, freed>>

\* The rest of a call that was begun.
GoOn(t) == (Work(t) \/ CasFails(t)) /\ UNCHANGED arc

\* A pending Acquire is dropped.
AcquireDrop(t) == call[t] = "ref" /\ Cancel(t) /\ UNCHANGED arc

\* An AcquireArc is dropped, unpolled, pending or done: the Arc, then the listener.
AcquireArcDrop(t) ==
  /\ t \in Futures
  /\ Cancel(t) \/ (pc[t] \in {"idle", "holding", "notify"} /\ UNCHANGED vars)
  /\ t \in owned \/ pc[t] # "holding"
  /\ Is(t, "ref")
  /\ Decrement
  /\ UNCHANGED <<handles, owned>>

ListenerDrop(t) == DropFuture(t) /\ UNCHANGED arc

----------------------------------------------------------------------------
(* Guards *)

\* try_acquire_arc has a permit: the guard gets a clone.
CloneToGuard(t) ==
  /\ pc[t] = "holding"
  /\ call[t] \in {"arc", "future"} /\ t \notin owned
  /\ owned' = owned \cup {t}
  /\ Increment
  /\ UNCHANGED <<vars, handles, call>>

SemaphoreGuard(t) ==
  /\ call[t] = "ref" /\ t \notin owned
  /\ Release(t) \/ Forget(t)
  /\ UNCHANGED arc

\* Broken variant: the Arc goes out of scope before the notification.
SemaphoreGuardArcDropsArcFirst(t) ==
  /\ t \in owned
  /\ Release(t)
  /\ owned' = owned \ {t}
  /\ Decrement
  /\ UNCHANGED <<handles, call>>

\* The Arc is taken out of the guard; it is dropped at the end (ArcDrop).
SemaphoreGuardArcDrop(t) == t \in owned /\ Release(t) /\ UNCHANGED arc

ArcDrop(t) ==
  /\ pc[t] = "idle"
  /\ t \in owned
  /\ owned' = owned \ {t}
  /\ Decrement
  /\ UNCHANGED <<vars, handles, call>>

\* Broken variant: forgets the guard as SemaphoreGuard does, and the Arc with it.
SemaphoreGuardArcForgetLeaks(t) ==
  /\ t \in owned
  /\ Forget(t)
  /\ owned' = owned \ {t}
  /\ UNCHANGED <<handles, call, strong, freed>>

\* The Arc is dropped, then the guard is forgotten.
SemaphoreGuardArcForget(t) ==
  /\ t \in owned
  /\ Forget(t)
  /\ owned' = owned \ {t}
  /\ Decrement
  /\ UNCHANGED <<handles, call>>

----------------------------------------------------------------------------
ArcNext == \E t \in Task :
  \/ \E u \in Task : CloneHandle(t, u)
  \/ DropHandle(t)
  \/ CallBorrowed(t) \/ TryAcquireArc(t) \/ CallAcquireArc(t) \/ AcquireArcFirstPoll(t)
  \/ GoOn(t) \/ AcquireDrop(t) \/ AcquireArcDrop(t) \/ ListenerDrop(t)
  \/ CloneToGuard(t) \/ SemaphoreGuard(t)
  \/ SemaphoreGuardArcDrop(t) \/ ArcDrop(t) \/ SemaphoreGuardArcForget(t)

ArcSpec == ArcInit /\ [][ArcNext]_arcVars
----------------------------------------------------------------------------
(* Correctness *)

\* The count is the number of handles, AcquireArc futures and owned guards, also
\* when guards are forgotten, which gives the count back and not the permit
\* (semaphore.rs:394), and the semaphore is freed exactly when none is left.
CountExact ==
  /\ strong = Cardinality(handles) + Cardinality(Futures) + Cardinality(owned)
  /\ freed <=> strong = 0

\* Nobody touches the semaphore when it is gone: in particular the notification of
\* a guard finds it alive, though its permit may be taken and returned by then.
LockOutlivesUse == freed => \A t \in Task : pc[t] = "idle"
=============================================================================
