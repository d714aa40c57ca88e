------------------------------ MODULE MutexArc ------------------------------
(***************************************************************************)
(* The Mutex behind an Arc (mutex.rs): handles, the futures and guards     *)
(* that borrow the mutex, and LockArc and MutexGuardArc, which own a count *)
(* of the Arc.  LockArc has its count from the start; it moves from the    *)
(* future that was not polled to the slow path and on to the guard, while  *)
(* the fast path makes a second one for the guard and drops the first.     *)
(*                                                                         *)
(* The steps on the mutex are those of Mutex.  As there, an EventListener  *)
(* may be dropped at any later time: it owns the event's list and does not *)
(* touch the mutex.                                                        *)
(***************************************************************************)
EXTENDS Mutex, ArcCount

VARIABLE call   \* what the operation of each task has:
                \*   "ref"       a reference borrowed from the task's handle, or nothing
                \*   "arc"       such a reference, inside try_lock_arc
                \*   "unpolled"  the Arc of a LockArc before its slow path
                \*   "local"     that Arc, and its clone in the guard
                \*   "owned"     the Arc of the slow path or of the guard

arc == <<handles, call, strong, freed>>
arcVars == <<vars, arc>>

ArcInit == Init /\ OneHandle(Task) /\ call = [t \in Task |-> "ref"]

Owned  == {t \in Task : call[t] \in {"unpolled", "local", "owned"}}
Copied == {t \in Task : call[t] = "local"}

\* A reference into the mutex that was borrowed from the task's handle.
Borrows(t) == call[t] \in {"ref", "arc"} /\ pc[t] # "idle"

\* The call of t now has c.
Has(t, c) == call' = [call EXCEPT ![t] = c]

----------------------------------------------------------------------------
(* Handles *)

CloneHandle(t, u) == ~aborted /\ GiveHandle(t, u) /\ UNCHANGED <<vars, call>>

DropHandle(t) == ~aborted /\ ~Borrows(t) /\ LoseHandle(t) /\ UNCHANGED <<vars, call>>

----------------------------------------------------------------------------
(* Calls on a handle *)

\* lock, lock_blocking and try_lock.
CallLock(t) ==
  /\ t \in handles
  /\ call[t] = "ref"
  /\ TryLock(t) \/ EnterSlow(t)
  /\ UNCHANGED arc

TryLockArc(t) ==
  /\ t \in handles
  /\ call[t] = "ref"
  /\ TryLock(t)
  /\ Has(t, "arc")
  /\ UNCHANGED <<handles, strong, freed>>

\* lock_arc and lock_arc_blocking make the future.
LockArc(t) ==
  /\ t \in handles
  /\ call[t] = "ref"
  /\ Fresh(t)
  /\ Has(t, "unpolled")
  /\ Increment
  /\ UNCHANGED <<vars, handles>>

----------------------------------------------------------------------------
(* LockArc *)

\* The first poll takes the Arc out of the future and calls try_lock_arc.
FastPath(t) == call[t] = "unpolled" /\ TryLock(t) /\ UNCHANGED arc

\* It fails: the Arc moves into AcquireSlow.
SlowPath(t) ==
  /\ call[t] = "unpolled"
  /\ EnterSlow(t)
  /\ Has(t, "owned")
  /\ UNCHANGED <<handles, strong, freed>>

\* try_lock_arc has the lock: the guard gets a clone.
CloneToGuard(t) ==
  /\ At(t, "holding")
  /\ \/ call[t] = "arc" /\ Has(t, "owned")
     \/ call[t] = "unpolled" /\ Has(t, "local")
  /\ Increment
  /\ UNCHANGED <<vars, handles>>

\* The fast path returns; the Arc that the future had is dropped.
DropLocal(t) ==
  /\ ~aborted
  /\ call[t] = "local"
  /\ Has(t, "owned")
  /\ Decrement
  /\ UNCHANGED <<vars, handles>>

DropUnpolled(t) ==
  /\ At(t, "idle")
  /\ call[t] = "unpolled"
  /\ Has(t, "ref")
  /\ Decrement
  /\ UNCHANGED <<vars, handles>>

\* AcquireSlow, with a reference or an Arc: take_mutex moves it to the guard.
Acquire(t) == (Poll(t) \/ Abort(t)) /\ UNCHANGED arc

\* Broken variant: the Arc of a cancelled LockArc is forgotten.
DropAcquireForgets(t) ==
  /\ Cancel(t)
  /\ Has(t, "ref")
  /\ UNCHANGED <<handles, strong, freed>>

\* A pending future is dropped: it leaves the counter, then drops its Arc (ArcDrop).
DropAcquire(t) == Cancel(t) /\ UNCHANGED arc

DropAcquireListener(t) == DropFuture(t) /\ UNCHANGED arc

----------------------------------------------------------------------------
(* Guards *)

MutexGuardDrop(t) == call[t] = "ref" /\ Unlock(t) /\ UNCHANGED arc

\* Broken variant: gives the count back before the lock.
MutexGuardArcDropsArcFirst(t) ==
  /\ call[t] = "owned"
  /\ Unlock(t)
  /\ Has(t, "ref")
  /\ Decrement
  /\ UNCHANGED handles

MutexGuardArcDrop(t) == call[t] = "owned" /\ Unlock(t) /\ UNCHANGED arc

\* The rest of either: the mutex is free already and still notifies.
Unlocking(t) == UnlockNotify(t) /\ UNCHANGED arc

\* The Arc of the guard, or of a cancelled LockArc, goes last.
ArcDrop(t) ==
  /\ At(t, "idle")
  /\ call[t] = "owned"
  /\ Has(t, "ref")
  /\ Decrement
  /\ UNCHANGED <<vars, handles>>

----------------------------------------------------------------------------
ArcNext == \E t \in Task :
  \/ \E u \in Task : CloneHandle(t, u)
  \/ DropHandle(t)
  \/ CallLock(t) \/ TryLockArc(t) \/ LockArc(t)
  \/ FastPath(t) \/ SlowPath(t) \/ CloneToGuard(t) \/ DropLocal(t) \/ DropUnpolled(t)
  \/ Acquire(t) \/ DropAcquire(t) \/ DropAcquireListener(t)
  \/ MutexGuardDrop(t) \/ MutexGuardArcDrop(t) \/ Unlocking(t) \/ ArcDrop(t)

ArcSpec == ArcInit /\ [][ArcNext]_arcVars
----------------------------------------------------------------------------
(* Correctness *)

\* The count is the number of handles, LockArc futures and owned guards, and while
\* the fast path returns, one more; the mutex is freed exactly when none is left.
CountExact ==
  /\ strong = Cardinality(handles) + Cardinality(Owned) + Cardinality(Copied)
  /\ freed <=> strong = 0

\* Nobody touches the mutex when it is gone: in particular the notification of a
\* guard finds it alive, though the next owner may have come and gone since the
\* lock bit was cleared.
LockOutlivesUse == freed => \A t \in Task : pc[t] = "idle"
=============================================================================
