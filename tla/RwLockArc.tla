----------------------------- MODULE RwLockArc -----------------------------
(***************************************************************************)
(* The RwLock behind an Arc: handles, the futures and guards that borrow   *)
(* the lock, and the ones that own a count of the Arc (rwlock.rs,          *)
(* rwlock/futures.rs).  The owned ones take the Arc apart by hand          *)
(* (ManuallyDrop, ptr::read, into_raw and from_raw) and UpgradeArc keeps a *)
(* raw future with a made-up 'static reference into it.                    *)
(*                                                                         *)
(* The steps on the lock itself are those of RwLock.  Here each one gets   *)
(* what the code around it does to the Arc.  A task has at most one handle *)
(* and at most one call; the borrow checker keeps the handle a call        *)
(* borrows from.  An EventListener has no lifetime: it owns the event's    *)
(* list, so dropping one does not touch the lock, and the model lets it    *)
(* happen at any later time.                                               *)
(***************************************************************************)
EXTENDS RwLock, ArcCount

VARIABLES call,     \* what the call of each task has: "ref", a reference; "arc", a
                    \* reference to clone from; "owned", an Arc of its own
          ready     \* tasks with an UpgradeArc that returned its guard and is not
                    \* dropped yet

arc == <<handles, call, ready, strong, freed>>
arcVars == <<vars, arc>>

\* Owned guards, pending UpgradeArcs, and the destructors of either.
Owned == {t \in Task : call[t] = "owned"}

\* A reference into the lock that was borrowed from the task's handle.
Borrows(t) == call[t] # "owned" /\ pc[t] # "idle"

ArcInit ==
  /\ Init
  /\ OneHandle(Task)
  /\ call = [t \in Task |-> "ref"]
  /\ ready = {}

\* The call of t now has c.
Has(t, c) == call' = [call EXCEPT ![t] = c]

----------------------------------------------------------------------------
(* Handles *)

CloneHandle(t, u) ==
  /\ ~aborted
  /\ GiveHandle(t, u)
  /\ UNCHANGED <<vars, call, ready>>

DropHandle(t) ==
  /\ ~aborted
  /\ ~Borrows(t)
  /\ LoseHandle(t)
  /\ UNCHANGED <<vars, call, ready>>

\* Arc::try_unwrap gives the lock away when the count is one, and into_inner takes
\* the value out without a look at the lock.
IntoInner(t) == strong = 1 /\ DropHandle(t)

----------------------------------------------------------------------------
(* Calls of RwLock: the ones that return a borrowing guard (c is "ref") and the *)
(* _arc ones ("arc"), of which the futures borrow as well                       *)

Starts(t, c) ==
  /\ t \in handles \ ready
  /\ call[t] # "owned"
  /\ Has(t, c)
  /\ UNCHANGED <<handles, ready, strong, freed>>

CallRead(t, c) == Starts(t, c) /\ (StartRead(t) \/ StartTryRead(t))

CallUpgradableRead(t, c) ==
  /\ Starts(t, c)
  /\ StartLock(t) \/ TryLock(t)
  /\ pc'[t] \in {"up_lock", "up_load"}

CallWrite(t, c) ==
  /\ Starts(t, c)
  /\ StartLock(t) \/ TryLock(t)
  /\ pc'[t] \in {"w_lock", "tw_cas"}

\* A borrowing future, or the call of a try_ function, goes on.
PollBorrowed(t) ==
  /\ call[t] # "owned"
  /\ Granted(t) \/ Poll(t)
  /\ UNCHANGED arc

\* A pending borrowing future is dropped.
DropBorrowed(t) ==
  /\ call[t] # "owned"
  /\ Cancel(t) \/ CancelWrite(t)
  /\ UNCHANGED arc

\* The lock was taken: the owned guard gets a clone of the Arc.
OwnClone(t, p) ==
  /\ At(t, p)
  /\ call[t] = "arc"
  /\ Has(t, "owned")
  /\ Increment
  /\ UNCHANGED <<vars, handles, ready>>

ReadArc(t)           == OwnClone(t, "reading")
UpgradableReadArc(t) == OwnClone(t, "up_read")
WriteArc(t)          == OwnClone(t, "writing")

----------------------------------------------------------------------------
(* Borrowing guards *)

ReadGuard(t) == call[t] = "ref" /\ ReadUnlock(t) /\ UNCHANGED arc

UpgradableReadGuard(t) ==
  /\ call[t] = "ref"
  /\ UpgradableUnlock(t) \/ DowngradeUpgradable(t) \/ TryUpgrade(t) \/ Upgrade(t)
  /\ UNCHANGED arc

WriteGuard(t) ==
  /\ call[t] = "ref"
  /\ WriteUnlock(t) \/ DowngradeWrite(t) \/ DowngradeToUpgradable(t)
  /\ UNCHANGED arc

\* The rest of an unlock or a downgrade, which touches the lock though the word
\* does not count it any more.
Unlocking(t) ==
  /\ NotifyNoReaders(t) \/ NotifyNoWriter(t) \/ DowngradeMutexUnlock(t) \/ MutexUnlock(t)
  /\ UNCHANGED arc

----------------------------------------------------------------------------
(* Owned guards *)

\* Broken variant: gives the count back before the lock.
ReadGuardArcDropsArcFirst(t) ==
  /\ call[t] = "owned"
  /\ ReadUnlock(t)
  /\ Has(t, "ref")
  /\ Decrement
  /\ UNCHANGED <<handles, ready>>

\* The Arc is rebuilt from the raw pointer; it is dropped after read_unlock.
ReadGuardArcDrop(t) == call[t] = "owned" /\ ReadUnlock(t) /\ UNCHANGED arc

UpgradableReadGuardArcDrop(t) == call[t] = "owned" /\ UpgradableUnlock(t) /\ UNCHANGED arc

WriteGuardArcDrop(t) == call[t] = "owned" /\ WriteUnlock(t) /\ UNCHANGED arc

\* The Arc of a guard that is dropped, or of a cancelled UpgradeArc, goes last.
ArcDrop(t) ==
  /\ At(t, "idle")
  /\ call[t] = "owned"
  /\ Has(t, "ref")
  /\ Decrement
  /\ UNCHANGED <<vars, handles, ready>>

\* Broken variant: the guard is not wrapped in ManuallyDrop, so its Arc is dropped
\* next to the copy.
IntoArcDropsGuard == Decrement /\ UNCHANGED <<handles, call, ready>>

\* into_arc: the guard is forgotten and its Arc read out of it, so the count moves
\* from the old guard to the new one.
IntoArc == UNCHANGED arc

UpgradableReadGuardArcDowngrade(t) == call[t] = "owned" /\ DowngradeUpgradable(t) /\ IntoArc

\* (When try_upgrade fails the guard is handed back and nothing changes.)
UpgradableReadGuardArcTryUpgrade(t) == call[t] = "owned" /\ TryUpgrade(t) /\ IntoArc

UpgradableReadGuardArcUpgrade(t) ==
  /\ call[t] = "owned"
  /\ t \notin ready
  /\ Upgrade(t)
  /\ IntoArc

WriteGuardArcDowngrade(t) == call[t] = "owned" /\ DowngradeWrite(t) /\ IntoArc

WriteGuardArcDowngradeToUpgradable(t) ==
  call[t] = "owned" /\ DowngradeToUpgradable(t) /\ IntoArc

----------------------------------------------------------------------------
(* UpgradeArc *)

\* When the raw future is ready the Arc is taken out and given to the write guard.
UpgradeArcPoll(t) ==
  /\ call[t] = "owned"
  /\ WriteListen(t) \/ WriteCheck(t) \/ WriteWake(t)
  /\ ready' = (IF pc'[t] = "writing" THEN ready \cup {t} ELSE ready)
  /\ UNCHANGED <<handles, call, strong, freed>>

\* The raw future of an UpgradeArc is dropped with its listener.
DropRaw(t) == IF t \in Listeners(no_readers) THEN DropFuture(t) ELSE UNCHANGED vars

\* Broken variant: a cancelled upgrade leaves its Arc behind.
UpgradeArcDropLeaks(t) ==
  \/ /\ t \in ready
     /\ DropRaw(t)
     /\ ready' = ready \ {t}
     /\ UNCHANGED <<handles, call, strong, freed>>
  \/ /\ call[t] = "owned"
     /\ CancelWrite(t)
     /\ Has(t, "ref")
     /\ UNCHANGED <<handles, ready, strong, freed>>

\* A future that was ready drops only the raw one; one that was not drops the raw
\* one, which unlocks, and then the Arc (ArcDrop).
UpgradeArcDrop(t) ==
  \/ /\ ~aborted
     /\ t \in ready
     /\ DropRaw(t)
     /\ ready' = ready \ {t}
     /\ UNCHANGED <<handles, call, strong, freed>>
  \/ /\ call[t] = "owned"
     /\ CancelWrite(t)
     /\ UNCHANGED arc

\* The listener of any other future that was cancelled or has completed.
DropBorrowedListener(t) == t \notin ready /\ DropFuture(t) /\ UNCHANGED arc

----------------------------------------------------------------------------
OwnedStep(t) ==
  \/ ReadArc(t) \/ UpgradableReadArc(t) \/ WriteArc(t)
  \/ ReadGuardArcDrop(t) \/ UpgradableReadGuardArcDrop(t) \/ WriteGuardArcDrop(t) \/ ArcDrop(t)
  \/ UpgradableReadGuardArcDowngrade(t) \/ UpgradableReadGuardArcTryUpgrade(t)
  \/ UpgradableReadGuardArcUpgrade(t)
  \/ WriteGuardArcDowngrade(t) \/ WriteGuardArcDowngradeToUpgradable(t)
  \/ UpgradeArcPoll(t) \/ UpgradeArcDrop(t)

BorrowedStep(t) ==
  \/ \E c \in {"ref", "arc"} : CallRead(t, c) \/ CallUpgradableRead(t, c) \/ CallWrite(t, c)
  \/ PollBorrowed(t) \/ DropBorrowed(t) \/ DropBorrowedListener(t)
  \/ ReadGuard(t) \/ UpgradableReadGuard(t) \/ WriteGuard(t)

ArcNext == \E t \in Task :
  \/ \E u \in Task : CloneHandle(t, u)
  \/ DropHandle(t) \/ IntoInner(t)
  \/ BorrowedStep(t) \/ OwnedStep(t) \/ Unlocking(t)

ArcSpec == ArcInit /\ [][ArcNext]_arcVars
----------------------------------------------------------------------------
(* Correctness *)

\* Every variable stays in its type; the count never drops below zero.
ArcTypeOK ==
  /\ handles \in SUBSET Task
  /\ call \in [Task -> {"ref", "arc", "owned"}]
  /\ ready \in SUBSET Task
  /\ strong \in Nat
  /\ freed \in BOOLEAN

\* The count is the number of handles, owned guards and pending upgrades, through
\* every conversion that takes an Arc apart by hand, and the lock is freed exactly
\* when none is left: a count too many is a leak, one too few a use after free.
CountExact ==
  /\ strong = Cardinality(handles) + Cardinality(Owned)
  /\ freed <=> strong = 0

\* Nobody touches the lock when it is gone: no guard, no future that is not done,
\* and no destructor between its change of the word and its last notification.
LockOutlivesUse == freed => \A t \in Task : pc[t] = "idle"

\* While the count is one and the one is a handle nobody borrows from, the lock is
\* idle: Arc::get_mut with get_mut, and into_inner, reach the value without locking.
SoleHandleIsUnlocked ==
  (strong = 1 /\ \E t \in handles : ~Borrows(t))
    => state = 0 /\ mutex = {}
=============================================================================
