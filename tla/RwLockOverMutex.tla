--------------------------- MODULE RwLockOverMutex ---------------------------
(***************************************************************************)
(* RawRwLock (rwlock/raw.rs) with its inner Mutex<()> (mutex.rs) in full:  *)
(* RwLock takes the mutex for its specification, here it is Mutex itself,  *)
(* slow path, starvation and lingering listeners included.                 *)
(*                                                                         *)
(* A task has two places: point, where its RwLock operation is, and pc,    *)
(* where its use of the mutex is.  At "up_lock" and "w_lock" the operation *)
(* polls the future of mutex.lock(); it gets on when that returns a guard, *)
(* which it forgets.  Who owns the mutex, for RwLock, is who was given     *)
(* that guard and has not called unlock_unchecked.                         *)
(***************************************************************************)
EXTENDS Mutex

CONSTANT UsesDowngradeToUpgradable   \* whether some caller does

\* What RwLock assumes besides: a word of at least three bits, all set in MAX.
ASSUME OverMutexAssumption ==
  /\ 7 <= MAX /\ MAX % 4 = 3
  /\ UsesDowngradeToUpgradable \in BOOLEAN

VARIABLES word,                   \* the word of the RwLock
          no_readers, no_writer,  \* its events
          point,                  \* where its operation is, for each task
          halted                  \* it aborted the process

rwVars == <<word, no_readers, no_writer, point, halted>>

Rw == INSTANCE RwLock WITH
  state <- word, mutex <- In({"holding"}), pc <- point, aborted <- halted

LockPoints == {"up_lock", "w_lock"}

RwInit ==
  /\ Init
  /\ word = 0
  /\ no_readers = NewEvent /\ no_writer = NewEvent
  /\ point = [t \in Task |-> "idle"]
  /\ halted = FALSE

Running == ~aborted /\ ~halted

Move(t, p) == point' = [point EXCEPT ![t] = p] /\ UNCHANGED <<word, no_readers, no_writer, halted>>

\* The task has no future left over: neither has a listener.
NoFuture(t) == Rw!Fresh(t) /\ Fresh(t)

----------------------------------------------------------------------------
(* The future of mutex.lock() *)

\* upgradable_read and write make it, and do not poll it yet.
StartLock(t) ==
  /\ Running /\ NoFuture(t)
  /\ \E p \in LockPoints : Move(t, p)
  /\ UNCHANGED vars

\* It runs: its fast path, its slow path, and on to the guard.
PollLock(t) ==
  /\ Running /\ point[t] \in LockPoints
  /\ TryLock(t) \/ EnterSlow(t) \/ Poll(t)
  /\ IF pc'[t] = "holding"
     THEN Move(t, IF point[t] = "up_lock" THEN "up_load" ELSE "w_bit")
     ELSE UNCHANGED rwVars

\* try_upgradable_read and try_write call mutex.try_lock.
StartTryLock(t) ==
  /\ Running /\ NoFuture(t)
  /\ TryLock(t)
  /\ \E p \in {"up_load", "tw_cas"} : Move(t, p)

\* A pending operation is dropped, polled or not; the destructor of the lock future
\* takes it off the starvation counter.
DropPending(t) ==
  /\ Running /\ point[t] \in LockPoints
  /\ Cancel(t) \/ (Fresh(t) /\ UNCHANGED vars)
  /\ Move(t, "idle")

\* The listener of the lock future goes with it. RawUpgradableRead keeps that future
\* until it is dropped itself, which may be after an upgrade; RawWrite drops it when it
\* has begun to listen for readers, and here at that time or later.
DropLock(t) ==
  /\ Running /\ point[t] \notin {"up_load", "up_inc", "w_bit", "w_listen"}
  /\ DropFuture(t)
  /\ UNCHANGED rwVars

AbortInLock(t) == Running /\ Abort(t) /\ UNCHANGED rwVars

----------------------------------------------------------------------------
(* unlock_unchecked: fetch_sub, then notify *)

\* Where an operation that releases the mutex goes on.
After(p) == CASE p = "mutex_unlock" -> "idle" [] p = "dw_mutex" -> "dw_notify"
              [] p = "up_read" -> "reading"

ReleaseMutex(t) ==
  /\ Running /\ point[t] \in {"mutex_unlock", "dw_mutex", "up_read"}
  /\ Unlock(t)
  /\ Move(t, After(point[t]))

NotifyLockOps(t) == Running /\ UnlockNotify(t) /\ UNCHANGED rwVars

----------------------------------------------------------------------------
(* What the RwLock does besides *)

\* A new read operation.
StartRead(t) ==
  /\ Running /\ NoFuture(t)
  /\ UNCHANGED vars
  /\ Rw!StartRead(t) \/ Rw!StartTryRead(t)

\* The operation goes on, once it is through with unlock_unchecked.
RwStep(t) ==
  /\ Running /\ pc[t] # "unlock"
  /\ UNCHANGED vars
  /\ \/ Rw!ReadCas(t) \/ Rw!TryReadCas(t) \/ Rw!ReadListen(t) \/ Rw!ReadReload(t)
     \/ Rw!ReadWake(t) \/ Rw!ReadChain(t) \/ Rw!UpLoad(t) \/ Rw!UpIncrement(t)
     \/ Rw!WriteBit(t) \/ Rw!WriteListen(t) \/ Rw!WriteCheck(t) \/ Rw!WriteWake(t)
     \/ Rw!TryWriteCas(t)
     \/ Rw!ReadUnlock(t) \/ Rw!UpgradableUnlock(t) \/ Rw!WriteUnlock(t)
     \/ Rw!NotifyNoReaders(t) \/ Rw!NotifyNoWriter(t)
     \/ Rw!TryUpgrade(t) \/ Rw!Upgrade(t) \/ Rw!DowngradeWrite(t) \/ Rw!DowngradeToUpgradable(t)
     \/ Rw!CancelWrite(t) \/ Rw!DropFuture(t)
     \/ point[t] = "read_wait" /\ Rw!Cancel(t)

RwNext == \E t \in Task :
  \/ StartLock(t) \/ PollLock(t) \/ StartTryLock(t) \/ DropPending(t) \/ DropLock(t)
  \/ AbortInLock(t) \/ ReleaseMutex(t) \/ NotifyLockOps(t) \/ StartRead(t) \/ RwStep(t)

RwSpec == RwInit /\ [][RwNext]_<<vars, rwVars>>

----------------------------------------------------------------------------
(* Correctness *)

\* The RwLock over the mutex is the RwLock over the specification of the mutex.
ImplementsRw == Rw!Spec
=============================================================================
