------------------------------- MODULE RwLock -------------------------------
(***************************************************************************)
(* async_lock::RwLock (rwlock/raw.rs): read, upgradable_read, write, their *)
(* try_, _arc and _blocking variants, upgrades, downgrades and guards.     *)
(*                                                                         *)
(* A task of Task is one caller, and pc says which access to shared memory *)
(* its operation makes next.  It returned Pending at "read_wait",          *)
(* "up_lock", "w_lock" and "w_wait", and at "upgrading" it was not polled  *)
(* yet: there its future can be dropped.                                   *)
(*                                                                         *)
(* The inner Mutex<()> is its specification, LockSpec: the set of its      *)
(* owners, free to grant itself to any of its callers.                     *)
(*                                                                         *)
(* The value a reader loaded before its compare_exchange is not kept: the  *)
(* exchange fails if the word changed, and the loop then goes by the value *)
(* it found.  What it found decides, and a failure without consequence is  *)
(* a stuttering step.                                                      *)
(***************************************************************************)
EXTENDS EventListener

CONSTANTS Task,    \* the callers of the lock
          MAX,     \* usize::MAX, the largest value of the state word
          UsesDowngradeToUpgradable   \* whether some caller does

\* The word has at least three bits, all of which are set in MAX. Guards can be
\* forgotten (mem::forget), which is a task that stays at its guard, so the word need
\* not have room for all tasks.
ASSUME RwLockAssumption ==
  /\ IsFiniteSet(Task)
  /\ MAX \in Nat /\ 7 <= MAX /\ MAX % 4 = 3
  /\ UsesDowngradeToUpgradable \in BOOLEAN

VARIABLES state,       \* the word: bit 0 is WRITER_BIT, the rest counts readers
          mutex,       \* who owns the inner mutex
          no_readers,  \* event: the last reader left
          no_writer,   \* event: the writer left
          pc,          \* where the operation of each task is
          aborted      \* the process was aborted

vars == <<state, mutex, no_readers, no_writer, pc, aborted>>

WRITER_BIT == 1
ONE_READER == 2

----------------------------------------------------------------------------
(* Control points *)

ReadPoints    == {"read_listen", "read_reload", "read_cas", "read_wait", "read_chain", "try_cas"}
UpPoints      == {"up_lock", "up_load", "up_inc", "up_read"}
WritePoints   == {"w_lock", "w_bit", "w_listen", "w_check", "w_wait", "upgrading", "tw_cas",
                  "writing"}
ReleasePoints == {"ru_notify", "uu_notify", "wu_notify", "dw_mutex", "dw_notify", "mutex_unlock"}
Points == {"idle", "reading"} \cup ReadPoints \cup UpPoints \cup WritePoints \cup ReleasePoints

In(P) == {t \in Task : pc[t] \in P}

\* Counted as readers; the writer bit is theirs; owners of the inner mutex.
CountedPoints == {"reading", "up_read", "dw_mutex", "dw_notify"}
BitPoints     == {"w_listen", "w_check", "w_wait", "upgrading", "writing"}
MutexPoints   == BitPoints \cup {"up_load", "up_inc", "up_read", "w_bit", "tw_cas",
                                 "uu_notify", "wu_notify", "dw_mutex", "mutex_unlock"}

Wrap(x) == IF x > MAX THEN x - (MAX + 1) ELSE IF x < 0 THEN x + (MAX + 1) ELSE x

HasWriterBit(s) == s % 2 = WRITER_BIT
\* state > isize::MAX
TooManyReaders(s) == s > MAX \div 2
\* state & !WRITER_BIT == ONE_READER, of the value before the last reader left
WasLastReader(s) == s - (s % 2) = ONE_READER

----------------------------------------------------------------------------
Init ==
  /\ state = 0
  /\ mutex = {}
  /\ no_readers = NewEvent /\ no_writer = NewEvent
  /\ pc = [t \in Task |-> "idle"]
  /\ aborted = FALSE

At(t, p)   == ~aborted /\ pc[t] = p
Goto(t, p) == pc' = [pc EXCEPT ![t] = p] /\ UNCHANGED aborted

\* The task has no future left over from an earlier operation.
Fresh(t) == At(t, "idle") /\ t \notin Listeners(no_readers) \cup Listeners(no_writer)

\* crate::abort: the reader count is about to overflow.
Abort == aborted' = TRUE /\ UNCHANGED <<state, mutex, no_readers, no_writer, pc>>

\* The inner mutex, which is free, becomes t's.
TakeMutex(t) == mutex = {} /\ mutex' = {t}

----------------------------------------------------------------------------
(* Readers *)

\* An attempt to become a reader, from the value of the word that was just read:
\* abort, or go on to the compare_exchange, or to p because there is a writer.
Attempt(t, p) ==
  /\ UNCHANGED <<state, mutex, no_readers, no_writer>>
  /\ \/ HasWriterBit(state) /\ Goto(t, p)
     \/ ~HasWriterBit(state) /\ TooManyReaders(state) /\ Abort
     \/ ~HasWriterBit(state) /\ ~TooManyReaders(state) /\ Goto(t, "read_cas")

\* Where RawRead goes on when there is a writer.
Blocked(t) == IF t \in Listeners(no_writer) THEN "read_wait" ELSE "read_listen"

\* read() loads the state when the future is made.
StartRead(t) == Fresh(t) /\ Attempt(t, "read_listen")

\* try_read loads it too. (With a writer about, it fails and changes nothing.)
StartTryRead(t) ==
  /\ Fresh(t)
  /\ ~HasWriterBit(state)
  /\ UNCHANGED <<state, mutex, no_readers, no_writer>>
  /\ IF TooManyReaders(state) THEN Abort ELSE Goto(t, "try_cas")

\* Broken variant: joins other readers though a writer waits.
ReadCasJoinsReaders(t) ==
  /\ At(t, "read_cas")
  /\ IF state = WRITER_BIT \/ TooManyReaders(state)
     THEN Attempt(t, Blocked(t))
     ELSE /\ state' = Wrap(state + ONE_READER)
          /\ Goto(t, "reading")
          /\ UNCHANGED <<mutex, no_readers, no_writer>>

\* compare_exchange(state, state + ONE_READER) of a future ...
ReadCas(t) ==
  /\ At(t, "read_cas")
  /\ IF HasWriterBit(state) \/ TooManyReaders(state)
     THEN Attempt(t, Blocked(t))
     ELSE /\ state' = Wrap(state + ONE_READER)
          /\ Goto(t, "reading")
          /\ UNCHANGED <<mutex, no_readers, no_writer>>

\* ... and of try_read.
TryReadCas(t) ==
  /\ At(t, "try_cas")
  /\ IF HasWriterBit(state) \/ TooManyReaders(state)
     THEN Attempt(t, "idle")
     ELSE /\ state' = Wrap(state + ONE_READER)
          /\ Goto(t, "reading")
          /\ UNCHANGED <<mutex, no_readers, no_writer>>

\* Broken variant: sleeps without checking that there still is a writer.
ReadListenAndWait(t) ==
  /\ At(t, "read_listen")
  /\ no_writer' = Listen(no_writer, t)
  /\ Goto(t, "read_wait")
  /\ UNCHANGED <<state, mutex, no_readers>>

ReadListen(t) ==
  /\ At(t, "read_listen")
  /\ no_writer' = Listen(no_writer, t)
  /\ Goto(t, "read_reload")
  /\ UNCHANGED <<state, mutex, no_readers>>

\* Check the state again, after registering and after a notification.
ReadReload(t) == At(t, "read_reload") /\ Attempt(t, Blocked(t))

\* The task is polled after its listener was notified.
ReadWake(t) ==
  /\ At(t, "read_wait")
  /\ t \in no_writer.notified
  /\ no_writer' = Consume(no_writer, t)
  /\ Goto(t, "read_chain")
  /\ UNCHANGED <<state, mutex, no_readers>>

\* Broken variant: only the first reader is woken.
ReadChainBreaks(t) ==
  /\ At(t, "read_chain")
  /\ Goto(t, "read_reload")
  /\ UNCHANGED <<state, mutex, no_readers, no_writer>>

\* Notify the next reader waiting in the list.
ReadChain(t) ==
  /\ At(t, "read_chain")
  /\ no_writer' = Notify(no_writer, 1)
  /\ Goto(t, "read_reload")
  /\ UNCHANGED <<state, mutex, no_readers>>

----------------------------------------------------------------------------
(* The inner mutex: pending lock() calls, and try_lock *)

StartLock(t) ==
  /\ Fresh(t)
  /\ \E p \in {"up_lock", "w_lock"} : Goto(t, p)
  /\ UNCHANGED <<state, mutex, no_readers, no_writer>>

\* The mutex grants itself to a caller of lock().
Granted(t) ==
  /\ TakeMutex(t)
  /\ \/ At(t, "up_lock") /\ Goto(t, "up_load")
     \/ At(t, "w_lock") /\ Goto(t, "w_bit")
  /\ UNCHANGED <<state, no_readers, no_writer>>

\* try_upgradable_read and try_write. (When try_lock fails so do they.)
TryLock(t) ==
  /\ Fresh(t)
  /\ TakeMutex(t)
  /\ \E p \in {"up_load", "tw_cas"} : Goto(t, p)
  /\ UNCHANGED <<state, no_readers, no_writer>>

MutexUnlock(t) ==
  /\ At(t, "mutex_unlock")
  /\ mutex' = {}
  /\ Goto(t, "idle")
  /\ UNCHANGED <<state, no_readers, no_writer>>

----------------------------------------------------------------------------
(* Upgradable readers *)

\* The number of readers is checked once, before the exchange.
UpLoad(t) ==
  /\ At(t, "up_load")
  /\ UNCHANGED <<state, mutex, no_readers, no_writer>>
  /\ IF TooManyReaders(state) THEN Abort ELSE Goto(t, "up_inc")

\* The exchange is tried until it succeeds: the owner of the mutex has no writer
\* to wait for.
UpIncrement(t) ==
  /\ At(t, "up_inc")
  /\ state' = Wrap(state + ONE_READER)
  /\ Goto(t, "up_read")
  /\ UNCHANGED <<mutex, no_readers, no_writer>>

\* Broken variant: other readers may be left.
TryUpgradeIgnoresReaders(t) ==
  /\ At(t, "up_read")
  /\ state' = state - (ONE_READER - WRITER_BIT)
  /\ Goto(t, "writing")
  /\ UNCHANGED <<mutex, no_readers, no_writer>>

\* compare_exchange(ONE_READER, WRITER_BIT). (When it fails nothing changes.)
TryUpgrade(t) ==
  /\ At(t, "up_read")
  /\ state = ONE_READER
  /\ state' = WRITER_BIT
  /\ Goto(t, "writing")
  /\ UNCHANGED <<mutex, no_readers, no_writer>>

\* upgrade(): one reader less and the writer bit, at once. The future's own
\* listener is the task's only one.
Upgrade(t) ==
  /\ At(t, "up_read")
  /\ t \notin Listeners(no_readers)
  /\ state' = Wrap(state - (ONE_READER - WRITER_BIT))
  /\ Goto(t, "upgrading")
  /\ UNCHANGED <<mutex, no_readers, no_writer>>

----------------------------------------------------------------------------
(* Writers *)

\* The mutex is this writer's: fetch_or(WRITER_BIT) stops new readers. The code
\* then compares the value from before with WRITER_BIT.
WriteBit(t) ==
  /\ At(t, "w_bit")
  /\ state' = (IF HasWriterBit(state) THEN state ELSE state + WRITER_BIT)
  /\ Goto(t, IF state = WRITER_BIT THEN "writing" ELSE "w_listen")
  /\ UNCHANGED <<mutex, no_readers, no_writer>>

WriteListen(t) ==
  /\ At(t, "w_listen")
  /\ no_readers' = Listen(no_readers, t)
  /\ Goto(t, "w_check")
  /\ UNCHANGED <<state, mutex, no_writer>>

\* Are the readers gone? A write future that waits for readers, and an upgrade
\* that is polled, do the same.
WriteCheck(t) ==
  /\ At(t, "w_check") \/ At(t, "upgrading")
  /\ \/ state = WRITER_BIT /\ Goto(t, "writing")
     \/ state # WRITER_BIT /\ t \in Listeners(no_readers) /\ Goto(t, "w_wait")
     \/ state # WRITER_BIT /\ t \notin Listeners(no_readers) /\ Goto(t, "w_listen")
  /\ UNCHANGED <<state, mutex, no_readers, no_writer>>

WriteWake(t) ==
  /\ At(t, "w_wait")
  /\ t \in no_readers.notified
  /\ no_readers' = Consume(no_readers, t)
  /\ Goto(t, "w_check")
  /\ UNCHANGED <<state, mutex, no_writer>>

TryWriteCas(t) ==
  /\ At(t, "tw_cas")
  /\ \/ state = 0 /\ state' = WRITER_BIT /\ Goto(t, "writing")
     \/ state # 0 /\ Goto(t, "mutex_unlock") /\ UNCHANGED state
  /\ UNCHANGED <<mutex, no_readers, no_writer>>

----------------------------------------------------------------------------
(* Guards that are dropped or downgraded *)

\* Broken variant: does not mask the bit of the writer that waits.
ReadUnlockUnmasked(t) ==
  /\ At(t, "reading")
  /\ state' = Wrap(state - ONE_READER)
  /\ Goto(t, IF state = ONE_READER THEN "ru_notify" ELSE "idle")
  /\ UNCHANGED <<mutex, no_readers, no_writer>>

\* fetch_sub(ONE_READER); the last reader has to notify.
ReadUnlock(t) ==
  /\ At(t, "reading")
  /\ state' = Wrap(state - ONE_READER)
  /\ Goto(t, IF WasLastReader(state) THEN "ru_notify" ELSE "idle")
  /\ UNCHANGED <<mutex, no_readers, no_writer>>

UpgradableUnlock(t) ==
  /\ At(t, "up_read")
  /\ state' = Wrap(state - ONE_READER)
  /\ Goto(t, IF WasLastReader(state) THEN "uu_notify" ELSE "mutex_unlock")
  /\ UNCHANGED <<mutex, no_readers, no_writer>>

NotifyNoReaders(t) ==
  /\ \/ At(t, "ru_notify") /\ Goto(t, "idle")
     \/ At(t, "uu_notify") /\ Goto(t, "mutex_unlock")
  /\ no_readers' = Notify(no_readers, 1)
  /\ UNCHANGED <<state, mutex, no_writer>>

\* fetch_and(!WRITER_BIT)
ClearBit == state' = (IF HasWriterBit(state) THEN state - WRITER_BIT ELSE state)

WriteUnlock(t) ==
  /\ At(t, "writing")
  /\ ClearBit
  /\ Goto(t, "wu_notify")
  /\ UNCHANGED <<mutex, no_readers, no_writer>>

NotifyNoWriter(t) ==
  /\ \/ At(t, "wu_notify") /\ Goto(t, "mutex_unlock")
     \/ At(t, "dw_notify") /\ Goto(t, "reading")
  /\ no_writer' = Notify(no_writer, 1)
  /\ UNCHANGED <<state, mutex, no_readers>>

\* A write guard becomes a read guard: one reader more and no writer bit, at once.
DowngradeWrite(t) ==
  /\ At(t, "writing")
  /\ state' = Wrap(state + (ONE_READER - WRITER_BIT))
  /\ Goto(t, "dw_mutex")
  /\ UNCHANGED <<mutex, no_readers, no_writer>>

DowngradeMutexUnlock(t) ==
  /\ At(t, "dw_mutex")
  /\ mutex' = {}
  /\ Goto(t, "dw_notify")
  /\ UNCHANGED <<state, no_readers, no_writer>>

\* Broken variant: releases the mutex like the other downgrades.
DowngradeAndUnlock(t) ==
  /\ UsesDowngradeToUpgradable
  /\ At(t, "writing")
  /\ state' = Wrap(state + (ONE_READER - WRITER_BIT))
  /\ mutex' = {}
  /\ Goto(t, "up_read")
  /\ UNCHANGED <<no_readers, no_writer>>

\* A write guard becomes an upgradable read guard, which keeps the mutex.
DowngradeToUpgradable(t) ==
  /\ UsesDowngradeToUpgradable
  /\ At(t, "writing")
  /\ state' = Wrap(state + (ONE_READER - WRITER_BIT))
  /\ Goto(t, "up_read")
  /\ UNCHANGED <<mutex, no_readers, no_writer>>

DowngradeUpgradable(t) ==
  /\ At(t, "up_read")
  /\ mutex' = {}
  /\ Goto(t, "reading")
  /\ UNCHANGED <<state, no_readers, no_writer>>

----------------------------------------------------------------------------
(* Futures that are dropped *)

\* A pending future is dropped before its writer bit is set. The inner mutex
\* forgets its caller, and a listener goes with DropFuture.
Cancel(t) ==
  /\ \E p \in {"read_wait", "up_lock", "w_lock"} : At(t, p)
  /\ Goto(t, "idle")
  /\ UNCHANGED <<state, mutex, no_readers, no_writer>>

\* Broken variant: the bit of a writer that gave up stays.
CancelWriteKeepsBit(t) ==
  /\ At(t, "w_wait") \/ At(t, "upgrading")
  /\ Goto(t, "wu_notify")
  /\ UNCHANGED <<state, mutex, no_readers, no_writer>>

\* Broken variant: the future is dropped as the reader that it was.
CancelWriteAsReader(t) ==
  /\ At(t, "w_wait") \/ At(t, "upgrading")
  /\ state' = Wrap(state - ONE_READER)
  /\ Goto(t, "wu_notify")
  /\ UNCHANGED <<mutex, no_readers, no_writer>>

\* A write or upgrade future that waits for readers calls write_unlock.
CancelWrite(t) ==
  /\ At(t, "w_wait") \/ At(t, "upgrading")
  /\ ClearBit
  /\ Goto(t, "wu_notify")
  /\ UNCHANGED <<mutex, no_readers, no_writer>>

\* Broken variant: a notification dies with the future it was sent to.
DropFutureSwallows(t) ==
  /\ \E p \in {"idle", "reading", "up_read", "writing"} : At(t, p)
  /\ t \in Listeners(no_readers)
  /\ no_readers' = [notified |-> no_readers.notified \ {t},
                    queue    |-> Remove(no_readers.queue, t)]
  /\ UNCHANGED <<state, mutex, no_writer, pc, aborted>>

\* The listener of a future that was cancelled or has completed is dropped.
DropFuture(t) ==
  /\ \E p \in {"idle", "reading", "up_read", "writing"} : At(t, p)
  /\ \/ /\ t \in Listeners(no_readers)
        /\ no_readers' = DropListener(no_readers, t)
        /\ UNCHANGED no_writer
     \/ /\ t \in Listeners(no_writer)
        /\ no_writer' = DropListener(no_writer, t)
        /\ UNCHANGED no_readers
  /\ UNCHANGED <<state, mutex, pc, aborted>>

----------------------------------------------------------------------------
Begin(t) == StartRead(t) \/ StartTryRead(t) \/ StartLock(t) \/ TryLock(t)

\* What a task does when it is polled, until it waits or returns.
Poll(t) ==
  \/ ReadCas(t) \/ TryReadCas(t) \/ ReadListen(t) \/ ReadReload(t) \/ ReadWake(t)
  \/ ReadChain(t) \/ UpLoad(t) \/ UpIncrement(t)
  \/ WriteBit(t) \/ WriteListen(t) \/ WriteCheck(t) \/ WriteWake(t) \/ TryWriteCas(t)

Release(t) ==
  \/ ReadUnlock(t) \/ UpgradableUnlock(t) \/ WriteUnlock(t)
  \/ NotifyNoReaders(t) \/ NotifyNoWriter(t) \/ DowngradeMutexUnlock(t) \/ MutexUnlock(t)

\* What the two kinds of guard that own the mutex can be changed into.
Change(t) ==
  \/ At(t, "up_read") /\ (TryUpgrade(t) \/ Upgrade(t) \/ DowngradeUpgradable(t))
  \/ At(t, "writing") /\ (DowngradeWrite(t) \/ DowngradeToUpgradable(t))

Next == \E t \in Task :
  \/ Begin(t) \/ Granted(t) \/ Poll(t) \/ Release(t) \/ Change(t)
  \/ Cancel(t) \/ CancelWrite(t) \/ DropFuture(t)

Spec == Init /\ [][Next]_vars

\* Woken tasks are polled; guards and finished futures are dropped; and the inner
\* mutex does not stay free while a call waits for it (Progress of LockSpec). Which
\* call it serves is not known, and nobody has to start or cancel anything.
Fairness ==
  /\ WF_vars(\E t \in Task : Granted(t))
  /\ \A t \in Task : WF_vars(Poll(t)) /\ WF_vars(Release(t)) /\ WF_vars(DropFuture(t))

FairSpec == Spec /\ Fairness
----------------------------------------------------------------------------
(* Correctness *)

\* Every variable stays in its type.
TypeOK ==
  /\ state \in 0..MAX
  /\ mutex \in SUBSET Task
  /\ no_readers \in EventOf(Task) /\ no_writer \in EventOf(Task)
  /\ pc \in [Task -> Points]
  /\ aborted \in BOOLEAN

Counted == In(CountedPoints)
\* The state word is exactly the number of read guards and the bit of the one
\* writer that writes or waits, through upgrades, downgrades and cancellation: a
\* bit left behind would lock readers out for good, a count left behind writers.
WordInv ==
  /\ state = ONE_READER * Cardinality(Counted) + (IF In(BitPoints) = {} THEN 0 ELSE WRITER_BIT)
  /\ \A t, u \in In(BitPoints) : t = u

\* The guard of the inner mutex is forgotten and released by hand: exactly the
\* operations that count on owning it own it, and it is never released twice.
MutexInv == /\ mutex = In(MutexPoints)
            /\ \A t, u \in mutex : t = u

\* A write guard excludes every other guard, of readers and of writers, however each
\* was obtained.
WriterExclusive == \A t \in In({"writing"}) : Counted = {} /\ In({"writing"}) = {t}

\* However many guards are alive, or forgotten, no operation wraps the word: the word
\* moves by one reader at most, and a wrap would move it by almost its whole range.
\* The abort at half the range (raw.rs:72, 113, 311, 381) leaves room for the
\* increments that were decided on before, and for the writer bit.
NeverWraps == [][state' - state \in (-ONE_READER)..ONE_READER]_vars

\* While no reader is left, a writer that sleeps on "no readers" is on somebody's
\* way: a listener that was notified, or a last reader before its notify.
NoSleepingWriter ==
  (state = WRITER_BIT /\ In({"w_wait"}) \cap Asleep(no_readers) # {})
    => no_readers.notified \cup In({"ru_notify", "uu_notify"}) # {}

\* While there is no writer, a reader that sleeps on "no writer" is on somebody's
\* way: a listener that was notified, a writer before its notify, or a reader that
\* was woken and passes it on.
NoSleepingReader ==
  (~HasWriterBit(state) /\ In({"read_wait"}) \cap Asleep(no_writer) # {})
    => no_writer.notified \cup In({"wu_notify", "dw_mutex", "dw_notify", "read_chain"}) # {}

\* The lock is a write-preferring reader-writer lock.
Promise == INSTANCE RwLockSpec WITH
  readers    <- In({"reading", "dw_mutex", "dw_notify"}),
  upgradable <- In({"up_read"}),
  intent     <- In(BitPoints \ {"writing"}),
  writer     <- In({"writing"})

ImplementsRwLock == Promise!Spec

\* Writers are never starved (rwlock.rs:21): one that set its bit gets the lock, or
\* gives up, whatever readers do.
WriterIsServed == \A t \in Task :
  (pc[t] \in BitPoints \ {"writing"}) ~> (pc[t] \notin BitPoints \ {"writing"})

\* Releasing a write lock wakes the next blocked reader (rwlock.rs:22), and that one
\* the next: no reader sleeps for ever while guards come and go.
ReaderIsWoken == \A t \in Task : (pc[t] = "read_wait") ~> (pc[t] # "read_wait")
=============================================================================
