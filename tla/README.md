# A verification development for async-lock

This directory models the synchronisation primitives of the crate `async-lock`
in TLA+, model-checks them with TLC on small instances, and proves the most
important facts about them for every instance with TLAPS. Line numbers are
those of `src/` in this repository (`mutex.rs:203` is `src/src/mutex.rs`,
line 203).

## 1. The system

The crate has five primitives. Each is an atomic word (or a small state under a
lock) plus one or two *events* of the crate `event-listener`: an operation that
cannot proceed registers a listener, looks at the word again, and returns
`Pending`; whoever changes the word notifies the event. No primitive has a thread
of its own. All difficulty comes from what callers can do between any two atomic
accesses: run, be descheduled, be polled late, or have their future dropped.

| Component | State | Operations | Relies on |
|---|---|---|---|
| Mutex (`mutex.rs`) | word: bit 0 locked, rest = number of starving operations; event `lock_ops` | `lock`, `lock_arc`, `lock_blocking`, `try_lock(_arc)`, guard drop, future drop | Event |
| Semaphore (`semaphore.rs`) | count of free permits; event | `acquire(_arc,_blocking)`, `try_acquire(_arc)`, `add_permits`, guard drop, `forget` | Event |
| RawRwLock (`rwlock/raw.rs`) | word: bit 0 `WRITER_BIT`, rest = readers; inner `Mutex<()>` whose guard is forgotten; events `no_readers`, `no_writer` | read, upgradable read, write, each `try_`; upgrade, `try_upgrade`, three downgrades, three unlocks, drop of the four futures | Mutex, Event |
| RwLock guards and futures (`rwlock.rs`, `rwlock/futures.rs`) | a reference, or an `Arc`, to the lock; the raw future | the calls, conversions and destructors around the raw operations; `into_inner` | RawRwLock, Arc |
| Arc-owning futures and guards (`LockArc`, `AcquireArc`, `UpgradeArc`, the five `*GuardArc`) | a count of the `Arc` around the lock, moved by hand | clone, move from future to guard and from guard to guard, drop | the lock, Arc |
| Barrier (`barrier.rs`) | `count` and `generation_id` under a Mutex; event | `wait`, `wait_blocking`, drop of the future | Mutex, Event |
| OnceCell (`once_cell.rs`) | word: Uninitialized, Initializing, Initialized; the value; events `active_initializers`, `passive_waiters` | `get_or_try_init`, `get_or_init`, `set` (and blocking), `try_set`, `wait(_blocking)`, `get`, `take`, `into_inner`; failing, panicking, dropped initializers | Event |
| Arc (standard library, external) | strong count; freed at zero | clone, drop | |
| Event (crate `event-listener`, external) | FIFO list of listeners, a prefix of it notified | `listen`, `notify(n)`, `notify_additional`, poll and drop of a listener | |

What makes each of them correct, beyond its type:

* *Mutex*: mutual exclusion over five ways to take the lock; the word counts
  exactly, through cancellation; no wakeup is lost; once somebody starves, nobody
  who does not starve gets past; the lock does not stay free beside a waiter.
* *Semaphore*: permits are neither lost nor made up; a waiter does not stay asleep
  beside a free permit.
* *RwLock*: a writer excludes everybody; word and ownership of the inner mutex
  agree through every upgrade, downgrade and cancellation; a writer that announced
  itself is served; blocked readers are woken one by one.
* *Barrier*: nobody passes before the group is full; each group has one leader;
  everybody of a finished group returns although the next is forming.
* *OnceCell*: one initializer at a time; the first value stays; no reference to a
  value that is not there; a failed initializer is replaced; waiters return.
* *Owned futures and guards*: the count is exact through every conversion and
  cancellation; a lock is never touched after it was freed, in particular not by a
  destructor that has given the lock back and still has to notify.

The behaviours that are hard to test are listed line by line under `hazards` in
PROJECT.json. They are of a few kinds: check-then-listen races; word changed in
one step and notification sent in the next; futures dropped while they are
counted, notified, or halfway through a change; *completed* futures that live on
with their listener and can receive somebody else's notification; notifications
that merge; counters that share a word with a flag; counts of an `Arc` that are
taken apart and put together by hand; and, in the barrier, calls of an old
generation that meet the next one.

## 2. The modules

    EventListener            the event: what every other module waits on
      LockSpec               what a lock promises         <-- Mutex
      SemaphoreSpec          a stock of permits           <-- Semaphore
      RwLockSpec             a write-preferring lock      <-- RwLock  (uses LockSpec's promise)
                                                              <-- RwLockOverMutex (RwLock x Mutex)
      BarrierSpec            calls meet in groups of n    <-- Barrier (uses LockSpec's promise)
      OnceSpec               a write-once value           <-- OnceCell
    ArcCount                 the Arc around a lock
      MutexArc               Mutex x ArcCount             --> every behaviour is one of Mutex
      SemaphoreArc           Semaphore x ArcCount         --> ... of Semaphore
      RwLockArc              RwLock x ArcCount            --> ... of RwLock
    EventListenerProofs, ArcCountProofs, MutexProofs (with MutexArc), SemaphoreProofs
    (with SemaphoreArc), RwLockProofs (with RwLockArc), RwLockOverMutexProofs,
    BarrierProofs, OnceCellProofs
                             theorems, each EXTENDS the modules it is about
    MC*                      instances for TLC (a symmetry set), one .cfg per question

Conventions shared by the models:

* A *task* is one caller that runs one call at a time; `pc[t]` names the next
  access to shared memory of its call. One action is one atomic access together
  with the local work up to the next, so every interleaving of accesses is a
  behaviour. `Points` groups the control points; each action's comment names
  the code it stands for and PROJECT.json's `map` its lines.
* A future can be dropped only where it returned `Pending`: `Cancel` exists at
  exactly those points. The blocking variants run the same code and sleep at the
  same points, without `Cancel`.
* The futures of Mutex, Semaphore and RwLock keep their listener when they
  complete, until the future itself is dropped. `DropFuture` is that later
  moment, which may come after the guard was dropped. In Barrier (a poll that is ready takes
  the listener out, barrier.rs:219) and in OnceCell (a local of an `async fn`, dropped
  on return) the listener goes when the call goes.
* `aborted` is set by `crate::abort` and ends every behaviour.
* Definitions named *Broken variant* are plausible bugs (a dropped guard, a missing
  notify, a swapped arm). No action uses them; each documents which property would
  catch it, and the `mutants` of PROJECT.json pair them.

### EventListener
External code, modelled from its use. The notified listeners are a set (they form
a prefix of the list and their order no longer matters), the sleeping ones a
sequence. `Notify(e, n)` makes sure that n listeners hold a notification, so
notifications *merge*; dropping a notified listener passes its notification on.
Every operation takes the lock of the list and is one step.

### Mutex
The paths of `acquire_slow` (533-630): fast path, compete, listen-try-wait,
500 us timeout (any retry may find itself too late), pass a notification on,
`fetch_add(2)`, fair listen/try/wait, `fetch_or(1)`, `take_mutex`. The guard's drop
is two steps, `Unlock` (203-207) and `UnlockNotify`. The word holds 0..`MAX`, a constant;
`fetch_add` and `fetch_sub` go around its end as the machine's do (`Wrap`), and that none
ever does is a property, `NeverWraps`. `Requesting` and `Owners` map it to LockSpec.

### Semaphore
The compare-exchange loop with its spurious failures, used by `try_acquire` and by
the future; `fetch_add` and the notification apart (`owed`); `added` and
`forgotten` are history that Conservation needs. `add_permits` and the drop of a guard
add to the word without a check, and the word wraps at `MAX`: nothing excludes a program
that creates more permits than a usize counts.

### RwLock
All operations of raw.rs. The inner mutex is the set of its owners, granted to any
of its callers when free: what LockSpec promises and Mutex implements. The value a
reader loaded before its `compare_exchange` is not kept: the exchange fails if the
word changed and the loop goes on with the value found. A guard that is forgotten is a task
that stays at its guard, so the number of guards is not bounded by the word. One observation: the
comment at raw.rs:464-467 says that a writer that just acquired the lock returns at
once, but the code compares the *old* word with `WRITER_BIT`, which cannot hold
there; an uncontended writer registers a listener, checks again and then returns.
Harmless, and modelled as it is (`WriteBit`).

### RwLockOverMutex
The same lock with its inner `Mutex<()>` in full. A task has two places: `point`, where
its RwLock operation is, and `pc`, where its use of the mutex is. The steps on the mutex
are those of Mutex, restricted to what raw.rs does with it: `StartLock` makes the future
of `mutex.lock()` and `PollLock` runs it until it returns the guard, which is forgotten;
`StartTryLock` is `try_lock`; `DropPending` drops an operation that still waits for the
mutex; `ReleaseMutex` and `NotifyLockOps` are the two accesses of `unlock_unchecked`; the
other steps are those of RwLock. Who owns the mutex, for RwLock, is the set of tasks at
"holding". The lock future of a write is dropped when it begins to wait for readers; the
model lets its listener linger beyond that, as the listener of an upgradable read does.

### Barrier
The future never returns `Pending` while it holds the guard of the mutex, and under
the guard it does one operation on the event, so what it does there is one step;
the points where it waits for the mutex (`initial`, `reacquiring`) remain.
`NobodyIsLapped` bounds the model: no call is still there 2^64 generations after it
arrived (with GEN in place of 2^64). With four tasks that meet in fours at most three
are about, so it never blocks a step of the run.

### OnceCell
`notify_additional(usize::MAX)` wakes all listeners. A listener notified that way
would pass its notification on as an additional one; both kinds are modelled as the
plain, weaker one. Initializers may fail, panic, be dropped, or run for ever. `Take`
stands for `take` and `into_inner` and needs `&mut self`: no call or reference alive.

### ArcCount, MutexArc, SemaphoreArc, RwLockArc
ArcCount is the external `Arc`: a strong count, and `freed` once it reached zero. The
three modules compose it with a lock: every action is an action of the lock
conjoined with what the code around it does to the count, plus steps that only touch
the count (clone a handle, drop one, clone for a guard, drop last). A task has at
most one handle, and the borrow checker's part is a guard: a handle is not dropped
while a call borrows from it (`Borrows`). That a count *equals* the number of its
owners is not built in: `strong` is a number of its own that each action must move.

* MutexArc: `LockArc` has a count from the start. The slow path moves it to the guard
  (`take_mutex`); the fast path makes a second one for the guard (`try_lock_arc`) and
  drops the first when it returns.
* SemaphoreArc: `AcquireArc` keeps its count until it is dropped, also after it
  returned a guard, which has one of its own; `forget` gives back the count and not
  the permit.
* RwLockArc: the `_arc` futures borrow, and clone when they have the lock. Owned guards
  are converted with `into_arc` (a forgotten guard and `ptr::read`) and
  `from_arc`/`inner_arc` (`into_raw`, `from_raw`). `UpgradeArc` moves its count to the
  guard it returns and may live on, with the raw future, after that guard (`ready`).
  `IntoInner` is `into_inner` through `Arc::try_unwrap`.

An owned destructor is several steps: give the lock back, notify (`Unlocking`), then
drop the count (`ArcDrop`). An `EventListener` owns its event's list (the crate's own
`Arc`), so dropping one late does not touch the lock.

## 3. What is checked

| Run | Instance | Distinct states | Question |
|---|---|---|---|
| mutex_safety | MutexArc, 3 tasks, word 0..7 | 155 k | WordInv, NeverWraps, MutualExclusion, NoLostWakeup, NoBarging, ImplementsLock, CountExact, LockOutlivesUse |
| mutex_progress | 3 tasks, word 0..9 | 25 k | Progress unless the process aborts |
| semaphore_safety | SemaphoreArc, 3 tasks, word 0..2, 1 permit + 2 added, 1 forgotten | 931 k | TypeOK, Conservation, NoLostWakeup, ImplementsStock, CountExact, LockOutlivesUse |
| semaphore_releasing | 3 tasks, 1 permit + 1 added, 1 forgotten | 31 k | PermitIsTaken if guards are dropped |
| semaphore_sleeper | none forgotten, guards may stay | violation | PermitIsTaken |
| rwlock_safety | RwLockArc, 3 tasks, word 0..7 | 898 k | WordInv, NeverWraps, MutexInv, WriterExclusive, NoSleepingWriter, ImplementsRwLock, CountExact, LockOutlivesUse, SoleHandleIsUnlocked |
| rwlock_progress | 3 tasks, no `downgrade_to_upgradable` | 73 k | NoSleepingReader, WriterIsServed, ReaderIsWoken; deadlock |
| rwlock_downgrade | 2 tasks, with it | violation | ReaderIsWoken |
| rwlock_over_mutex | 3 tasks, words 0..7 | 547 k | ImplementsRw |
| barrier | 4 tasks, n = 4, GEN = 4, 2 cancellations | 102 k | NobodyOversleeps, GroupsAreFull, ImplementsBarrier, ReleasedReturn; deadlock |
| barrier_given_up | 2 tasks, n = 2, 1 cancellation | violation | AllAreThere |
| once_cell | 3 tasks | 48 k | TypeOK, OneInitializer, ReferencesValid, TurnIsPassedOn, ImplementsOnce, WaitersReturn, TurnIsTaken; deadlock |

Why the bounds are enough. Calls are unbounded in number everywhere: a task that is
done starts again, so long histories are covered; only the number of tasks in flight
is small. The races here need at most three roles at once: somebody who changes
the word, somebody who sleeps, and a third party whose notification is consumed,
dropped or passed on. Every safety property of the runs is also proved for any number
of tasks (section 4). A word of eight values has room for three tasks and makes the
*abort* at half the range reachable, in the mutex and in the RwLock; that the aborts of the
RwLock suffice for more guards than the word can count is proved (WordNeverWraps). mutex_progress has
ten values: all three operations may starve at once without an abort, which only the
last of them meets, and only if the lock is taken. rwlock_progress uses a word in which
the abort is out of reach, so that it does not hold by aborting. The word of
semaphore_safety has three values, so that a third permit overruns it, while it is free
and while others are held.
`MaxAdd` and `MaxForget` bound history that would grow for ever; two added permits are
what merging notifications needs, one forgotten permit what a sleeper needs. Handles
are bounded by one per task; two counts of one task (a handle and an owned guard, a
future and its guard) do occur. In the barrier the bound on cancellations matters for
liveness: with more tasks than n, or with cancellations without end, others could win
the mutex for ever against a released call. Symmetry is used in safety runs only.

The safety runs of Mutex, Semaphore and RwLock are over MutexArc, SemaphoreArc and
RwLockArc, which take every step of the plain module and, by ArcImplementsMutex,
ArcImplementsSemaphore and ArcImplementsRwLock, no other: one run answers for both.

CHECK_DEADLOCK is off where the system may really stop: after an abort (the Mutex runs,
rwlock_safety, rwlock_over_mutex), in the semaphore when every permit was forgotten, and behind an Arc
when the last handle is gone.

### Fairness
Weak fairness says that a call that can take its next access takes it in the end,
that is: a woken task is polled, which executors guarantee. It never says that a
task starts a call, cancels one, or that an initializer ends.

* Mutex: WF on polling (an abort that is due included), on finishing the drop of a guard, on dropping completed
  futures. Nothing makes an operation find itself too late. Starvation freedom of
  each operation does *not* follow, and is not claimed: `fetch_or` lets any starving
  operation win, and the documentation says "fair on average" (mutex.rs:22-24).
* Semaphore: as above, SF on the compare_exchange of a call that finds it possible
  again and again. `ReleasingSpec` adds that guards are dropped.
* RwLock: WF on polls, releases and dropped futures, and on the inner mutex being
  granted to *some* caller (LockSpec's `Progress`, which mutex_progress checks).
  `WriterIsServed` starts when the bit is set, for the mutex is not fair to each caller.
* Barrier: some call that waits for the mutex gets it (the same `Progress`); woken
  futures are polled.
* OnceCell: WF on everything a call does itself, the user's initializer apart.

### Findings
1. *Semaphore* (semaphore_sleeper). A second release that finds the first one's
   notification unconsumed does nothing (`notify(1)` asks for one notified listener),
   and the woken call takes one permit and notifies nobody. A waiter then sleeps
   although a permit is free, until the other guard is dropped. `NoLostWakeup`
   states what remains true.
2. *RwLock* (rwlock_downgrade). `downgrade_to_upgradable` (raw.rs:230) clears the
   writer bit without notifying `no_writer`; readers that the writer blocked sleep on,
   even after all guards are gone, until a later write guard is released. The other
   downgrade (raw.rs:223) does notify.
3. *Barrier* (barrier_given_up). A call that is dropped after it arrived stays
   counted (barrier.rs:203), so a group may pass with fewer callers than "all tasks"
   (barrier.rs:54). BarrierSpec has it as `gone`.

## 4. What is proved

Every theorem holds for every finite set of tasks and, where they occur, every word
size, number of permits, group size, modulus and bound. The assumptions are the ones
the modules name: tasks are finite; in Mutex the word has room for one
count per task (`2 * Cardinality(Task) + 1 <= MAX`: each starving operation occupies
memory of its own, so there are far fewer of them than a usize counts). Under it the
abort of the mutex can happen but is not what keeps the counter from running over, and
its absence would not be noticed. RwLock assumes no such room, since guards can be
forgotten and stay counted, only that the word has at least three bits: there the aborts
are what WordNeverWraps rests on. Semaphore assumes only that the permits it starts with fit the word, as
they do in code: what a program adds may overrun it.

| Module | Theorems | Inductive invariant, and why it is needed |
|---|---|---|
| EventListenerProofs | lemmas: types and members of an event after each operation | `WellFormed`: a listener is in the list once and is not both notified and asleep |
| ArcCountProofs | lemmas: the count and the sets it counts, after a clone and a drop | |
| MutexProofs | WordNeverWraps, WordExact, Exclusion, FairOnceStarving, Refinement, WakeupNotLost, NobodyLeftWaiting, NoNeedlessAbort; behind an Arc: ArcImplementsMutex, CountIsExact, NoUseAfterFree | `TypeOK /\ WordInv /\ MutualExclusion`: exclusion follows from the word, the word's exactness from exclusion and its range. NoLostWakeup: see below |
| SemaphoreProofs | TypeCorrect, PermitsConserved, NoPermitLost, Refinement, WakeupNotLost, NobodyLeftWaiting; behind an Arc: ArcImplementsSemaphore, CountIsExact, NoUseAfterFree | `Conservation` and: a call about to exchange has read a count above zero. `WakeInv`: a listener is in the list once, a call that waits is in it, and exactly a call about to notify owes something |
| RwLockProofs | WordNeverWraps, WordExact, MutexOwnership, Exclusion, Refinement, WriterNotForgotten, ReaderNotForgotten, PendingIsRegistered, NobodyLeftWaiting, NoNeedlessAbort; behind an Arc: ArcImplementsRwLock, CountIsExact, NoUseAfterFree, SoleHandle | word, mutex ownership, exclusion and `Room` together: a reader gets in by the word or by the mutex, a writer by the word; the count passes the half of the range at which readers abort by two at most, and stays clear of the end. Sleepers: see below |
| RwLockOverMutexProofs | UsesMutex, OwnerReleases, RwRefinement | `Coupled`: a task counts on owning the mutex exactly when the mutex was granted to it, and is on the slow path only within a pending lock() |
| BarrierProofs | TypeCorrect, NoneOversleeps, FullGroups, Refinement, TooFewLeftWaiting | `TypeOK`, `WellFormed`, NobodyOversleeps, GroupsAreFull together |
| OnceCellProofs | TypeCorrect, OneHolder, SoundReferences, TurnPassedOn, Refinement, NobodyMissesTheValue, NobodyLeftWaiting | what a call knows of the cell at each point (`Knows`), where calls with a listener can be (`Place`), nobody is notified before the value is there (`Word`) |

The counting arguments share a form: moving one task from a control point to another
changes the cardinality of a group by 0 or 1, and an arithmetic lemma ("Bookkeeping")
says that the word follows; each action then only shows its own account.

WakeupNotLost deserves a word. `NoLostWakeup` counts an operation about to starve as
responsible, but one that still has its listener goes from there straight to sleep.
The strengthened `WakeInv` counts it among the sleepers instead. It is preserved
because the operation got there by finding a word above 1: somebody else starves,
and, by the invariant itself, somebody is responsible for him.

RwLock's sleepers. `NoSleepingWriter` is kept by owners of the inner mutex because there
is only one, so no *other* writer sleeps; by everybody else because the reader that
takes the word to the bare bit goes on to notify. `NoSleepingReader` is kept because the
bit belongs to exactly the tasks at `BitPoints` (BitOwned): whoever leaves them goes to a
point that notifies, except in `downgrade_to_upgradable`. Hence the theorem
ReaderNotForgotten carries `~UsesDowngradeToUpgradable`, and the run rwlock_downgrade
shows that it must. Both use `Registered`: a listener is in its list at most once.

The count of an Arc. `CountExact` is inductive only together with `Anchored`: whoever is
inside the lock has a handle or a count of its own. Then `freed` means that there is
neither, so nobody is inside, which is `LockOutlivesUse`. The argument needs that a
destructor gives its count back last, and fails for one that does not (the broken
variants `*DropsArcFirst`).

Overflow of the semaphore. `Conservation` says that the permits about are those created,
less `MAX + 1` for each time the unchecked `fetch_add` ran over. NoPermitLost draws the
conclusion: with at most `MAX` permits created there was no overflow, because the permits
about are never negative in number, and none is lost.

Nobody left waiting. A state in which no notification is under way, no guard is alive and
each call has returned or returned `Pending` (`AtRest`) changes only when the program makes
a new call or gives one up. NobodyLeftWaiting says that in such a state nobody waits (Mutex, RwLock), or that
what the call waits for is really not there (Semaphore, OnceCell); TooFewLeftWaiting says
it of a group of the Barrier. This is the safety half of progress, for any number of
tasks, where TLC checks progress itself on small instances. It follows from the wakeup
invariants once it is known that a call that waits is in the list of its event
(PendingIsRegistered, and parts of the invariants elsewhere). In RwLock the theorem
excludes `downgrade_to_upgradable` (finding 2), and its `AtRest` says of the inner mutex
that it does not stay free beside a call: that is NobodyLeftWaiting of Mutex. In the
Semaphore it excludes forgotten guards.

No needless abort. `crate::abort` is reached only if the callers outnumber a quarter of
the range of a usize (NoNeedlessAbort): no leak in the bookkeeping, over any number of
calls, upgrades and cancellations, adds up to an abort.

RwLock over Mutex. UsesMutex shows that raw.rs uses the mutex as any program may, so all of
MutexProofs holds of the mutex inside. OwnerReleases is the condition of
`unlock_unchecked` (mutex.rs:197-202): whoever calls it has the mutex and forgot the
guard. With both, RwRefinement maps each step to one of RwLock: the grant needs that the
mutex was owned by nobody, the release that nobody owns it afterwards, which is exclusion
of the mutex. Since RwLockOverMutex has the constants of RwLock, what RwLockProofs proves
of RwLock holds of `Rw`, its instance there, by substitution; the prover does not apply
theorems through an INSTANCE, so that last step is not written as a proof.

The Refinement theorems are step simulations closed with the inductive invariant:
every step maps to a step of the abstract module or to a stutter.

## 5. What is only model-checked, and what is not modelled

Only model-checked: all liveness (Progress, PermitIsTaken, WriterIsServed,
ReaderIsWoken, ReleasedReturn, WaitersReturn, TurnIsTaken), which is outside what the
prover handles. Every safety invariant and refinement of the passing runs is proved.

Not modelled:
* Weak memory. All accesses interleave as if sequentially consistent. The crate uses
  SeqCst or the fence of the event where it matters; one Acquire reload
  (raw.rs:478) rests on that argument. The loom tests cover part of this.
* The protected data, `Deref`, `Default`, `From`, `get_mut`: no state of a lock
  changes. `Debug` of a Mutex or RwLock is a `try_lock` or `try_read` and the drop of its
  guard, which are modelled.
* Overflow of the Arc's count (the standard library aborts) and weak references (the
  crate has none).
* Barrier over the *detailed* Mutex. It uses it through `lock` and a guard that it drops
  at once, and the model takes it at LockSpec. That every behaviour of Mutex is one of
  LockSpec is proved (Refinement), and the progress assumed of it is checked
  (mutex_progress).
* Liveness of RwLock over the detailed Mutex. RwLock assumes that the inner mutex is
  granted to some caller; mutex_progress checks that of Mutex alone.
* Executors, wakers and timers: a poll is a step of the task, the timeout a
  nondeterministic choice.

## 6. Plan

Done, in the order of importance: EventListener, Mutex and LockSpec, Semaphore,
RwLock over LockSpec, Barrier over LockSpec, OnceCell, the refinements, the owned
futures and guards (ArcCount and the three compositions), RwLock over Mutex, and the
proofs of section 4, which cover every safety property of the runs.

What could follow:
1. An event with both kinds of notification, plain and additional, to tell apart in
   OnceCell what a dropped listener passes on; the weaker kind is assumed now.
2. Starvation freedom of Mutex under a bound on how often `fetch_or` is lost, as a
   probabilistic or bounded statement: the code promises it on average only.
3. Progress of RwLock over Mutex, with the fairness of both, in place of the fairness
   RwLock assumes of its inner mutex.
