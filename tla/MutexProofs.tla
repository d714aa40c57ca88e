---------------------------- MODULE MutexProofs ----------------------------
(***************************************************************************)
(* Proofs about Mutex, for every finite set of tasks and every word size   *)
(* that has room for them.                                                 *)
(*                                                                         *)
(* MutualExclusion is not inductive: that a free lock bit means "no owner" *)
(* is what WordInv says, and WordInv needs the type of the state word and, *)
(* in turn, MutualExclusion (releasing one of two guards would not empty   *)
(* Owners).  The three together are inductive.  NoLostWakeup rests on them *)
(* and on a strengthening of its own, WakeInv below.                       *)
(*                                                                         *)
(* Behind an Arc the mutex takes no other steps (ArcImplementsMutex), so   *)
(* all this holds there too; that its count is exact, and that nobody uses *)
(* a mutex that was freed, needs to know besides that whoever is inside    *)
(* the mutex has a handle or a count of its own (Anchored).                *)
(***************************************************************************)
EXTENDS MutexArc, ArcCountProofs, EventListenerProofs

IInv == TypeOK /\ WordInv /\ MutualExclusion

\* What a control point stands for, as numbers that the state word adds up.
StarvingPoints == Fair \cup {"take", "abort"}
OwnerPoints    == {"take", "holding"}
RequestPoints  == Hot \cup Fair \cup {"abort"}
S(p) == IF p \in StarvingPoints THEN 1 ELSE 0
O(p) == IF p \in OwnerPoints THEN 1 ELSE 0

\* The starving operations are finite in number, and few enough for the word.
LEMMA FewStarving ==
  /\ IsFiniteSet(Starving)
  /\ Cardinality(Starving) \in Nat
  /\ 2 * Cardinality(Starving) + 1 <= MAX
<1>1. Starving \in SUBSET Task
  BY DEF Starving, In
<1>2. /\ IsFiniteSet(Starving) /\ Cardinality(Starving) <= Cardinality(Task)
      /\ Cardinality(Starving) \in Nat /\ Cardinality(Task) \in Nat
  BY <1>1, MutexAssumption, FS_Subset, FS_CardinalityType
<1> QED
  BY <1>2, MutexAssumption

\* The same of the next state.
LEMMA FewStarvingNext ==
  /\ IsFiniteSet(Starving')
  /\ Cardinality(Starving') \in Nat
  /\ 2 * Cardinality(Starving') + 1 <= MAX
<1>1. Starving' \in SUBSET Task
  BY DEF Starving, In
<1>2. /\ IsFiniteSet(Starving') /\ Cardinality(Starving') <= Cardinality(Task)
      /\ Cardinality(Starving') \in Nat /\ Cardinality(Task) \in Nat
  BY <1>1, MutexAssumption, FS_Subset, FS_CardinalityType
<1> QED
  BY <1>2, MutexAssumption

\* When one task moves and the state word changes by what its two control points
\* stand for, and the lock is taken only when it is free, the word stays exact.
LEMMA Bookkeeping ==
  ASSUME IInv, NEW t \in Task, NEW p \in Points,
         pc' = [pc EXCEPT ![t] = p],
         NEW x \in Int, x = state + 2 * (S(p) - S(pc[t])) + (O(p) - O(pc[t])),
         state' \in {x, Wrap(x)},
         O(p) > O(pc[t]) => ~Locked(state)
  PROVE  state' \in 0..MAX /\ WordInv' /\ MutualExclusion'
<1> DEFINE c  == Cardinality(Starving)
           c1 == Cardinality(Starving')
           b  == IF Owners = {} THEN 0 ELSE 1
           b1 == IF Owners' = {} THEN 0 ELSE 1
<1>1. /\ pc \in [Task -> Points] /\ state = 2 * c + b /\ c \in Nat /\ MAX \in Nat
      /\ IsFiniteSet(Starving)
  BY FewStarving, MutexAssumption DEF IInv, TypeOK, WordInv
<1>2. c1 \in Nat /\ 2 * c1 + 1 <= MAX
  BY FewStarvingNext
<1>3. c1 = c + S(p) - S(pc[t])
  <2>1. Starving' = IF p \in StarvingPoints THEN Starving \cup {t} ELSE Starving \ {t}
    BY <1>1 DEF Starving, In, StarvingPoints
  <2>2. t \in Starving <=> pc[t] \in StarvingPoints
    BY DEF Starving, In, StarvingPoints
  <2>3. /\ Cardinality(Starving \cup {t}) = IF t \in Starving THEN c ELSE c + 1
        /\ Cardinality(Starving \ {t}) = IF t \in Starving THEN c - 1 ELSE c
    BY <1>1, FS_AddElement, FS_RemoveElement
  <2>4. CASE p \in StarvingPoints
    BY <1>1, <2>1, <2>2, <2>3, <2>4 DEF S
  <2>5. CASE p \notin StarvingPoints
    BY <1>1, <2>1, <2>2, <2>3, <2>5 DEF S
  <2> QED
    BY <2>4, <2>5
<1>4. Owners' = IF p \in OwnerPoints THEN Owners \cup {t} ELSE Owners \ {t}
  BY <1>1 DEF Owners, In, OwnerPoints
<1>5. t \in Owners <=> pc[t] \in OwnerPoints
  BY DEF Owners, In, OwnerPoints
<1>6. O(p) > O(pc[t]) => Owners = {}
  BY <1>1 DEF Locked
<1>7. b1 = b + O(p) - O(pc[t]) /\ MutualExclusion'
  <2>1. \A u, v \in Owners : u = v
    BY DEF IInv, MutualExclusion
  <2>2. CASE p \in OwnerPoints /\ pc[t] \in OwnerPoints
    BY <1>4, <1>5, <2>1, <2>2 DEF O, MutualExclusion
  <2>3. CASE p \in OwnerPoints /\ pc[t] \notin OwnerPoints
    BY <1>4, <1>5, <1>6, <2>3 DEF O, MutualExclusion
  <2>4. CASE p \notin OwnerPoints /\ pc[t] \in OwnerPoints
    BY <1>4, <1>5, <2>1, <2>4 DEF O, MutualExclusion
  <2>5. CASE p \notin OwnerPoints /\ pc[t] \notin OwnerPoints
    BY <1>4, <1>5, <2>1, <2>5 DEF O, MutualExclusion
  <2> QED
    BY <2>2, <2>3, <2>4, <2>5
<1>8. x = 2 * c1 + b1
  BY <1>1, <1>3, <1>7 DEF S, O
<1>9. x \in 0..MAX /\ Wrap(x) = x
  BY <1>1, <1>2, <1>8 DEF Wrap
<1> QED
  BY <1>7, <1>8, <1>9 DEF WordInv

\* A step that moves one task keeps the invariant if it keeps the accounts.
LEMMA Preserved ==
  ASSUME IInv, NEW t \in Task, NEW p \in Points, Goto(t, p),
         NEW x \in Int, x = state + 2 * (S(p) - S(pc[t])) + (O(p) - O(pc[t])),
         state' \in {x, Wrap(x)},
         O(p) > O(pc[t]) => ~Locked(state),
         lock_ops' \in EventOf(Task)
  PROVE  IInv'
<1>1. pc' = [pc EXCEPT ![t] = p] /\ aborted' = aborted
  BY DEF Goto
<1>2. state' \in 0..MAX /\ WordInv' /\ MutualExclusion'
  BY <1>1, Bookkeeping
<1>3. pc' \in [Task -> Points] /\ aborted' \in BOOLEAN
  BY <1>1 DEF IInv, TypeOK
<1> QED
  BY <1>2, <1>3 DEF IInv, TypeOK

\* In particular if neither the word nor what the task stands for changes.
LEMMA Quiet ==
  ASSUME IInv, NEW t \in Task, NEW p \in Points, Goto(t, p), state' = state,
         S(p) = S(pc[t]), O(p) = O(pc[t]), lock_ops' \in EventOf(Task)
  PROVE  IInv'
<1>1. state \in Int /\ state = state + 2 * (S(p) - S(pc[t])) + (O(p) - O(pc[t]))
  BY DEF IInv, TypeOK, S, O
<1>2. ~(O(p) > O(pc[t]))
  BY DEF O
<1> QED
  BY <1>1, <1>2, Preserved

\* No operation on the event leaves its type.
LEMMA EventSteps ==
  ASSUME TypeOK, NEW t \in Task
  PROVE  /\ Listen(lock_ops, t) \in EventOf(Task)
         /\ Notify(lock_ops, 1) \in EventOf(Task)
         /\ Consume(lock_ops, t) \in EventOf(Task)
         /\ t \in Listeners(lock_ops) => DropListener(lock_ops, t) \in EventOf(Task)
BY ListenType, NotifyType, ConsumeType, DropListenerType, MutexAssumption DEF TypeOK

\* Steps of the fast path and of the loop that competes with new callers.
LEMMA HotSteps ==
  ASSUME IInv, NEW t \in Task,
         TryLock(t) \/ EnterSlow(t) \/ ListenFirst(t) \/ TryAgain(t) \/ Wake(t)
           \/ Retry(t) \/ RetryTooLate(t) \/ PassOn(t)
  PROVE  IInv'
<1> USE DEF At, Fresh, S, O, StarvingPoints, OwnerPoints, Fair, Hot, Points
<1>1. TypeOK /\ lock_ops \in EventOf(Task) /\ state \in Int
  BY DEF IInv, TypeOK
<1>2. ASSUME state = 0, state' = 1, Goto(t, "holding"), UNCHANGED lock_ops,
             pc[t] \in {"idle", "try", "retry"}
      PROVE  IInv'
  <2>1. ~Locked(state) /\ 1 = state + 2 * (S("holding") - S(pc[t])) + (O("holding") - O(pc[t]))
    BY <1>2 DEF Locked
  <2> QED
    BY <1>1, <1>2, <2>1, Preserved
<1>3. CASE TryLock(t)
  BY <1>2, <1>3 DEF TryLock
<1>4. CASE EnterSlow(t)
  BY <1>1, <1>4, Quiet DEF EnterSlow
<1>5. CASE ListenFirst(t)
  BY <1>1, <1>5, Quiet, EventSteps DEF ListenFirst
<1>6. CASE TryAgain(t)
  BY <1>1, <1>2, <1>6, Quiet DEF TryAgain
<1>7. CASE Wake(t)
  BY <1>1, <1>7, Quiet, EventSteps DEF Wake
<1>8. CASE Retry(t)
  BY <1>1, <1>2, <1>8, Quiet DEF Retry
<1>9. CASE RetryTooLate(t)
  BY <1>1, <1>9, Quiet DEF RetryTooLate
<1>10. CASE PassOn(t)
  BY <1>1, <1>10, Quiet, EventSteps DEF PassOn
<1> QED
  BY <1>3, <1>4, <1>5, <1>6, <1>7, <1>8, <1>9, <1>10

\* Steps of the fair path.
LEMMA FairSteps ==
  ASSUME IInv, NEW t \in Task,
         Starve(t) \/ FairListen(t) \/ FairTry(t) \/ FairPassOn(t) \/ FairWake(t)
           \/ FairRetry(t) \/ TakeMutex(t)
  PROVE  IInv'
<1> USE DEF At, S, O, StarvingPoints, OwnerPoints, Fair, Hot, Points
<1>1. TypeOK /\ lock_ops \in EventOf(Task) /\ state \in Int
  BY DEF IInv, TypeOK
<1>2. CASE Starve(t)
  <2>1. PICK p \in {"abort", "fair_wait", "fair_listen"} : Goto(t, p)
    BY <1>2 DEF Starve
  <2>2. /\ lock_ops' \in EventOf(Task) /\ state' = Wrap(state + 2)
        /\ state + 2 = state + 2 * (S(p) - S(pc[t])) + (O(p) - O(pc[t]))
        /\ ~(O(p) > O(pc[t]))
    BY <1>1, <1>2 DEF Starve
  <2> QED
    BY <1>1, <2>1, <2>2, Preserved
<1>3. CASE FairListen(t)
  BY <1>1, <1>3, Quiet, EventSteps DEF FairListen
<1>4. ASSUME ~Locked(state), state' = state + 1, Goto(t, "take"), UNCHANGED lock_ops,
             pc[t] \in Fair
      PROVE  IInv'
  <2>1. state + 1 = state + 2 * (S("take") - S(pc[t])) + (O("take") - O(pc[t]))
    BY <1>1, <1>4
  <2> QED
    BY <1>1, <1>4, <2>1, Preserved
<1>5. CASE FairTry(t)
  BY <1>1, <1>4, <1>5, Quiet DEF FairTry, Locked
<1>6. CASE FairPassOn(t)
  BY <1>1, <1>6, Quiet, EventSteps DEF FairPassOn
<1>7. CASE FairWake(t)
  BY <1>1, <1>7, Quiet, EventSteps DEF FairWake
<1>8. CASE FairRetry(t)
  BY <1>1, <1>4, <1>8, Quiet DEF FairRetry
<1>9. CASE TakeMutex(t)
  <2>1. state - 2 = state + 2 * (S("holding") - S(pc[t])) + (O("holding") - O(pc[t]))
    BY <1>1, <1>9 DEF TakeMutex
  <2>2. ~(O("holding") > O(pc[t]))
    BY <1>9 DEF TakeMutex
  <2> QED
    BY <1>1, <1>9, <2>1, <2>2, Preserved DEF TakeMutex
<1> QED
  BY <1>2, <1>3, <1>5, <1>6, <1>7, <1>8, <1>9

\* Steps that release the lock, drop futures, or end the process.
LEMMA DropSteps ==
  ASSUME IInv, NEW t \in Task,
         Abort(t) \/ Unlock(t) \/ UnlockNotify(t) \/ Cancel(t) \/ DropFuture(t)
  PROVE  IInv'
<1> USE DEF At, S, O, StarvingPoints, OwnerPoints, Fair, Hot, Points
<1>1. TypeOK /\ lock_ops \in EventOf(Task) /\ state \in Int
  BY DEF IInv, TypeOK
<1>2. CASE Abort(t)
  BY <1>2 DEF Abort, IInv, TypeOK, WordInv, MutualExclusion, Starving, Owners, In
<1>3. CASE Unlock(t)
  <2>1. /\ state - 1 = state + 2 * (S("unlock") - S(pc[t])) + (O("unlock") - O(pc[t]))
        /\ ~(O("unlock") > O(pc[t]))
    BY <1>1, <1>3 DEF Unlock
  <2> QED
    BY <1>1, <1>3, <2>1, Preserved DEF Unlock
<1>4. CASE UnlockNotify(t)
  BY <1>1, <1>4, Quiet, EventSteps DEF UnlockNotify
<1>5. CASE Cancel(t)
  <2>1. CASE At(t, "wait") /\ UNCHANGED state
    BY <1>1, <1>5, <2>1, Quiet DEF Cancel
  <2>2. CASE At(t, "fair_wait") /\ state' = Wrap(state - 2)
    <3>1. /\ state - 2 = state + 2 * (S("idle") - S(pc[t])) + (O("idle") - O(pc[t]))
          /\ ~(O("idle") > O(pc[t]))
      BY <1>1, <2>2
    <3> QED
      BY <1>1, <1>5, <2>2, <3>1, Preserved DEF Cancel
  <2> QED
    BY <1>5, <2>1, <2>2 DEF Cancel
<1>6. CASE DropFuture(t)
  <2>1. lock_ops' \in EventOf(Task)
    BY <1>1, <1>6, EventSteps DEF DropFuture
  <2> QED
    BY <1>6, <2>1 DEF DropFuture, IInv, TypeOK, WordInv, MutualExclusion, Starving, Owners, In
<1> QED
  BY <1>2, <1>3, <1>4, <1>5, <1>6

\* The mutex starts unlocked, with nobody starving.
LEMMA Initially == Init => IInv
<1> SUFFICES ASSUME Init PROVE IInv
  OBVIOUS
<1>1. Starving = {} /\ Owners = {}
  BY DEF Init, Starving, Owners, In, Fair
<1>2. TypeOK
  <2>1. NewEvent \in EventOf(Task)
    BY NewEventType
  <2>2. 0 \in 0..MAX
    BY MutexAssumption
  <2>3. [t \in Task |-> "idle"] \in [Task -> Points]
    BY DEF Points
  <2> QED
    BY <2>1, <2>2, <2>3 DEF Init, TypeOK
<1> QED
  BY <1>1, <1>2, FS_EmptySet DEF Init, IInv, WordInv, MutualExclusion

\* Every step of every task keeps the invariant.
LEMMA Inductive == IInv /\ [Next]_vars => IInv'
<1> SUFFICES ASSUME IInv, [Next]_vars PROVE IInv'
  OBVIOUS
<1>1. CASE Next
  BY <1>1, HotSteps, FairSteps, DropSteps DEF Next, Poll
<1>2. CASE UNCHANGED vars
  BY <1>2 DEF vars, IInv, TypeOK, WordInv, MutualExclusion, Starving, Owners, In
<1> QED
  BY <1>1, <1>2

\* The inductive invariant holds in every reachable state.
THEOREM Invariant == Spec => []IInv
BY Initially, Inductive, PTL DEF Spec

\* Every variable stays in its type.
THEOREM TypeCorrect == Spec => []TypeOK
<1>1. IInv => TypeOK
  BY DEF IInv
<1> QED
  BY <1>1, Invariant, PTL

\* The state word is always the lock bit plus twice the number of operations that
\* starve (mutex.rs:44-48).
THEOREM WordExact == Spec => []WordInv
<1>1. IInv => WordInv
  BY DEF IInv
<1> QED
  BY <1>1, Invariant, PTL

\* Two guards of one mutex never coexist (mutex.rs: every path to a guard).
THEOREM Exclusion == Spec => []MutualExclusion
<1>1. IInv => MutualExclusion
  BY DEF IInv
<1> QED
  BY <1>1, Invariant, PTL

\* The word has room for every operation that does not starve, and holds what those
\* that starve and the owner of the lock are going to subtract.
LEMMA Room ==
  ASSUME IInv, NEW t \in Task
  PROVE  /\ t \notin Starving => state + 2 <= MAX
         /\ t \in Starving => state >= 2
         /\ t \in Owners => state >= 1
<1> DEFINE c == Cardinality(Starving)
<1>1. /\ state = 2 * c + (IF Owners = {} THEN 0 ELSE 1) /\ c \in Nat
      /\ IsFiniteSet(Starving) /\ Starving \subseteq Task
  BY FewStarving DEF IInv, WordInv, Starving, In
<1>2. ASSUME t \notin Starving PROVE 2 * (c + 1) + 1 <= MAX
  <2>1. Cardinality(Starving \cup {t}) = c + 1 /\ Starving \cup {t} \subseteq Task
    BY <1>1, <1>2, FS_AddElement
  <2>2. c + 1 <= Cardinality(Task) /\ Cardinality(Task) \in Nat
    BY <2>1, MutexAssumption, FS_Subset, FS_CardinalityType
  <2> QED
    BY <1>1, <2>2, MutexAssumption
<1>3. t \in Starving => c # 0
  BY <1>1, FS_EmptySet
<1> QED
  BY <1>1, <1>2, <1>3, MutexAssumption

\* No operation wraps the state word: neither the fetch_add of an operation that
\* begins to starve, nor the fetch_sub of one that ends to, is served or is dropped,
\* nor that of a guard (mutex.rs:205, 508, 588).
THEOREM WordNeverWraps == Spec => NeverWraps
<1>1. ASSUME IInv, [Next]_vars PROVE state' - state \in (-2)..2
  <2>1. state \in 0..MAX /\ MAX \in Nat
    BY <1>1, MutexAssumption DEF IInv, TypeOK
  <2>2. CASE UNCHANGED vars
    BY <2>1, <2>2 DEF vars
  <2>3. ASSUME NEW t \in Task,
               \/ TryLock(t) \/ EnterSlow(t) \/ Poll(t) \/ Abort(t)
               \/ Unlock(t) \/ UnlockNotify(t) \/ Cancel(t) \/ DropFuture(t)
        PROVE  state' - state \in (-2)..2
    <3>1. /\ t \notin Starving => state + 2 <= MAX
          /\ t \in Starving => state >= 2
          /\ t \in Owners => state >= 1
      BY <1>1, Room
    <3>2. CASE Starve(t)
      <4>1. t \notin Starving /\ state' = Wrap(state + 2)
        BY <3>2 DEF Starve, At, Starving, In, Fair
      <4> QED
        BY <2>1, <3>1, <4>1 DEF Wrap
    <3>3. CASE TakeMutex(t)
      <4>1. t \in Starving /\ state' = Wrap(state - 2)
        BY <3>3 DEF TakeMutex, At, Starving, In
      <4> QED
        BY <2>1, <3>1, <4>1 DEF Wrap
    <3>4. CASE Cancel(t)
      <4>1. UNCHANGED state \/ (t \in Starving /\ state' = Wrap(state - 2))
        BY <3>4 DEF Cancel, At, Starving, In, Fair
      <4> QED
        BY <2>1, <3>1, <4>1 DEF Wrap
    <3>5. CASE Unlock(t)
      <4>1. t \in Owners /\ state' = Wrap(state - 1)
        BY <3>5 DEF Unlock, At, Owners, In
      <4> QED
        BY <2>1, <3>1, <4>1 DEF Wrap
    <3>6. CASE TryLock(t) \/ TryAgain(t) \/ Retry(t) \/ FairTry(t) \/ FairRetry(t)
      BY <2>1, <3>6 DEF TryLock, TryAgain, Retry, FairTry, FairRetry
    <3>7. CASE \/ EnterSlow(t) \/ ListenFirst(t) \/ Wake(t) \/ RetryTooLate(t) \/ PassOn(t)
               \/ FairListen(t) \/ FairPassOn(t) \/ FairWake(t) \/ Abort(t)
               \/ UnlockNotify(t) \/ DropFuture(t)
      BY <2>1, <3>7
      DEF EnterSlow, ListenFirst, Wake, RetryTooLate, PassOn, FairListen, FairPassOn, FairWake,
          Abort, UnlockNotify, DropFuture
    <3> QED
      BY <2>3, <3>2, <3>3, <3>4, <3>5, <3>6, <3>7 DEF Poll
  <2> QED
    BY <1>1, <2>2, <2>3 DEF Next
<1>2. IInv /\ [Next]_vars => [state' - state \in (-2)..2]_vars
  BY <1>1
<1> QED
  BY <1>2, Invariant, PTL DEF Spec, NeverWraps

\* While an operation starves, an operation that does not is never the one that
\* gets the lock (mutex.rs:22-24).
THEOREM FairOnceStarving == Spec => NoBarging
<1>1. ASSUME IInv, [Next]_vars, NEW t \in Task,
             pc[t] \in {"idle", "try", "retry"}, pc'[t] = "holding"
      PROVE  Starving = {}
  <2>1. pc \in [Task -> Points]
    BY <1>1 DEF IInv, TypeOK
  <2>2. Next
    BY <1>1 DEF vars
  <2>3. PICK u \in Task : \/ TryLock(u) \/ EnterSlow(u) \/ Poll(u) \/ Abort(u)
                          \/ Unlock(u) \/ UnlockNotify(u) \/ Cancel(u) \/ DropFuture(u)
    BY <2>2 DEF Next
  <2>4. state = 0
    <3>1. CASE TryLock(u) \/ TryAgain(u) \/ Retry(u)
      BY <1>1, <2>1, <3>1 DEF TryLock, TryAgain, Retry, Goto
    <3>2. CASE TakeMutex(u)
      BY <1>1, <2>1, <3>2 DEF TakeMutex, Goto, At
    <3>3. CASE ~(TryLock(u) \/ TryAgain(u) \/ Retry(u) \/ TakeMutex(u))
      BY <1>1, <2>1, <2>3, <3>3
      DEF Poll, EnterSlow, ListenFirst, Wake, RetryTooLate, PassOn, Starve, FairListen,
          FairTry, FairPassOn, FairWake, FairRetry, Abort, Unlock, UnlockNotify, Cancel,
          DropFuture, Goto
    <3> QED
      BY <3>1, <3>2, <3>3
  <2>5. Cardinality(Starving) = 0
    BY <1>1, <2>4, FewStarving DEF IInv, WordInv
  <2> QED
    BY <2>5, FewStarving, FS_EmptySet
<1>2. IInv /\ [Next]_vars =>
        [\A t \in Task : (pc[t] \in {"idle", "try", "retry"} /\ pc'[t] = "holding")
                            => Starving = {}]_vars
  BY <1>1
<1> QED
  BY <1>2, Invariant, PTL DEF Spec, NoBarging

----------------------------------------------------------------------------
(* The mutex implements the abstract lock *)

\* A step that leaves every task in its group is a stuttering step of the lock.
LEMMA SameGroups ==
  ASSUME TypeOK, NEW t \in Task, NEW p \in Points, Goto(t, p),
         p \in RequestPoints <=> pc[t] \in RequestPoints,
         p \in OwnerPoints <=> pc[t] \in OwnerPoints
  PROVE  UNCHANGED Lock!vars
<1>1. pc \in [Task -> Points] /\ pc' = [pc EXCEPT ![t] = p]
  BY DEF TypeOK, Goto
<1>2. Requesting' = Requesting
  BY <1>1 DEF Requesting, In, RequestPoints
<1>3. Owners' = Owners
  BY <1>1 DEF Owners, In, OwnerPoints
<1> QED
  BY <1>2, <1>3 DEF Lock!vars

\* A step that takes the lock, from the fast path or out of the wait.
LEMMA Taking ==
  ASSUME IInv, NEW t \in Task, NEW p \in OwnerPoints, Goto(t, p), ~Locked(state),
         pc[t] \in {"idle"} \cup Hot \cup Fair
  PROVE  Lock!Next
<1>1. pc \in [Task -> Points] /\ pc' = [pc EXCEPT ![t] = p] /\ state \in Int
  BY DEF IInv, TypeOK, Goto
<1>2. Owners = {}
  BY <1>1, FewStarving DEF IInv, WordInv, Locked
<1>3. Owners' = {t}
  BY <1>1, <1>2 DEF Owners, In, OwnerPoints
<1>4. Requesting' = Requesting \ {t}
  BY <1>1 DEF Requesting, In, OwnerPoints, Hot, Fair
<1>5. CASE t \in Requesting
  BY <1>2, <1>3, <1>4, <1>5 DEF Lock!Next, Lock!Grant
<1>6. CASE t \notin Requesting
  BY <1>2, <1>3, <1>4, <1>6 DEF Lock!Next, Lock!GrantAtOnce
<1> QED
  BY <1>5, <1>6

\* Every step of the mutex is a step of the abstract lock, or changes nothing in it.
LEMMA StepRefines ==
  ASSUME IInv, [Next]_vars
  PROVE  [Lock!Next]_(Lock!vars)
<1> USE DEF At, Fresh, OwnerPoints, RequestPoints, Fair, Hot, Points
<1>1. TypeOK /\ pc \in [Task -> Points] /\ state \in Int
  BY DEF IInv, TypeOK
<1>2. CASE UNCHANGED vars
  BY <1>2 DEF vars, Lock!vars, Requesting, Owners, In
<1>3. ASSUME NEW t \in Task, EnterSlow(t)
      PROVE  Lock!Next
  <2>1. t \notin Requesting \cup Owners
    BY <1>3 DEF EnterSlow, Requesting, Owners, In
  <2>2. Requesting' = Requesting \cup {t} /\ Owners' = Owners
    BY <1>1, <1>3 DEF EnterSlow, Goto, Requesting, Owners, In
  <2> QED
    BY <2>1, <2>2 DEF Lock!Next, Lock!Request
<1>4. ASSUME NEW t \in Task, Unlock(t)
      PROVE  Lock!Next
  <2>1. t \in Owners
    BY <1>4 DEF Unlock, Owners, In
  <2>2. Requesting' = Requesting /\ Owners' = Owners \ {t}
    BY <1>1, <1>4 DEF Unlock, Goto, Requesting, Owners, In
  <2> QED
    BY <2>1, <2>2 DEF Lock!Next, Lock!Release
<1>5. ASSUME NEW t \in Task, Cancel(t)
      PROVE  Lock!Next
  <2>1. t \in Requesting
    BY <1>5 DEF Cancel, Requesting, In
  <2>2. Requesting' = Requesting \ {t} /\ Owners' = Owners
    BY <1>1, <1>5 DEF Cancel, Goto, Requesting, Owners, In
  <2> QED
    BY <2>1, <2>2 DEF Lock!Next, Lock!GiveUp
<1>6. ASSUME NEW t \in Task, TryLock(t) \/ TryAgain(t) \/ Retry(t)
      PROVE  [Lock!Next]_(Lock!vars)
  BY <1>1, <1>6, Taking, SameGroups DEF TryLock, TryAgain, Retry, Locked
<1>7. ASSUME NEW t \in Task, FairTry(t) \/ FairRetry(t)
      PROVE  [Lock!Next]_(Lock!vars)
  BY <1>1, <1>7, Taking, SameGroups DEF FairTry, FairRetry, Locked
<1>8. ASSUME NEW t \in Task,
             ListenFirst(t) \/ Wake(t) \/ RetryTooLate(t) \/ PassOn(t)
      PROVE  UNCHANGED Lock!vars
  BY <1>1, <1>8, SameGroups DEF ListenFirst, Wake, RetryTooLate, PassOn
<1>9. ASSUME NEW t \in Task,
             FairListen(t) \/ FairPassOn(t) \/ FairWake(t) \/ TakeMutex(t) \/ UnlockNotify(t)
      PROVE  UNCHANGED Lock!vars
  BY <1>1, <1>9, SameGroups DEF FairListen, FairPassOn, FairWake, TakeMutex, UnlockNotify
<1>10. ASSUME NEW t \in Task, Abort(t) \/ DropFuture(t)
       PROVE  UNCHANGED Lock!vars
  BY <1>10 DEF Abort, DropFuture, Lock!vars, Requesting, Owners, In
<1>11. ASSUME NEW t \in Task, Starve(t)
       PROVE  [Lock!Next]_(Lock!vars)
  BY <1>1, <1>11, SameGroups DEF Starve
<1> QED
  BY <1>2, <1>3, <1>4, <1>5, <1>6, <1>7, <1>8, <1>9, <1>10, <1>11 DEF Next, Poll

\* The mutex implements LockSpec (mutex.rs, all paths).
THEOREM Refinement == Spec => ImplementsLock
<1>1. Init => Lock!Init
  BY DEF Init, Lock!Init, Requesting, Owners, In, Hot, Fair
<1>2. IInv /\ [Next]_vars => [Lock!Next]_(Lock!vars)
  BY StepRefines
<1> QED
  BY <1>1, <1>2, Invariant, PTL DEF Spec, Lock!Spec, ImplementsLock

----------------------------------------------------------------------------
(* No lost wakeup.  NoLostWakeup is not inductive: an operation about to     *)
(* starve ("starve") is responsible, but if it still has its listener from   *)
(* "try" it goes straight to sleep.  It was never the only one: it found     *)
(* somebody else starving, who sleeps too and has somebody responsible for   *)
(* him.  So the invariant counts such an operation among those that sleep,   *)
(* and says who has a listener.                                              *)

\* Who has a listener in the list while it is between two polls or in one.
Place(t) ==
  /\ pc[t] \in {"listen", "retry", "pass", "fair_listen", "fair_retry"}
       => t \notin Listeners(lock_ops)
  /\ pc[t] \in {"wait", "try", "fair_wait", "fair_try", "fair_pass"}
       => t \in Listeners(lock_ops)

Listening == WellFormed(lock_ops) /\ \A t \in Task : Place(t)

\* Will look at the lock, notify, or end the process, whatever happens meanwhile.
ActPoints == {"unlock", "retry", "pass", "abort", "fair_listen", "fair_try", "fair_pass",
              "fair_retry"}

Wakers == lock_ops.notified \cup {t \in Task :
            pc[t] \in ActPoints \/ (pc[t] = "starve" /\ t \notin Listeners(lock_ops))}

Sleepers == {t \in Asleep(lock_ops) \cap Task : pc[t] \in {"wait", "fair_wait", "starve"}}

Awake == Owners = {} /\ Sleepers # {} => Wakers # {}

WakeInv == IInv /\ Listening /\ Awake

\* What the word says: whether the lock is owned, and whether somebody starves.
LEMMA WordMeaning ==
  ASSUME IInv
  PROVE  /\ Locked(state) <=> Owners # {}
         /\ Owners = {} /\ state > 1 => Starving # {}
<1>1. Cardinality(Starving) \in Nat
  BY FewStarving
<1>2. state = 2 * Cardinality(Starving) + (IF Owners = {} THEN 0 ELSE 1)
  BY DEF IInv, WordInv
<1>3. Starving = {} => Cardinality(Starving) = 0
  BY FS_EmptySet
<1> QED
  BY <1>1, <1>2, <1>3 DEF Locked

\* Steps that leave the event alone keep every listener in its place.
LEMMA EventUntouched ==
  ASSUME WakeInv, NEW t \in Task, UNCHANGED lock_ops,
         \/ TryLock(t) \/ EnterSlow(t) \/ TryAgain(t) \/ Retry(t) \/ RetryTooLate(t)
         \/ Starve(t) \/ Abort(t) \/ FairTry(t) \/ FairRetry(t) \/ TakeMutex(t)
         \/ Unlock(t) \/ Cancel(t)
  PROVE  Listening'
<1> USE DEF Hot, Fair, Points
<1>1. Listening /\ pc \in [Task -> Points]
  BY DEF WakeInv, IInv, TypeOK
<1>2. CASE TryLock(t)
  BY <1>1, <1>2 DEF TryLock, Fresh, At, Goto, Listening, Place
<1>3. CASE EnterSlow(t)
  BY <1>1, <1>3 DEF EnterSlow, Fresh, At, Goto, Listening, Place
<1>4. CASE TryAgain(t)
  BY <1>1, <1>4 DEF TryAgain, At, Goto, Listening, Place
<1>5. CASE Retry(t)
  BY <1>1, <1>5 DEF Retry, At, Goto, Listening, Place
<1>6. CASE RetryTooLate(t)
  BY <1>1, <1>6 DEF RetryTooLate, At, Goto, Listening, Place
<1>7. CASE Starve(t)
  BY <1>1, <1>7 DEF Starve, At, Goto, Listening, Place
<1>8. CASE Abort(t)
  BY <1>1, <1>8 DEF Abort, At, Goto, Listening, Place
<1>9. CASE FairTry(t)
  BY <1>1, <1>9 DEF FairTry, At, Goto, Listening, Place
<1>10. CASE FairRetry(t)
  BY <1>1, <1>10 DEF FairRetry, At, Goto, Listening, Place
<1>11. CASE TakeMutex(t)
  BY <1>1, <1>11 DEF TakeMutex, At, Goto, Listening, Place
<1>12. CASE Unlock(t)
  BY <1>1, <1>12 DEF Unlock, At, Goto, Listening, Place
<1>13. CASE Cancel(t)
  BY <1>1, <1>13 DEF Cancel, At, Goto, Listening, Place
<1> QED
  BY <1>2, <1>3, <1>4, <1>5, <1>6, <1>7, <1>8, <1>9, <1>10, <1>11, <1>12, <1>13

\* What the operations on the event do to who listens, sleeps and is notified.
LEMMA EventMembers ==
  ASSUME WakeInv, NEW t \in Task
  PROVE  /\ t \notin Listeners(lock_ops)
              => /\ WellFormed(Listen(lock_ops, t))
                 /\ Listeners(Listen(lock_ops, t)) = Listeners(lock_ops) \cup {t}
                 /\ Asleep(Listen(lock_ops, t)) = Asleep(lock_ops) \cup {t}
                 /\ Listen(lock_ops, t).notified = lock_ops.notified
         /\ WellFormed(Notify(lock_ops, 1))
         /\ Listeners(Notify(lock_ops, 1)) = Listeners(lock_ops)
         /\ Asleep(Notify(lock_ops, 1)) \in SUBSET Asleep(lock_ops)
         /\ Listeners(lock_ops) # {} => Notify(lock_ops, 1).notified # {}
         /\ t \in lock_ops.notified
              => /\ WellFormed(Consume(lock_ops, t))
                 /\ Listeners(Consume(lock_ops, t)) = Listeners(lock_ops) \ {t}
         /\ t \in Listeners(lock_ops)
              => /\ WellFormed(DropListener(lock_ops, t))
                 /\ Listeners(DropListener(lock_ops, t)) = Listeners(lock_ops) \ {t}
                 /\ Asleep(DropListener(lock_ops, t)) \in SUBSET Asleep(lock_ops)
                 /\ lock_ops.notified # {} /\ Listeners(lock_ops) # {t}
                      => DropListener(lock_ops, t).notified # {}
<1>1. lock_ops \in EventOf(Task) /\ WellFormed(lock_ops) /\ IsFiniteSet(Task)
      /\ 1 \in Nat /\ 1 > 0
  BY MutexAssumption DEF WakeInv, IInv, TypeOK, Listening
<1>2. ASSUME t \notin Listeners(lock_ops)
      PROVE  /\ WellFormed(Listen(lock_ops, t))
             /\ Asleep(Listen(lock_ops, t)) = Asleep(lock_ops) \cup {t}
             /\ Listen(lock_ops, t).notified = lock_ops.notified
  BY <1>1, <1>2, ListenMembers
<1>3. /\ WellFormed(Notify(lock_ops, 1))
      /\ Listeners(Notify(lock_ops, 1)) = Listeners(lock_ops)
      /\ Asleep(Notify(lock_ops, 1)) \in SUBSET Asleep(lock_ops)
      /\ Listeners(lock_ops) # {} => Notify(lock_ops, 1).notified # {}
  BY <1>1, NotifyMembers
<1>4. ASSUME t \in lock_ops.notified
      PROVE  /\ WellFormed(Consume(lock_ops, t))
             /\ Listeners(Consume(lock_ops, t)) = Listeners(lock_ops) \ {t}
  BY <1>1, <1>4, ConsumeMembers
<1>5. ASSUME t \in Listeners(lock_ops)
      PROVE  /\ WellFormed(DropListener(lock_ops, t))
             /\ Listeners(DropListener(lock_ops, t)) = Listeners(lock_ops) \ {t}
             /\ Asleep(DropListener(lock_ops, t)) \in SUBSET Asleep(lock_ops)
             /\ lock_ops.notified \ {t} \in SUBSET DropListener(lock_ops, t).notified
             /\ t \in lock_ops.notified /\ Listeners(lock_ops) # {t}
                  => DropListener(lock_ops, t).notified # {}
  BY <1>1, <1>5, DropListenerMembers
<1>6. t \in Listeners(lock_ops) /\ lock_ops.notified # {} /\ Listeners(lock_ops) # {t}
        => DropListener(lock_ops, t).notified # {}
  BY <1>5
<1> QED
  BY <1>2, <1>3, <1>4, <1>5, <1>6 DEF Listeners

\* Steps that use the event keep every listener in its place.
LEMMA EventUsed ==
  ASSUME WakeInv, NEW t \in Task,
         \/ ListenFirst(t) \/ Wake(t) \/ PassOn(t) \/ FairListen(t) \/ FairPassOn(t)
         \/ FairWake(t) \/ UnlockNotify(t) \/ DropFuture(t)
  PROVE  Listening'
<1> USE DEF Hot, Fair, Points
<1>1. Listening /\ pc \in [Task -> Points]
  BY DEF WakeInv, IInv, TypeOK
<1>2. CASE ListenFirst(t)
  BY <1>1, <1>2, EventMembers DEF ListenFirst, At, Goto, Listening, Place
<1>3. CASE Wake(t)
  BY <1>1, <1>3, EventMembers DEF Wake, At, Goto, Listening, Place
<1>4. CASE PassOn(t)
  BY <1>1, <1>4, EventMembers DEF PassOn, At, Goto, Listening, Place
<1>5. CASE FairListen(t)
  BY <1>1, <1>5, EventMembers DEF FairListen, At, Goto, Listening, Place
<1>6. CASE FairPassOn(t)
  BY <1>1, <1>6, EventMembers DEF FairPassOn, At, Goto, Listening, Place
<1>7. CASE FairWake(t)
  BY <1>1, <1>7, EventMembers DEF FairWake, At, Goto, Listening, Place
<1>8. CASE UnlockNotify(t)
  BY <1>1, <1>8, EventMembers DEF UnlockNotify, At, Goto, Listening, Place
<1>9. CASE DropFuture(t)
  BY <1>1, <1>9, EventMembers DEF DropFuture, At, Goto, Listening, Place
<1> QED
  BY <1>2, <1>3, <1>4, <1>5, <1>6, <1>7, <1>8, <1>9

\* An operation that finds others starving is never the only one who can help them.
LEMMA StarvingIsWatched ==
  ASSUME WakeInv, Owners = {}, Starving # {}
  PROVE  Wakers # {}
<1>1. PICK u \in Task : pc[u] \in Fair \cup {"take", "abort"}
  BY DEF Starving, In
<1>2. pc[u] # "take"
  BY DEF Owners, In
<1>3. CASE pc[u] = "fair_wait"
  <2>1. u \in Listeners(lock_ops)
    BY <1>3 DEF WakeInv, Listening, Place
  <2> QED
    BY <1>3, <2>1 DEF WakeInv, Awake, Sleepers, Wakers, Listeners
<1>4. CASE pc[u] # "fair_wait"
  BY <1>1, <1>2, <1>4 DEF Wakers, ActPoints, Fair
<1> QED
  BY <1>3, <1>4

\* No step leaves a free lock to operations that all sleep.
LEMMA AwakeStep ==
  ASSUME WakeInv, [Next]_vars
  PROVE  Awake'
<1> USE DEF Hot, Fair, Points, At
<1>1. pc \in [Task -> Points] /\ Awake /\ \A u \in Task : Place(u)
  BY DEF WakeInv, IInv, TypeOK, Listening
<1>2. /\ Locked(state) <=> Owners # {}
      /\ Owners = {} /\ state > 1 => Wakers # {}
  BY WordMeaning, StarvingIsWatched DEF WakeInv
<1>3. CASE UNCHANGED vars
  BY <1>1, <1>3 DEF vars, Awake, Owners, In, Sleepers, Wakers
\* The step takes the lock or ends with somebody who will act.
<1>4. ASSUME NEW t \in Task, NEW p \in {"holding"} \cup ActPoints, Goto(t, p)
      PROVE  Awake'
  BY <1>1, <1>4 DEF Goto, Awake, Owners, In, Wakers
<1>5. ASSUME NEW t \in Task, NEW p \in OwnerPoints, Goto(t, p)
      PROVE  Awake'
  BY <1>1, <1>5 DEF Goto, Awake, Owners, In, OwnerPoints
\* The lock is owned and stays so.
<1>6. ASSUME NEW t \in Task, NEW p \in Points, Goto(t, p), Locked(state),
             pc[t] \notin OwnerPoints
      PROVE  Awake'
  <2>1. PICK u \in Task : pc[u] \in OwnerPoints
    BY <1>2, <1>6 DEF Owners, In, OwnerPoints
  <2>2. u # t /\ pc'[u] = pc[u]
    BY <1>1, <1>6, <2>1 DEF Goto
  <2> QED
    BY <2>1, <2>2 DEF Awake, Owners, In, OwnerPoints
\* Somebody is notified who was not there before, or nobody sleeps.
<1>7. ASSUME NEW t \in Task, lock_ops' = Notify(lock_ops, 1)
      PROVE  Awake'
  <2>1. /\ Asleep(lock_ops') \in SUBSET Asleep(lock_ops)
        /\ Listeners(lock_ops) # {} => lock_ops'.notified # {}
    BY <1>7, EventMembers DEF WakeInv
  <2> QED
    BY <2>1 DEF Awake, Sleepers, Wakers, Listeners
<1>8. ASSUME NEW t \in Task, EnterSlow(t) \/ Cancel(t)
      PROVE  Awake'
  <2>1. pc[t] \in {"idle", "wait", "fair_wait"} /\ pc'[t] \in {"idle", "listen"}
    BY <1>1, <1>8 DEF EnterSlow, Cancel, Fresh, Goto
  <2>2. lock_ops' = lock_ops /\ \A u \in Task : u # t => pc'[u] = pc[u]
    BY <1>1, <1>8 DEF EnterSlow, Cancel, Goto
  <2>3. Owners' = Owners /\ Sleepers' \in SUBSET Sleepers
    BY <2>1, <2>2 DEF Owners, In, Sleepers
  <2>4. Wakers \in SUBSET Wakers'
    BY <2>1, <2>2 DEF Wakers, ActPoints
  <2> QED
    BY <1>1, <2>3, <2>4 DEF Awake
<1>9. ASSUME NEW t \in Task, ListenFirst(t)
      PROVE  Awake'
  <2>1. /\ Asleep(lock_ops') = Asleep(lock_ops) \cup {t}
        /\ lock_ops'.notified = lock_ops.notified
        /\ Listeners(lock_ops') = Listeners(lock_ops) \cup {t}
    BY <1>1, <1>9, EventMembers DEF ListenFirst, Place
  <2> QED
    BY <1>1, <1>9, <2>1
    DEF ListenFirst, Goto, Awake, Owners, In, Sleepers, Wakers, ActPoints
<1>10. ASSUME NEW t \in Task, TryAgain(t)
       PROVE  Awake'
  <2>1. CASE state > 1 /\ Goto(t, "starve")
    BY <1>1, <1>2, <1>10, <2>1
    DEF TryAgain, Goto, Awake, Owners, In, Wakers, ActPoints
  <2>2. CASE state = 1 /\ Goto(t, "wait")
    <3>1. Locked(state) /\ pc[t] \notin OwnerPoints
      BY <1>10, <2>2 DEF TryAgain, Locked, OwnerPoints
    <3> QED
      BY <1>6, <2>2, <3>1
  <2> QED
    BY <1>4, <1>10, <2>1, <2>2 DEF TryAgain
<1>11. ASSUME NEW t \in Task, Retry(t) \/ RetryTooLate(t)
       PROVE  Awake'
  <2>1. CASE state = 1
    <3>1. Locked(state) /\ pc[t] \notin OwnerPoints
      BY <1>11, <2>1 DEF Retry, RetryTooLate, Locked, OwnerPoints
    <3> QED
      BY <1>6, <1>11, <2>1, <3>1 DEF Retry, RetryTooLate
  <2> QED
    BY <1>4, <1>11, <2>1 DEF Retry, RetryTooLate, ActPoints
<1>12. ASSUME NEW t \in Task, Starve(t)
       PROVE  Awake'
  BY <1>1, <1>12 DEF Starve, Goto, Awake, Owners, In, Sleepers, Wakers, ActPoints, Listeners
<1>13. ASSUME NEW t \in Task, FairTry(t) \/ FairRetry(t)
       PROVE  Awake'
  <2>1. CASE Locked(state)
    <3>1. pc[t] \notin OwnerPoints
      BY <1>13 DEF FairTry, FairRetry, OwnerPoints
    <3> QED
      BY <1>5, <1>6, <1>13, <2>1, <3>1 DEF FairTry, FairRetry, OwnerPoints
  <2>2. CASE ~Locked(state)
    BY <1>4, <1>5, <1>13, <2>2 DEF FairTry, FairRetry, ActPoints, OwnerPoints
  <2> QED
    BY <2>1, <2>2
<1>14. ASSUME NEW t \in Task, DropFuture(t)
       PROVE  Awake'
  <2> SUFFICES ASSUME Owners' = {}, NEW u \in Sleepers' PROVE Wakers' # {}
    BY DEF Awake
  <2>1. /\ Asleep(lock_ops') \in SUBSET Asleep(lock_ops)
        /\ Listeners(lock_ops') = Listeners(lock_ops) \ {t}
        /\ lock_ops.notified # {} /\ Listeners(lock_ops) # {t} => lock_ops'.notified # {}
    BY <1>14, EventMembers DEF DropFuture
  <2>2. pc' = pc /\ pc[t] \in {"idle", "holding", "unlock"}
    BY <1>14 DEF DropFuture
  <2>3. u \in Sleepers /\ u # t /\ u \in Listeners(lock_ops) /\ Owners = {}
    BY <2>1, <2>2 DEF Sleepers, Listeners, Owners, In
  <2>4. Wakers # {}
    BY <1>1, <2>3 DEF Awake
  <2>5. CASE lock_ops.notified # {}
    BY <2>1, <2>3, <2>5 DEF Wakers
  <2>6. CASE lock_ops.notified = {}
    BY <2>1, <2>2, <2>4, <2>6 DEF Wakers
  <2> QED
    BY <2>5, <2>6
<1>15. ASSUME NEW t \in Task, Abort(t)
       PROVE  Awake'
  BY <1>1, <1>15 DEF Abort, Awake, Owners, In, Sleepers, Wakers
<1>16. ASSUME NEW t \in Task,
              \/ PassOn(t) \/ FairPassOn(t) \/ UnlockNotify(t)
       PROVE  Awake'
  BY <1>7, <1>16 DEF PassOn, FairPassOn, UnlockNotify
<1>17. ASSUME NEW t \in Task,
              \/ TryLock(t) \/ Wake(t) \/ FairListen(t) \/ FairWake(t) \/ TakeMutex(t)
              \/ Unlock(t)
       PROVE  Awake'
  BY <1>4, <1>17 DEF TryLock, Wake, FairListen, FairWake, TakeMutex, Unlock, ActPoints
<1> QED
  BY <1>3, <1>8, <1>9, <1>10, <1>11, <1>12, <1>13, <1>14, <1>15, <1>16, <1>17 DEF Next, Poll

\* The strengthened invariant holds in every reachable state.
THEOREM WakeInvariant == Spec => []WakeInv
<1>1. Init => WakeInv
  <2> SUFFICES ASSUME Init PROVE WakeInv
    OBVIOUS
  <2>1. Listening /\ Awake
    BY NewEventMembers DEF Init, Listening, Place, Awake, Sleepers
  <2> QED
    BY <2>1, Initially DEF WakeInv
<1>2. WakeInv /\ [Next]_vars => WakeInv'
  <2> SUFFICES ASSUME WakeInv, [Next]_vars PROVE WakeInv'
    OBVIOUS
  <2>1. UNCHANGED vars => Listening'
    BY DEF vars, WakeInv, Listening, Place
  <2>2. Next => Listening'
    BY EventUntouched, EventUsed
    DEF Next, Poll, TryLock, EnterSlow, TryAgain, Retry, RetryTooLate, Starve, Abort,
        FairTry, FairRetry, TakeMutex, Unlock, Cancel
  <2>3. Listening'
    BY <2>1, <2>2 DEF WakeInv
  <2> QED
    BY <2>3, AwakeStep, Inductive DEF WakeInv
<1> QED
  BY <1>1, <1>2, PTL DEF Spec

\* A wakeup is never lost (mutex.rs:203-207, 508-513, 555, 615).
THEOREM WakeupNotLost == Spec => []NoLostWakeup
<1>1. WakeInv => NoLostWakeup
  <2> SUFFICES ASSUME WakeInv, ~Locked(state),
                      NEW u \in In({"wait", "fair_wait"}) \cap Asleep(lock_ops)
               PROVE  Responsible # {}
    BY DEF NoLostWakeup
  <2>1. Owners = {} /\ Awake
    BY WordMeaning DEF WakeInv
  <2>2. Sleepers # {}
    BY DEF Sleepers, In
  <2> QED
    BY <2>1, <2>2 DEF Awake, Wakers, Responsible, In, ActPoints
<1> QED
  BY <1>1, WakeInvariant, PTL

\* No guard is alive, no notification is under way, and each call has returned, or
\* returned Pending.
AtRest == /\ lock_ops.notified = {}
          /\ \A t \in Task : pc[t] \in {"idle", "wait", "fair_wait"}

\* The mutex does not deadlock: when nobody has anything left to do, nobody waits
\* (mutex.rs:533-630; a call that sleeps is always somebody's next wakeup).
THEOREM NobodyLeftWaiting == Spec => [](AtRest => \A t \in Task : pc[t] = "idle")
<1>1. ASSUME WakeInv, AtRest, NEW t \in Task, pc[t] # "idle"
      PROVE  FALSE
  <2>1. t \in Asleep(lock_ops)
    BY <1>1 DEF WakeInv, Listening, Place, AtRest, Listeners
  <2>2. t \in Sleepers
    BY <1>1, <2>1 DEF Sleepers, AtRest
  <2>3. Owners = {} /\ Wakers = {}
    BY <1>1 DEF AtRest, Owners, In, Wakers, ActPoints
  <2> QED
    BY <1>1, <2>2, <2>3 DEF WakeInv, Awake
<1>2. WakeInv => (AtRest => \A t \in Task : pc[t] = "idle")
  BY <1>1
<1> QED
  BY <1>2, WakeInvariant, PTL

----------------------------------------------------------------------------
(* The abort *)

\* Counting in twos, half the range of the word is not enough for all the callers.
Crowded == 2 * Cardinality(Task) > MAX \div 2

\* What ends the process, and what is about to, does so among very many callers only.
AbortInv == (aborted \/ In({"abort"}) # {}) => Crowded

\* A call that is about to starve is not counted yet: the word has room for it, or there
\* are too many callers.
LEMMA RoomToStarve ==
  ASSUME IInv, NEW t \in Task, pc[t] = "starve", state > MAX \div 2
  PROVE  Crowded
<1>1. /\ Cardinality(Task) \in Nat /\ MAX \div 2 \in Int /\ state \in Int
      /\ Cardinality(Task \ {t}) = Cardinality(Task) - 1 /\ IsFiniteSet(Task \ {t})
  <2>1. MAX \in Nat /\ IsFiniteSet(Task)
    BY MutexAssumption
  <2> QED
    BY <2>1, FS_CardinalityType, FS_RemoveElement DEF IInv, TypeOK
<1>2. Starving \in SUBSET (Task \ {t})
  BY DEF Starving, In, Fair
<1>3. Cardinality(Starving) <= Cardinality(Task) - 1 /\ Cardinality(Starving) \in Nat
  BY <1>1, <1>2, FewStarving, FS_Subset
<1>4. state <= 2 * Cardinality(Starving) + 1
  BY <1>3 DEF IInv, WordInv
<1> QED
  BY <1>1, <1>3, <1>4 DEF Crowded

\* The process is aborted only if there are more callers than a quarter of the largest
\* usize: no sequence of starving, cancelled and served calls adds up to an abort
\* (mutex.rs:588-591).
THEOREM NoNeedlessAbort == Spec => [](aborted => 2 * Cardinality(Task) > MAX \div 2)
<1>1. Init => AbortInv
  BY DEF Init, AbortInv, In
<1>2. ASSUME IInv, AbortInv, [Next]_vars
      PROVE  AbortInv'
  <2>1. pc \in [Task -> Points]
    BY <1>2 DEF IInv, TypeOK
  <2>2. CASE UNCHANGED vars
    BY <1>2, <2>2 DEF vars, AbortInv, Crowded, In
  <2>3. ASSUME NEW t \in Task, Starve(t) PROVE AbortInv'
    <3>1. CASE state > MAX \div 2
      BY <1>2, <2>3, <3>1, RoomToStarve DEF Starve, At, AbortInv, Crowded
    <3>2. CASE ~(state > MAX \div 2)
      BY <1>2, <2>1, <2>3, <3>2 DEF Starve, Goto, AbortInv, Crowded, In
    <3> QED
      BY <3>1, <3>2
  <2>4. ASSUME NEW t \in Task, Abort(t) PROVE AbortInv'
    BY <1>2, <2>4 DEF Abort, At, AbortInv, Crowded, In
  <2>5. ASSUME NEW t \in Task, NEW p \in Points \ {"abort"}, Goto(t, p) \/ UNCHANGED <<pc, aborted>>
        PROVE  AbortInv'
    BY <1>2, <2>1, <2>5 DEF Goto, AbortInv, Crowded, In
  <2>6. ASSUME NEW t \in Task,
               \/ TryLock(t) \/ EnterSlow(t) \/ ListenFirst(t) \/ TryAgain(t) \/ Wake(t)
               \/ Retry(t) \/ RetryTooLate(t) \/ PassOn(t)
        PROVE  AbortInv'
    BY <2>5, <2>6 DEF TryLock, EnterSlow, ListenFirst, TryAgain, Wake, Retry, RetryTooLate,
                      PassOn, Points, Hot
  <2>7. ASSUME NEW t \in Task,
               \/ FairListen(t) \/ FairTry(t) \/ FairPassOn(t) \/ FairWake(t)
               \/ FairRetry(t) \/ TakeMutex(t)
        PROVE  AbortInv'
    BY <2>5, <2>7 DEF FairListen, FairTry, FairPassOn, FairWake, FairRetry, TakeMutex, Points,
                      Fair
  <2>8. ASSUME NEW t \in Task, Unlock(t) \/ UnlockNotify(t) \/ Cancel(t) \/ DropFuture(t)
        PROVE  AbortInv'
    BY <2>5, <2>8 DEF Unlock, UnlockNotify, Cancel, DropFuture, Points
  <2> QED
    BY <1>2, <2>2, <2>3, <2>4, <2>6, <2>7, <2>8 DEF Next, Poll
<1>3. AbortInv => (aborted => 2 * Cardinality(Task) > MAX \div 2)
  BY DEF AbortInv, Crowded
<1> QED
  BY <1>1, <1>2, <1>3, Invariant, PTL DEF Spec

----------------------------------------------------------------------------
(* Behind an Arc.  What keeps the mutex alive is that every operation in      *)
(* progress is anchored: its task has a handle or owns a count.  With the     *)
(* exact count this is inductive.                                             *)

ArcTypeOK ==
  /\ handles \in SUBSET Task
  /\ call \in [Task -> {"ref", "arc", "unpolled", "local", "owned"}]
  /\ strong \in Nat

Anchored == \A t \in Task : pc[t] # "idle" => t \in handles \cup Owned

ArcInv == ArcTypeOK /\ CountExact /\ Anchored

\* The sets that the count counts are finite, and if one has a member there is a count.
LEMMA FewOwners ==
  ASSUME ArcInv
  PROVE  /\ IsFiniteSet(handles) /\ IsFiniteSet(Owned) /\ IsFiniteSet(Copied)
         /\ Cardinality(handles) \in Nat /\ Cardinality(Owned) \in Nat
         /\ Cardinality(Copied) \in Nat
         /\ strong = 0 <=> handles \cup Owned = {}
<1>1. handles \in SUBSET Task /\ Owned \in SUBSET Task /\ Copied \in SUBSET Owned
  BY DEF ArcInv, ArcTypeOK, Owned, Copied
<1>2. /\ IsFiniteSet(handles) /\ IsFiniteSet(Owned) /\ IsFiniteSet(Copied)
  BY <1>1, MutexAssumption, FS_Subset
<1>3. /\ Cardinality(handles) \in Nat /\ Cardinality(Owned) \in Nat
      /\ Cardinality(Copied) \in Nat
  BY <1>2, FS_CardinalityType
<1>4. /\ Cardinality(handles) = 0 <=> handles = {}
      /\ Cardinality(Owned) = 0 <=> Owned = {}
      /\ Cardinality(Copied) = 0 <=> Copied = {}
  BY <1>2, FS_EmptySet
<1>5. strong = Cardinality(handles) + Cardinality(Owned) + Cardinality(Copied)
  BY DEF ArcInv, CountExact
<1>6. strong = 0 <=> handles = {} /\ Owned = {} /\ Copied = {}
  <2>1. strong = 0 <=> /\ Cardinality(handles) = 0 /\ Cardinality(Owned) = 0
                       /\ Cardinality(Copied) = 0
    BY <1>3, <1>5
  <2> QED
    BY <1>4, <2>1
<1> QED
  BY <1>1, <1>2, <1>3, <1>6

\* No count changes and no task comes to need one.
LEMMA ArcQuiet ==
  ASSUME ArcInv, NEW t \in Task, UNCHANGED arc, NEW p, Goto(t, p), pc \in [Task -> Points],
         pc[t] # "idle" \/ t \in handles \cup Owned
  PROVE  ArcInv'
<1>1. ArcTypeOK' /\ CountExact'
  BY DEF ArcInv, ArcTypeOK, CountExact, Owned, Copied, arc
<1>2. Anchored'
  BY DEF ArcInv, Anchored, Goto, Owned, arc
<1> QED
  BY <1>1, <1>2 DEF ArcInv

\* Handles come and go.
LEMMA HandleSteps ==
  ASSUME ArcInv, NEW t \in Task, NEW u \in Task, CloneHandle(t, u) \/ DropHandle(t)
  PROVE  ArcInv'
<1>1. /\ ArcTypeOK /\ CountExact /\ Anchored /\ strong \in Nat /\ pc' = pc /\ call' = call
      /\ Owned' = Owned /\ Copied' = Copied /\ (freed <=> strong = 0)
  BY DEF ArcInv, ArcTypeOK, CountExact, CloneHandle, DropHandle, vars, Owned, Copied
<1>2. t \in handles /\ strong # 0
  BY FewOwners DEF CloneHandle, DropHandle, GiveHandle, LoseHandle
<1>3. CASE CloneHandle(t, u)
  <2>1. handles' = handles \cup {u} /\ u \notin handles /\ Increment
    BY <1>3 DEF CloneHandle, GiveHandle
  <2>2. Cardinality(handles') = Cardinality(handles) + 1
    BY <2>1, FewOwners, FS_AddElement
  <2>3. strong' = strong + 1 /\ strong' \in Nat /\ (freed' <=> strong' = 0)
    BY <1>1, <1>2, <2>1, Incremented
  <2>4. CountExact'
    BY <1>1, <2>2, <2>3, FewOwners DEF CountExact
  <2> QED
    BY <1>1, <2>1, <2>3, <2>4 DEF ArcInv, ArcTypeOK, Anchored
<1>4. CASE DropHandle(t)
  <2>1. handles' = handles \ {t} /\ ~Borrows(t) /\ Decrement
    BY <1>4 DEF DropHandle, LoseHandle
  <2>2. Cardinality(handles') = Cardinality(handles) - 1
    BY <1>2, <2>1, FewOwners, FS_RemoveElement
  <2>3. strong' = strong - 1 /\ strong' \in Nat /\ (freed' <=> strong' = 0)
    BY <1>1, <1>2, <2>1, Decremented
  <2>4. CountExact'
    BY <1>1, <2>2, <2>3, FewOwners DEF CountExact
  <2>5. Anchored'
    BY <1>1, <2>1 DEF Anchored, Borrows, Owned, ArcTypeOK
  <2> QED
    BY <1>1, <2>1, <2>3, <2>4, <2>5 DEF ArcInv, ArcTypeOK
<1> QED
  BY <1>3, <1>4

\* A call changes what it has, and the count follows.
LEMMA CallSteps ==
  ASSUME ArcInv, NEW t \in Task, handles' = handles, NEW p, pc' = [pc EXCEPT ![t] = p],
         pc \in [Task -> Points],
         NEW c \in {"ref", "arc", "unpolled", "local", "owned"}, Has(t, c),
         t \in handles \cup Owned \/ pc[t] # "idle",
         c \in {"ref", "arc"} => p = "idle" \/ t \in handles,
         \/ /\ <<call[t], c>> \in {<<"ref", "arc">>, <<"unpolled", "owned">>}
            /\ UNCHANGED <<strong, freed>>
         \/ /\ <<call[t], c>> \in {<<"ref", "unpolled">>, <<"arc", "owned">>,
                                    <<"unpolled", "local">>}
            /\ Increment
         \/ /\ <<call[t], c>> \in {<<"local", "owned">>, <<"unpolled", "ref">>,
                                    <<"owned", "ref">>}
            /\ Decrement
  PROVE  ArcInv'
<1>1. /\ ArcTypeOK /\ CountExact /\ Anchored /\ strong \in Nat /\ (freed <=> strong = 0)
      /\ call' = [call EXCEPT ![t] = c]
      /\ call \in [Task -> {"ref", "arc", "unpolled", "local", "owned"}]
  BY DEF ArcInv, ArcTypeOK, CountExact, Has
<1>2. t \in handles \cup Owned /\ strong # 0
  BY <1>1, FewOwners DEF Anchored
<1>3. Anchored'
  <2>1. ASSUME NEW u \in Task, u # t, pc'[u] # "idle" PROVE u \in handles' \cup Owned'
    BY <1>1, <2>1 DEF Anchored, Owned
  <2>2. ASSUME pc'[t] # "idle" PROVE t \in handles' \cup Owned'
    BY <1>1, <2>2 DEF Owned
  <2> QED
    BY <2>1, <2>2 DEF Anchored
<1>4. CASE /\ <<call[t], c>> \in {<<"ref", "arc">>, <<"unpolled", "owned">>}
           /\ UNCHANGED <<strong, freed>>
  <2>1. Owned' = Owned /\ Copied' = Copied
    BY <1>1, <1>4 DEF Owned, Copied
  <2> QED
    BY <1>1, <1>3, <1>4, <2>1 DEF ArcInv, ArcTypeOK, CountExact
<1>5. CASE /\ <<call[t], c>> \in {<<"ref", "unpolled">>, <<"arc", "owned">>}
           /\ Increment
  <2>1. Owned' = Owned \cup {t} /\ t \notin Owned /\ Copied' = Copied
    BY <1>1, <1>5 DEF Owned, Copied
  <2>2. Cardinality(Owned') = Cardinality(Owned) + 1
    BY <2>1, FewOwners, FS_AddElement
  <2>3. strong' = strong + 1 /\ strong' \in Nat /\ (freed' <=> strong' = 0)
    BY <1>1, <1>2, <1>5, Incremented
  <2>4. CountExact'
    BY <1>1, <2>1, <2>2, <2>3, FewOwners DEF CountExact
  <2> QED
    BY <1>1, <1>3, <2>3, <2>4 DEF ArcInv, ArcTypeOK
<1>6. CASE <<call[t], c>> = <<"unpolled", "local">> /\ Increment
  <2>1. Owned' = Owned /\ Copied' = Copied \cup {t} /\ t \notin Copied
    BY <1>1, <1>6 DEF Owned, Copied
  <2>2. Cardinality(Copied') = Cardinality(Copied) + 1
    BY <2>1, FewOwners, FS_AddElement
  <2>3. strong' = strong + 1 /\ strong' \in Nat /\ (freed' <=> strong' = 0)
    BY <1>1, <1>2, <1>6, Incremented
  <2>4. CountExact'
    BY <1>1, <2>1, <2>2, <2>3, FewOwners DEF CountExact
  <2> QED
    BY <1>1, <1>3, <2>3, <2>4 DEF ArcInv, ArcTypeOK
<1>7. CASE <<call[t], c>> = <<"local", "owned">> /\ Decrement
  <2>1. Owned' = Owned /\ Copied' = Copied \ {t} /\ t \in Copied
    BY <1>1, <1>7 DEF Owned, Copied
  <2>2. Cardinality(Copied') = Cardinality(Copied) - 1
    BY <2>1, FewOwners, FS_RemoveElement
  <2>3. strong' = strong - 1 /\ strong' \in Nat /\ (freed' <=> strong' = 0)
    BY <1>1, <1>2, <1>7, Decremented
  <2>4. CountExact'
    BY <1>1, <2>1, <2>2, <2>3, FewOwners DEF CountExact
  <2> QED
    BY <1>1, <1>3, <2>3, <2>4 DEF ArcInv, ArcTypeOK
<1>8. CASE /\ <<call[t], c>> \in {<<"unpolled", "ref">>, <<"owned", "ref">>}
           /\ Decrement
  <2>1. Owned' = Owned \ {t} /\ t \in Owned /\ Copied' = Copied
    BY <1>1, <1>8 DEF Owned, Copied
  <2>2. Cardinality(Owned') = Cardinality(Owned) - 1
    BY <2>1, FewOwners, FS_RemoveElement
  <2>3. strong' = strong - 1 /\ strong' \in Nat /\ (freed' <=> strong' = 0)
    BY <1>1, <1>2, <1>8, Decremented
  <2>4. CountExact'
    BY <1>1, <2>1, <2>2, <2>3, FewOwners DEF CountExact
  <2> QED
    BY <1>1, <1>3, <2>3, <2>4 DEF ArcInv, ArcTypeOK
<1> QED
  BY <1>4, <1>5, <1>6, <1>7, <1>8

\* Steps of Mutex under which the Arc stays as it is.
LEMMA AcquireSteps ==
  ASSUME ArcInv, TypeOK, NEW t \in Task,
         \/ CallLock(t) \/ FastPath(t) \/ Acquire(t) \/ DropAcquire(t)
         \/ DropAcquireListener(t) \/ MutexGuardDrop(t) \/ MutexGuardArcDrop(t)
         \/ Unlocking(t)
  PROVE  ArcInv'
<1>1. pc \in [Task -> Points]
  BY DEF TypeOK
<1>2. CASE CallLock(t)
  <2>1. t \in handles /\ UNCHANGED arc /\ \E p : Goto(t, p)
    BY <1>2 DEF CallLock, TryLock, EnterSlow
  <2> QED
    BY <1>1, <2>1, ArcQuiet
<1>3. CASE FastPath(t)
  <2>1. t \in Owned /\ UNCHANGED arc /\ \E p : Goto(t, p)
    BY <1>3 DEF FastPath, TryLock, Owned
  <2> QED
    BY <1>1, <2>1, ArcQuiet
<1>4. CASE Acquire(t) /\ Poll(t)
  <2>1. pc[t] # "idle" /\ UNCHANGED arc /\ \E p : Goto(t, p)
    BY <1>4 DEF Acquire, Poll, At, ListenFirst, TryAgain, Wake, Retry, RetryTooLate, PassOn,
                Starve, FairListen, FairTry, FairPassOn, FairWake, FairRetry, TakeMutex
  <2> QED
    BY <1>1, <2>1, ArcQuiet
<1>5. CASE (Acquire(t) /\ Abort(t)) \/ DropAcquireListener(t)
  <2>1. pc' = pc /\ UNCHANGED arc
    BY <1>5 DEF Acquire, Abort, DropAcquireListener, DropFuture
  <2> QED
    BY <2>1 DEF ArcInv, ArcTypeOK, CountExact, Anchored, Owned, Copied, arc
<1>6. CASE DropAcquire(t) \/ MutexGuardDrop(t) \/ MutexGuardArcDrop(t) \/ Unlocking(t)
  <2>1. pc[t] # "idle" /\ UNCHANGED arc /\ \E p : Goto(t, p)
    BY <1>6 DEF DropAcquire, MutexGuardDrop, MutexGuardArcDrop, Unlocking, At,
                Cancel, Unlock, UnlockNotify
  <2> QED
    BY <1>1, <2>1, ArcQuiet
<1> QED
  BY <1>2, <1>3, <1>4, <1>5, <1>6 DEF Acquire

\* The life of the Arc of a LockArc and of a guard.
LEMMA OwnerSteps ==
  ASSUME ArcInv, TypeOK, NEW t \in Task,
         \/ TryLockArc(t) \/ LockArc(t) \/ SlowPath(t) \/ CloneToGuard(t)
         \/ DropLocal(t) \/ DropUnpolled(t) \/ ArcDrop(t)
  PROVE  ArcInv'
<1>1. pc \in [Task -> Points] /\ pc = [pc EXCEPT ![t] = pc[t]]
  BY DEF TypeOK
<1>2. CASE TryLockArc(t)
  <2>1. /\ t \in handles /\ call[t] = "ref" /\ Has(t, "arc")
        /\ pc' = [pc EXCEPT ![t] = "holding"] /\ UNCHANGED <<handles, strong, freed>>
    BY <1>2 DEF TryLockArc, TryLock, Goto
  <2> QED
    BY <1>1, <2>1, CallSteps
<1>3. CASE LockArc(t)
  <2>1. /\ t \in handles /\ call[t] = "ref" /\ Has(t, "unpolled") /\ Increment
        /\ pc' = pc /\ handles' = handles
    BY <1>3 DEF LockArc, vars
  <2> QED
    BY <1>1, <2>1, CallSteps
<1>4. CASE SlowPath(t)
  <2>1. /\ t \in Owned /\ call[t] = "unpolled" /\ Has(t, "owned")
        /\ pc' = [pc EXCEPT ![t] = "listen"] /\ UNCHANGED <<handles, strong, freed>>
    BY <1>4 DEF SlowPath, EnterSlow, Goto, Owned
  <2> QED
    BY <1>1, <2>1, CallSteps
<1>5. CASE CloneToGuard(t)
  <2>1. /\ pc[t] # "idle" /\ Increment /\ pc' = pc /\ handles' = handles
        /\ \/ call[t] = "arc" /\ Has(t, "owned")
           \/ call[t] = "unpolled" /\ Has(t, "local")
    BY <1>5 DEF CloneToGuard, At, vars
  <2> QED
    BY <1>1, <2>1, CallSteps
<1>6. CASE DropLocal(t)
  <2>1. /\ t \in Owned /\ call[t] = "local" /\ Has(t, "owned") /\ Decrement
        /\ pc' = pc /\ handles' = handles
    BY <1>6 DEF DropLocal, Owned, vars
  <2> QED
    BY <1>1, <2>1, CallSteps
<1>7. CASE DropUnpolled(t) \/ ArcDrop(t)
  <2>1. /\ t \in Owned /\ call[t] \in {"unpolled", "owned"} /\ Has(t, "ref") /\ Decrement
        /\ pc[t] = "idle" /\ pc' = pc /\ handles' = handles
    BY <1>7 DEF DropUnpolled, ArcDrop, At, Owned, vars
  <2> QED
    BY <1>1, <2>1, CallSteps
<1> QED
  BY <1>2, <1>3, <1>4, <1>5, <1>6, <1>7

\* The mutex behind the Arc is the mutex of Mutex: all that is proved above of Spec
\* holds of it.
THEOREM ArcImplementsMutex == ArcSpec => Spec
<1>1. ArcInit => Init
  BY DEF ArcInit
<1>2. ASSUME NEW t \in Task,
             \/ CallLock(t) \/ TryLockArc(t) \/ FastPath(t) \/ SlowPath(t) \/ Acquire(t)
             \/ DropAcquire(t) \/ DropAcquireListener(t) \/ MutexGuardDrop(t)
             \/ MutexGuardArcDrop(t) \/ Unlocking(t)
      PROVE  Next
  BY <1>2 DEF CallLock, TryLockArc, FastPath, SlowPath, Acquire, DropAcquire,
              DropAcquireListener, MutexGuardDrop, MutexGuardArcDrop, Unlocking, Next
<1>3. ASSUME NEW t \in Task, NEW u \in Task,
             \/ CloneHandle(t, u) \/ DropHandle(t) \/ LockArc(t) \/ CloneToGuard(t)
             \/ DropLocal(t) \/ DropUnpolled(t) \/ ArcDrop(t)
      PROVE  UNCHANGED vars
  BY <1>3 DEF CloneHandle, DropHandle, LockArc, CloneToGuard, DropLocal, DropUnpolled, ArcDrop
<1>4. [ArcNext]_arcVars => [Next]_vars
  BY <1>2, <1>3 DEF ArcNext, arcVars
<1> QED
  BY <1>1, <1>4, PTL DEF ArcSpec, Spec

\* Each count of the Arc has its owner, and whoever uses the mutex owns or borrows one.
THEOREM ArcInvariant == ArcSpec => []ArcInv
<1>1. ASSUME ArcInit PROVE ArcInv
  <2>1. PICK t \in Task : handles = {t}
    BY <1>1 DEF ArcInit, OneHandle
  <2>2. Owned = {} /\ Copied = {} /\ \A u \in Task : pc[u] = "idle"
    BY <1>1 DEF ArcInit, Init, Owned, Copied
  <2>3. Cardinality(handles) = 1 /\ Cardinality(Owned) = 0 /\ Cardinality(Copied) = 0
    BY <2>1, <2>2, FS_EmptySet, FS_Singleton
  <2>4. strong = 1 /\ strong \in Nat /\ freed = FALSE
    BY <1>1 DEF ArcInit, OneHandle
  <2>5. strong = Cardinality(handles) + Cardinality(Owned) + Cardinality(Copied)
    BY <2>3, <2>4
  <2>6. ~freed /\ strong # 0
    BY <2>4
  <2>7. ArcTypeOK
    BY <1>1, <2>1, <2>4 DEF ArcInit, ArcTypeOK
  <2> QED
    BY <2>2, <2>5, <2>6, <2>7 DEF ArcInv, CountExact, Anchored
<1>2. ASSUME ArcInv, TypeOK, [ArcNext]_arcVars PROVE ArcInv'
  <2>1. CASE ArcNext
    BY <1>2, <2>1, HandleSteps, AcquireSteps, OwnerSteps DEF ArcNext
  <2>2. CASE UNCHANGED arcVars
    BY <1>2, <2>2 DEF arcVars, arc, vars, ArcInv, ArcTypeOK, CountExact, Anchored, Owned, Copied
  <2> QED
    BY <1>2, <2>1, <2>2
<1> QED
  BY <1>1, <1>2, TypeCorrect, ArcImplementsMutex, PTL DEF ArcSpec

\* The count of the Arc is the number of its owners, through the move of a LockArc
\* into the slow path and on to the guard, and through its cancellation
\* (mutex.rs:421-436, 470-474, 500-513).
THEOREM CountIsExact == ArcSpec => []CountExact
<1>1. ArcInv => CountExact
  BY DEF ArcInv
<1> QED
  BY <1>1, ArcInvariant, PTL

\* Guards, futures and destructors find the mutex alive (mutex.rs:203-207: the
\* notification comes after the lock bit was cleared).
THEOREM NoUseAfterFree == ArcSpec => []LockOutlivesUse
<1>1. ArcInv => LockOutlivesUse
  BY FewOwners DEF ArcInv, CountExact, Anchored, LockOutlivesUse
<1> QED
  BY <1>1, ArcInvariant, PTL
=============================================================================
