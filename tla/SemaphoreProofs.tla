-------------------------- MODULE SemaphoreProofs --------------------------
(***************************************************************************)
(* Proofs about Semaphore, for every finite set of tasks, every number of  *)
(* permits, and any bounds on what is added and forgotten.                 *)
(*                                                                         *)
(* What is added may overflow the count.                                   *)
(*                                                                         *)
(* Conservation becomes inductive with the types and one more fact: a call *)
(* about to run its compare_exchange has read a count above zero, so that  *)
(* its success does not take the count below it.  NoLostWakeup needs that  *)
(* a listener is in the list at most once (WakeInv).                       *)
(*                                                                         *)
(* Behind an Arc the semaphore takes no other steps; CountExact and that   *)
(* whoever is inside the semaphore has a handle or a count of its own are  *)
(* inductive together (ArcInv).                                            *)
(***************************************************************************)
EXTENDS SemaphoreArc, ArcCountProofs, EventListenerProofs

SeenPositive == \A t \in Task : pc[t] \in {"cas", "try_cas"} => seen[t] > 0

IInv == TypeOK /\ Conservation /\ SeenPositive

H(p) == IF p = "holding" THEN 1 ELSE 0

\* How moving one task changes the number of guards.
LEMMA HoldersCount ==
  ASSUME pc \in [Task -> Points], NEW t \in Task, NEW p \in Points, Goto(t, p)
  PROVE  /\ Cardinality(Holders) \in Nat /\ Cardinality(Holders') \in Nat
         /\ Cardinality(Holders') = Cardinality(Holders) + H(p) - H(pc[t])
<1>1. IsFiniteSet(Holders) /\ IsFiniteSet(Holders')
  <2>1. Holders \in SUBSET Task /\ Holders' \in SUBSET Task
    BY DEF Holders, In
  <2> QED
    BY <2>1, SemaphoreAssumption, FS_Subset
<1>2. Cardinality(Holders) \in Nat /\ Cardinality(Holders') \in Nat
  BY <1>1, FS_CardinalityType
<1>3. /\ Cardinality(Holders \cup {t})
           = IF t \in Holders THEN Cardinality(Holders) ELSE Cardinality(Holders) + 1
      /\ Cardinality(Holders \ {t})
           = IF t \in Holders THEN Cardinality(Holders) - 1 ELSE Cardinality(Holders)
  BY <1>1, FS_AddElement, FS_RemoveElement
<1>4. Holders' = IF p = "holding" THEN Holders \cup {t} ELSE Holders \ {t}
  BY DEF Holders, In, Goto
<1>5. t \in Holders <=> pc[t] = "holding"
  BY DEF Holders, In
<1>6. CASE p = "holding"
  BY <1>2, <1>3, <1>4, <1>5, <1>6 DEF H
<1>7. CASE p # "holding"
  BY <1>2, <1>3, <1>4, <1>5, <1>7 DEF H
<1> QED
  BY <1>2, <1>6, <1>7

\* One more overflow accounts for MAX + 1 permits.
LEMMA OneMore ==
  ASSUME NEW w \in Nat, NEW m \in Nat, m > 0
  PROVE  /\ w * m \in Nat /\ (w + 1) * m = w * m + m
         /\ w <= w * m
OBVIOUS

\* A number that is at most a part of a sum is at most the sum.
LEMMA Within ==
  ASSUME NEW w \in Nat, NEW k \in Nat, w <= k,
         NEW a \in Nat, NEW b \in Nat, NEW c \in Nat, NEW s \in Nat, a + b + c + k = s
  PROVE  w \in 0..s
OBVIOUS

\* When the count changes by what the step adds, forgets, takes and gives back,
\* wraps if that is too much for it, and is not taken below zero, it stays in its
\* type and permits are conserved.
LEMMA Bookkeeping ==
  ASSUME IInv, NEW t \in Task, NEW p \in Points, Goto(t, p),
         added' \in 0..MaxAdd, forgotten' \in 0..MaxForget,
         NEW x \in 0..(MAX + MAX),
         x = count + (added' - added) - (forgotten' - forgotten) - (H(p) - H(pc[t])),
         count' = Wrap(x)
  PROVE  count' \in 0..MAX /\ Conservation'
<1>1. /\ pc \in [Task -> Points] /\ count \in Nat /\ added \in Nat /\ forgotten \in Nat
      /\ added' \in Nat /\ forgotten' \in Nat /\ x \in Nat
      /\ MAX \in Nat /\ MAX > 0 /\ Permits \in Nat
  BY SemaphoreAssumption DEF IInv, TypeOK
<1>2. /\ Cardinality(Holders) \in Nat /\ Cardinality(Holders') \in Nat
      /\ Cardinality(Holders') = Cardinality(Holders) + H(p) - H(pc[t])
  BY <1>1, HoldersCount
<1>3. PICK w \in 0..(Permits + added) :
        count + Cardinality(Holders) + forgotten + w * (MAX + 1) = Permits + added
  BY DEF IInv, Conservation
<1>4. /\ w \in Nat /\ w * (MAX + 1) \in Nat /\ w <= w * (MAX + 1)
      /\ (w + 1) * (MAX + 1) \in Nat /\ w + 1 <= (w + 1) * (MAX + 1)
      /\ (w + 1) * (MAX + 1) = w * (MAX + 1) + (MAX + 1)
  <2>1. w \in Nat /\ w + 1 \in Nat /\ MAX + 1 \in Nat /\ MAX + 1 > 0
    BY <1>1, <1>3
  <2> QED
    BY <2>1, OneMore
<1>5. x + Cardinality(Holders') + forgotten' + w * (MAX + 1) = Permits + added'
  BY <1>1, <1>2, <1>3, <1>4 DEF H
<1>6. w + 1 \in Nat /\ Permits + added' \in Nat
  <2>1. w \in Nat
    BY <1>4
  <2>2. Permits + added' \in Nat
    <3>1. \A a, b \in Nat : a + b \in Nat
      OBVIOUS
    <3> QED
      BY <1>1, <3>1, Zenon
  <2> QED
    BY <2>1, <2>2
<1>7. CASE x <= MAX
  <2>1. count' = x /\ count' \in 0..MAX
    BY <1>1, <1>7 DEF Wrap
  <2>2. w \in 0..(Permits + added')
    <3> DEFINE k == w * (MAX + 1)
    <3>1. w \in Nat /\ Permits + added' \in Nat
      BY <1>4, <1>6
    <3>2. /\ k \in Nat /\ w <= k
          /\ x + Cardinality(Holders') + forgotten' + k = Permits + added'
      BY <1>4, <1>5
    <3> HIDE DEF k
    <3> QED
      BY <1>1, <1>2, <3>1, <3>2, Within
  <2> QED
    BY <1>5, <2>1, <2>2 DEF Conservation
<1>8. CASE x > MAX
  <2>1. count' = x - (MAX + 1) /\ count' \in 0..MAX
    BY <1>1, <1>8 DEF Wrap
  <2>2. count' + Cardinality(Holders') + forgotten' + (w + 1) * (MAX + 1) = Permits + added'
    BY <1>1, <1>2, <1>4, <1>5, <2>1
  <2>3. count' \in Nat
    BY <1>1, <2>1
  <2>4. w + 1 \in 0..(Permits + added')
    <3> DEFINE k == (w + 1) * (MAX + 1)
    <3>1. w + 1 \in Nat /\ count' \in Nat /\ Permits + added' \in Nat
      BY <1>6, <2>3
    <3>2. /\ k \in Nat /\ w + 1 <= k
          /\ count' + Cardinality(Holders') + forgotten' + k = Permits + added'
      BY <1>4, <2>2
    <3> HIDE DEF k
    <3> QED
      BY <1>1, <1>2, <3>1, <3>2, Within
  <2> QED
    BY <2>1, <2>2, <2>4 DEF Conservation
<1> QED
  BY <1>1, <1>7, <1>8

\* No operation on the event leaves its type.
LEMMA EventSteps ==
  ASSUME TypeOK, NEW t \in Task
  PROVE  /\ Listen(event, t) \in EventOf(Task)
         /\ Notify(event, owed[t]) \in EventOf(Task)
         /\ Consume(event, t) \in EventOf(Task)
         /\ t \in Listeners(event) => DropListener(event, t) \in EventOf(Task)
BY ListenType, NotifyType, ConsumeType, DropListenerType, SemaphoreAssumption DEF TypeOK

\* A step that moves one task and keeps the accounts keeps the invariant.
LEMMA Preserved ==
  ASSUME IInv, NEW t \in Task, NEW p \in Points, Goto(t, p),
         added' \in 0..MaxAdd, forgotten' \in 0..MaxForget,
         NEW x \in 0..(MAX + MAX),
         x = count + (added' - added) - (forgotten' - forgotten) - (H(p) - H(pc[t])),
         count' = Wrap(x),
         event' \in EventOf(Task), owed' \in [Task -> 0..MAX],
         NEW v \in 0..MAX, seen' = [seen EXCEPT ![t] = v],
         p \in {"cas", "try_cas"} => v > 0
  PROVE  IInv'
<1>1. count' \in 0..MAX /\ Conservation'
  BY Bookkeeping
<1>2. pc' \in [Task -> Points] /\ seen' \in [Task -> 0..MAX]
  BY DEF IInv, TypeOK, Goto
<1>3. SeenPositive'
  BY DEF IInv, TypeOK, SeenPositive, Goto
<1> QED
  BY <1>1, <1>2, <1>3 DEF IInv, TypeOK

\* In particular if it changes nothing that the accounts contain.
LEMMA Quiet ==
  ASSUME IInv, NEW t \in Task, NEW p \in Points, Goto(t, p), H(p) = H(pc[t]),
         UNCHANGED <<count, added, forgotten>>,
         event' \in EventOf(Task), owed' \in [Task -> 0..MAX],
         NEW v \in 0..MAX, seen' = [seen EXCEPT ![t] = v],
         p \in {"cas", "try_cas"} => v > 0
  PROVE  IInv'
<1>1. /\ count \in Nat /\ added' \in 0..MaxAdd /\ forgotten' \in 0..MaxForget
      /\ added \in Int /\ forgotten \in Int
  BY SemaphoreAssumption DEF IInv, TypeOK
<1>2. count \in 0..(MAX + MAX) /\ count' = Wrap(count)
  BY SemaphoreAssumption DEF IInv, TypeOK, Wrap
<1>3. count = count + (added' - added) - (forgotten' - forgotten) - (H(p) - H(pc[t]))
  BY <1>1 DEF H
<1> QED
  BY <1>1, <1>2, <1>3, Preserved

\* The loop of try_acquire.
LEMMA TrySteps ==
  ASSUME IInv, NEW t \in Task, Load(t) \/ CasFails(t) \/ CasTakes(t)
  PROVE  IInv'
<1> USE DEF H, Points, Acquiring
<1>1. /\ event \in EventOf(Task) /\ owed \in [Task -> 0..MAX] /\ count \in 0..MAX
      /\ count \in Nat /\ added \in 0..MaxAdd /\ forgotten \in 0..MaxForget
  BY SemaphoreAssumption DEF IInv, TypeOK
<1>2. ASSUME Examine(t), UNCHANGED <<count, event, owed, added, forgotten>>,
             pc[t] \in {"load", "try_load", "cas", "try_cas"}
      PROVE  IInv'
  <2>1. PICK p \in Points : /\ Goto(t, p) /\ H(p) = 0
                            /\ p \in {"cas", "try_cas"} => count > 0
    BY <1>2 DEF Examine
  <2>2. H(p) = H(pc[t]) /\ seen' = [seen EXCEPT ![t] = count]
    BY <1>2, <2>1 DEF Examine
  <2> QED
    BY <1>1, <1>2, <2>1, <2>2, Quiet
<1>3. CASE Load(t)
  BY <1>2, <1>3 DEF Load
<1>4. CASE CasFails(t)
  BY <1>2, <1>4 DEF CasFails
<1>5. CASE CasTakes(t)
  <2>1. /\ count' = count - 1 /\ count > 0 /\ Goto(t, "holding") /\ H(pc[t]) = 0
        /\ seen' = [seen EXCEPT ![t] = 0] /\ UNCHANGED <<event, owed, added, forgotten>>
    BY <1>1, <1>5 DEF CasTakes, IInv, SeenPositive
  <2>2. /\ count - 1 \in 0..(MAX + MAX) /\ 0 \in 0..MAX /\ count' = Wrap(count - 1)
        /\ count - 1 = count + (added' - added) - (forgotten' - forgotten)
                             - (H("holding") - H(pc[t]))
    BY <1>1, <2>1, SemaphoreAssumption DEF Wrap
  <2>3. /\ "holding" \in Points /\ "holding" \notin {"cas", "try_cas"}
        /\ added' \in 0..MaxAdd /\ forgotten' \in 0..MaxForget
        /\ event' \in EventOf(Task) /\ owed' \in [Task -> 0..MAX]
    BY <1>1, <2>1
  <2> HIDE DEF H, Points, Acquiring
  <2> QED
    BY <2>1, <2>2, <2>3, Preserved
<1> QED
  BY <1>3, <1>4, <1>5

\* Steps that leave the accounts alone.
LEMMA WaitSteps ==
  ASSUME IInv, NEW t \in Task,
         Start(t) \/ ListenFirst(t) \/ Wake(t) \/ NotifyEvent(t) \/ Cancel(t) \/ DropFuture(t)
  PROVE  IInv'
<1> USE DEF H, Points, Acquiring, Fresh
<1>1. /\ TypeOK /\ event \in EventOf(Task) /\ owed \in [Task -> 0..MAX]
      /\ seen[t] \in 0..MAX /\ seen = [seen EXCEPT ![t] = seen[t]] /\ 0 \in 0..MAX
  BY SemaphoreAssumption DEF IInv, TypeOK
<1>2. CASE Start(t)
  <2>1. PICK p \in {"try_load", "load"} : Goto(t, p)
    BY <1>2 DEF Start
  <2> QED
    BY <1>1, <1>2, <2>1, Quiet DEF Start
<1>3. CASE ListenFirst(t)
  BY <1>1, <1>3, Quiet, EventSteps DEF ListenFirst
<1>4. CASE Wake(t)
  BY <1>1, <1>4, Quiet, EventSteps DEF Wake
<1>5. CASE NotifyEvent(t)
  <2>1. owed' \in [Task -> 0..MAX]
    BY <1>1, <1>5 DEF NotifyEvent
  <2> QED
    BY <1>1, <1>5, <2>1, Quiet, EventSteps DEF NotifyEvent
<1>6. CASE Cancel(t)
  BY <1>1, <1>6, Quiet DEF Cancel
<1>7. CASE DropFuture(t)
  <2>1. event' \in EventOf(Task)
    BY <1>1, <1>7, EventSteps DEF DropFuture
  <2> QED
    BY <1>7, <2>1 DEF DropFuture, IInv, TypeOK, Conservation, SeenPositive, Holders, In
<1> QED
  BY <1>2, <1>3, <1>4, <1>5, <1>6, <1>7

\* Steps that give permits back, create them, or forget them.
LEMMA PermitSteps ==
  ASSUME IInv, NEW t \in Task, Release(t) \/ AddPermits(t) \/ Forget(t)
  PROVE  IInv'
<1> USE DEF H, Points, Fresh
<1>1. /\ TypeOK /\ event \in EventOf(Task) /\ owed \in [Task -> 0..MAX] /\ count \in Nat
      /\ seen[t] \in 0..MAX /\ seen = [seen EXCEPT ![t] = seen[t]]
      /\ added \in 0..MaxAdd /\ forgotten \in 0..MaxForget
  BY SemaphoreAssumption DEF IInv, TypeOK
<1>2. ASSUME NEW n \in 0..MAX, Add(t, n)
      PROVE  owed' \in [Task -> 0..MAX]
  BY <1>1, <1>2 DEF Add
<1>3. CASE Release(t)
  <2>1. 1 \in 0..MAX
    BY SemaphoreAssumption
  <2>2. /\ count + 1 \in 0..(MAX + MAX) /\ H("notify") = 0 /\ H(pc[t]) = 1
        /\ count + 1 = count + (added' - added) - (forgotten' - forgotten)
                             - (H("notify") - H(pc[t]))
    BY <1>1, <1>3, SemaphoreAssumption DEF Release, TypeOK
  <2> QED
    BY <1>1, <1>2, <1>3, <2>1, <2>2, Preserved DEF Release, Add
<1>4. CASE AddPermits(t)
  <2>1. PICK n \in 1..MAX : added + n <= MaxAdd /\ Add(t, n) /\ added' = added + n
    BY <1>4 DEF AddPermits
  <2>2. /\ n \in 0..MAX /\ added' \in 0..MaxAdd /\ UNCHANGED forgotten
    BY <1>1, <1>4, <2>1, SemaphoreAssumption DEF AddPermits
  <2>3. /\ count + n \in 0..(MAX + MAX)
        /\ count + n = count + (added' - added) - (forgotten' - forgotten)
                             - (H("notify") - H(pc[t]))
    BY <1>1, <1>4, <2>1, <2>2, SemaphoreAssumption DEF AddPermits, TypeOK
  <2> QED
    BY <1>1, <1>2, <2>1, <2>2, <2>3, Preserved DEF Add
<1>5. CASE Forget(t)
  <2>1. /\ forgotten' \in 0..MaxForget
        /\ count \in 0..(MAX + MAX) /\ count' = Wrap(count)
        /\ count = count + (added' - added) - (forgotten' - forgotten) - (H("idle") - H(pc[t]))
    BY <1>1, <1>5, SemaphoreAssumption DEF Forget, Wrap, TypeOK
  <2>2. "idle" \in Points /\ "idle" \notin {"cas", "try_cas"} /\ Goto(t, "idle")
    BY <1>5 DEF Forget
  <2>3. UNCHANGED <<count, event, seen, owed, added>>
    BY <1>5 DEF Forget
  <2> HIDE DEF H, Points
  <2> QED
    BY <1>1, <2>1, <2>2, <2>3, Preserved
<1> QED
  BY <1>3, <1>4, <1>5

\* A new semaphore has all its permits.
LEMMA Initially == Init => IInv
<1> SUFFICES ASSUME Init PROVE IInv
  OBVIOUS
<1>1. Holders = {}
  BY DEF Init, Holders, In
<1>2. TypeOK
  <2>1. NewEvent \in EventOf(Task)
    BY NewEventType
  <2>2. Permits \in 0..MAX /\ 0 \in 0..MAX /\ 0 \in 0..MaxAdd /\ 0 \in 0..MaxForget
    BY SemaphoreAssumption
  <2>3. [t \in Task |-> "idle"] \in [Task -> Points]
    BY DEF Points
  <2> QED
    BY <2>1, <2>2, <2>3 DEF Init, TypeOK
<1>3. Conservation
  <2>1. /\ 0 \in 0..(Permits + added)
        /\ count + Cardinality(Holders) + forgotten + 0 * (MAX + 1) = Permits + added
    BY <1>1, FS_EmptySet, SemaphoreAssumption DEF Init
  <2> QED
    BY <2>1 DEF Conservation
<1>4. SeenPositive
  BY DEF Init, SeenPositive
<1> QED
  BY <1>2, <1>3, <1>4 DEF IInv

\* Every step of every task keeps the invariant.
LEMMA Inductive == IInv /\ [Next]_vars => IInv'
<1> SUFFICES ASSUME IInv, [Next]_vars PROVE IInv'
  OBVIOUS
<1>1. CASE Next
  BY <1>1, TrySteps, WaitSteps, PermitSteps DEF Next, Work
<1>2. CASE UNCHANGED vars
  BY <1>2 DEF vars, IInv, TypeOK, Conservation, SeenPositive, Holders, In
<1> QED
  BY <1>1, <1>2

\* The inductive invariant holds in every reachable state.
THEOREM Invariant == Spec => []IInv
BY Initially, Inductive, PTL DEF Spec

\* The count stays a usize: no compare_exchange takes it below zero
\* (semaphore.rs:60-77).
THEOREM TypeCorrect == Spec => []TypeOK
<1>1. IInv => TypeOK
  BY DEF IInv
<1> QED
  BY <1>1, Invariant, PTL

\* Permits are not made up, and not lost but by overflow, however calls interleave
\* (semaphore.rs:60-77, 237-240, 381-386).
THEOREM PermitsConserved == Spec => []Conservation
<1>1. IInv => Conservation
  BY DEF IInv
<1> QED
  BY <1>1, Invariant, PTL

\* What Conservation means for the number of permits about, without and with overflow.
LEMMA Created ==
  ASSUME IInv
  PROVE  /\ Cardinality(Holders) \in Nat
         /\ count + Cardinality(Holders) + forgotten <= Permits + added
         /\ Permits + added <= MAX
               => count + Cardinality(Holders) + forgotten = Permits + added
<1>1. /\ count \in Nat /\ added \in Nat /\ forgotten \in Nat
      /\ MAX \in Nat /\ MAX > 0 /\ Permits \in Nat
  BY SemaphoreAssumption DEF IInv, TypeOK
<1>2. Cardinality(Holders) \in Nat
  <2>1. Holders \in SUBSET Task
    BY DEF Holders, In
  <2> QED
    BY <2>1, SemaphoreAssumption, FS_Subset, FS_CardinalityType
<1>3. PICK w \in 0..(Permits + added) :
        count + Cardinality(Holders) + forgotten + w * (MAX + 1) = Permits + added
  BY DEF IInv, Conservation
<1>4. w \in Nat /\ MAX + 1 \in Nat /\ MAX + 1 > 0
  BY <1>1, <1>3
<1>5. w * (MAX + 1) \in Nat
  BY <1>4, OneMore
<1>6. CASE w = 0
  <2>1. w * (MAX + 1) = 0
    BY <1>1, <1>6
  <2> QED
    BY <1>1, <1>2, <1>3, <2>1
<1>7. CASE w > 0
  <2>1. w - 1 \in Nat
    BY <1>4, <1>7
  <2>2. (w - 1) * (MAX + 1) \in Nat /\ ((w - 1) + 1) * (MAX + 1) = (w - 1) * (MAX + 1) + (MAX + 1)
    BY <1>4, <2>1, OneMore
  <2>3. w * (MAX + 1) >= MAX + 1
    BY <1>4, <2>1, <2>2
  <2> QED
    BY <1>1, <1>2, <1>3, <1>5, <2>3
<1> QED
  BY <1>2, <1>4, <1>6, <1>7

\* As long as a program creates no more permits than a usize counts, none is lost:
\* the overflow that add_permits does not check for is the only way
\* (semaphore.rs:237-240).
THEOREM NoPermitLost ==
  Spec => [](Permits + added <= MAX
               => count + Cardinality(Holders) + forgotten = Permits + added)
<1>1. IInv => (Permits + added <= MAX
                 => count + Cardinality(Holders) + forgotten = Permits + added)
  BY Created
<1> QED
  BY <1>1, Invariant, PTL

----------------------------------------------------------------------------
(* The semaphore implements the stock of permits *)

\* A step that leaves tasks in their groups and the supply as it is stutters.
LEMMA SameGroups ==
  ASSUME TypeOK, NEW t \in Task, NEW p \in Points, Goto(t, p),
         UNCHANGED <<added, forgotten>>,
         p \in Acquiring \cup {"try_load", "try_cas"}
            <=> pc[t] \in Acquiring \cup {"try_load", "try_cas"},
         p = "holding" <=> pc[t] = "holding"
  PROVE  UNCHANGED Stock!vars
<1>1. pc \in [Task -> Points] /\ pc' = [pc EXCEPT ![t] = p]
  BY DEF TypeOK, Goto
<1>2. Waiting' = Waiting /\ Holders' = Holders
  BY <1>1 DEF Waiting, Holders, In
<1> QED
  BY <1>2 DEF Stock!vars

\* Every step of the semaphore is a step of the stock, or changes nothing in it.
LEMMA StepRefines ==
  ASSUME IInv, [Next]_vars
  PROVE  [Stock!Next]_(Stock!vars)
<1> USE DEF Fresh, Acquiring, Points
<1>1. /\ TypeOK /\ pc \in [Task -> Points] /\ count \in Nat /\ added \in Nat
      /\ forgotten \in Nat
  BY DEF IInv, TypeOK
<1>2. CASE UNCHANGED vars
  BY <1>2 DEF vars, Stock!vars, Waiting, Holders, In
<1>3. ASSUME NEW t \in Task, Start(t)
      PROVE  Stock!Next
  <2>1. /\ t \notin Waiting \cup Holders
        /\ Waiting' = Waiting \cup {t} /\ Holders' = Holders
    BY <1>1, <1>3 DEF Start, Goto, Waiting, Holders, In
  <2> QED
    BY <1>3, <2>1 DEF Stock!Next, Stock!Request, Start
<1>4. ASSUME NEW t \in Task, pc[t] \in Acquiring \cup {"try_load", "try_cas"},
             Goto(t, "idle"), UNCHANGED <<added, forgotten>>
      PROVE  Stock!Next
  <2>1. /\ t \in Waiting
        /\ Waiting' = Waiting \ {t} /\ Holders' = Holders
    BY <1>1, <1>4 DEF Goto, Waiting, Holders, In
  <2> QED
    BY <1>4, <2>1 DEF Stock!Next, Stock!GiveUp
<1>5. ASSUME NEW t \in Task, Examine(t), pc[t] \in {"load", "try_load", "cas", "try_cas"},
             UNCHANGED <<added, forgotten>>
      PROVE  [Stock!Next]_(Stock!vars)
  <2>1. CASE Goto(t, "idle")
    BY <1>4, <1>5, <2>1
  <2>2. CASE ~Goto(t, "idle")
    <3>1. PICK p \in {"cas", "try_cas", "listen", "wait"} : Goto(t, p)
      BY <1>5, <2>2 DEF Examine
    <3>2. /\ p \in Points
          /\ p \in Acquiring \cup {"try_load", "try_cas"}
          /\ pc[t] \in Acquiring \cup {"try_load", "try_cas"}
          /\ p # "holding" /\ pc[t] # "holding"
      BY <1>5, <3>1
    <3>3. UNCHANGED Stock!vars
      <4> HIDE DEF Acquiring, Points
      <4> QED
        BY <1>1, <1>5, <3>1, <3>2, SameGroups
    <3> QED
      BY <3>3
  <2> QED
    BY <2>1, <2>2
<1>6. ASSUME NEW t \in Task, CasTakes(t)
      PROVE  Stock!Next
  <2>1. /\ t \in Waiting
        /\ Waiting' = Waiting \ {t} /\ Holders' = Holders \cup {t}
    BY <1>1, <1>6 DEF CasTakes, Goto, Waiting, Holders, In
  <2>2. count > 0
    BY <1>1, <1>6 DEF CasTakes, IInv, SeenPositive
  <2>3. Cardinality(Holders) \in Nat
    <3>1. Holders \in SUBSET Task
      BY DEF Holders, In
    <3> QED
      BY <3>1, SemaphoreAssumption, FS_Subset, FS_CardinalityType
  <2>4. Cardinality(Holders) < Permits + added - forgotten
    <3>1. count + Cardinality(Holders) + forgotten <= Permits + added /\ Permits \in Nat
      BY Created, SemaphoreAssumption
    <3> QED
      BY <1>1, <2>2, <2>3, <3>1
  <2>5. Stock!Cardinality(Holders) = Cardinality(Holders)
    BY Zenon DEF Stock!Cardinality, Cardinality
  <2> QED
    BY <1>6, <2>1, <2>4, <2>5 DEF Stock!Next, Stock!Grant, CasTakes
<1>7. ASSUME NEW t \in Task, Release(t)
      PROVE  Stock!Next
  <2>1. t \in Holders /\ Waiting' = Waiting /\ Holders' = Holders \ {t}
    BY <1>1, <1>7 DEF Release, Add, Goto, Waiting, Holders, In
  <2> QED
    BY <1>7, <2>1 DEF Stock!Next, Stock!Release, Release
<1>8. ASSUME NEW t \in Task, Forget(t)
      PROVE  Stock!Next
  <2>1. t \in Holders /\ Waiting' = Waiting /\ Holders' = Holders \ {t}
    BY <1>1, <1>8 DEF Forget, Goto, Waiting, Holders, In
  <2>2. Permits + added' - forgotten' = (Permits + added - forgotten) - 1
    BY <1>1, <1>8, SemaphoreAssumption DEF Forget
  <2> QED
    BY <2>1, <2>2 DEF Stock!Next, Stock!Forget
<1>9. ASSUME NEW t \in Task, AddPermits(t)
      PROVE  Stock!Next
  <2>1. Waiting' = Waiting /\ Holders' = Holders
    BY <1>1, <1>9 DEF AddPermits, Add, Goto, Waiting, Holders, In
  <2>2. PICK n \in 1..MAX : added' = added + n
    BY <1>9 DEF AddPermits
  <2>3. Permits + added' - forgotten' > Permits + added - forgotten
    BY <1>1, <1>9, <2>2, SemaphoreAssumption DEF AddPermits
  <2> QED
    BY <2>1, <2>3 DEF Stock!Next, Stock!AddPermits
<1>10. ASSUME NEW t \in Task, ListenFirst(t) \/ Wake(t) \/ NotifyEvent(t)
       PROVE  UNCHANGED Stock!vars
  BY <1>1, <1>10, SameGroups DEF ListenFirst, Wake, NotifyEvent
<1>11. ASSUME NEW t \in Task, DropFuture(t)
       PROVE  UNCHANGED Stock!vars
  BY <1>11 DEF DropFuture, Stock!vars, Waiting, Holders, In
<1>12. ASSUME NEW t \in Task, Cancel(t)
       PROVE  Stock!Next
  BY <1>4, <1>12 DEF Cancel
<1>13. ASSUME NEW t \in Task, Load(t) \/ CasFails(t)
       PROVE  [Stock!Next]_(Stock!vars)
  BY <1>5, <1>13 DEF Load, CasFails
<1> QED
  BY <1>2, <1>3, <1>6, <1>7, <1>8, <1>9, <1>10, <1>11, <1>12, <1>13 DEF Next, Work

\* The semaphore implements SemaphoreSpec: never more guards than permits, and a
\* permit goes only to a call that asked for it (semaphore.rs, all paths).
THEOREM Refinement == Spec => ImplementsStock
<1>1. Init => Stock!Init
  BY SemaphoreAssumption
  DEF Init, Stock!Init, Waiting, Holders, In, Acquiring
<1>2. IInv /\ [Next]_vars => [Stock!Next]_(Stock!vars)
  BY StepRefines
<1> QED
  BY <1>1, <1>2, Invariant, PTL DEF Spec, Stock!Spec, ImplementsStock

----------------------------------------------------------------------------
(* No lost wakeup.  NoLostWakeup is inductive together with two facts: a call  *)
(* about to listen is not in the list yet, so that it is there once at most,   *)
(* and a call about to notify owes at least one notification.  That a pending  *)
(* call is in the list and nobody else owes one is for NobodyLeftWaiting.      *)

Listening ==
  /\ WellFormed(event)
  /\ \A t \in Task : /\ pc[t] = "listen" => t \notin Listeners(event)
                     /\ pc[t] = "wait" => t \in Listeners(event)
                     /\ IF pc[t] = "notify" THEN owed[t] > 0 ELSE owed[t] = 0

WakeInv == IInv /\ Listening /\ NoLostWakeup

\* Who listens, sleeps and is notified after an operation on the event.
LEMMA EventMembers ==
  ASSUME TypeOK, WellFormed(event), NEW t \in Task
  PROVE  /\ t \notin Listeners(event)
              => /\ WellFormed(Listen(event, t))
                 /\ Listeners(Listen(event, t)) = Listeners(event) \cup {t}
         /\ WellFormed(Notify(event, owed[t]))
         /\ Listeners(Notify(event, owed[t])) = Listeners(event)
         /\ Asleep(Notify(event, owed[t])) \in SUBSET Asleep(event)
         /\ owed[t] > 0 /\ Listeners(event) # {} => Notify(event, owed[t]).notified # {}
         /\ t \in event.notified
              => /\ WellFormed(Consume(event, t))
                 /\ Listeners(Consume(event, t)) = Listeners(event) \ {t}
         /\ t \in Listeners(event)
              => /\ WellFormed(DropListener(event, t))
                 /\ Listeners(DropListener(event, t)) = Listeners(event) \ {t}
                 /\ Asleep(DropListener(event, t)) \in SUBSET Asleep(event)
                 /\ event.notified # {} /\ Listeners(event) # {t}
                      => DropListener(event, t).notified # {}
<1>1. event \in EventOf(Task) /\ WellFormed(event) /\ IsFiniteSet(Task) /\ owed[t] \in Nat
  BY SemaphoreAssumption DEF TypeOK
<1>2. ASSUME t \notin Listeners(event)
      PROVE  /\ WellFormed(Listen(event, t))
             /\ Asleep(Listen(event, t)) = Asleep(event) \cup {t}
             /\ Listen(event, t).notified = event.notified
  BY <1>1, <1>2, ListenMembers
<1>3. /\ WellFormed(Notify(event, owed[t]))
      /\ Listeners(Notify(event, owed[t])) = Listeners(event)
      /\ Asleep(Notify(event, owed[t])) \in SUBSET Asleep(event)
      /\ owed[t] > 0 /\ Listeners(event) # {} => Notify(event, owed[t]).notified # {}
  BY <1>1, NotifyMembers
<1>4. ASSUME t \in event.notified
      PROVE  /\ WellFormed(Consume(event, t))
             /\ Listeners(Consume(event, t)) = Listeners(event) \ {t}
  BY <1>1, <1>4, ConsumeMembers
<1>5. ASSUME t \in Listeners(event)
      PROVE  /\ WellFormed(DropListener(event, t))
             /\ Listeners(DropListener(event, t)) = Listeners(event) \ {t}
             /\ Asleep(DropListener(event, t)) \in SUBSET Asleep(event)
             /\ event.notified \ {t} \in SUBSET DropListener(event, t).notified
             /\ t \in event.notified /\ Listeners(event) # {t}
                  => DropListener(event, t).notified # {}
  BY <1>1, <1>5, DropListenerMembers
<1>6. t \in Listeners(event) /\ event.notified # {} /\ Listeners(event) # {t}
        => DropListener(event, t).notified # {}
  BY <1>5
<1> QED
  BY <1>2, <1>3, <1>4, <1>5, <1>6 DEF Listeners

\* Every step keeps the listeners in their places.
LEMMA ListeningStep ==
  ASSUME IInv, Listening, [Next]_vars
  PROVE  Listening'
<1>1. /\ pc \in [Task -> Points] /\ owed \in [Task -> 0..MAX] /\ TypeOK /\ MAX \in Nat
      /\ WellFormed(event)
      /\ \A u \in Task : /\ pc[u] = "listen" => u \notin Listeners(event)
                         /\ pc[u] = "wait" => u \in Listeners(event)
                         /\ IF pc[u] = "notify" THEN owed[u] > 0 ELSE owed[u] = 0
  BY SemaphoreAssumption DEF IInv, TypeOK, Listening
<1>2. CASE UNCHANGED vars
  BY <1>1, <1>2 DEF vars, Listening
<1>3. ASSUME NEW t \in Task, Start(t) \/ CasTakes(t) \/ Cancel(t) \/ Forget(t)
      PROVE  Listening'
  BY <1>1, <1>3 DEF Start, CasTakes, Cancel, Forget, Fresh, Goto, Listening
<1>4. ASSUME NEW t \in Task, Load(t) \/ CasFails(t)
      PROVE  Listening'
  BY <1>1, <1>4 DEF Load, CasFails, Examine, Goto, Listening
<1>5. ASSUME NEW t \in Task, ListenFirst(t)
      PROVE  Listening'
  BY <1>1, <1>5, EventMembers DEF ListenFirst, Goto, Listening
<1>6. ASSUME NEW t \in Task, Wake(t)
      PROVE  Listening'
  BY <1>1, <1>6, EventMembers DEF Wake, Goto, Listening
<1>7. ASSUME NEW t \in Task, DropFuture(t)
      PROVE  Listening'
  BY <1>1, <1>7, EventMembers DEF DropFuture, Listening
<1>8. ASSUME NEW t \in Task, NotifyEvent(t)
      PROVE  Listening'
  BY <1>1, <1>8, EventMembers DEF NotifyEvent, Goto, Listening
<1>9. ASSUME NEW t \in Task, Release(t) \/ AddPermits(t)
      PROVE  Listening'
  <2>1. PICK n : n \in Int /\ n > 0 /\ Add(t, n)
    <3>1. MaxAdd - added \in Int
      BY <1>1, SemaphoreAssumption DEF TypeOK
    <3> QED
      BY <1>9, <3>1 DEF Release, AddPermits
  <2> QED
    BY <1>1, <2>1 DEF Add, Goto, Listening
<1> QED
  BY <1>2, <1>3, <1>4, <1>5, <1>6, <1>7, <1>8, <1>9 DEF Next, Work

\* No step leaves a free permit to calls that all sleep, unless a guard is kept.
LEMMA NoLostWakeupStep ==
  ASSUME WakeInv, [Next]_vars
  PROVE  NoLostWakeup'
<1>1. /\ pc \in [Task -> Points] /\ owed \in [Task -> 0..MAX] /\ TypeOK /\ NoLostWakeup
      /\ count \in Nat /\ WellFormed(event)
      /\ \A u \in Task : pc[u] = "notify" => owed[u] > 0
  BY SemaphoreAssumption DEF WakeInv, IInv, TypeOK, Listening
<1>2. CASE UNCHANGED vars
  BY <1>1, <1>2 DEF vars, NoLostWakeup, In, OnTheWay, Holders
\* The step ends with a task on the way, or with a guard.
<1>3. ASSUME NEW t \in Task, NEW p \in {"load", "cas", "listen", "holding"}, Goto(t, p)
      PROVE  NoLostWakeup'
  BY <1>1, <1>3 DEF Goto, NoLostWakeup, In, OnTheWay, Holders
<1>4. ASSUME NEW t \in Task, Start(t) \/ Cancel(t)
      PROVE  NoLostWakeup'
  <2>1. /\ pc[t] \in {"idle", "wait"} /\ pc'[t] \in {"idle", "load", "try_load"}
        /\ \A u \in Task \ {t} : pc'[u] = pc[u]
        /\ UNCHANGED <<count, event, owed, forgotten>>
    BY <1>1, <1>4 DEF Start, Cancel, Fresh, Goto
  <2>2. /\ In({"wait"})' \in SUBSET In({"wait"}) /\ OnTheWay \in SUBSET OnTheWay'
        /\ Holders' = Holders
    BY <2>1 DEF In, OnTheWay, Holders
  <2> QED
    BY <1>1, <2>1, <2>2 DEF NoLostWakeup
<1>5. ASSUME NEW t \in Task, Load(t) \/ CasFails(t)
      PROVE  NoLostWakeup'
  <2>1. Examine(t) /\ count' = count /\ event' = event /\ owed' = owed /\ forgotten' = forgotten
        /\ pc[t] \in {"load", "cas", "try_load", "try_cas"}
    BY <1>5 DEF Load, CasFails
  <2>2. CASE count = 0
    BY <2>1, <2>2 DEF NoLostWakeup
  <2>3. CASE count > 0 /\ pc[t] \in Acquiring
    BY <1>3, <2>1, <2>3 DEF Examine
  <2>4. CASE count > 0 /\ pc[t] \notin Acquiring
    <3>1. Goto(t, "try_cas") /\ pc[t] \in {"try_load", "try_cas"}
      BY <2>1, <2>4 DEF Examine, Acquiring
    <3>2. In({"wait"})' = In({"wait"}) /\ OnTheWay' = OnTheWay /\ Holders' = Holders
      BY <1>1, <2>1, <3>1 DEF In, OnTheWay, Holders, Goto
    <3> QED
      BY <1>1, <2>1, <3>2 DEF NoLostWakeup
  <2> QED
    BY <1>1, <2>2, <2>3, <2>4
<1>6. ASSUME NEW t \in Task, CasTakes(t) \/ ListenFirst(t) \/ Wake(t)
      PROVE  NoLostWakeup'
  BY <1>3, <1>6 DEF CasTakes, ListenFirst, Wake
<1>7. ASSUME NEW t \in Task, DropFuture(t)
      PROVE  NoLostWakeup'
  <2> SUFFICES ASSUME count' > 0, NEW u \in In({"wait"})' \cap Asleep(event')
               PROVE  (OnTheWay # {} \/ Holders # {} \/ forgotten > 0)'
    BY DEF NoLostWakeup
  <2>1. /\ Asleep(event') \in SUBSET Asleep(event)
        /\ event.notified # {} /\ Listeners(event) # {t} => event'.notified # {}
    BY <1>1, <1>7, EventMembers DEF DropFuture
  <2>2. /\ UNCHANGED <<pc, count, owed, forgotten>>
        /\ pc[t] \in {"idle", "holding", "notify"} /\ In({"wait"})' = In({"wait"})
    BY <1>7 DEF DropFuture, In
  <2>3. u \in In({"wait"}) \cap Asleep(event) /\ u # t
    BY <2>1, <2>2 DEF In
  <2>4. u \in Listeners(event) /\ (OnTheWay # {} \/ Holders # {} \/ forgotten > 0)
    BY <1>1, <2>2, <2>3 DEF NoLostWakeup, Listeners
  <2>5. CASE event.notified # {}
    BY <2>1, <2>3, <2>4, <2>5 DEF OnTheWay
  <2>6. CASE event.notified = {}
    BY <2>2, <2>4, <2>6 DEF OnTheWay, Holders, In
  <2> QED
    BY <2>5, <2>6
<1>8. ASSUME NEW t \in Task, Release(t) \/ AddPermits(t)
      PROVE  NoLostWakeup'
  <2>1. PICK n : n \in Int /\ n > 0 /\ Add(t, n)
    <3>1. MaxAdd - added \in Int
      BY <1>1, SemaphoreAssumption DEF TypeOK
    <3> QED
      BY <1>8, <3>1 DEF Release, AddPermits
  <2>2. owed'[t] > 0
    BY <1>1, <2>1 DEF Add
  <2> QED
    BY <2>2 DEF NoLostWakeup, OnTheWay
<1>9. ASSUME NEW t \in Task, NotifyEvent(t)
      PROVE  NoLostWakeup'
  <2>1. /\ Asleep(event') \in SUBSET Asleep(event)
        /\ Listeners(event) # {} => event'.notified # {}
    BY <1>1, <1>9, EventMembers DEF NotifyEvent
  <2> QED
    BY <2>1 DEF NoLostWakeup, OnTheWay, Listeners
<1>10. ASSUME NEW t \in Task, Forget(t)
       PROVE  NoLostWakeup'
  <2>1. forgotten' > 0
    BY <1>1, <1>10 DEF Forget, TypeOK
  <2> QED
    BY <2>1 DEF NoLostWakeup
<1> QED
  BY <1>2, <1>4, <1>5, <1>6, <1>7, <1>8, <1>9, <1>10 DEF Next, Work

\* The strengthened invariant holds in every reachable state.
THEOREM WakeInvariant == Spec => []WakeInv
<1>1. Init => WakeInv
  <2> SUFFICES ASSUME Init PROVE WakeInv
    OBVIOUS
  <2>1. Listening /\ NoLostWakeup
    BY NewEventMembers DEF Init, Listening, NoLostWakeup, In
  <2> QED
    BY <2>1, Initially DEF WakeInv
<1>2. WakeInv /\ [Next]_vars => WakeInv'
  BY ListeningStep, NoLostWakeupStep, Inductive DEF WakeInv
<1> QED
  BY <1>1, <1>2, PTL DEF Spec

\* What is left of the wakeup guarantee when notifications merge (semaphore.rs:284-310,
\* 381-386): a call sleeps beside a free permit only while somebody is on the way or a
\* guard is alive or was forgotten.
THEOREM WakeupNotLost == Spec => []NoLostWakeup
<1>1. WakeInv => NoLostWakeup
  BY DEF WakeInv
<1> QED
  BY <1>1, WakeInvariant, PTL

\* No guard is alive, no notification is under way, and each call has returned, or
\* returned Pending.
AtRest == event.notified = {} /\ \A t \in Task : pc[t] \in {"idle", "wait"}

\* The semaphore does not deadlock: when nobody has anything left to do, and no guard was
\* forgotten, a call waits only if there is no permit; so if there are permits, and the
\* count never ran over, nobody waits (semaphore.rs:284-310, 381-386).
THEOREM NobodyLeftWaiting ==
  Spec => [](AtRest /\ forgotten = 0 => /\ count = 0 \/ In({"wait"}) = {}
                                        /\ Permits + added \in 1..MAX => In({"wait"}) = {})
<1>1. ASSUME WakeInv, AtRest, forgotten = 0
      PROVE  /\ count = 0 \/ In({"wait"}) = {}
             /\ Permits + added \in 1..MAX => In({"wait"}) = {}
  <2>1. Holders = {} /\ OnTheWay = {}
    BY <1>1 DEF AtRest, Holders, In, OnTheWay, WakeInv, Listening
  <2>2. In({"wait"}) \subseteq Asleep(event)
    BY <1>1 DEF WakeInv, Listening, AtRest, In, Listeners
  <2>3. count = 0 \/ In({"wait"}) = {}
    <3>1. count \in Nat
      BY <1>1, SemaphoreAssumption DEF WakeInv, IInv, TypeOK
    <3> QED
      BY <1>1, <2>1, <2>2, <3>1 DEF WakeInv, NoLostWakeup
  <2>4. ASSUME Permits + added \in 1..MAX PROVE count > 0
    <3>1. Cardinality(Holders) = 0
      BY <2>1, FS_EmptySet
    <3>2. /\ count \in Nat /\ Permits + added <= MAX /\ Permits + added > 0
      BY <1>1, <2>4, SemaphoreAssumption DEF WakeInv, IInv, TypeOK
    <3>3. count + Cardinality(Holders) + forgotten = Permits + added
      BY <1>1, <3>2, Created DEF WakeInv
    <3> QED
      BY <1>1, <3>1, <3>2, <3>3
  <2> QED
    BY <2>3, <2>4
<1>2. WakeInv => (AtRest /\ forgotten = 0 =>
                    /\ count = 0 \/ In({"wait"}) = {}
                    /\ Permits + added \in 1..MAX => In({"wait"}) = {})
  BY <1>1
<1> QED
  BY <1>2, WakeInvariant, PTL

----------------------------------------------------------------------------
(* Behind an Arc.  What keeps the semaphore alive is that every call in        *)
(* progress is anchored: its task has a handle, an AcquireArc or a guard that  *)
(* owns a count.  The future alone is not enough while a guard of its task     *)
(* notifies, because it may be dropped: the guard owns a count until then.     *)

ArcTypeOK ==
  /\ handles \in SUBSET Task
  /\ call \in [Task -> {"ref", "arc", "unpolled", "future"}]
  /\ owned \in SUBSET Task
  /\ strong \in Nat

Anchored == \A t \in Task :
  /\ pc[t] # "idle" => t \in handles \cup Futures \cup owned
  /\ pc[t] = "notify" /\ t \in Futures => t \in owned

ArcInv == ArcTypeOK /\ CountExact /\ Anchored

\* The sets that the count counts are finite, and if one has a member there is a count.
LEMMA FewOwners ==
  ASSUME ArcInv
  PROVE  /\ IsFiniteSet(handles) /\ IsFiniteSet(Futures) /\ IsFiniteSet(owned)
         /\ Cardinality(handles) \in Nat /\ Cardinality(Futures) \in Nat
         /\ Cardinality(owned) \in Nat
         /\ strong = 0 <=> handles \cup Futures \cup owned = {}
<1>1. handles \in SUBSET Task /\ Futures \in SUBSET Task /\ owned \in SUBSET Task
  BY DEF ArcInv, ArcTypeOK, Futures
<1>2. /\ IsFiniteSet(handles) /\ IsFiniteSet(Futures) /\ IsFiniteSet(owned)
  BY <1>1, SemaphoreAssumption, FS_Subset
<1>3. /\ Cardinality(handles) \in Nat /\ Cardinality(Futures) \in Nat
      /\ Cardinality(owned) \in Nat
  BY <1>2, FS_CardinalityType
<1>4. /\ Cardinality(handles) = 0 <=> handles = {}
      /\ Cardinality(Futures) = 0 <=> Futures = {}
      /\ Cardinality(owned) = 0 <=> owned = {}
  BY <1>2, FS_EmptySet
<1>5. strong = Cardinality(handles) + Cardinality(Futures) + Cardinality(owned)
  BY DEF ArcInv, CountExact
<1>6. strong = 0 <=> /\ Cardinality(handles) = 0 /\ Cardinality(Futures) = 0
                     /\ Cardinality(owned) = 0
  BY <1>3, <1>5
<1> QED
  BY <1>2, <1>3, <1>4, <1>6

\* One owner comes, with a clone of the Arc of another, or goes.
LEMMA CountFollows ==
  ASSUME ArcInv, NEW t \in Task, NEW u \in Task,
         t \in handles \cup Futures \cup owned,
         \/ /\ Increment
            /\ \/ /\ u \notin handles /\ handles' = handles \cup {u}
                  /\ Futures' = Futures /\ owned' = owned
               \/ /\ u \notin Futures /\ Futures' = Futures \cup {u}
                  /\ handles' = handles /\ owned' = owned
               \/ /\ u \notin owned /\ owned' = owned \cup {u}
                  /\ handles' = handles /\ Futures' = Futures
         \/ /\ Decrement
            /\ \/ /\ u \in handles /\ handles' = handles \ {u}
                  /\ Futures' = Futures /\ owned' = owned
               \/ /\ u \in Futures /\ Futures' = Futures \ {u}
                  /\ handles' = handles /\ owned' = owned
               \/ /\ u \in owned /\ owned' = owned \ {u}
                  /\ handles' = handles /\ Futures' = Futures
  PROVE  strong' \in Nat /\ CountExact'
<1>1. /\ strong \in Nat /\ strong # 0 /\ (freed <=> strong = 0)
      /\ strong = Cardinality(handles) + Cardinality(Futures) + Cardinality(owned)
  BY FewOwners DEF ArcInv, ArcTypeOK, CountExact
<1>2. \A S : IsFiniteSet(S) =>
        /\ u \notin S => Cardinality(S \cup {u}) = Cardinality(S) + 1
        /\ u \in S => Cardinality(S \ {u}) = Cardinality(S) - 1
  BY FS_AddElement, FS_RemoveElement
<1>3. CASE Increment
  <2>1. strong' = strong + 1 /\ strong' \in Nat /\ (freed' <=> strong' = 0)
    BY <1>1, <1>3, Incremented
  <2>2. ~Decrement
    BY <1>1, <1>3 DEF Increment, Decrement
  <2>3. Cardinality(handles') + Cardinality(Futures') + Cardinality(owned') = strong + 1
    BY <1>1, <1>2, <2>2, FewOwners
  <2> QED
    BY <2>1, <2>3 DEF CountExact
<1>4. CASE Decrement
  <2>1. strong' = strong - 1 /\ strong' \in Nat /\ (freed' <=> strong' = 0)
    BY <1>1, <1>4, Decremented
  <2>2. ~Increment
    BY <1>1, <1>4 DEF Increment, Decrement
  <2>3. Cardinality(handles') + Cardinality(Futures') + Cardinality(owned') = strong - 1
    BY <1>1, <1>2, <2>2, FewOwners
  <2> QED
    BY <2>1, <2>3 DEF CountExact
<1> QED
  BY <1>3, <1>4

\* No count changes.
LEMMA CountStays ==
  ASSUME ArcInv, Futures' = Futures, UNCHANGED <<handles, owned, strong, freed>>
  PROVE  strong' \in Nat /\ CountExact'
BY DEF ArcInv, ArcTypeOK, CountExact

\* Handles come and go.
LEMMA HandleSteps ==
  ASSUME ArcInv, NEW t \in Task, NEW u \in Task, CloneHandle(t, u) \/ DropHandle(t)
  PROVE  ArcInv'
<1>1. /\ ArcTypeOK /\ Anchored /\ pc' = pc /\ call' = call /\ owned' = owned
      /\ Futures' = Futures
  BY DEF ArcInv, CloneHandle, DropHandle, vars, Futures
<1>2. CASE CloneHandle(t, u)
  <2>1. t \in handles /\ u \notin handles /\ handles' = handles \cup {u} /\ Increment
    BY <1>2 DEF CloneHandle, GiveHandle
  <2>2. strong' \in Nat /\ CountExact'
    BY <1>1, <2>1, CountFollows
  <2> QED
    BY <1>1, <2>1, <2>2 DEF ArcInv, ArcTypeOK, Anchored
<1>3. CASE DropHandle(t)
  <2>1. t \in handles /\ handles' = handles \ {t} /\ ~Borrows(t) /\ Decrement
    BY <1>3 DEF DropHandle, LoseHandle
  <2>2. strong' \in Nat /\ CountExact'
    BY <1>1, <2>1, CountFollows
  <2> QED
    BY <1>1, <2>1, <2>2 DEF ArcInv, ArcTypeOK, Anchored, Borrows
<1> QED
  BY <1>2, <1>3

\* What a step of task t has to leave in place.
LEMMA StaysAnchored ==
  ASSUME ArcInv, NEW t \in Task, handles' = handles, strong' \in Nat, CountExact',
         NEW c \in {"ref", "arc", "unpolled", "future"}, Is(t, c) \/ (call[t] = c /\ call' = call),
         owned' \in {owned, owned \cup {t}, owned \ {t}},
         \A u \in Task \ {t} : pc'[u] = pc[u],
         pc'[t] # "idle" => t \in handles \cup owned' \/ c \in {"unpolled", "future"},
         pc'[t] = "notify" /\ c \in {"unpolled", "future"} => t \in owned'
  PROVE  ArcInv'
<1>1. ArcTypeOK /\ Anchored /\ call'[t] = c /\ ArcTypeOK'
  BY DEF ArcInv, ArcTypeOK, Is
<1>2. ASSUME NEW u \in Task, u # t
      PROVE  pc'[u] = pc[u] /\ (u \in owned' <=> u \in owned) /\ (u \in Futures' <=> u \in Futures)
  BY <1>1, <1>2 DEF ArcTypeOK, Is, Futures
<1>3. t \in Futures' <=> c \in {"unpolled", "future"}
  BY <1>1 DEF Futures
<1>4. Anchored'
  BY <1>1, <1>2, <1>3 DEF Anchored
<1> QED
  BY <1>1, <1>4 DEF ArcInv

\* Calls and the futures they make.
LEMMA CallSteps ==
  ASSUME ArcInv, TypeOK, NEW t \in Task,
         \/ CallBorrowed(t) \/ TryAcquireArc(t) \/ CallAcquireArc(t) \/ AcquireArcFirstPoll(t)
  PROVE  ArcInv'
<1>1. pc \in [Task -> Points] /\ call \in [Task -> {"ref", "arc", "unpolled", "future"}]
  BY DEF TypeOK, ArcInv, ArcTypeOK
<1>2. CASE CallBorrowed(t) \/ TryAcquireArc(t)
  <2>1. PICK c \in {"ref", "arc"} : Is(t, c)
    BY <1>2 DEF CallBorrowed, TryAcquireArc
  <2>2. /\ t \in handles /\ call[t] \in {"ref", "arc"}
        /\ UNCHANGED <<handles, owned, strong, freed>>
    BY <1>2 DEF CallBorrowed, TryAcquireArc, Idle
  <2>3. \A u \in Task \ {t} : pc'[u] = pc[u]
    BY <1>1, <1>2 DEF CallBorrowed, TryAcquireArc, Start, AddPermits, Add, Goto
  <2>4. Futures' = Futures
    BY <1>1, <2>1, <2>2 DEF Futures, Is
  <2> QED
    BY <2>1, <2>2, <2>3, <2>4, CountStays, StaysAnchored
<1>3. CASE CallAcquireArc(t)
  <2>1. /\ t \in handles /\ call[t] \in {"ref", "arc"} /\ Is(t, "unpolled") /\ Increment
        /\ handles' = handles /\ owned' = owned /\ pc' = pc /\ pc[t] = "idle"
    BY <1>3 DEF CallAcquireArc, Idle, Fresh, vars
  <2>2. Futures' = Futures \cup {t} /\ t \notin Futures
    BY <1>1, <2>1 DEF Futures, Is
  <2>3. strong' \in Nat /\ CountExact'
    BY <2>1, <2>2, CountFollows
  <2> QED
    BY <2>1, <2>3, StaysAnchored
<1>4. CASE AcquireArcFirstPoll(t)
  <2>1. /\ call[t] = "unpolled" /\ Is(t, "future") /\ pc'[t] = "load"
        /\ UNCHANGED <<handles, owned, strong, freed>>
    BY <1>4 DEF AcquireArcFirstPoll
  <2>2. \A u \in Task \ {t} : pc'[u] = pc[u]
    BY <1>1, <1>4 DEF AcquireArcFirstPoll, Start, Goto
  <2>3. Futures' = Futures
    BY <1>1, <2>1 DEF Futures, Is
  <2> QED
    BY <2>1, <2>2, <2>3, CountStays, StaysAnchored
<1> QED
  BY <1>2, <1>3, <1>4

\* A call moves inside the semaphore, or out of it, and no Arc is touched.
LEMMA InnerSteps ==
  ASSUME ArcInv, TypeOK, NEW t \in Task,
         \/ GoOn(t) \/ AcquireDrop(t) \/ ListenerDrop(t) \/ SemaphoreGuard(t)
         \/ SemaphoreGuardArcDrop(t)
  PROVE  ArcInv'
<1>1. /\ pc \in [Task -> Points] /\ call \in [Task -> {"ref", "arc", "unpolled", "future"}]
      /\ Anchored
  BY DEF TypeOK, ArcInv, ArcTypeOK
<1>2. UNCHANGED arc
  BY DEF GoOn, AcquireDrop, ListenerDrop, SemaphoreGuard, SemaphoreGuardArcDrop
<1>3. /\ strong' \in Nat /\ CountExact' /\ call' = call
      /\ call[t] \in {"unpolled", "future"} <=> t \in Futures
  BY <1>2, CountStays DEF arc, Futures
<1>4. CASE GoOn(t)
  <2>1. /\ pc[t] # "idle" /\ pc'[t] # "notify"
        /\ \A u \in Task \ {t} : pc'[u] = pc[u]
    BY <1>1, <1>4 DEF GoOn, Work, Load, CasTakes, CasFails, Examine, ListenFirst, Wake,
                      NotifyEvent, Goto
  <2> QED
    BY <1>1, <1>2, <1>3, <2>1, StaysAnchored DEF arc, Anchored
<1>5. CASE AcquireDrop(t)
  <2>1. pc'[t] = "idle" /\ \A u \in Task \ {t} : pc'[u] = pc[u]
    BY <1>1, <1>5 DEF AcquireDrop, Cancel, Goto
  <2> QED
    BY <1>1, <1>2, <1>3, <2>1, StaysAnchored DEF arc
<1>6. CASE ListenerDrop(t)
  <2>1. pc' = pc
    BY <1>6 DEF ListenerDrop, DropFuture
  <2> QED
    BY <1>1, <1>2, <1>3, <2>1, StaysAnchored DEF arc, Anchored
<1>7. CASE SemaphoreGuard(t)
  <2>1. /\ pc[t] # "idle" /\ call[t] = "ref"
        /\ \A u \in Task \ {t} : pc'[u] = pc[u]
    BY <1>1, <1>7 DEF SemaphoreGuard, Release, Add, Forget, Goto
  <2> QED
    BY <1>1, <1>2, <1>3, <2>1, StaysAnchored DEF arc, Anchored, Futures
<1>8. CASE SemaphoreGuardArcDrop(t)
  <2>1. t \in owned /\ \A u \in Task \ {t} : pc'[u] = pc[u]
    BY <1>1, <1>8 DEF SemaphoreGuardArcDrop, Release, Add, Goto
  <2> QED
    BY <1>1, <1>2, <1>3, <2>1, StaysAnchored DEF arc
<1> QED
  BY <1>4, <1>5, <1>6, <1>7, <1>8

\* Futures and guards that get a count or give it back.
LEMMA OwnerSteps ==
  ASSUME ArcInv, TypeOK, NEW t \in Task,
         AcquireArcDrop(t) \/ CloneToGuard(t) \/ ArcDrop(t) \/ SemaphoreGuardArcForget(t)
  PROVE  ArcInv'
<1>1. /\ pc \in [Task -> Points] /\ call \in [Task -> {"ref", "arc", "unpolled", "future"}]
      /\ Anchored
  BY DEF TypeOK, ArcInv, ArcTypeOK
<1>2. CASE AcquireArcDrop(t)
  <2>1. /\ t \in Futures /\ Is(t, "ref") /\ Decrement /\ handles' = handles /\ owned' = owned
        /\ t \in owned \/ pc[t] # "holding"
    BY <1>2 DEF AcquireArcDrop
  <2>2. Futures' = Futures \ {t}
    BY <1>1, <2>1 DEF Futures, Is
  <2>3. strong' \in Nat /\ CountExact'
    BY <2>1, <2>2, CountFollows
  <2>4. /\ \A u \in Task \ {t} : pc'[u] = pc[u]
        /\ pc'[t] # "idle" => pc'[t] = pc[t] /\ pc[t] \in {"holding", "notify"}
    BY <1>1, <1>2 DEF AcquireArcDrop, Cancel, Goto, vars
  <2> QED
    BY <1>1, <2>1, <2>3, <2>4, StaysAnchored DEF Anchored
<1>3. CASE CloneToGuard(t)
  <2>1. /\ pc[t] = "holding" /\ t \notin owned /\ owned' = owned \cup {t} /\ Increment
        /\ pc' = pc /\ handles' = handles /\ call' = call /\ Futures' = Futures
    BY <1>3 DEF CloneToGuard, vars, Futures
  <2>2. t \in handles \cup Futures
    BY <1>1, <2>1 DEF Anchored
  <2>3. strong' \in Nat /\ CountExact'
    BY <2>1, <2>2, CountFollows
  <2> QED
    BY <1>1, <2>1, <2>3, StaysAnchored
<1>4. CASE ArcDrop(t) \/ SemaphoreGuardArcForget(t)
  <2>1. /\ t \in owned /\ owned' = owned \ {t} /\ Decrement
        /\ handles' = handles /\ call' = call /\ Futures' = Futures
    BY <1>4 DEF ArcDrop, SemaphoreGuardArcForget, Futures
  <2>2. pc'[t] = "idle" /\ \A u \in Task \ {t} : pc'[u] = pc[u]
    BY <1>1, <1>4 DEF ArcDrop, SemaphoreGuardArcForget, Forget, Goto, vars
  <2>3. strong' \in Nat /\ CountExact'
    BY <2>1, CountFollows
  <2> QED
    BY <1>1, <2>1, <2>2, <2>3, StaysAnchored
<1> QED
  BY <1>2, <1>3, <1>4

\* The semaphore behind the Arc is the semaphore of Semaphore: all that is proved
\* above of Spec holds of it.
THEOREM ArcImplementsSemaphore == ArcSpec => Spec
<1>1. ArcInit => Init
  BY DEF ArcInit
<1>2. ASSUME NEW t \in Task,
             \/ CallBorrowed(t) \/ TryAcquireArc(t) \/ AcquireArcFirstPoll(t) \/ GoOn(t)
             \/ AcquireDrop(t) \/ ListenerDrop(t) \/ SemaphoreGuard(t)
             \/ SemaphoreGuardArcDrop(t) \/ SemaphoreGuardArcForget(t)
      PROVE  Next
  BY <1>2 DEF CallBorrowed, TryAcquireArc, AcquireArcFirstPoll, GoOn, AcquireDrop, ListenerDrop,
              SemaphoreGuard, SemaphoreGuardArcDrop, SemaphoreGuardArcForget, Next
<1>3. ASSUME NEW t \in Task, NEW u \in Task,
             \/ CloneHandle(t, u) \/ DropHandle(t) \/ CallAcquireArc(t) \/ CloneToGuard(t)
             \/ ArcDrop(t)
      PROVE  UNCHANGED vars
  BY <1>3 DEF CloneHandle, DropHandle, CallAcquireArc, CloneToGuard, ArcDrop
<1>4. ASSUME NEW t \in Task, AcquireArcDrop(t) PROVE Next \/ UNCHANGED vars
  BY <1>4 DEF AcquireArcDrop, Next
<1>5. [ArcNext]_arcVars => [Next]_vars
  BY <1>2, <1>3, <1>4 DEF ArcNext, arcVars
<1> QED
  BY <1>1, <1>5, PTL DEF ArcSpec, Spec

\* Each count of the Arc has its owner, and whoever is inside the semaphore owns one.
THEOREM ArcInvariant == ArcSpec => []ArcInv
<1>1. ASSUME ArcInit PROVE ArcInv
  <2>1. PICK t \in Task : handles = {t}
    BY <1>1 DEF ArcInit, OneHandle
  <2>2. Futures = {} /\ owned = {} /\ \A u \in Task : pc[u] = "idle"
    BY <1>1 DEF ArcInit, Init, Futures
  <2>3. Cardinality(handles) = 1 /\ Cardinality(Futures) = 0 /\ Cardinality(owned) = 0
    BY <2>1, <2>2, FS_EmptySet, FS_Singleton
  <2>4. strong = 1 /\ strong \in Nat /\ freed = FALSE
    BY <1>1 DEF ArcInit, OneHandle
  <2>5. strong = Cardinality(handles) + Cardinality(Futures) + Cardinality(owned)
    BY <2>3, <2>4
  <2>6. ~freed /\ strong # 0
    BY <2>4
  <2>7. ArcTypeOK
    BY <1>1, <2>1, <2>2, <2>4 DEF ArcInit, ArcTypeOK
  <2> QED
    BY <2>2, <2>5, <2>6, <2>7 DEF ArcInv, CountExact, Anchored
<1>2. ASSUME ArcInv, TypeOK, [ArcNext]_arcVars PROVE ArcInv'
  <2>1. CASE ArcNext
    BY <1>2, <2>1, HandleSteps, CallSteps, InnerSteps, OwnerSteps DEF ArcNext
  <2>2. CASE UNCHANGED arcVars
    BY <1>2, <2>2 DEF arcVars, arc, vars, ArcInv, ArcTypeOK, CountExact, Anchored, Futures
  <2> QED
    BY <1>2, <2>1, <2>2
<1> QED
  BY <1>1, <1>2, TypeCorrect, ArcImplementsSemaphore, PTL DEF ArcSpec

\* The count of the Arc is the number of its owners, whatever futures are dropped
\* and guards dropped or forgotten (semaphore.rs:391-411).
THEOREM CountIsExact == ArcSpec => []CountExact
<1>1. ArcInv => CountExact
  BY DEF ArcInv
<1> QED
  BY <1>1, ArcInvariant, PTL

\* Guards, futures and destructors find the semaphore alive (semaphore.rs:405-411:
\* the Arc that was taken out of the guard goes after the notification).
THEOREM NoUseAfterFree == ArcSpec => []LockOutlivesUse
<1>1. ArcInv => LockOutlivesUse
  BY FewOwners DEF ArcInv, CountExact, Anchored, LockOutlivesUse
<1> QED
  BY <1>1, ArcInvariant, PTL
=============================================================================
