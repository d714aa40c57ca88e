--------------------------- MODULE BarrierProofs ---------------------------
(***************************************************************************)
(* Proofs about Barrier, for every finite set of tasks, every size of a    *)
(* group, every number of generations and of cancellations.                *)
(*                                                                         *)
(* NobodyOversleeps and GroupsAreFull are inductive once it is known that  *)
(* a listener is in the list at most once.                                 *)
(***************************************************************************)
EXTENDS Barrier, EventListenerProofs

IInv == TypeOK /\ WellFormed(event) /\ NobodyOversleeps /\ GroupsAreFull

\* The groups of calls are finite.
LEMMA Finite ==
  ASSUME NEW P \in SUBSET Task
  PROVE  IsFiniteSet(P) /\ Cardinality(P) \in Nat
BY BarrierAssumption, FS_Subset, FS_CardinalityType

\* The groups the counter stands for are sets of tasks.
LEMMA GroupSubsets == Arrived \in SUBSET Task /\ Counted \in SUBSET Task /\ Released \in SUBSET Task
BY DEF Arrived, Released, Counted, In

\* What moving one task between control points does to the groups.
LEMMA Moves ==
  ASSUME pc \in [Task -> Points], NEW t \in Task, NEW p \in Points, Goto(t, p)
  PROVE  /\ pc' \in [Task -> Points]
         /\ In({"waiting"})' = IF p = "waiting" THEN In({"waiting"}) \cup {t}
                                                ELSE In({"waiting"}) \ {t}
         /\ Counted' = IF p \in {"waiting", "reacquiring"} THEN Counted \cup {t}
                                                            ELSE Counted \ {t}
         /\ t \in Counted <=> pc[t] \in {"waiting", "reacquiring"}
         /\ t \in In({"waiting"}) <=> pc[t] = "waiting"
BY DEF Goto, In, Counted

\* A call that is over leaves its group, as long as the generation is the same.
LEMMA Leaves ==
  ASSUME TypeOK, NEW t \in Task, NEW p \in Over, Finish(t, p), UNCHANGED generation_id
  PROVE  /\ pc' \in [Task -> Points] /\ local_gen' \in [Task -> 0..(GEN - 1)]
         /\ In({"waiting"})' = In({"waiting"}) \ {t}
         /\ Arrived' = Arrived \ {t} /\ Released' = Released \ {t}
<1>1. /\ pc \in [Task -> Points] /\ Goto(t, p) /\ p \in Points
      /\ p \notin {"waiting", "reacquiring"} /\ 0 \in 0..(GEN - 1)
      /\ local_gen \in [Task -> 0..(GEN - 1)]
      /\ local_gen' = [local_gen EXCEPT ![t] = 0]
  BY BarrierAssumption DEF TypeOK, Finish, Over, Points
<1>2. /\ pc' \in [Task -> Points] /\ Counted' = Counted \ {t}
      /\ In({"waiting"})' = In({"waiting"}) \ {t}
  BY <1>1, Moves
<1>3. local_gen' \in [Task -> 0..(GEN - 1)] /\ \A u \in Task \ {t} : local_gen'[u] = local_gen[u]
  BY <1>1
<1> QED
  BY <1>2, <1>3, GroupSubsets DEF Arrived, Released

\* A call is counted in the present generation.
LEMMA ArriveStep ==
  ASSUME IInv, NEW t \in Task, Arrive(t)
  PROVE  /\ IInv'
         /\ t \notin Counted /\ Arrived' = Arrived \cup {t} /\ Released' = Released
<1> USE DEF Points, Over
<1>1. /\ TypeOK /\ pc \in [Task -> Points] /\ event \in EventOf(Task) /\ WellFormed(event)
      /\ Goto(t, "waiting") /\ pc[t] = "initial" /\ generation_id \in 0..(GEN - 1)
      /\ count \in 0..n /\ count' = count + 1 /\ count + 1 < n
      /\ local_gen \in [Task -> 0..(GEN - 1)]
      /\ local_gen' = [local_gen EXCEPT ![t] = generation_id]
      /\ event' = Listen(event, t) /\ UNCHANGED <<generation_id, cancelled>>
  BY DEF IInv, TypeOK, Arrive
<1>2. /\ pc' \in [Task -> Points] /\ Counted' = Counted \cup {t} /\ t \notin Counted
      /\ In({"waiting"})' = In({"waiting"}) \cup {t} /\ t \notin In({"waiting"})
  BY <1>1, Moves
<1>3. /\ local_gen' \in [Task -> 0..(GEN - 1)] /\ local_gen'[t] = generation_id
      /\ \A u \in Task \ {t} : local_gen'[u] = local_gen[u]
  BY <1>1
<1>4. Arrived' = Arrived \cup {t} /\ Released' = Released
  BY <1>1, <1>2, <1>3, GroupSubsets DEF Arrived, Released
<1>5. /\ event' \in EventOf(Task) /\ WellFormed(event') /\ event'.notified = event.notified
      /\ Asleep(event') = Asleep(event) \cup {t}
  BY <1>1, <1>2, ListenType, ListenMembers DEF IInv, NobodyOversleeps
<1>6. NobodyOversleeps'
  BY <1>2, <1>4, <1>5 DEF IInv, NobodyOversleeps, Listeners
<1>7. GroupsAreFull'
  <2>1. Cardinality(Arrived \cup {t}) = Cardinality(Arrived) + 1
    BY <1>2, GroupSubsets, Finite, FS_AddElement DEF Arrived
  <2>2. Cardinality(Arrived) \in Nat /\ Cardinality(Arrived) <= count
    BY GroupSubsets, Finite DEF IInv, GroupsAreFull
  <2> QED
    BY <1>1, <1>4, <2>1, <2>2, BarrierAssumption DEF GroupsAreFull
<1>8. TypeOK'
  BY <1>1, <1>2, <1>3, <1>5, BarrierAssumption DEF TypeOK
<1> QED
  BY <1>2, <1>4, <1>5, <1>6, <1>7, <1>8 DEF IInv

\* The leader opens a generation that nobody has arrived in.
LEMMA LeadStep ==
  ASSUME IInv, NEW t \in Task, Lead(t)
  PROVE  /\ IInv'
         /\ t \notin Counted /\ Arrived' = {} /\ Released' = Released \cup Arrived
<1> USE DEF Points, Over
<1>1. /\ TypeOK /\ pc \in [Task -> Points] /\ event \in EventOf(Task) /\ WellFormed(event)
      /\ Goto(t, "leader") /\ pc[t] = "initial" /\ generation_id \in 0..(GEN - 1)
      /\ count' = 0 /\ generation_id' = NextGen /\ NobodyIsLapped
      /\ local_gen \in [Task -> 0..(GEN - 1)]
      /\ local_gen' = [local_gen EXCEPT ![t] = 0]
      /\ event' = NotifyAll(event) /\ UNCHANGED cancelled
  BY DEF IInv, TypeOK, Lead, Finish
<1>2. /\ pc' \in [Task -> Points] /\ Counted' = Counted /\ t \notin Counted
      /\ In({"waiting"})' = In({"waiting"})
  BY <1>1, Moves
<1>3. NextGen \in 0..(GEN - 1) /\ 0 \in 0..(GEN - 1) /\ 0 \in 0..n
  BY <1>1, BarrierAssumption DEF NextGen
<1>4. /\ local_gen' \in [Task -> 0..(GEN - 1)]
      /\ \A u \in Counted : local_gen'[u] = local_gen[u]
  BY <1>1, <1>2, <1>3, GroupSubsets
<1>5. Arrived' = {} /\ Released' = Released \cup Arrived
  <2>1. Arrived' = {u \in Counted' : local_gen'[u] = NextGen}
    BY <1>1 DEF Arrived
  <2>2. Arrived' = {}
    BY <1>1, <1>2, <1>4, <2>1 DEF NobodyIsLapped
  <2>3. Released' = Counted
    BY <1>2, <2>2 DEF Released
  <2> QED
    BY <2>2, <2>3 DEF Released, Arrived
<1>6. /\ event' \in EventOf(Task) /\ WellFormed(event') /\ Asleep(event') = {}
      /\ Listeners(event') = Listeners(event)
  BY <1>1, NotifyAllMembers
<1>7. NobodyOversleeps'
  BY <1>2, <1>6 DEF IInv, NobodyOversleeps
<1>8. GroupsAreFull'
  BY <1>1, <1>5, FS_EmptySet DEF GroupsAreFull
<1>9. TypeOK'
  BY <1>1, <1>2, <1>3, <1>4, <1>6 DEF TypeOK
<1> QED
  BY <1>2, <1>5, <1>6, <1>7, <1>8, <1>9 DEF IInv

\* Sleeping, waking and starting leave the groups alone.
LEMMA QuietStep ==
  ASSUME IInv, NEW t \in Task, Start(t) \/ Wake(t) \/ WaitAgain(t)
  PROVE  IInv' /\ Arrived' = Arrived /\ Released' = Released
<1> USE DEF Points, Over
<1>1. /\ TypeOK /\ pc \in [Task -> Points] /\ event \in EventOf(Task) /\ WellFormed(event)
      /\ Listeners(event) = In({"waiting"}) /\ \A u \in Asleep(event) : u \in Arrived
  BY DEF IInv, TypeOK, NobodyOversleeps
<1>2. ASSUME NEW p \in Points, Goto(t, p), UNCHANGED <<count, generation_id, local_gen, cancelled>>,
             p \in {"waiting", "reacquiring"} <=> pc[t] \in {"waiting", "reacquiring"},
             event' \in EventOf(Task), WellFormed(event'), Listeners(event') = In({"waiting"})',
             Asleep(event') \in SUBSET Arrived
      PROVE  IInv' /\ Arrived' = Arrived /\ Released' = Released
  <2>1. pc' \in [Task -> Points] /\ Counted' = Counted
    BY <1>1, <1>2, Moves
  <2>2. Arrived' = Arrived /\ Released' = Released
    BY <1>2, <2>1 DEF Arrived, Released
  <2>3. TypeOK' /\ NobodyOversleeps' /\ GroupsAreFull'
    BY <1>1, <1>2, <2>1, <2>2 DEF IInv, TypeOK, NobodyOversleeps, GroupsAreFull
  <2> QED
    BY <1>2, <2>2, <2>3 DEF IInv
<1>3. CASE Start(t)
  <2>1. In({"waiting"})' = In({"waiting"})
    BY <1>1, <1>3, Moves DEF Start
  <2> QED
    BY <1>1, <1>2, <1>3, <2>1 DEF Start
<1>4. CASE Wake(t)
  <2>1. In({"waiting"})' = In({"waiting"}) \ {t}
    BY <1>1, <1>4, Moves DEF Wake
  <2>2. /\ event' \in EventOf(Task) /\ WellFormed(event') /\ Asleep(event') = Asleep(event)
        /\ Listeners(event') = Listeners(event) \ {t}
    BY <1>1, <1>4, ConsumeType, ConsumeMembers DEF Wake
  <2> QED
    BY <1>1, <1>2, <1>4, <2>1, <2>2 DEF Wake
<1>5. CASE WaitAgain(t)
  <2>1. In({"waiting"})' = In({"waiting"}) \cup {t} /\ t \notin In({"waiting"})
    BY <1>1, <1>5, Moves DEF WaitAgain
  <2>2. /\ event' \in EventOf(Task) /\ WellFormed(event')
        /\ Asleep(event') = Asleep(event) \cup {t} /\ event'.notified = event.notified
    BY <1>1, <1>5, <2>1, ListenType, ListenMembers DEF WaitAgain
  <2>3. t \in Arrived
    BY <1>1, <1>5 DEF WaitAgain, MustWait, Arrived, Counted, In
  <2>4. Listeners(event') = In({"waiting"})' /\ Asleep(event') \in SUBSET Arrived
    BY <1>1, <2>1, <2>2, <2>3 DEF Listeners
  <2> QED
    BY <1>2, <1>5, <2>2, <2>4 DEF WaitAgain
<1> QED
  BY <1>3, <1>4, <1>5

\* A call that returns or is given up leaves its group.
LEMMA LeaveStep ==
  ASSUME IInv, NEW t \in Task, Return(t) \/ Cancel(t)
  PROVE  /\ IInv' /\ Arrived' = Arrived \ {t} /\ Released' = Released \ {t}
         /\ Return(t) => t \in Released
<1> USE DEF Points, Over
<1>1. /\ TypeOK /\ pc \in [Task -> Points] /\ event \in EventOf(Task) /\ WellFormed(event)
      /\ Listeners(event) = In({"waiting"}) /\ \A u \in Asleep(event) : u \in Arrived
      /\ count \in 0..n /\ cancelled \in 0..MaxCancel
      /\ Arrived # {} => count < n
      /\ Cardinality(Arrived) <= count
  BY DEF IInv, TypeOK, NobodyOversleeps, GroupsAreFull
<1>2. UNCHANGED <<count, generation_id>> /\ \E p \in Over : Finish(t, p)
  BY DEF Return, Cancel
<1>3. /\ pc' \in [Task -> Points] /\ local_gen' \in [Task -> 0..(GEN - 1)]
      /\ In({"waiting"})' = In({"waiting"}) \ {t}
      /\ Arrived' = Arrived \ {t} /\ Released' = Released \ {t}
  <2>1. PICK p \in Over : Finish(t, p)
    BY <1>2
  <2> HIDE DEF Over
  <2> QED
    BY <1>1, <1>2, <2>1, Leaves
<1>4. GroupsAreFull'
  <2>1. /\ Cardinality(Arrived) \in Nat /\ Cardinality(Arrived \ {t}) \in Nat
        /\ Cardinality(Arrived \ {t}) <= Cardinality(Arrived)
    <3>1. Arrived \ {t} \in SUBSET Task /\ IsFiniteSet(Arrived)
      BY GroupSubsets, Finite
    <3> QED
      BY <3>1, GroupSubsets, Finite, FS_Subset
  <2> QED
    BY <1>1, <1>2, <1>3, <2>1, BarrierAssumption DEF GroupsAreFull
<1>5. ASSUME cancelled' \in 0..MaxCancel, event' \in EventOf(Task), WellFormed(event'),
             Listeners(event') = Listeners(event) \ {t},
             Asleep(event') \in SUBSET Asleep(event)
      PROVE  IInv'
  <2>1. TypeOK'
    BY <1>1, <1>2, <1>3, <1>5 DEF TypeOK
  <2>2. Asleep(event') \in SUBSET Arrived'
    BY <1>1, <1>3, <1>5 DEF Listeners
  <2>3. NobodyOversleeps'
    BY <1>1, <1>3, <1>5, <2>2 DEF NobodyOversleeps
  <2> QED
    BY <1>4, <1>5, <2>1, <2>3 DEF IInv
<1>6. CASE Return(t)
  <2>1. t \notin Listeners(event) /\ t \in Counted
    BY <1>1, <1>6 DEF Return, In, Counted
  <2>2. t \in Released
    BY <1>1, <1>6, <2>1 DEF Return, MustWait, Released, Arrived
  <2> QED
    BY <1>1, <1>3, <1>5, <1>6, <2>1, <2>2 DEF Return
<1>7. CASE Cancel(t)
  <2>1. cancelled' \in 0..MaxCancel
    BY <1>1, <1>7, BarrierAssumption DEF Cancel
  <2>2. CASE pc[t] = "waiting"
    <3>1. t \in Listeners(event) /\ event' = DropListener(event, t)
      BY <1>1, <1>7, <2>2 DEF Cancel, In
    <3>2. /\ event' \in EventOf(Task) /\ WellFormed(event')
          /\ Listeners(event') = Listeners(event) \ {t}
          /\ Asleep(event') \in SUBSET Asleep(event)
      BY <1>1, <3>1, BarrierAssumption, DropListenerType, DropListenerMembers
    <3> QED
      BY <1>3, <1>5, <1>7, <2>1, <3>2 DEF Cancel, Return
  <2>3. CASE pc[t] # "waiting"
    <3>1. t \notin Listeners(event) /\ event' = event
      BY <1>1, <1>7, <2>3 DEF Cancel, In
    <3> QED
      BY <1>1, <1>3, <1>5, <1>7, <2>1, <3>1, <1>6
  <2> QED
    BY <2>2, <2>3, <1>6
<1> QED
  BY <1>6, <1>7

\* A new barrier counts nobody.
LEMMA Initially == Init => IInv
<1> SUFFICES ASSUME Init PROVE IInv
  OBVIOUS
<1>1. /\ In({"waiting"}) = {} /\ Arrived = {}
  BY DEF Init, In, Arrived, Counted
<1>2. TypeOK
  <2>1. NewEvent \in EventOf(Task) /\ 0 \in 0..n /\ 0 \in 0..(GEN - 1) /\ 0 \in 0..MaxCancel
    BY NewEventType, BarrierAssumption
  <2> QED
    BY <2>1 DEF Init, TypeOK, Points, Over
<1>3. WellFormed(event) /\ NobodyOversleeps
  BY <1>1, NewEventMembers DEF Init, NobodyOversleeps
<1>4. GroupsAreFull
  BY <1>1, FS_EmptySet DEF Init, GroupsAreFull
<1> QED
  BY <1>2, <1>3, <1>4 DEF IInv

\* Every step keeps the invariant.
LEMMA Inductive == IInv /\ [Next]_vars => IInv'
<1> SUFFICES ASSUME IInv, [Next]_vars PROVE IInv'
  OBVIOUS
<1>1. CASE Next
  BY <1>1, ArriveStep, LeadStep, QuietStep, LeaveStep DEF Next, Enter
<1>2. CASE UNCHANGED vars
  BY <1>2 DEF vars, IInv, TypeOK, NobodyOversleeps, GroupsAreFull, Arrived, Counted, In
<1> QED
  BY <1>1, <1>2

\* The inductive invariant holds in every reachable state.
THEOREM Invariant == Spec => []IInv
BY Initially, Inductive, PTL DEF Spec

\* The variables keep their types: the count stays below the size of a group and the
\* generation number below its modulus (barrier.rs:203-212).
THEOREM TypeCorrect == Spec => []TypeOK
<1>1. IInv => TypeOK
  BY DEF IInv
<1> QED
  BY <1>1, Invariant, PTL

\* No call of a generation that is over sleeps (barrier.rs:202-213, 238-243).
THEOREM NoneOversleeps == Spec => []NobodyOversleeps
<1>1. IInv => NobodyOversleeps
  BY DEF IInv
<1> QED
  BY <1>1, Invariant, PTL

\* A group that is complete does not wait, and no call waits that is not counted,
\* however many calls are dropped while they wait (barrier.rs:202-213, 235-251).
THEOREM FullGroups == Spec => []GroupsAreFull
<1>1. IInv => GroupsAreFull
  BY DEF IInv
<1> QED
  BY <1>1, Invariant, PTL

\* Nobody was notified and no call is about to lock the mutex: each has returned, or
\* waits for the others.
AtRest == event.notified = {} /\ In({"initial", "reacquiring"}) = {}

\* The barrier does not deadlock: when nobody has anything left to do, all that wait are
\* of one generation, and less than n (barrier.rs:202-251).
THEOREM TooFewLeftWaiting ==
  Spec => [](AtRest => /\ In({"waiting"}) = Arrived
                       /\ In({"waiting"}) # {} => Cardinality(In({"waiting"})) < n)
<1>1. ASSUME IInv, AtRest
      PROVE  /\ In({"waiting"}) = Arrived
             /\ In({"waiting"}) # {} => Cardinality(In({"waiting"})) < n
  <2>1. In({"waiting"}) = Counted /\ Arrived \subseteq Counted
    BY <1>1 DEF AtRest, In, Counted, Arrived
  <2>2. In({"waiting"}) \subseteq Arrived
    BY <1>1 DEF AtRest, IInv, NobodyOversleeps, Listeners
  <2>3. In({"waiting"}) = Arrived
    BY <2>1, <2>2
  <2>4. Cardinality(Arrived) \in Nat /\ count \in Nat /\ n \in Nat
    BY <1>1, GroupSubsets, Finite, BarrierAssumption DEF IInv, TypeOK
  <2> QED
    BY <1>1, <2>3, <2>4 DEF IInv, GroupsAreFull
<1>2. IInv => (AtRest => /\ In({"waiting"}) = Arrived
                         /\ In({"waiting"}) # {} => Cardinality(In({"waiting"})) < n)
  BY <1>1
<1> QED
  BY <1>2, Invariant, PTL

----------------------------------------------------------------------------
(* The barrier implements BarrierSpec *)

\* The callers that have the result of their last call.
LEMMA Results ==
  ASSUME TypeOK, NEW t \in Task, NEW p \in Points, Goto(t, p)
  PROVE  /\ In({"leader"})' = IF p = "leader" THEN In({"leader"}) \cup {t}
                                              ELSE In({"leader"}) \ {t}
         /\ In({"follower"})' = IF p = "follower" THEN In({"follower"}) \cup {t}
                                                  ELSE In({"follower"}) \ {t}
         /\ t \in In({"leader"}) <=> pc[t] = "leader"
         /\ t \in In({"follower"}) <=> pc[t] = "follower"
BY DEF TypeOK, Goto, In

\* Every step of the barrier is a step of the abstract one, or changes nothing in it.
LEMMA StepRefines ==
  ASSUME IInv, [Next]_vars
  PROVE  [Promise!Next]_(Promise!vars)
<1> USE DEF Points, Over
<1>1. /\ TypeOK /\ pc \in [Task -> Points] /\ count \in Nat
      /\ Cardinality(Arrived) \in Nat
      /\ Promise!Cardinality(Arrived) = Cardinality(Arrived)
  <2>1. Promise!Cardinality(Arrived) = Cardinality(Arrived)
    BY Zenon DEF Promise!Cardinality, Cardinality
  <2> QED
    BY <2>1, BarrierAssumption, GroupSubsets, Finite DEF IInv, TypeOK
<1>2. CASE UNCHANGED vars
  BY <1>2 DEF vars, Promise!vars, Released, Arrived, Counted, In
<1>3. ASSUME NEW t \in Task, Start(t)
      PROVE  [Promise!Next]_(Promise!vars)
  <2>1. Arrived' = Arrived /\ Released' = Released /\ count' = count
    BY <1>3, QuietStep DEF Start
  <2>2. In({"leader"})' = In({"leader"}) \ {t} /\ In({"follower"})' = In({"follower"}) \ {t}
    BY <1>1, <1>3, Results DEF Start
  <2> QED
    BY <2>1, <2>2 DEF Promise!Next, Promise!GoOn
<1>4. ASSUME NEW t \in Task, Wake(t) \/ WaitAgain(t)
      PROVE  UNCHANGED Promise!vars
  <2>1. Arrived' = Arrived /\ Released' = Released /\ count' = count
    BY <1>4, QuietStep DEF Wake, WaitAgain
  <2>2. In({"leader"})' = In({"leader"}) /\ In({"follower"})' = In({"follower"})
    BY <1>1, <1>4, Results DEF Wake, WaitAgain
  <2> QED
    BY <2>1, <2>2 DEF Promise!vars
<1>5. ASSUME NEW t \in Task, Arrive(t)
      PROVE  Promise!Next
  <2>1. /\ t \notin Counted /\ Arrived' = Arrived \cup {t} /\ Released' = Released
        /\ count + 1 < n /\ count' = count + 1
    BY <1>5, ArriveStep DEF Arrive
  <2>2. /\ In({"leader"})' = In({"leader"}) /\ In({"follower"})' = In({"follower"})
        /\ t \notin In({"leader"}) /\ t \notin In({"follower"})
    <3>1. /\ In({"leader"})' = In({"leader"}) \ {t}
          /\ In({"follower"})' = In({"follower"}) \ {t}
      BY <1>1, <1>5, Results DEF Arrive
    <3>2. t \notin In({"leader"}) /\ t \notin In({"follower"})
      BY <1>5 DEF Arrive, In
    <3> QED
      BY <3>1, <3>2
  <2>3. Cardinality(Arrived') = Cardinality(Arrived) + 1
    BY <2>1, GroupSubsets, Finite, FS_AddElement DEF Arrived
  <2>4. /\ count' - Cardinality(Arrived') = count - Cardinality(Arrived)
        /\ Cardinality(Arrived) + (count - Cardinality(Arrived)) + 1 < n
    BY <1>1, <2>1, <2>3, BarrierAssumption
  <2>5. t \notin Arrived \cup Released \cup In({"leader"}) \cup In({"follower"})
    BY <2>1, <2>2 DEF Arrived, Released
  <2> QED
    BY <1>1, <2>1, <2>2, <2>4, <2>5 DEF Promise!Next, Promise!Arrive, Promise!Absent
<1>6. ASSUME NEW t \in Task, Lead(t)
      PROVE  Promise!Next
  <2>1. /\ t \notin Counted /\ Arrived' = {} /\ Released' = Released \cup Arrived
        /\ count + 1 >= n /\ count' = 0
    BY <1>6, LeadStep DEF Lead
  <2>2. /\ In({"leader"})' = In({"leader"}) \cup {t} /\ In({"follower"})' = In({"follower"})
        /\ t \notin In({"leader"}) /\ t \notin In({"follower"})
    BY <1>1, <1>6, Results DEF Lead, Finish
  <2>3. /\ count' - Cardinality(Arrived') = 0
        /\ Cardinality(Arrived) + (count - Cardinality(Arrived)) + 1 >= n
    BY <1>1, <2>1, FS_EmptySet, BarrierAssumption
  <2>4. t \notin Arrived \cup Released \cup In({"leader"}) \cup In({"follower"})
    BY <2>1, <2>2 DEF Arrived, Released
  <2> QED
    BY <1>1, <2>1, <2>2, <2>3, <2>4 DEF Promise!Next, Promise!Lead, Promise!Absent
<1>7. ASSUME NEW t \in Task, Return(t)
      PROVE  Promise!Next
  <2>1. /\ t \in Released /\ Arrived' = Arrived \ {t} /\ Released' = Released \ {t}
        /\ count' = count
    BY <1>7, LeaveStep DEF Return
  <2>2. Arrived' = Arrived
    BY <2>1 DEF Released
  <2>3. In({"leader"})' = In({"leader"}) /\ In({"follower"})' = In({"follower"}) \cup {t}
    BY <1>1, <1>7, Results DEF Return, Finish
  <2> QED
    BY <2>1, <2>2, <2>3 DEF Promise!Next, Promise!Pass
<1>8. ASSUME NEW t \in Task, Cancel(t)
      PROVE  [Promise!Next]_(Promise!vars)
  <2>1. Arrived' = Arrived \ {t} /\ Released' = Released \ {t} /\ count' = count
    BY <1>8, LeaveStep DEF Cancel
  <2>2. In({"leader"})' = In({"leader"}) /\ In({"follower"})' = In({"follower"})
    <3>1. /\ In({"leader"})' = In({"leader"}) \ {t}
          /\ In({"follower"})' = In({"follower"}) \ {t}
      BY <1>1, <1>8, Results DEF Cancel, Finish
    <3>2. t \notin In({"leader"}) /\ t \notin In({"follower"})
      BY <1>8 DEF Cancel, In
    <3> QED
      BY <3>1, <3>2
  <2>3. CASE t \in Arrived
    <3>1. Cardinality(Arrived') = Cardinality(Arrived) - 1
      BY <2>1, <2>3, GroupSubsets, Finite, FS_RemoveElement
    <3>2. count' - Cardinality(Arrived') = (count - Cardinality(Arrived)) + 1
      BY <1>1, <2>1, <3>1
    <3> QED
      BY <2>1, <2>2, <2>3, <3>2 DEF Promise!Next, Promise!GiveUp
  <2>4. CASE t \in Released
    <3>1. t \notin Arrived /\ Arrived' = Arrived
      BY <2>1, <2>4 DEF Released
    <3> QED
      BY <2>1, <2>2, <2>4, <3>1 DEF Promise!Next, Promise!GiveUp
  <2>5. CASE t \notin Arrived \cup Released
    <3>1. Arrived' = Arrived /\ Released' = Released
      BY <2>1, <2>5
    <3> QED
      BY <2>1, <2>2, <3>1 DEF Promise!vars
  <2> QED
    BY <2>3, <2>4, <2>5
<1> QED
  BY <1>2, <1>3, <1>4, <1>5, <1>6, <1>7, <1>8 DEF Next, Enter

\* The barrier implements BarrierSpec: nobody passes before its group is complete, a
\* group has one leader, and everybody of the group may then pass (barrier.rs:183-252).
THEOREM Refinement == Spec => ImplementsBarrier
<1>1. Init => Promise!Init
  <2> SUFFICES ASSUME Init PROVE Promise!Init
    OBVIOUS
  <2>1. /\ Arrived = {} /\ Released = {} /\ count = 0
        /\ In({"leader"}) = {} /\ In({"follower"}) = {}
    BY DEF Init, Arrived, Released, Counted, In
  <2> QED
    BY <2>1, FS_EmptySet DEF Promise!Init
<1>2. IInv /\ [Next]_vars => [Promise!Next]_(Promise!vars)
  BY StepRefines
<1> QED
  BY <1>1, <1>2, Invariant, PTL DEF Spec, Promise!Spec, ImplementsBarrier
=============================================================================
