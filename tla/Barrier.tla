------------------------------ MODULE Barrier ------------------------------
(***************************************************************************)
(* async_lock::Barrier (barrier.rs): wait and wait_blocking.               *)
(*                                                                         *)
(* The count and the generation live in a Mutex.  The future of wait never *)
(* returns Pending while it holds the guard, and all it does under the     *)
(* guard besides is one operation on the event: what it does there is one  *)
(* step, and of the mutex remain the points where a call waits for it.     *)
(* Mutex grants exclusion and, while calls wait, lets one of them in; not  *)
(* always the same one that a fairer lock would choose.                    *)
(***************************************************************************)
EXTENDS EventListener

CONSTANTS Task,      \* the callers of wait
          n,         \* the size of a group
          GEN,       \* number of generations before the u64 wraps
          MaxCancel  \* bound: futures that are dropped in one behaviour

ASSUME BarrierAssumption ==
  /\ IsFiniteSet(Task)
  /\ n \in Nat /\ MaxCancel \in Nat
  /\ GEN \in Nat /\ GEN > 1

VARIABLES count,         \* calls that arrived in this generation
          generation_id,
          event,         \* the event waiting calls listen on
          pc,            \* the state of the future of each task
          local_gen,     \* the generation a call arrived in
          cancelled      \* futures dropped so far (history)

vars == <<count, generation_id, event, pc, local_gen, cancelled>>

\* Initial, Waiting and Reacquiring of WaitState; what the last call returned.
Over   == {"idle", "leader", "follower"}
Points == Over \cup {"initial", "waiting", "reacquiring"}

In(P) == {t \in Task : pc[t] \in P}

Counted == In({"waiting", "reacquiring"})               \* calls that have arrived,
Arrived == {t \in Counted : local_gen[t] = generation_id}     \* in this generation
Released == Counted \ Arrived                                 \* or in an earlier one

NextGen == (generation_id + 1) % GEN

\* Bound: no call is still there 2^64 generations after the one it arrived in.
NobodyIsLapped == \A t \in Counted : local_gen[t] # NextGen

Init ==
  /\ count = 0 /\ generation_id = 0
  /\ event = NewEvent
  /\ pc = [t \in Task |-> "idle"]
  /\ local_gen = [t \in Task |-> 0]
  /\ cancelled = 0

Goto(t, p) == pc' = [pc EXCEPT ![t] = p]

\* The call is over, with this outcome.
Finish(t, p) == Goto(t, p) /\ local_gen' = [local_gen EXCEPT ![t] = 0]

----------------------------------------------------------------------------
Start(t) ==
  /\ pc[t] \in Over
  /\ Goto(t, "initial")
  /\ UNCHANGED <<count, generation_id, event, local_gen, cancelled>>

\* Broken variant: compares the count before it is incremented.
ArriveOffByOne(t) ==
  /\ pc[t] = "initial"
  /\ count < n
  /\ count' = count + 1
  /\ local_gen' = [local_gen EXCEPT ![t] = generation_id]
  /\ event' = Listen(event, t)
  /\ Goto(t, "waiting")
  /\ UNCHANGED <<generation_id, cancelled>>

\* The mutex is acquired: the call is counted, and waits for the others.
Arrive(t) ==
  /\ pc[t] = "initial"
  /\ count + 1 < n
  /\ count' = count + 1
  /\ local_gen' = [local_gen EXCEPT ![t] = generation_id]
  /\ event' = Listen(event, t)
  /\ Goto(t, "waiting")
  /\ UNCHANGED <<generation_id, cancelled>>

\* Broken variant: wakes a single call.
LeadWakesOne(t) ==
  /\ pc[t] = "initial"
  /\ count + 1 >= n
  /\ NobodyIsLapped
  /\ count' = 0
  /\ generation_id' = NextGen
  /\ event' = Notify(event, 1)
  /\ Finish(t, "leader")
  /\ UNCHANGED cancelled

\* The n-th call opens a new generation, wakes everybody and returns as leader.
Lead(t) ==
  /\ pc[t] = "initial"
  /\ count + 1 >= n
  /\ NobodyIsLapped
  /\ count' = 0
  /\ generation_id' = NextGen
  /\ event' = NotifyAll(event)
  /\ Finish(t, "leader")
  /\ UNCHANGED cancelled

\* The listener was notified: the future starts to lock the mutex again.
Wake(t) ==
  /\ pc[t] = "waiting"
  /\ t \in event.notified
  /\ event' = Consume(event, t)
  /\ Goto(t, "reacquiring")
  /\ UNCHANGED <<count, generation_id, local_gen, cancelled>>

MustWait(t) == local_gen[t] = generation_id /\ count < n

\* The mutex is acquired: it was a notification for another generation.
WaitAgain(t) ==
  /\ pc[t] = "reacquiring"
  /\ MustWait(t)
  /\ event' = Listen(event, t)
  /\ Goto(t, "waiting")
  /\ UNCHANGED <<count, generation_id, local_gen, cancelled>>

\* Broken variant: trusts the notification.
ReturnWithoutLook(t) ==
  /\ pc[t] = "reacquiring"
  /\ Finish(t, "follower")
  /\ UNCHANGED <<count, generation_id, event, cancelled>>

Return(t) ==
  /\ pc[t] = "reacquiring"
  /\ ~MustWait(t)
  /\ Finish(t, "follower")
  /\ UNCHANGED <<count, generation_id, event, cancelled>>

\* Broken variant: the listener stays in the list of the event.
CancelKeepsListener(t) ==
  /\ pc[t] \notin Over /\ cancelled < MaxCancel
  /\ cancelled' = cancelled + 1
  /\ Finish(t, "idle")
  /\ UNCHANGED <<count, generation_id, event>>

\* A pending future is dropped, and its listener with it; it stays counted.
Cancel(t) ==
  /\ pc[t] \notin Over /\ cancelled < MaxCancel
  /\ cancelled' = cancelled + 1
  /\ event' = IF pc[t] = "waiting" THEN DropListener(event, t) ELSE event
  /\ Finish(t, "idle")
  /\ UNCHANGED <<count, generation_id>>

----------------------------------------------------------------------------
\* What a call does when it is let into the mutex.
Enter(t) == Arrive(t) \/ Lead(t) \/ WaitAgain(t) \/ Return(t)

Next == \E t \in Task : Start(t) \/ Enter(t) \/ Wake(t) \/ Cancel(t)

Spec == Init /\ [][Next]_vars

\* While calls wait for the mutex one of them gets it (Progress of LockSpec), and
\* a woken future is polled.
FairSpec == /\ Spec
            /\ WF_vars(\E t \in Task : Enter(t))
            /\ \A t \in Task : WF_vars(Wake(t))

----------------------------------------------------------------------------
(* Correctness *)

\* Every variable stays in its type.
TypeOK ==
  /\ count \in 0..n
  /\ generation_id \in 0..(GEN - 1)
  /\ event \in EventOf(Task)
  /\ pc \in [Task -> Points]
  /\ local_gen \in [Task -> 0..(GEN - 1)]
  /\ cancelled \in 0..MaxCancel

\* A call whose generation is over is never left asleep, and one that sleeps has
\* its listener in the event: nobody has to come by for the second time to wake it.
\* It holds because wait listens, and the leader notifies, under the mutex
\* (barrier.rs:202-213, 238-243).
NobodyOversleeps ==
  /\ Listeners(event) = In({"waiting"})
  /\ \A t \in Asleep(event) : t \in Arrived

\* A group that is complete does not wait: less than n calls of a generation are
\* counted, and those that are still there are among them.
GroupsAreFull ==
  /\ Arrived # {} => count < n
  /\ Cardinality(Arrived) <= count

\* Calls meet in groups of n.
Promise == INSTANCE BarrierSpec WITH arrived <- Arrived, released <- Released,
                                     gone <- count - Cardinality(Arrived),
                                     leaders <- In({"leader"}), followers <- In({"follower"})
ImplementsBarrier == Promise!Spec

\* Every call that arrived in a generation that is over returns.
ReleasedReturn == \A t \in Task : (t \in Released) ~> (t \notin Released)

\* "Blocks the current task until all tasks reach this point" (barrier.rs:54): when
\* a generation ends, the leader and n-1 other calls have reached it and are there.
AllAreThere == [][generation_id' # generation_id => Cardinality(Arrived) + 1 = n]_vars
=============================================================================
