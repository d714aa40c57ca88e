--------------------------- MODULE SemaphoreSpec ---------------------------
(***************************************************************************)
(* What a semaphore promises: a stock of permits that operations take one  *)
(* at a time and give back, never more of them out than there are.         *)
(***************************************************************************)
EXTENDS Integers, FiniteSets

CONSTANTS Task,      \* the operations, and the guards they return
          Permits    \* the permits the semaphore starts with

VARIABLES supply,    \* permits that exist: at the start, plus added, less forgotten
          waiting,   \* operations that were started and hold no permit yet
          holders    \* operations whose guard is alive

vars == <<supply, waiting, holders>>

Init == supply = Permits /\ waiting = {} /\ holders = {}

Request(t) == /\ t \notin waiting \cup holders
              /\ waiting' = waiting \cup {t}
              /\ UNCHANGED <<supply, holders>>

Grant(t) == /\ t \in waiting
            /\ Cardinality(holders) < supply
            /\ holders' = holders \cup {t}
            /\ waiting' = waiting \ {t}
            /\ UNCHANGED supply

GiveUp(t) == /\ t \in waiting
             /\ waiting' = waiting \ {t}
             /\ UNCHANGED <<supply, holders>>

Release(t) == /\ t \in holders
              /\ holders' = holders \ {t}
              /\ UNCHANGED <<supply, waiting>>

\* The guard goes and its permit with it.
Forget(t) == /\ t \in holders
             /\ holders' = holders \ {t}
             /\ supply' = supply - 1
             /\ UNCHANGED waiting

AddPermits == supply' > supply /\ UNCHANGED <<waiting, holders>>

Next == \/ \E t \in Task : Request(t) \/ Grant(t) \/ GiveUp(t) \/ Release(t) \/ Forget(t)
        \/ AddPermits

Spec == Init /\ [][Next]_vars
=============================================================================
