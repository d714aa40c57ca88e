---------------------------- MODULE BarrierSpec ----------------------------
(***************************************************************************)
(* What a barrier promises: calls meet in groups of n.  Nobody passes      *)
(* before the n-th arrival of the group; the n-th caller, the leader,      *)
(* passes at once, and with it may pass everybody who arrived before.  A   *)
(* call that is given up stays counted in its group.                       *)
(***************************************************************************)
EXTENDS Integers, FiniteSets

CONSTANTS Task, n

VARIABLES arrived,   \* calls of the present group
          released,  \* calls of earlier groups that have not returned yet
          gone,      \* arrivals of the present group that were given up
          leaders,   \* callers that were told they are the leader,
          followers  \* and the others that have passed

vars == <<arrived, released, gone, leaders, followers>>

Init == /\ arrived = {} /\ released = {} /\ gone = 0
        /\ leaders = {} /\ followers = {}

Absent(t) == t \notin arrived \cup released \cup leaders \cup followers

\* A caller goes on from the result of its last call.
GoOn(t) == /\ leaders' = leaders \ {t} /\ followers' = followers \ {t}
           /\ UNCHANGED <<arrived, released, gone>>

Arrive(t) == /\ Absent(t)
             /\ Cardinality(arrived) + gone + 1 < n
             /\ arrived' = arrived \cup {t}
             /\ UNCHANGED <<released, gone, leaders, followers>>

Lead(t) == /\ Absent(t)
           /\ Cardinality(arrived) + gone + 1 >= n
           /\ arrived' = {}
           /\ released' = released \cup arrived
           /\ gone' = 0
           /\ leaders' = leaders \cup {t}
           /\ UNCHANGED followers

Pass(t) == /\ t \in released
           /\ released' = released \ {t}
           /\ followers' = followers \cup {t}
           /\ UNCHANGED <<arrived, gone, leaders>>

GiveUp(t) == /\ t \in arrived \cup released
             /\ arrived' = arrived \ {t} /\ released' = released \ {t}
             /\ gone' = IF t \in arrived THEN gone + 1 ELSE gone
             /\ UNCHANGED <<leaders, followers>>

Next == \E t \in Task : GoOn(t) \/ Arrive(t) \/ Lead(t) \/ Pass(t) \/ GiveUp(t)

Spec == Init /\ [][Next]_vars
=============================================================================
