------------------------------ MODULE OnceSpec ------------------------------
(***************************************************************************)
(* What a cell that is written once promises: the first value that is set  *)
(* stays, every reference handed out shows it, and only an exclusive owner *)
(* empties the cell again.                                                 *)
(***************************************************************************)
CONSTANTS Task, NoValue

VARIABLES value,   \* what the cell holds: the task that provided it, or NoValue
          calls,   \* operations that have not returned
          held     \* what the reference of each task shows

vars == <<value, calls, held>>

Init == value \in Task \cup {NoValue} /\ calls = {} /\ held = [t \in Task |-> NoValue]

Call(t) == /\ t \notin calls /\ held[t] = NoValue
           /\ calls' = calls \cup {t}
           /\ UNCHANGED <<value, held>>

Set(t) == /\ t \in calls /\ value = NoValue
          /\ value' = t
          /\ UNCHANGED <<calls, held>>

Return(t) == /\ t \in calls /\ value # NoValue
             /\ calls' = calls \ {t}
             /\ held' = [held EXCEPT ![t] = value]
             /\ UNCHANGED value

GetAtOnce(t) == /\ t \notin calls /\ held[t] = NoValue /\ value # NoValue
                /\ held' = [held EXCEPT ![t] = value]
                /\ UNCHANGED <<value, calls>>

\* The operation failed, was given up, or returns no reference.
Leave(t) == /\ t \in calls
            /\ calls' = calls \ {t}
            /\ UNCHANGED <<value, held>>

DropReference(t) == /\ held[t] # NoValue
                    /\ held' = [held EXCEPT ![t] = NoValue]
                    /\ UNCHANGED <<value, calls>>

Take == /\ calls = {} /\ held = [t \in Task |-> NoValue]
        /\ value' = NoValue
        /\ UNCHANGED <<calls, held>>

Next == \/ \E t \in Task : \/ Call(t) \/ Set(t) \/ Return(t) \/ GetAtOnce(t)
                           \/ Leave(t) \/ DropReference(t)
        \/ Take

Spec == Init /\ [][Next]_vars
=============================================================================
