------------------------------ MODULE LockSpec ------------------------------
(***************************************************************************)
(* What an async lock promises its users, without a word on how it waits:  *)
(* at most one lock operation is granted at a time, a grant goes only to an *)
(* operation that asked for it, and (Progress) the lock is not left free   *)
(* while somebody waits for it.                                            *)
(***************************************************************************)
CONSTANT Task        \* the lock operations, and the guards they return

VARIABLES waiting,   \* operations that were started and are not granted
          owners     \* the operations whose guard is alive

vars == <<waiting, owners>>

Init == waiting = {} /\ owners = {}

Request(t) == /\ t \notin waiting \cup owners
              /\ waiting' = waiting \cup {t}
              /\ UNCHANGED owners

Grant(t) == /\ t \in waiting
            /\ owners = {}
            /\ owners' = {t}
            /\ waiting' = waiting \ {t}

\* A first attempt, or a try_lock, that finds the lock free.
GrantAtOnce(t) == /\ t \notin waiting
                  /\ owners = {}
                  /\ owners' = {t}
                  /\ UNCHANGED waiting

GiveUp(t) == /\ t \in waiting
             /\ waiting' = waiting \ {t}
             /\ UNCHANGED owners

Release(t) == /\ t \in owners
              /\ owners' = owners \ {t}
              /\ UNCHANGED waiting

Next == \E t \in Task : \/ Request(t) \/ Grant(t) \/ GrantAtOnce(t)
                        \/ GiveUp(t)  \/ Release(t)

Spec == Init /\ [][Next]_vars

\* As long as an operation waits, a free lock is granted, if not to this one then
\* to another; and guards are dropped.
FairSpec == /\ Spec
            /\ \A t \in Task : /\ WF_vars(t \in waiting /\ \E u \in waiting : Grant(u))
                              /\ WF_vars(Release(t))

\* The lock does not stay free while an operation waits for it.
Progress == \A t \in Task :
  (t \in waiting /\ owners = {}) ~> (owners # {} \/ t \notin waiting)
=============================================================================
