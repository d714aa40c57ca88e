--------------------------- MODULE OnceCellProofs ---------------------------
(***************************************************************************)
(* Proofs about OnceCell, for every finite set of tasks.                   *)
(*                                                                         *)
(* None of the invariants is inductive alone: that a woken call of wait    *)
(* may read the value rests on nobody being notified before the state is   *)
(* Initialized, this on there being one initializer, and that the turn is  *)
(* passed on rests on where a call can be while it has a listener.         *)
(***************************************************************************)
EXTENDS OnceCell, EventListenerProofs

Types ==
  /\ state \in States
  /\ value \in Task \cup {NoValue}
  /\ pc \in [Task -> Points]
  /\ ref \in [Task -> Task \cup {NoValue}]

Events ==
  /\ active_initializers \in EventOf(Task) /\ WellFormed(active_initializers)
  /\ passive_waiters \in EventOf(Task) /\ WellFormed(passive_waiters)

\* Where a call is that has a listener, and that has none.
Place(t) ==
  /\ pc[t] = "listen" => t \notin Listeners(active_initializers)
  /\ pc[t] = "sleep" => t \in Listeners(active_initializers)
  /\ t \in Listeners(active_initializers) => pc[t] \in Looping \cup Initializing \cup Ending
  /\ t \in Listeners(passive_waiters) <=> pc[t] \in {"wait_recheck", "wait_sleep", "wait_leave"}

\* What a call knows of the cell.
Knows(t) ==
  /\ pc[t] \in Initializing => state = "Initializing"
  /\ pc[t] \in {"notify_active", "notify_passive", "leave", "wait_leave", "have"} => Initialized
  /\ pc[t] = "store" => value = t
  /\ ref[t] = IF pc[t] = "have" THEN value ELSE NoValue

Cell ==
  /\ state = "Initializing" => \E t \in Task : pc[t] \in Initializing
  /\ \A t, u \in Task : pc[t] \in Initializing /\ pc[u] \in Initializing => t = u
  /\ Initialized => value # NoValue

\* Nobody that waits is notified too early.
Word == passive_waiters.notified # {} => Initialized

IInv ==
  /\ Types /\ Events
  /\ \A t \in Task : Place(t) /\ Knows(t)
  /\ Cell /\ Word
  /\ TurnIsPassedOn

\* A step of one call.
Step(t) == \/ Start(t) \/ Get(t) \/ DropReference(t) \/ Work(t)
           \/ InitializerOk(t) \/ InitializerFails(t) \/ Cancel(t) \/ WaitCancel(t)

\* A step of one call keeps what every call knows of the cell.
LEMMA CellStep ==
  ASSUME IInv, NEW t \in Task, Step(t)
  PROVE  Types' /\ Cell' /\ \A u \in Task : Knows(u)'
<1> USE DEF Points, Looping, Initializing, Ending, Passive, States
<1>1. Types /\ Cell /\ Word /\ (\A u \in Task : Knows(u)) /\ NoValue \notin Task
  BY OnceCellAssumption DEF IInv
<1>2. CASE Start(t)
  BY <1>1, <1>2 DEF Start, Goto, Types, Cell, Knows, Initialized
<1>3. CASE Get(t)
  BY <1>1, <1>3 DEF Get, Goto, Have, Types, Cell, Knows, Initialized
<1>4. CASE DropReference(t)
  BY <1>1, <1>4 DEF DropReference, Goto, Types, Cell, Knows, Initialized
<1>5. CASE Load(t)
  BY <1>1, <1>5 DEF Load, Goto, Types, Cell, Knows, Initialized
<1>6. CASE ListenActive(t)
  BY <1>1, <1>6 DEF ListenActive, Goto, Types, Cell, Knows, Initialized
<1>7. CASE Wake(t)
  BY <1>1, <1>7 DEF Wake, Goto, Types, Cell, Knows, Initialized
<1>8. CASE Cas(t)
  BY <1>1, <1>8 DEF Cas, Goto, Types, Cell, Knows, Initialized
<1>9. CASE InitializerOk(t)
  BY <1>1, <1>9 DEF InitializerOk, Goto, Types, Cell, Knows, Initialized
<1>10. CASE InitializerFails(t)
  BY <1>1, <1>10 DEF InitializerFails, Goto, Types, Cell, Knows, Initialized
<1>11. CASE Write(t)
  BY <1>1, <1>11 DEF Write, Goto, Types, Cell, Knows, Initialized
<1>12. CASE Store(t)
  BY <1>1, <1>12 DEF Store, Goto, Types, Cell, Knows, Initialized
<1>13. CASE NotifyActive(t)
  BY <1>1, <1>13 DEF NotifyActive, Goto, Types, Cell, Knows, Initialized
<1>14. CASE NotifyPassive(t)
  BY <1>1, <1>14 DEF NotifyPassive, Goto, Types, Cell, Knows, Initialized
<1>15. CASE Undo(t)
  BY <1>1, <1>15 DEF Undo, Goto, Types, Cell, Knows, Initialized
<1>16. CASE UndoNotify(t)
  BY <1>1, <1>16 DEF UndoNotify, Goto, Types, Cell, Knows, Initialized
<1>17. CASE Leave(t)
  BY <1>1, <1>17 DEF Leave, Goto, Have, Types, Cell, Knows, Initialized
<1>18. CASE Cancel(t)
  BY <1>1, <1>18 DEF Cancel, Goto, Types, Cell, Knows, Initialized
<1>19. CASE WaitCheck(t)
  BY <1>1, <1>19 DEF WaitCheck, Goto, Have, Types, Cell, Knows, Initialized
<1>20. CASE WaitListen(t)
  BY <1>1, <1>20 DEF WaitListen, Goto, Types, Cell, Knows, Initialized
<1>21. CASE WaitRecheck(t)
  BY <1>1, <1>21 DEF WaitRecheck, Goto, Types, Cell, Knows, Initialized
<1>22. CASE WaitLeave(t)
  BY <1>1, <1>22 DEF WaitLeave, Goto, Have, Types, Cell, Knows, Initialized
<1>23. CASE WaitWake(t)
  BY <1>1, <1>23 DEF WaitWake, Word, Goto, Have, Types, Cell, Knows, Initialized
<1>24. CASE WaitCancel(t)
  BY <1>1, <1>24 DEF WaitCancel, Goto, Types, Cell, Knows, Initialized
<1> QED
  BY <1>2, <1>3, <1>4, <1>5, <1>6, <1>7, <1>8, <1>9, <1>10, <1>11, <1>12, <1>13, <1>14, <1>15, <1>16, <1>17, <1>18, <1>19, <1>20, <1>21, <1>22, <1>23, <1>24 DEF Step, Work

\* A call that gives its listener up does not take the last notification with it.
LEMMA AbandonMembers ==
  ASSUME Events, NEW t \in Task, Abandon(t)
  PROVE  /\ active_initializers' \in EventOf(Task) /\ WellFormed(active_initializers')
         /\ Asleep(active_initializers') \in SUBSET Asleep(active_initializers)
         /\ Listeners(active_initializers') = Listeners(active_initializers) \ {t}
         /\ active_initializers.notified # {} /\ Listeners(active_initializers') # {}
              => active_initializers'.notified # {}
<1> DEFINE a == active_initializers
<1>1. a \in EventOf(Task) /\ WellFormed(a) /\ IsFiniteSet(Task)
  BY OnceCellAssumption DEF Events
<1>2. CASE t \in Listeners(a)
  <2>1. a' = DropListener(a, t)
    BY <1>2 DEF Abandon
  <2>2. /\ a' \in EventOf(Task) /\ WellFormed(a') /\ Asleep(a') \in SUBSET Asleep(a)
        /\ Listeners(a') = Listeners(a) \ {t} /\ a.notified \ {t} \in SUBSET a'.notified
        /\ t \in a.notified /\ Listeners(a) # {t} => a'.notified # {}
    BY <1>1, <1>2, <2>1, DropListenerType, DropListenerMembers
  <2> QED
    BY <2>2
<1>3. CASE t \notin Listeners(a)
  BY <1>1, <1>3 DEF Abandon
<1> QED
  BY <1>2, <1>3

\* A step of one call keeps the events in order, each call in its place, and
\* notifies no call of wait too early.
LEMMA EventStep ==
  ASSUME IInv, NEW t \in Task, Step(t)
  PROVE  Events' /\ (\A u \in Task : Place(u)') /\ Word'
<1> USE DEF Points, Looping, Initializing, Ending, Passive
<1> DEFINE a == active_initializers
           p == passive_waiters
<1>1. /\ pc \in [Task -> Points] /\ Word /\ Events
      /\ \A u \in Task : Place(u) /\ Knows(u)
      /\ Cell
  BY DEF IInv, Types
<1>2. /\ IsFiniteSet(Task)
      /\ a \in EventOf(Task) /\ WellFormed(a) /\ p \in EventOf(Task) /\ WellFormed(p)
  BY <1>1, OnceCellAssumption DEF Events
<1>3. CASE Start(t)
  BY <1>1, <1>3 DEF Start, Goto, Sync, Events, Place, Word, Initialized, Cell, Knows
<1>4. CASE Get(t)
  BY <1>1, <1>4 DEF Get, Goto, Have, Sync, Events, Place, Word, Initialized, Cell, Knows
<1>5. CASE DropReference(t)
  BY <1>1, <1>5 DEF DropReference, Goto, Sync, Events, Place, Word, Initialized, Cell, Knows
<1>6. CASE Load(t)
  BY <1>1, <1>6 DEF Load, Goto, Sync, Events, Place, Word, Initialized, Cell, Knows
<1>7. CASE Cas(t)
  BY <1>1, <1>7 DEF Cas, Goto, Sync, Events, Place, Word, Initialized, Cell, Knows
<1>8. CASE InitializerOk(t)
  BY <1>1, <1>8 DEF InitializerOk, Goto, Sync, Events, Place, Word, Initialized, Cell, Knows
<1>9. CASE InitializerFails(t)
  BY <1>1, <1>9 DEF InitializerFails, Goto, Sync, Events, Place, Word, Initialized, Cell, Knows
<1>10. CASE Write(t)
  BY <1>1, <1>10 DEF Write, Goto, Sync, Events, Place, Word, Initialized, Cell, Knows
<1>11. CASE Store(t)
  BY <1>1, <1>11 DEF Store, Goto, Sync, Events, Place, Word, Initialized, Cell, Knows
<1>12. CASE Undo(t)
  BY <1>1, <1>12 DEF Undo, Goto, Sync, Events, Place, Word, Initialized, Cell, Knows
<1>13. CASE WaitCheck(t)
  BY <1>1, <1>13 DEF WaitCheck, Goto, Have, Sync, Events, Place, Word, Initialized, Cell, Knows
<1>14. CASE WaitRecheck(t)
  BY <1>1, <1>14 DEF WaitRecheck, Goto, Sync, Events, Place, Word, Initialized, Cell, Knows
<1>15. CASE ListenActive(t)
  <2>1. t \notin Listeners(a)
    BY <1>1, <1>15 DEF ListenActive, Place
  <2>2. /\ a' \in EventOf(Task) /\ WellFormed(a')
        /\ Listeners(a') = Listeners(a) \cup {t}
    BY <1>2, <1>15, <2>1, ListenType, ListenMembers DEF ListenActive, Listeners
  <2> QED
    BY <1>1, <1>15, <2>2 DEF ListenActive, Goto, Events, Place, Word, Initialized
<1>16. CASE Wake(t)
  <2>1. /\ a' \in EventOf(Task) /\ WellFormed(a')
        /\ Listeners(a') = Listeners(a) \ {t}
    BY <1>2, <1>16, ConsumeType, ConsumeMembers DEF Wake
  <2> QED
    BY <1>1, <1>16, <2>1 DEF Wake, Goto, Events, Place, Word, Initialized
<1>17. CASE NotifyActive(t)
  <2>1. a' \in EventOf(Task) /\ WellFormed(a') /\ Listeners(a') = Listeners(a)
    BY <1>2, <1>17, NotifyAllMembers DEF NotifyActive
  <2> QED
    BY <1>1, <1>17, <2>1 DEF NotifyActive, Goto, Events, Place, Word, Initialized
<1>18. CASE UndoNotify(t)
  <2>1. a' \in EventOf(Task) /\ WellFormed(a') /\ Listeners(a') = Listeners(a)
    BY <1>2, <1>18, NotifyType, NotifyMembers DEF UndoNotify
  <2> QED
    BY <1>1, <1>18, <2>1 DEF UndoNotify, Goto, Events, Place, Word, Initialized
<1>19. CASE Leave(t)
  <2>1. /\ a' \in EventOf(Task) /\ WellFormed(a')
        /\ Listeners(a') = Listeners(a) \ {t}
    BY <1>1, <1>19, AbandonMembers DEF Leave
  <2> QED
    BY <1>1, <1>19, <2>1 DEF Leave, Goto, Have, Events, Place, Word, Initialized
<1>20. CASE Cancel(t)
  <2>1. /\ a' \in EventOf(Task) /\ WellFormed(a')
        /\ Listeners(a') = Listeners(a) \ {t}
    BY <1>1, <1>20, AbandonMembers DEF Cancel
  <2> QED
    BY <1>1, <1>20, <2>1 DEF Cancel, Goto, Events, Place, Word, Initialized
<1>21. CASE NotifyPassive(t)
  <2>1. p' \in EventOf(Task) /\ WellFormed(p') /\ Listeners(p') = Listeners(p)
    BY <1>2, <1>21, NotifyAllMembers DEF NotifyPassive
  <2> QED
    BY <1>1, <1>21, <2>1 DEF NotifyPassive, Goto, Events, Place, Knows, Word, Initialized
<1>22. CASE WaitListen(t)
  <2>1. t \notin Listeners(p)
    BY <1>1, <1>22 DEF WaitListen, Place
  <2>2. /\ p' \in EventOf(Task) /\ WellFormed(p') /\ p'.notified = p.notified
        /\ Listeners(p') = Listeners(p) \cup {t}
    BY <1>2, <1>22, <2>1, ListenType, ListenMembers DEF WaitListen, Listeners
  <2> QED
    BY <1>1, <1>22, <2>2 DEF WaitListen, Goto, Events, Place, Word, Initialized
<1>23. CASE WaitWake(t)
  <2>1. /\ p' \in EventOf(Task) /\ WellFormed(p')
        /\ Listeners(p') = Listeners(p) \ {t}
    BY <1>2, <1>23, ConsumeType, ConsumeMembers DEF WaitWake
  <2> QED
    BY <1>1, <1>23, <2>1 DEF WaitWake, Goto, Have, Events, Place, Word, Initialized
<1>24. CASE WaitLeave(t)
  <2>1. t \in Listeners(p) /\ p' = DropListener(p, t)
    BY <1>1, <1>24 DEF WaitLeave, Place
  <2>2. /\ p' \in EventOf(Task) /\ WellFormed(p')
        /\ Listeners(p') = Listeners(p) \ {t}
    BY <1>2, <2>1, DropListenerType, DropListenerMembers
  <2> QED
    BY <1>1, <1>24, <2>2 DEF WaitLeave, Goto, Have, Events, Place, Knows, Word, Initialized
<1>25. CASE WaitCancel(t)
  <2>1. t \in Listeners(p) /\ p' = DropListener(p, t)
    BY <1>1, <1>25 DEF WaitCancel, Place
  <2>2. /\ p' \in EventOf(Task) /\ WellFormed(p')
        /\ Listeners(p') = Listeners(p) \ {t}
    BY <1>2, <2>1, DropListenerType, DropListenerMembers
  <2>3. t \notin p.notified => p'.notified = p.notified
    BY <1>2, <2>1 DEF DropListener, EventOf
  <2> QED
    BY <1>1, <1>25, <2>2, <2>3 DEF WaitCancel, Goto, Events, Place, Word, Initialized
<1> QED
  BY <1>3, <1>4, <1>5, <1>6, <1>7, <1>8, <1>9, <1>10, <1>11, <1>12, <1>13, <1>14, <1>15, <1>16, <1>17, <1>18, <1>19, <1>20, <1>21, <1>22, <1>23, <1>24, <1>25 DEF Step, Work

\* A step of one call does not take the turn to initialize away from those that sleep.
LEMMA TurnStep ==
  ASSUME IInv, NEW t \in Task, Step(t)
  PROVE  TurnIsPassedOn'
<1> USE DEF Points, Looping, Initializing, Ending, Passive
<1> DEFINE a == active_initializers
           Coming == {"load", "listen", "cas", "undo_notify"}
<1> SUFFICES ASSUME state' = "Uninitialized",
                    NEW u \in Task, pc'[u] = "sleep", u \in Asleep(a')
             PROVE  a'.notified # {} \/ \E v \in Task : pc'[v] \in Coming
  BY DEF TurnIsPassedOn, In
<1>1. /\ pc \in [Task -> Points] /\ Events
      /\ \A v \in Task : Place(v) /\ Knows(v)
  BY DEF IInv, Types
<1>2. /\ a \in EventOf(Task) /\ WellFormed(a) /\ IsFiniteSet(Task)
  BY <1>1, OnceCellAssumption DEF Events
<1>3. state = "Uninitialized" /\ pc[u] = "sleep" /\ u \in Asleep(a)
        => a.notified # {} \/ \E v \in Task : pc[v] \in Coming
  BY DEF IInv, TurnIsPassedOn, In
<1>4. CASE Start(t)
  BY <1>1, <1>3, <1>4 DEF Start, Goto, Sync, Initialized, Knows
<1>5. CASE Get(t)
  BY <1>1, <1>3, <1>5 DEF Get, Goto, Have, Sync, Initialized, Knows
<1>6. CASE DropReference(t)
  BY <1>1, <1>3, <1>6 DEF DropReference, Goto, Sync, Initialized, Knows
<1>7. CASE Load(t)
  BY <1>1, <1>3, <1>7 DEF Load, Goto, Sync, Initialized, Knows
<1>8. CASE Cas(t)
  BY <1>1, <1>3, <1>8 DEF Cas, Goto, Sync, Initialized, Knows
<1>9. CASE InitializerOk(t)
  BY <1>1, <1>3, <1>9 DEF InitializerOk, Goto, Sync, Initialized, Knows
<1>10. CASE InitializerFails(t)
  BY <1>1, <1>3, <1>10 DEF InitializerFails, Goto, Sync, Initialized, Knows
<1>11. CASE Write(t)
  BY <1>1, <1>3, <1>11 DEF Write, Goto, Sync, Initialized, Knows
<1>12. CASE Store(t)
  BY <1>1, <1>3, <1>12 DEF Store, Goto, Sync, Initialized, Knows
<1>13. CASE NotifyPassive(t)
  BY <1>1, <1>3, <1>13 DEF NotifyPassive, Goto, Sync, Initialized, Knows
<1>14. CASE Undo(t)
  BY <1>1, <1>3, <1>14 DEF Undo, Goto, Sync, Initialized, Knows
<1>15. CASE WaitCheck(t)
  BY <1>1, <1>3, <1>15 DEF WaitCheck, Goto, Have, Sync, Initialized, Knows
<1>16. CASE WaitListen(t)
  BY <1>1, <1>3, <1>16 DEF WaitListen, Goto, Sync, Initialized, Knows
<1>17. CASE WaitRecheck(t)
  BY <1>1, <1>3, <1>17 DEF WaitRecheck, Goto, Sync, Initialized, Knows
<1>18. CASE WaitLeave(t)
  BY <1>1, <1>3, <1>18 DEF WaitLeave, Goto, Have, Sync, Initialized, Knows
<1>19. CASE WaitWake(t)
  BY <1>1, <1>3, <1>19 DEF WaitWake, Goto, Have, Sync, Initialized, Knows
<1>20. CASE WaitCancel(t)
  BY <1>1, <1>3, <1>20 DEF WaitCancel, Goto, Sync, Initialized, Knows
<1>21. CASE ListenActive(t)
  BY <1>1, <1>21 DEF ListenActive, Goto
<1>22. CASE Wake(t)
  BY <1>1, <1>22 DEF Wake, Goto
<1>23. CASE NotifyActive(t)
  <2>1. Asleep(a') = {}
    BY <1>2, <1>23, NotifyAllMembers DEF NotifyActive
  <2> QED
    BY <2>1
<1>24. CASE UndoNotify(t)
  <2>1. a' = Notify(a, 1) /\ 1 \in Nat /\ 1 > 0
    BY <1>24 DEF UndoNotify
  <2>2. Asleep(a') \in SUBSET Asleep(a) /\ (Listeners(a) # {} => a'.notified # {})
    BY <1>2, <2>1, NotifyMembers
  <2> QED
    BY <2>2 DEF Listeners
<1>25. CASE Leave(t)
  <2>1. u \in Asleep(a) /\ u \in Listeners(a') /\ (a.notified # {} => a'.notified # {})
    BY <1>1, <1>25, AbandonMembers DEF Leave, Listeners
  <2> QED
    BY <1>1, <1>3, <1>25, <2>1 DEF Leave, Goto, Have
<1>26. CASE Cancel(t)
  <2>1. u \in Asleep(a) /\ u \in Listeners(a') /\ (a.notified # {} => a'.notified # {})
    BY <1>1, <1>26, AbandonMembers DEF Cancel, Listeners
  <2> QED
    BY <1>1, <1>3, <1>26, <2>1 DEF Cancel, Goto
<1> QED
  BY <1>4, <1>5, <1>6, <1>7, <1>8, <1>9, <1>10, <1>11, <1>12, <1>13, <1>14, <1>15, <1>16, <1>17, <1>18, <1>19, <1>20, <1>21, <1>22, <1>23, <1>24, <1>25, <1>26 DEF Step, Work

\* A new cell.
LEMMA Initially == Init => IInv
<1> SUFFICES ASSUME Init PROVE IInv
  OBVIOUS
<1> USE DEF Points, Looping, Initializing, Ending, Passive, States
<1>1. /\ Types /\ Cell /\ Word /\ Events
      /\ Listeners(active_initializers) = {} /\ Listeners(passive_waiters) = {}
  BY NewEventType, NewEventMembers, OnceCellAssumption
     DEF Init, Types, Cell, Word, Events, Initialized
<1>2. \A t \in Task : Place(t) /\ Knows(t)
  BY <1>1 DEF Init, Place, Knows
<1>3. TurnIsPassedOn
  BY DEF Init, TurnIsPassedOn, In
<1> QED
  BY <1>1, <1>2, <1>3 DEF IInv

\* An exclusive owner empties the cell.
LEMMA TakeStep == ASSUME IInv, Take PROVE IInv'
<1> USE DEF Points, Looping, Initializing, Ending, Passive, States
<1>1. /\ \A t \in Task : pc[t] = "idle"
      /\ \A t \in Task : Place(t) /\ Knows(t)
      /\ Types /\ Events
  BY DEF Take, In, IInv, Types
<1>2. Listeners(active_initializers) = {} /\ Listeners(passive_waiters) = {}
  BY <1>1, AsleepElements DEF Place, Events
<1>3. UNCHANGED <<active_initializers, passive_waiters, pc, ref>> /\ state' = "Uninitialized"
      /\ value' = NoValue
  BY DEF Take, Sync
<1>4. Types' /\ Events' /\ Word' /\ Cell' /\ \A t \in Task : Place(t)' /\ Knows(t)'
  BY <1>1, <1>2, <1>3
     DEF Types, Events, Word, Cell, Place, Knows, Initialized, Listeners
<1>5. TurnIsPassedOn'
  BY <1>1, <1>3 DEF TurnIsPassedOn, In
<1> QED
  BY <1>4, <1>5 DEF IInv

\* Every step keeps the invariant.
LEMMA Inductive == IInv /\ [Next]_vars => IInv'
<1> SUFFICES ASSUME IInv, [Next]_vars PROVE IInv'
  OBVIOUS
<1>1. ASSUME NEW t \in Task, Step(t) PROVE IInv'
  BY <1>1, CellStep, EventStep, TurnStep DEF IInv
<1>2. CASE UNCHANGED vars
  BY <1>2 DEF vars, IInv, Types, Events, Place, Knows, Cell, Word, TurnIsPassedOn, In,
              Initialized
<1> QED
  BY <1>1, <1>2, TakeStep DEF Next, Step

\* The inductive invariant holds in every reachable state.
THEOREM Invariant == Spec => []IInv
BY Initially, Inductive, PTL DEF Spec

\* The variables keep their types, and a call that is over has left both events
\* (once_cell.rs:282-303, 639-735).
THEOREM TypeCorrect == Spec => []TypeOK
<1>1. IInv => TypeOK
  <2> SUFFICES ASSUME IInv PROVE TypeOK
    OBVIOUS
  <2>1. Types /\ Events /\ \A t \in Task : Place(t)
    BY DEF IInv
  <2>2. \A t \in In({"idle", "have"}) :
          t \notin Listeners(active_initializers) \cup Listeners(passive_waiters)
    BY <2>1 DEF Place, In, Looping, Initializing, Ending
  <2> QED
    BY <2>1, <2>2 DEF Types, Events, TypeOK
<1> QED
  BY <1>1, Invariant, PTL

\* The state Initializing is held by exactly one call (once_cell.rs:670-685, 719-733).
THEOREM OneHolder == Spec => []OneInitializer
<1>1. IInv => OneInitializer
  <2> SUFFICES ASSUME IInv PROVE OneInitializer
    OBVIOUS
  <2>1. Cell /\ \A t \in Task : Knows(t)
    BY DEF IInv
  <2>2. CASE state = "Initializing"
    <3>1. PICK t \in Task : pc[t] \in Initializing
      BY <2>1, <2>2 DEF Cell
    <3>2. In(Initializing) = {t}
      BY <2>1, <3>1 DEF Cell, In
    <3> QED
      BY <2>2, <3>2 DEF OneInitializer
  <2>3. CASE state # "Initializing"
    BY <2>1, <2>3 DEF OneInitializer, Knows, In
  <2> QED
    BY <2>2, <2>3
<1> QED
  BY <1>1, Invariant, PTL

\* get, get_or_init, set and wait never hand out a reference to a value that is not
\* there (once_cell.rs:162-185, 282-303, 757-760).
THEOREM SoundReferences == Spec => []ReferencesValid
<1>1. IInv => ReferencesValid
  BY DEF IInv, ReferencesValid, Cell, Knows, In
<1> QED
  BY <1>1, Invariant, PTL

\* A failed, panicking or dropped initializer does not strand those that wait to take
\* its place (once_cell.rs:719-733).
THEOREM TurnPassedOn == Spec => []TurnIsPassedOn
<1>1. IInv => TurnIsPassedOn
  BY DEF IInv
<1> QED
  BY <1>1, Invariant, PTL

----------------------------------------------------------------------------
(* Nobody misses the value *)

\* While a call sleeps whose cell is initialized, the one that set the value has yet to
\* notify: the calls that would initialize first, then those of wait.
ValueIsAnnounced == Initialized =>
  /\ In({"sleep"}) \cap Asleep(active_initializers) # {} => In({"notify_active"}) # {}
  /\ In({"wait_sleep"}) \cap Asleep(passive_waiters) # {}
       => In({"notify_active", "notify_passive"}) # {}

\* A step of one call leaves no call asleep that wanted to initialize the cell ...
LEMMA ActiveStep ==
  ASSUME IInv, ValueIsAnnounced, NEW t \in Task, Step(t), Initialized',
         NEW u \in Task, pc'[u] = "sleep", u \in Asleep(active_initializers')
  PROVE  \E v \in Task : pc'[v] = "notify_active"
<1> USE DEF Points, Looping, Initializing, Ending, Passive
<1> DEFINE a == active_initializers
<1>1. /\ pc \in [Task -> Points] /\ Events
      /\ \A v \in Task : Place(v) /\ Knows(v)
  BY DEF IInv, Types
<1>2. /\ a \in EventOf(Task) /\ WellFormed(a) /\ IsFiniteSet(Task)
  BY <1>1, OnceCellAssumption DEF Events
<1>3. Initialized /\ pc[u] = "sleep" /\ u \in Asleep(a) => \E v \in Task : pc[v] = "notify_active"
  BY DEF ValueIsAnnounced, In
<1>4. CASE Start(t)
  BY <1>1, <1>3, <1>4 DEF Start, Goto, Sync, Initialized, Knows
<1>5. CASE Get(t)
  BY <1>1, <1>3, <1>5 DEF Get, Goto, Have, Sync, Initialized, Knows
<1>6. CASE DropReference(t)
  BY <1>1, <1>3, <1>6 DEF DropReference, Goto, Sync, Initialized, Knows
<1>7. CASE Load(t)
  BY <1>1, <1>3, <1>7 DEF Load, Goto, Sync, Initialized, Knows
<1>8. CASE Cas(t)
  BY <1>1, <1>3, <1>8 DEF Cas, Goto, Sync, Initialized, Knows
<1>9. CASE InitializerOk(t)
  BY <1>1, <1>3, <1>9 DEF InitializerOk, Goto, Sync, Initialized, Knows
<1>10. CASE InitializerFails(t)
  BY <1>1, <1>3, <1>10 DEF InitializerFails, Goto, Sync, Initialized, Knows
<1>11. CASE Write(t)
  BY <1>1, <1>3, <1>11 DEF Write, Goto, Sync, Initialized, Knows
<1>12. CASE Store(t)
  BY <1>1, <1>3, <1>12 DEF Store, Goto, Sync, Initialized, Knows
<1>13. CASE NotifyPassive(t)
  BY <1>1, <1>3, <1>13 DEF NotifyPassive, Goto, Sync, Initialized, Knows
<1>14. CASE Undo(t)
  BY <1>1, <1>3, <1>14 DEF Undo, Goto, Sync, Initialized, Knows
<1>15. CASE WaitCheck(t)
  BY <1>1, <1>3, <1>15 DEF WaitCheck, Goto, Have, Sync, Initialized, Knows
<1>16. CASE WaitListen(t)
  BY <1>1, <1>3, <1>16 DEF WaitListen, Goto, Sync, Initialized, Knows
<1>17. CASE WaitRecheck(t)
  BY <1>1, <1>3, <1>17 DEF WaitRecheck, Goto, Sync, Initialized, Knows
<1>18. CASE WaitLeave(t)
  BY <1>1, <1>3, <1>18 DEF WaitLeave, Goto, Have, Sync, Initialized, Knows
<1>19. CASE WaitWake(t)
  BY <1>1, <1>3, <1>19 DEF WaitWake, Goto, Have, Sync, Initialized, Knows
<1>20. CASE WaitCancel(t)
  BY <1>1, <1>3, <1>20 DEF WaitCancel, Goto, Sync, Initialized, Knows
<1>21. CASE ListenActive(t)
  <2>1. t \notin Listeners(a)
    BY <1>1, <1>21 DEF ListenActive, Place
  <2>2. Asleep(a') = Asleep(a) \cup {t}
    BY <1>2, <1>21, <2>1, ListenMembers DEF ListenActive
  <2> QED
    BY <1>1, <1>3, <1>21, <2>2 DEF ListenActive, Goto, Initialized
<1>22. CASE Wake(t)
  <2>1. Asleep(a') = Asleep(a)
    BY <1>2, <1>22 DEF Wake, Consume, EventOf, Asleep
  <2> QED
    BY <1>1, <1>3, <1>22, <2>1 DEF Wake, Goto, Initialized
<1>23. CASE NotifyActive(t)
  <2>1. Asleep(a') = {}
    BY <1>2, <1>23, NotifyAllMembers DEF NotifyActive
  <2> QED
    BY <2>1
<1>24. CASE UndoNotify(t)
  <2>1. a' = Notify(a, 1) /\ 1 \in Nat /\ 1 > 0
    BY <1>24 DEF UndoNotify
  <2>2. Asleep(a') \in SUBSET Asleep(a)
    BY <1>2, <2>1, NotifyMembers
  <2> QED
    BY <1>1, <1>3, <1>24, <2>2 DEF UndoNotify, Goto, Initialized
<1>25. CASE Leave(t)
  <2>1. u \in Asleep(a)
    BY <1>1, <1>25, AbandonMembers DEF Leave
  <2> QED
    BY <1>1, <1>3, <1>25, <2>1 DEF Leave, Goto, Have, Initialized
<1>26. CASE Cancel(t)
  <2>1. u \in Asleep(a)
    BY <1>1, <1>26, AbandonMembers DEF Cancel
  <2> QED
    BY <1>1, <1>3, <1>26, <2>1 DEF Cancel, Goto, Initialized
<1> QED
  BY <1>4, <1>5, <1>6, <1>7, <1>8, <1>9, <1>10, <1>11, <1>12, <1>13, <1>14, <1>15, <1>16, <1>17,
     <1>18, <1>19, <1>20, <1>21, <1>22, <1>23, <1>24, <1>25, <1>26
  DEF Step, Work

\* ... nor a call of wait.
LEMMA PassiveStep ==
  ASSUME IInv, ValueIsAnnounced, NEW t \in Task, Step(t), Initialized',
         NEW u \in Task, pc'[u] = "wait_sleep", u \in Asleep(passive_waiters')
  PROVE  \E v \in Task : pc'[v] \in {"notify_active", "notify_passive"}
<1> USE DEF Points, Looping, Initializing, Ending, Passive
<1> DEFINE p == passive_waiters
<1>1. /\ pc \in [Task -> Points] /\ Events
      /\ \A v \in Task : Place(v) /\ Knows(v)
  BY DEF IInv, Types
<1>2. /\ p \in EventOf(Task) /\ WellFormed(p) /\ IsFiniteSet(Task)
  BY <1>1, OnceCellAssumption DEF Events
<1>3. Initialized /\ pc[u] = "wait_sleep" /\ u \in Asleep(p)
        => \E v \in Task : pc[v] \in {"notify_active", "notify_passive"}
  BY DEF ValueIsAnnounced, In
<1>4. CASE Start(t)
  BY <1>1, <1>3, <1>4 DEF Start, Goto, Sync, Initialized, Knows
<1>5. CASE Get(t)
  BY <1>1, <1>3, <1>5 DEF Get, Goto, Have, Sync, Initialized, Knows
<1>6. CASE DropReference(t)
  BY <1>1, <1>3, <1>6 DEF DropReference, Goto, Sync, Initialized, Knows
<1>7. CASE Load(t)
  BY <1>1, <1>3, <1>7 DEF Load, Goto, Sync, Initialized, Knows
<1>8. CASE ListenActive(t)
  BY <1>1, <1>3, <1>8 DEF ListenActive, Goto, Sync, Initialized, Knows
<1>9. CASE Wake(t)
  BY <1>1, <1>3, <1>9 DEF Wake, Goto, Sync, Initialized, Knows
<1>10. CASE Cas(t)
  BY <1>1, <1>3, <1>10 DEF Cas, Goto, Sync, Initialized, Knows
<1>11. CASE InitializerOk(t)
  BY <1>1, <1>3, <1>11 DEF InitializerOk, Goto, Sync, Initialized, Knows
<1>12. CASE InitializerFails(t)
  BY <1>1, <1>3, <1>12 DEF InitializerFails, Goto, Sync, Initialized, Knows
<1>13. CASE Write(t)
  BY <1>1, <1>3, <1>13 DEF Write, Goto, Sync, Initialized, Knows
<1>14. CASE Store(t)
  BY <1>1, <1>3, <1>14 DEF Store, Goto, Sync, Initialized, Knows
<1>15. CASE NotifyActive(t)
  BY <1>1, <1>3, <1>15 DEF NotifyActive, Goto, Sync, Initialized, Knows
<1>16. CASE Undo(t)
  BY <1>1, <1>3, <1>16 DEF Undo, Goto, Sync, Initialized, Knows
<1>17. CASE UndoNotify(t)
  BY <1>1, <1>3, <1>17 DEF UndoNotify, Goto, Sync, Initialized, Knows
<1>18. CASE Leave(t)
  BY <1>1, <1>3, <1>18 DEF Leave, Goto, Have, Sync, Initialized, Knows
<1>19. CASE Cancel(t)
  BY <1>1, <1>3, <1>19 DEF Cancel, Goto, Sync, Initialized, Knows
<1>20. CASE WaitCheck(t)
  BY <1>1, <1>3, <1>20 DEF WaitCheck, Goto, Have, Sync, Initialized, Knows
<1>21. CASE WaitRecheck(t)
  BY <1>1, <1>3, <1>21 DEF WaitRecheck, Goto, Sync, Initialized, Knows
<1>22. CASE NotifyPassive(t)
  <2>1. Asleep(p') = {}
    BY <1>2, <1>22, NotifyAllMembers DEF NotifyPassive
  <2> QED
    BY <2>1
<1>23. CASE WaitListen(t)
  <2>1. t \notin Listeners(p)
    BY <1>1, <1>23 DEF WaitListen, Place
  <2>2. Asleep(p') = Asleep(p) \cup {t}
    BY <1>2, <1>23, <2>1, ListenMembers DEF WaitListen
  <2> QED
    BY <1>1, <1>3, <1>23, <2>2 DEF WaitListen, Goto, Initialized
<1>24. CASE WaitWake(t)
  <2>1. Asleep(p') = Asleep(p)
    BY <1>2, <1>24 DEF WaitWake, Consume, EventOf, Asleep
  <2> QED
    BY <1>1, <1>3, <1>24, <2>1 DEF WaitWake, Goto, Have, Initialized
<1>25. CASE WaitLeave(t)
  <2>1. t \in Listeners(p) /\ p' = DropListener(p, t)
    BY <1>1, <1>25 DEF WaitLeave, Place
  <2>2. Asleep(p') \in SUBSET Asleep(p)
    BY <1>2, <2>1, DropListenerMembers
  <2> QED
    BY <1>1, <1>3, <1>25, <2>2 DEF WaitLeave, Goto, Have, Initialized
<1>26. CASE WaitCancel(t)
  <2>1. t \in Listeners(p) /\ p' = DropListener(p, t)
    BY <1>1, <1>26 DEF WaitCancel, Place
  <2>2. Asleep(p') \in SUBSET Asleep(p)
    BY <1>2, <2>1, DropListenerMembers
  <2> QED
    BY <1>1, <1>3, <1>26, <2>2 DEF WaitCancel, Goto, Initialized
<1> QED
  BY <1>4, <1>5, <1>6, <1>7, <1>8, <1>9, <1>10, <1>11, <1>12, <1>13, <1>14, <1>15, <1>16, <1>17,
     <1>18, <1>19, <1>20, <1>21, <1>22, <1>23, <1>24, <1>25, <1>26
  DEF Step, Work

\* No call misses the value, whenever it starts to listen: a call of wait, or one that
\* would initialize, sleeps beside an initialized cell only until the one that set the
\* value has notified (once_cell.rs:282-302, 648-668, 694-705).
THEOREM NobodyMissesTheValue == Spec => []ValueIsAnnounced
<1>1. Init => ValueIsAnnounced
  BY DEF Init, ValueIsAnnounced, In
<1>2. ASSUME IInv, ValueIsAnnounced, [Next]_vars PROVE ValueIsAnnounced'
  <2>1. ASSUME NEW t \in Task, Step(t) PROVE ValueIsAnnounced'
    <3> SUFFICES ASSUME Initialized'
                 PROVE  /\ \A u \in Task : pc'[u] = "sleep" /\ u \in Asleep(active_initializers')
                               => \E v \in Task : pc'[v] = "notify_active"
                        /\ \A u \in Task : pc'[u] = "wait_sleep" /\ u \in Asleep(passive_waiters')
                               => \E v \in Task : pc'[v] \in {"notify_active", "notify_passive"}
      BY DEF ValueIsAnnounced, In, Asleep
    <3> QED
      BY <1>2, <2>1, ActiveStep, PassiveStep
  <2>2. CASE Take
    BY <2>2 DEF Take, ValueIsAnnounced, Initialized
  <2>3. CASE UNCHANGED vars
    BY <1>2, <2>3 DEF vars, ValueIsAnnounced, Initialized, In, Asleep
  <2> QED
    BY <1>2, <2>1, <2>2, <2>3 DEF Next, Step
<1> QED
  BY <1>1, <1>2, Invariant, PTL DEF Spec

\* No initializer runs, no notification is under way, and each call has returned, or
\* returned Pending.
AtRest ==
  /\ active_initializers.notified = {} /\ passive_waiters.notified = {}
  /\ \A t \in Task : pc[t] \in {"idle", "have", "sleep", "wait_sleep"}

\* When nobody has anything left to do, no call waits for another to initialize the
\* cell, and wait waits for no other reason than that nobody did.
THEOREM NobodyLeftWaiting ==
  Spec => [](AtRest => /\ In({"sleep"}) = {}
                       /\ Initialized => In({"wait_sleep"}) = {})
<1>1. ASSUME IInv, ValueIsAnnounced, AtRest
      PROVE  /\ In({"sleep"}) = {}
             /\ Initialized => In({"wait_sleep"}) = {}
  <2>1. /\ \A t \in Task : Place(t)
        /\ In({"load", "listen", "cas", "undo_notify"}) = {}
        /\ In({"notify_active"}) = {} /\ In({"notify_active", "notify_passive"}) = {}
    BY <1>1 DEF IInv, AtRest, In
  <2>2. /\ In({"sleep"}) \subseteq Asleep(active_initializers)
        /\ In({"wait_sleep"}) \subseteq Asleep(passive_waiters)
    BY <1>1, <2>1 DEF AtRest, Place, Listeners, In
  <2>3. state \in {"Uninitialized", "Initialized"}
    BY <1>1 DEF IInv, Types, States, Cell, AtRest, Initializing
  <2>4. CASE state = "Uninitialized"
    <3>1. In({"sleep"}) = {}
      BY <1>1, <2>1, <2>2, <2>4 DEF IInv, TurnIsPassedOn, AtRest
    <3> QED
      BY <2>4, <3>1 DEF Initialized
  <2>5. CASE Initialized
    BY <1>1, <2>1, <2>2, <2>5 DEF ValueIsAnnounced
  <2> QED
    BY <2>3, <2>4, <2>5 DEF Initialized
<1>2. IInv /\ ValueIsAnnounced =>
        (AtRest => In({"sleep"}) = {} /\ (Initialized => In({"wait_sleep"}) = {}))
  BY <1>1
<1> QED
  BY <1>2, Invariant, NobodyMissesTheValue, PTL

----------------------------------------------------------------------------
(* The cell implements OnceSpec *)

\* Every step of the cell is a step of the abstract one, or changes nothing in it.
LEMMA StepRefines ==
  ASSUME IInv, [Next]_vars
  PROVE  [Promise!Next]_(Promise!vars)
<1> USE DEF Points, Looping, Initializing, Ending, Passive
<1>1. /\ Types /\ Cell /\ Word
      /\ \A t \in Task : Place(t) /\ Knows(t)
  BY DEF IInv
<1> USE DEF Goto, In, Initialized
<1>2. ASSUME NEW t \in Task, Start(t) PROVE Promise!Call(t)
  BY <1>1, <1>2 DEF Start, Types, Cell, Knows, Promise!Call
<1>3. ASSUME NEW t \in Task, Get(t) PROVE Promise!GetAtOnce(t)
  BY <1>1, <1>3 DEF Get, Have, Types, Cell, Knows, Promise!GetAtOnce
<1>4. ASSUME NEW t \in Task, DropReference(t) PROVE Promise!DropReference(t)
  BY <1>1, <1>4 DEF DropReference, Types, Cell, Knows, Promise!DropReference
<1>5. ASSUME NEW t \in Task, Store(t) PROVE Promise!Set(t)
  BY <1>1, <1>5 DEF Store, Types, Cell, Knows, Promise!Set
<1>6. ASSUME NEW t \in Task, WaitLeave(t) PROVE Promise!Return(t)
  BY <1>1, <1>6 DEF WaitLeave, Have, Types, Cell, Knows, Promise!Return
<1>7. ASSUME NEW t \in Task, WaitWake(t) PROVE Promise!Return(t)
  BY <1>1, <1>7 DEF WaitWake, Have, Word, Types, Cell, Knows, Promise!Return
<1>8. ASSUME NEW t \in Task, Cancel(t) PROVE Promise!Leave(t)
  BY <1>1, <1>8 DEF Cancel, Types, Cell, Knows, Promise!Leave
<1>9. ASSUME NEW t \in Task, WaitCancel(t) PROVE Promise!Leave(t)
  BY <1>1, <1>9 DEF WaitCancel, Types, Cell, Knows, Promise!Leave
<1>10. ASSUME NEW t \in Task, Cas(t) PROVE Promise!Leave(t) \/ UNCHANGED Promise!vars
  BY <1>1, <1>10 DEF Cas, Types, Cell, Knows, Promise!Leave, Promise!vars
<1>11. ASSUME NEW t \in Task, Leave(t) PROVE Promise!Leave(t) \/ Promise!Return(t)
  BY <1>1, <1>11 DEF Leave, Have, Types, Cell, Knows, Promise!Leave, Promise!Return
<1>12. ASSUME NEW t \in Task, WaitCheck(t) PROVE Promise!Return(t) \/ UNCHANGED Promise!vars
  BY <1>1, <1>12 DEF WaitCheck, Have, Types, Cell, Knows, Promise!Return, Promise!vars
<1>13. CASE Take
  BY <1>1, <1>13 DEF Take, Types, Cell, Knows, Promise!Take, Promise!Next
<1>14. ASSUME NEW t \in Task, Load(t) PROVE UNCHANGED Promise!vars
  BY <1>1, <1>14 DEF Load, Types, Cell, Knows, Promise!vars
<1>15. ASSUME NEW t \in Task, ListenActive(t) PROVE UNCHANGED Promise!vars
  BY <1>1, <1>15 DEF ListenActive, Types, Cell, Knows, Promise!vars
<1>16. ASSUME NEW t \in Task, Wake(t) PROVE UNCHANGED Promise!vars
  BY <1>1, <1>16 DEF Wake, Types, Cell, Knows, Promise!vars
<1>17. ASSUME NEW t \in Task, InitializerOk(t) PROVE UNCHANGED Promise!vars
  BY <1>1, <1>17 DEF InitializerOk, Types, Cell, Knows, Promise!vars
<1>18. ASSUME NEW t \in Task, InitializerFails(t) PROVE UNCHANGED Promise!vars
  BY <1>1, <1>18 DEF InitializerFails, Types, Cell, Knows, Promise!vars
<1>19. ASSUME NEW t \in Task, Write(t) PROVE UNCHANGED Promise!vars
  BY <1>1, <1>19 DEF Write, Types, Cell, Knows, Promise!vars
<1>20. ASSUME NEW t \in Task, NotifyActive(t) PROVE UNCHANGED Promise!vars
  BY <1>1, <1>20 DEF NotifyActive, Types, Cell, Knows, Promise!vars
<1>21. ASSUME NEW t \in Task, NotifyPassive(t) PROVE UNCHANGED Promise!vars
  BY <1>1, <1>21 DEF NotifyPassive, Types, Cell, Knows, Promise!vars
<1>22. ASSUME NEW t \in Task, Undo(t) PROVE UNCHANGED Promise!vars
  BY <1>1, <1>22 DEF Undo, Types, Cell, Knows, Promise!vars
<1>23. ASSUME NEW t \in Task, UndoNotify(t) PROVE UNCHANGED Promise!vars
  BY <1>1, <1>23 DEF UndoNotify, Types, Cell, Knows, Promise!vars
<1>24. ASSUME NEW t \in Task, WaitListen(t) PROVE UNCHANGED Promise!vars
  BY <1>1, <1>24 DEF WaitListen, Types, Cell, Knows, Promise!vars
<1>25. ASSUME NEW t \in Task, WaitRecheck(t) PROVE UNCHANGED Promise!vars
  BY <1>1, <1>25 DEF WaitRecheck, Types, Cell, Knows, Promise!vars
<1>26. CASE UNCHANGED vars
  BY <1>26 DEF vars, Promise!vars
<1> QED
  BY <1>2, <1>3, <1>4, <1>5, <1>6, <1>7, <1>8, <1>9, <1>10, <1>11, <1>12, <1>13, <1>14, <1>15, <1>16, <1>17, <1>18, <1>19, <1>20, <1>21, <1>22, <1>23, <1>24, <1>25, <1>26 DEF Next, Work, Promise!Next

\* The first value that is set stays, every reference shows it, and only an exclusive
\* owner empties the cell (once_cell.rs:213-250, 670-699).
THEOREM Refinement == Spec => ImplementsOnce
<1>1. Init => Promise!Init
  BY OnceCellAssumption DEF Init, Promise!Init, In, Initialized
<1>2. IInv /\ [Next]_vars => [Promise!Next]_(Promise!vars)
  BY StepRefines
<1> QED
  BY <1>1, <1>2, Invariant, PTL DEF Spec, ImplementsOnce, Promise!Spec
=============================================================================
