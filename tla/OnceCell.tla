------------------------------ MODULE OnceCell ------------------------------
(***************************************************************************)
(* async_lock::OnceCell (once_cell.rs): get_or_try_init, get_or_init, set  *)
(* and their blocking variants, try_set, wait, wait_blocking, get, take.   *)
(*                                                                         *)
(* pc names the next access of a call to shared memory.  A future returns  *)
(* Pending, and can be dropped, at "sleep", "wait_sleep", and at "init",   *)
(* where the initializer of the caller runs.                               *)
(*                                                                         *)
(* The listeners of both events are woken by notify_additional(usize::MAX), *)
(* and of active_initializers also by notify(1).  A listener that got the  *)
(* former would pass it on, when dropped, to a listener that came later;   *)
(* that one belongs to a call about to see Initialized, so both kinds are  *)
(* passed on as a plain notification, the weaker one.                      *)
(***************************************************************************)
EXTENDS EventListener

CONSTANTS Task,      \* the callers; a value is named by the task that provides it
          NoValue

ASSUME OnceCellAssumption == IsFiniteSet(Task) /\ NoValue \notin Task

VARIABLES state,     \* the atomic state of the cell
          value,     \* what is in the cell
          active_initializers, passive_waiters,   \* the two events
          pc,        \* where the call of each task is
          ref        \* what the reference that a call returned shows

vars == <<state, value, active_initializers, passive_waiters, pc, ref>>

Sync == <<active_initializers, passive_waiters>>

States == {"Uninitialized", "Initializing", "Initialized"}

\* The loop of initialize_or_wait; the holder of the right to initialize; what
\* follows a success or a failure; wait.
Looping      == {"load", "listen", "sleep", "cas"}
Initializing == {"init", "write", "store", "undo"}
Ending       == {"notify_active", "notify_passive", "undo_notify", "leave", "fail"}
Passive      == {"wait_check", "wait_listen", "wait_recheck", "wait_sleep", "wait_leave"}
Points == {"idle", "have", "try_cas"} \cup Looping \cup Initializing \cup Ending \cup Passive

In(P) == {t \in Task : pc[t] \in P}

\* OnceCell::new and OnceCell::from.
Init ==
  /\ \/ state = "Uninitialized" /\ value = NoValue
     \/ state = "Initialized" /\ value \in Task
  /\ active_initializers = NewEvent /\ passive_waiters = NewEvent
  /\ pc = [t \in Task |-> "idle"]
  /\ ref = [t \in Task |-> NoValue]

Goto(t, p) == pc' = [pc EXCEPT ![t] = p]

Initialized == state = "Initialized"

\* The call returns a reference to what is in the cell, without another look.
Have(t) == Goto(t, "have") /\ ref' = [ref EXCEPT ![t] = value]

----------------------------------------------------------------------------
(* Calls begin and end *)

\* get_or_try_init, get_or_init and set; try_set; wait.
Start(t) ==
  /\ pc[t] = "idle"
  /\ \E p \in {"load", "try_cas", "wait_check"} : Goto(t, p)
  /\ UNCHANGED <<state, value, Sync, ref>>

Get(t) ==
  /\ pc[t] = "idle"
  /\ Initialized
  /\ Have(t)
  /\ UNCHANGED <<state, value, Sync>>

DropReference(t) ==
  /\ pc[t] = "have"
  /\ Goto(t, "idle")
  /\ ref' = [ref EXCEPT ![t] = NoValue]
  /\ UNCHANGED <<state, value, Sync>>

\* Broken variant: needs no exclusive access.
TakeShared ==
  /\ Initialized
  /\ state' = "Uninitialized" /\ value' = NoValue
  /\ UNCHANGED <<Sync, pc, ref>>

\* take, into_inner: &mut self, so no call and no reference is alive.
Take ==
  /\ In(Points \ {"idle"}) = {}
  /\ Initialized
  /\ state' = "Uninitialized" /\ value' = NoValue
  /\ UNCHANGED <<Sync, pc, ref>>

----------------------------------------------------------------------------
(* initialize_or_wait *)

Load(t) ==
  /\ pc[t] = "load"
  /\ \/ Initialized /\ Goto(t, "leave")
     \/ state = "Initializing"
          /\ Goto(t, IF t \in Listeners(active_initializers) THEN "sleep" ELSE "listen")
     \/ state = "Uninitialized" /\ Goto(t, "cas")
  /\ UNCHANGED <<state, value, Sync, ref>>

ListenActive(t) ==
  /\ pc[t] = "listen"
  /\ active_initializers' = Listen(active_initializers, t)
  /\ Goto(t, "load")
  /\ UNCHANGED <<state, value, passive_waiters, ref>>

Wake(t) ==
  /\ pc[t] = "sleep"
  /\ t \in active_initializers.notified
  /\ active_initializers' = Consume(active_initializers, t)
  /\ Goto(t, "load")
  /\ UNCHANGED <<state, value, passive_waiters, ref>>

\* Broken variant: a plain store in place of the compare_exchange.
CasOverwrites(t) ==
  /\ pc[t] \in {"cas", "try_cas"}
  /\ state' = "Initializing"
  /\ Goto(t, IF pc[t] = "cas" THEN "init" ELSE "write")
  /\ UNCHANGED <<value, Sync, ref>>

\* compare_exchange(Uninitialized, Initializing); try_set has its value at hand.
Cas(t) ==
  /\ pc[t] \in {"cas", "try_cas"}
  /\ \/ /\ state = "Uninitialized"
        /\ state' = "Initializing"
        /\ Goto(t, IF pc[t] = "cas" THEN "init" ELSE "write")
     \/ /\ state # "Uninitialized"
        /\ UNCHANGED state
        /\ Goto(t, IF pc[t] = "cas" THEN "load" ELSE "idle")
  /\ UNCHANGED <<value, Sync, ref>>

\* The initializer yields a value.
InitializerOk(t) ==
  /\ pc[t] = "init"
  /\ Goto(t, "write")
  /\ UNCHANGED <<state, value, Sync, ref>>

\* It fails or panics, or the future is dropped while it runs.
InitializerFails(t) ==
  /\ pc[t] = "init"
  /\ Goto(t, "undo")
  /\ UNCHANGED <<state, value, Sync, ref>>

Write(t) ==
  /\ pc[t] = "write"
  /\ value' = t
  /\ Goto(t, "store")
  /\ UNCHANGED <<state, Sync, ref>>

Store(t) ==
  /\ pc[t] = "store"
  /\ state' = "Initialized"
  /\ Goto(t, "notify_active")
  /\ UNCHANGED <<value, Sync, ref>>

NotifyActive(t) ==
  /\ pc[t] = "notify_active"
  /\ active_initializers' = NotifyAll(active_initializers)
  /\ Goto(t, "notify_passive")
  /\ UNCHANGED <<state, value, passive_waiters, ref>>

\* A call that initializes returns a reference, which try_set and set do without.
NotifyPassive(t) ==
  /\ pc[t] = "notify_passive"
  /\ passive_waiters' = NotifyAll(passive_waiters)
  /\ \E p \in {"leave", "fail"} : Goto(t, p)
  /\ UNCHANGED <<state, value, active_initializers, ref>>

\* Guard::drop.
Undo(t) ==
  /\ pc[t] = "undo"
  /\ state' = "Uninitialized"
  /\ Goto(t, "undo_notify")
  /\ UNCHANGED <<value, Sync, ref>>

\* Broken variant: the guard tells nobody, or the calls of wait as well.
UndoSilent(t) ==
  /\ pc[t] = "undo_notify"
  /\ Goto(t, "fail")
  /\ UNCHANGED <<state, value, Sync, ref>>

UndoTellsWait(t) ==
  /\ pc[t] = "undo_notify"
  /\ active_initializers' = Notify(active_initializers, 1)
  /\ passive_waiters' = Notify(passive_waiters, 1)
  /\ Goto(t, "fail")
  /\ UNCHANGED <<state, value, ref>>

UndoNotify(t) ==
  /\ pc[t] = "undo_notify"
  /\ active_initializers' = Notify(active_initializers, 1)
  /\ Goto(t, "fail")
  /\ UNCHANGED <<state, value, passive_waiters, ref>>

Abandon(t) == active_initializers' = IF t \in Listeners(active_initializers)
                                     THEN DropListener(active_initializers, t)
                                     ELSE active_initializers

\* Broken variant: a notification is lost with the listener it was sent to.
LeaveSwallows(t) ==
  /\ pc[t] \in {"leave", "fail"}
  /\ active_initializers' = [notified |-> active_initializers.notified \ {t},
                             queue |-> Remove(active_initializers.queue, t)]
  /\ IF pc[t] = "leave" THEN Have(t) ELSE Goto(t, "idle") /\ UNCHANGED ref
  /\ UNCHANGED <<state, value, passive_waiters>>

\* initialize_or_wait returns and drops its listener, if it has one.
Leave(t) ==
  /\ pc[t] \in {"leave", "fail"}
  /\ Abandon(t)
  /\ IF pc[t] = "leave" THEN Have(t) ELSE Goto(t, "idle") /\ UNCHANGED ref
  /\ UNCHANGED <<state, value, passive_waiters>>

\* Broken variant: the listener stays in the list of the event.
CancelKeepsListener(t) ==
  /\ pc[t] = "sleep"
  /\ Goto(t, "idle")
  /\ UNCHANGED <<state, value, Sync, ref>>

\* The future is dropped while it sleeps.
Cancel(t) ==
  /\ pc[t] = "sleep"
  /\ Abandon(t)
  /\ Goto(t, "idle")
  /\ UNCHANGED <<state, value, passive_waiters, ref>>

----------------------------------------------------------------------------
(* wait, wait_blocking *)

WaitCheck(t) ==
  /\ pc[t] = "wait_check"
  /\ IF Initialized THEN Have(t) ELSE Goto(t, "wait_listen") /\ UNCHANGED ref
  /\ UNCHANGED <<state, value, Sync>>

\* Broken variant: does not try again.
WaitListenAndSleep(t) ==
  /\ pc[t] = "wait_listen"
  /\ passive_waiters' = Listen(passive_waiters, t)
  /\ Goto(t, "wait_sleep")
  /\ UNCHANGED <<state, value, active_initializers, ref>>

WaitListen(t) ==
  /\ pc[t] = "wait_listen"
  /\ passive_waiters' = Listen(passive_waiters, t)
  /\ Goto(t, "wait_recheck")
  /\ UNCHANGED <<state, value, active_initializers, ref>>

WaitRecheck(t) ==
  /\ pc[t] = "wait_recheck"
  /\ Goto(t, IF Initialized THEN "wait_leave" ELSE "wait_sleep")
  /\ UNCHANGED <<state, value, Sync, ref>>

WaitLeave(t) ==
  /\ pc[t] = "wait_leave"
  /\ passive_waiters' = DropListener(passive_waiters, t)
  /\ Have(t)
  /\ UNCHANGED <<state, value, active_initializers>>

\* The listener was notified: the value is read without another look at the state.
WaitWake(t) ==
  /\ pc[t] = "wait_sleep"
  /\ t \in passive_waiters.notified
  /\ passive_waiters' = Consume(passive_waiters, t)
  /\ Have(t)
  /\ UNCHANGED <<state, value, active_initializers>>

WaitCancel(t) ==
  /\ pc[t] = "wait_sleep"
  /\ passive_waiters' = DropListener(passive_waiters, t)
  /\ Goto(t, "idle")
  /\ UNCHANGED <<state, value, active_initializers, ref>>

----------------------------------------------------------------------------
\* What a call does by itself, the initializer of the caller apart.
Work(t) == \/ Load(t) \/ ListenActive(t) \/ Wake(t) \/ Cas(t) \/ Write(t) \/ Store(t)
           \/ NotifyActive(t) \/ NotifyPassive(t) \/ Undo(t) \/ UndoNotify(t) \/ Leave(t)
           \/ WaitCheck(t) \/ WaitListen(t) \/ WaitRecheck(t) \/ WaitLeave(t) \/ WaitWake(t)

Next == \/ \E t \in Task : \/ Start(t) \/ Get(t) \/ DropReference(t) \/ Work(t)
                           \/ InitializerOk(t) \/ InitializerFails(t)
                           \/ Cancel(t) \/ WaitCancel(t)
        \/ Take

Spec == Init /\ [][Next]_vars

\* Started calls run and woken futures are polled. An initializer may run for ever,
\* or fail every time.
FairSpec == Spec /\ \A t \in Task : WF_vars(Work(t))

----------------------------------------------------------------------------
(* Correctness *)

\* Every variable stays in its type, and a call that is over leaves no listener.
TypeOK ==
  /\ state \in States
  /\ value \in Task \cup {NoValue}
  /\ active_initializers \in EventOf(Task) /\ passive_waiters \in EventOf(Task)
  /\ pc \in [Task -> Points]
  /\ ref \in [Task -> Task \cup {NoValue}]
  /\ (Listeners(active_initializers) \cup Listeners(passive_waiters))
       \cap In({"idle", "have"}) = {}

\* The state Initializing is a lock: while it lasts exactly one call has the right to
\* write the value (or to give the right back), and otherwise none has.
OneInitializer ==
  /\ state = "Initializing" => \E t \in Task : In(Initializing) = {t}
  /\ state # "Initializing" => In(Initializing) = {}

\* A reference that is alive shows the value of the cell, which is initialized: wait
\* reads it on the word of a single notification (once_cell.rs:296-301, 349-354).
ReferencesValid == \A t \in In({"have"}) :
  Initialized /\ value # NoValue /\ ref[t] = value

\* While nobody has the right to initialize and a call sleeps that wants it, another
\* is on the way who tries to get it or will notify.
TurnIsPassedOn ==
  (state = "Uninitialized" /\ In({"sleep"}) \cap Asleep(active_initializers) # {})
    => active_initializers.notified \cup In({"load", "listen", "cas", "undo_notify"}) # {}

\* The cell keeps the first value that is set, and every reference shows it.
Promise == INSTANCE OnceSpec WITH
             value <- IF Initialized THEN value ELSE NoValue,
             calls <- In(Points \ {"idle", "have"}), held <- ref
ImplementsOnce == Promise!Spec

\* Once the cell is initialized every call that waits for it returns.
WaitersReturn == \A t \in Task :
  (Initialized /\ pc[t] \in Looping \cup Passive) ~> (pc[t] \in {"have", "idle"})

\* After an initializer failed, or was dropped, the next call that waits takes over.
TurnIsTaken == \A t \in Task :
  (pc[t] = "sleep" /\ state = "Uninitialized")
    ~> (pc[t] # "sleep" \/ state # "Uninitialized")
=============================================================================
