----------------------- MODULE RwLockOverMutexProofs -----------------------
(***************************************************************************)
(* Proofs about RwLockOverMutex, for every finite set of tasks.            *)
(*                                                                         *)
(* The RwLock uses the mutex as any program does (UsesMutex), so what      *)
(* MutexProofs shows of the mutex holds here.  With it the mutex in full   *)
(* does what RwLock assumes of its inner mutex (Refinement): it is granted *)
(* only when nobody has it, and is free again when its owner released it.  *)
(***************************************************************************)
EXTENDS RwLockOverMutex, MutexProofs

MutexPoints == Rw!MutexPoints

\* The two places of a task fit: it counts on owning the mutex exactly when the mutex
\* was granted to it, and is on the slow path only within a pending lock().
Coupled ==
  /\ point \in [Task -> Rw!Points]
  /\ \A t \in Task : point[t] \in MutexPoints <=> pc[t] = "holding"
  /\ \A t \in Task : pc[t] \notin {"idle", "holding", "unlock"} => point[t] \in LockPoints

\* The control points of the RwLock, written out.
LEMMA Places ==
  /\ MutexPoints \subseteq Rw!Points /\ LockPoints \subseteq Rw!Points
  /\ LockPoints \cap MutexPoints = {}
  /\ {"up_load", "w_bit", "tw_cas", "mutex_unlock", "dw_mutex", "up_read"} \subseteq MutexPoints
  /\ {"idle", "reading", "dw_notify"} \subseteq Rw!Points \ (MutexPoints \cup LockPoints)
BY DEF MutexPoints, LockPoints, Rw!MutexPoints, Rw!BitPoints, Rw!Points, Rw!ReadPoints,
       Rw!UpPoints, Rw!WritePoints, Rw!ReleasePoints

----------------------------------------------------------------------------
(* The mutex sees a program that uses it *)

\* Every step of the RwLock is a step of the mutex, or none of its business.
LEMMA MutexStep == [RwNext]_<<vars, rwVars>> => [Next]_vars
<1> SUFFICES ASSUME [RwNext]_<<vars, rwVars>> PROVE [Next]_vars
  OBVIOUS
<1>1. CASE UNCHANGED <<vars, rwVars>>
  BY <1>1
<1>2. ASSUME NEW t \in Task,
             StartLock(t) \/ StartRead(t) \/ RwStep(t)
      PROVE  UNCHANGED vars
  BY <1>2 DEF StartLock, StartRead, RwStep
<1>3. ASSUME NEW t \in Task,
             \/ PollLock(t) \/ StartTryLock(t) \/ DropPending(t) \/ DropLock(t)
             \/ AbortInLock(t) \/ ReleaseMutex(t) \/ NotifyLockOps(t)
      PROVE  Next \/ UNCHANGED vars
  BY <1>3 DEF PollLock, StartTryLock, DropPending, DropLock, AbortInLock, ReleaseMutex,
              NotifyLockOps, Next
<1> QED
  BY <1>1, <1>2, <1>3 DEF RwNext

\* The RwLock uses its inner mutex as Mutex allows: lock, try_lock, cancellation, and
\* unlock_unchecked (rwlock/raw.rs:207, 220, 260, 275) only where a guard was forgotten.
THEOREM UsesMutex == RwSpec => Spec
<1>1. RwInit => Init
  BY DEF RwInit
<1> QED
  BY <1>1, MutexStep, PTL DEF RwSpec, Spec

\* So the invariant of the mutex holds.
THEOREM MutexInvariant == RwSpec => []IInv
BY UsesMutex, Invariant, PTL

----------------------------------------------------------------------------
(* The mutex gives what the RwLock assumes *)

\* The operations of the RwLock besides, and the points they leave and reach: none
\* changes whether its task counts on owning the mutex, or is in a pending lock().
LEMMA OwnSteps ==
  ASSUME NEW t \in Task, point \in [Task -> Rw!Points], RwStep(t) \/ StartRead(t)
  PROVE  /\ Rw!Next
         /\ point' \in [Task -> Rw!Points]
         /\ \A u \in Task \ {t} : point'[u] = point[u]
         /\ point'[t] \in MutexPoints <=> point[t] \in MutexPoints
         /\ point'[t] \in LockPoints <=> point[t] \in LockPoints
<1> DEFINE Keeps(p) == /\ p \in Rw!Points
                       /\ p \in LockPoints <=> point[t] \in LockPoints
                       /\ p \in MutexPoints <=> point[t] \in MutexPoints
           Goal == /\ point' \in [Task -> Rw!Points] /\ Keeps(point'[t])
                   /\ \A u \in Task \ {t} : point'[u] = point[u]
<1>0. Rw!Next
  <2>1. CASE Rw!TryUpgrade(t) \/ Rw!Upgrade(t)
    BY <2>1 DEF Rw!Next, Rw!Change, Rw!TryUpgrade, Rw!Upgrade
  <2>2. CASE Rw!DowngradeWrite(t) \/ Rw!DowngradeToUpgradable(t)
    BY <2>2 DEF Rw!Next, Rw!Change, Rw!DowngradeWrite, Rw!DowngradeToUpgradable
  <2> QED
    BY <2>1, <2>2 DEF RwStep, StartRead, Rw!Next, Rw!Begin, Rw!Poll, Rw!Release
<1> SUFFICES Goal
  BY <1>0
<1> USE DEF MutexPoints, LockPoints, Rw!MutexPoints, Rw!BitPoints, Rw!Points, Rw!ReadPoints,
       Rw!UpPoints, Rw!WritePoints, Rw!ReleasePoints, Rw!At, Rw!Goto
<1>1. ASSUME NEW p, Rw!Attempt(t, p), Keeps(p), Keeps("read_cas") PROVE Goal
  BY <1>1 DEF Rw!Attempt, Rw!Abort
<1>2. CASE Rw!StartRead(t) \/ Rw!StartTryRead(t)
  <2>1. Keeps("read_listen") /\ Keeps("read_cas") /\ Keeps("try_cas")
    BY <1>2 DEF Rw!StartRead, Rw!StartTryRead, Rw!Fresh
  <2> QED
    BY <1>1, <1>2, <2>1 DEF Rw!StartRead, Rw!StartTryRead, Rw!Abort
<1>3. CASE Rw!ReadCas(t) \/ Rw!TryReadCas(t) \/ Rw!ReadReload(t)
  <2>1. Keeps("read_cas") /\ Keeps("read_wait") /\ Keeps("read_listen") /\ Keeps("idle")
        /\ Keeps("reading")
    BY <1>3 DEF Rw!ReadCas, Rw!TryReadCas, Rw!ReadReload
  <2>2. Keeps(Rw!Blocked(t))
    BY <2>1 DEF Rw!Blocked
  <2> QED
    BY <1>1, <1>3, <2>1, <2>2 DEF Rw!ReadCas, Rw!TryReadCas, Rw!ReadReload
<1>4. CASE Rw!ReadListen(t) \/ Rw!ReadWake(t) \/ Rw!ReadChain(t) \/ Rw!ReadUnlock(t)
  BY <1>4 DEF Rw!ReadListen, Rw!ReadWake, Rw!ReadChain, Rw!ReadUnlock
<1>5. CASE \/ Rw!UpLoad(t) \/ Rw!UpIncrement(t) \/ Rw!TryUpgrade(t) \/ Rw!Upgrade(t)
           \/ Rw!UpgradableUnlock(t)
  BY <1>5 DEF Rw!UpLoad, Rw!UpIncrement, Rw!TryUpgrade, Rw!Upgrade, Rw!UpgradableUnlock, Rw!Abort
<1>6. CASE Rw!WriteBit(t) \/ Rw!WriteListen(t) \/ Rw!WriteWake(t) \/ Rw!TryWriteCas(t)
  BY <1>6 DEF Rw!WriteBit, Rw!WriteListen, Rw!WriteWake, Rw!TryWriteCas
<1>7. CASE Rw!WriteCheck(t) \/ Rw!WriteUnlock(t) \/ Rw!DowngradeWrite(t)
           \/ Rw!DowngradeToUpgradable(t) \/ Rw!CancelWrite(t)
  BY <1>7 DEF Rw!WriteCheck, Rw!WriteUnlock, Rw!DowngradeWrite, Rw!DowngradeToUpgradable,
              Rw!CancelWrite
<1>8. CASE Rw!NotifyNoReaders(t) \/ Rw!NotifyNoWriter(t)
  BY <1>8 DEF Rw!NotifyNoReaders, Rw!NotifyNoWriter
<1>9. CASE Rw!DropFuture(t) \/ (point[t] = "read_wait" /\ Rw!Cancel(t))
  BY <1>9 DEF Rw!DropFuture, Rw!Cancel
<1> QED
  BY <1>2, <1>3, <1>4, <1>5, <1>6, <1>7, <1>8, <1>9 DEF RwStep, StartRead

\* A step of the mutex moves nobody but its task, and where it ends in a guard nobody
\* else has one.
LEMMA LockSteps ==
  ASSUME IInv, NEW t \in Task, pc[t] # "holding", TryLock(t) \/ EnterSlow(t) \/ Poll(t)
  PROVE  /\ \E p \in Points \ {"idle", "unlock"} : pc' = [pc EXCEPT ![t] = p]
         /\ UNCHANGED aborted
         /\ pc'[t] = "holding" => In({"holding"}) = {}
<1>0. pc \in [Task -> Points] /\ state \in Int
  BY DEF IInv, TypeOK
<1> DEFINE P == Points \ {"idle", "holding", "unlock"}
<1>1. ASSUME NEW p \in P, Goto(t, p) PROVE pc'[t] # "holding"
  BY <1>0, <1>1 DEF Goto
<1>2. ASSUME Goto(t, "holding"), state = 0 \/ pc[t] = "take" PROVE In({"holding"}) = {}
  <2>1. CASE state = 0
    BY <1>0, <2>1, WordMeaning DEF Locked, Owners, In
  <2>2. CASE pc[t] = "take"
    BY <2>2 DEF IInv, MutualExclusion, Owners, In
  <2> QED
    BY <1>2, <2>1, <2>2
<1>3. \/ \E p \in P : Goto(t, p)
      \/ Goto(t, "holding") /\ (state = 0 \/ pc[t] = "take")
  <2>1. CASE TryLock(t) \/ EnterSlow(t) \/ ListenFirst(t) \/ TryAgain(t) \/ Wake(t)
    BY <2>1 DEF TryLock, EnterSlow, ListenFirst, TryAgain, Wake, Points, Hot, Fair
  <2>2. CASE Retry(t) \/ RetryTooLate(t) \/ PassOn(t) \/ Starve(t)
    BY <2>2 DEF Retry, RetryTooLate, PassOn, Starve, Points, Hot, Fair
  <2>3. CASE FairListen(t) \/ FairTry(t) \/ FairPassOn(t) \/ FairWake(t) \/ FairRetry(t)
    BY <2>3 DEF FairListen, FairTry, FairPassOn, FairWake, FairRetry, Points, Hot, Fair
  <2>4. CASE TakeMutex(t)
    BY <2>4 DEF TakeMutex, At
  <2> QED
    BY <2>1, <2>2, <2>3, <2>4 DEF Poll
<1>4. CASE Goto(t, "holding") /\ (state = 0 \/ pc[t] = "take")
  BY <1>2, <1>4 DEF Goto, Points
<1>5. ASSUME NEW p \in P, Goto(t, p) PROVE /\ pc' = [pc EXCEPT ![t] = p] /\ UNCHANGED aborted
  BY <1>5 DEF Goto
<1> QED
  BY <1>1, <1>3, <1>4, <1>5

\* Where the task that moves goes, in both places.
LEMMA CoupledMove ==
  ASSUME IInv, Coupled, NEW t \in Task, NEW p \in Rw!Points, NEW q \in Points,
         point' = [point EXCEPT ![t] = p], pc' = [pc EXCEPT ![t] = q],
         p \in MutexPoints <=> q = "holding",
         q \notin {"idle", "holding", "unlock"} => p \in LockPoints
  PROVE  Coupled'
BY DEF Coupled, IInv, TypeOK

\* The two places of every task keep fitting.
LEMMA CoupledStep == IInv /\ Coupled /\ [RwNext]_<<vars, rwVars>> => Coupled'
<1> SUFFICES ASSUME IInv, Coupled, [RwNext]_<<vars, rwVars>> PROVE Coupled'
  OBVIOUS
<1>0. pc \in [Task -> Points] /\ point \in [Task -> Rw!Points]
  BY DEF IInv, TypeOK, Coupled
<1>1. CASE UNCHANGED <<vars, rwVars>>
  BY <1>1 DEF Coupled, vars, rwVars
<1>2. ASSUME NEW t \in Task, StartLock(t) PROVE Coupled'
  <2>1. PICK p \in LockPoints : point' = [point EXCEPT ![t] = p]
    BY <1>2 DEF StartLock, Move
  <2>2. pc[t] = "idle" /\ pc' = [pc EXCEPT ![t] = pc[t]]
    BY <1>0, <1>2 DEF StartLock, NoFuture, Fresh, At, vars
  <2> QED
    BY <1>0, <2>1, <2>2, Places, CoupledMove
<1>3. ASSUME NEW t \in Task, PollLock(t) PROVE Coupled'
  <2>1. point[t] \in LockPoints /\ pc[t] # "holding"
    BY <1>3, Places DEF PollLock, Coupled
  <2>2. PICK q \in Points \ {"idle", "unlock"} : pc' = [pc EXCEPT ![t] = q]
    BY <1>3, <2>1, LockSteps DEF PollLock
  <2>3. pc'[t] = q
    BY <1>0, <2>2
  <2>4. CASE q = "holding"
    <3>1. PICK p \in {"up_load", "w_bit"} : point' = [point EXCEPT ![t] = p]
      BY <1>3, <2>3, <2>4 DEF PollLock, Move
    <3> QED
      BY <2>2, <2>4, <3>1, Places, CoupledMove
  <2>5. CASE q # "holding"
    <3>1. point' = [point EXCEPT ![t] = point[t]]
      BY <1>0, <1>3, <2>3, <2>5 DEF PollLock, rwVars
    <3> QED
      BY <1>0, <2>1, <2>2, <2>5, <3>1, Places, CoupledMove
  <2> QED
    BY <2>4, <2>5
<1>4. ASSUME NEW t \in Task, StartTryLock(t) PROVE Coupled'
  <2>1. pc' = [pc EXCEPT ![t] = "holding"] /\ "holding" \in Points
    BY <1>4 DEF StartTryLock, TryLock, Goto, Points
  <2>2. PICK p \in {"up_load", "tw_cas"} : point' = [point EXCEPT ![t] = p]
    BY <1>4 DEF StartTryLock, Move
  <2> QED
    BY <2>1, <2>2, Places, CoupledMove
<1>5. ASSUME NEW t \in Task, DropPending(t) PROVE Coupled'
  <2>1. pc' = [pc EXCEPT ![t] = "idle"] /\ "idle" \in Points
    BY <1>0, <1>5 DEF DropPending, Cancel, Fresh, At, Goto, vars, Points
  <2>2. point' = [point EXCEPT ![t] = "idle"]
    BY <1>5 DEF DropPending, Move
  <2> QED
    BY <2>1, <2>2, Places, CoupledMove
<1>6. ASSUME NEW t \in Task, DropLock(t) \/ AbortInLock(t) PROVE Coupled'
  BY <1>6 DEF DropLock, AbortInLock, DropFuture, Abort, rwVars, Coupled
<1>7. ASSUME NEW t \in Task, ReleaseMutex(t) PROVE Coupled'
  <2>1. pc' = [pc EXCEPT ![t] = "unlock"] /\ "unlock" \in Points
    BY <1>7 DEF ReleaseMutex, Unlock, Goto, Points
  <2>2. PICK p \in {"idle", "dw_notify", "reading"} : point' = [point EXCEPT ![t] = p]
    BY <1>7 DEF ReleaseMutex, Move, After
  <2> QED
    BY <2>1, <2>2, Places, CoupledMove
<1>8. ASSUME NEW t \in Task, NotifyLockOps(t) PROVE Coupled'
  <2>1. pc[t] = "unlock" /\ pc' = [pc EXCEPT ![t] = "idle"] /\ "idle" \in Points
    BY <1>8 DEF NotifyLockOps, UnlockNotify, At, Goto, Points
  <2>2. point' = [point EXCEPT ![t] = point[t]] /\ point[t] \notin MutexPoints
    BY <1>0, <1>8, <2>1 DEF NotifyLockOps, rwVars, Coupled
  <2> QED
    BY <1>0, <2>1, <2>2, CoupledMove
<1>9. ASSUME NEW t \in Task, RwStep(t) \/ StartRead(t) PROVE Coupled'
  <2>1. /\ point' \in [Task -> Rw!Points]
        /\ \A u \in Task \ {t} : point'[u] = point[u]
        /\ point'[t] \in MutexPoints <=> point[t] \in MutexPoints
        /\ point'[t] \in LockPoints <=> point[t] \in LockPoints
    BY <1>0, <1>9, OwnSteps
  <2>2. UNCHANGED pc
    BY <1>9 DEF RwStep, StartRead, vars
  <2> QED
    BY <2>1, <2>2 DEF Coupled, MutexPoints, Rw!MutexPoints, Rw!Points, Rw!BitPoints,
       Rw!ReadPoints, Rw!UpPoints, Rw!WritePoints, Rw!ReleasePoints
<1> QED
  BY <1>1, <1>2, <1>3, <1>4, <1>5, <1>6, <1>7, <1>8, <1>9 DEF RwNext

\* The guard of the inner mutex is forgotten and the mutex released by hand: the
\* operations that count on owning it are exactly the one whose guard was forgotten, so
\* unlock_unchecked is called by the owner, once (rwlock/raw.rs:207, 220,
\* 259-260, 274-275; mutex.rs:203-207).
THEOREM OwnerReleases ==
  RwSpec => [](/\ Coupled
               /\ In({"holding"}) = {t \in Task : point[t] \in MutexPoints}
               /\ \A t, u \in Task : point[t] \in MutexPoints /\ point[u] \in MutexPoints => t = u)
<1>1. RwInit => Coupled
  BY Places DEF RwInit, Init, Coupled
<1>2. RwSpec => []Coupled
  BY <1>1, CoupledStep, MutexInvariant, PTL DEF RwSpec
<1>3. IInv /\ Coupled =>
        /\ In({"holding"}) = {t \in Task : point[t] \in MutexPoints}
        /\ \A t, u \in Task : point[t] \in MutexPoints /\ point[u] \in MutexPoints => t = u
  BY DEF Coupled, In, IInv, MutualExclusion, Owners
<1> QED
  BY <1>2, <1>3, MutexInvariant, PTL

\* The owner of the mutex, for the RwLock, is the task at "holding".
LEMMA OwnerMove ==
  ASSUME TypeOK, NEW t \in Task, NEW q, pc' = [pc EXCEPT ![t] = q]
  PROVE  In({"holding"})' = IF q = "holding" THEN In({"holding"}) \cup {t}
                            ELSE In({"holding"}) \ {t}
BY DEF In, TypeOK

\* Every step is a step of the RwLock over the specification of the mutex, or changes
\* nothing there.
LEMMA RwRefines ==
  IInv /\ Coupled /\ [RwNext]_<<vars, rwVars>> => [Rw!Next]_(Rw!vars)
<1> SUFFICES ASSUME IInv, Coupled, [RwNext]_<<vars, rwVars>> PROVE Rw!Next \/ UNCHANGED Rw!vars
  OBVIOUS
<1>0. /\ pc \in [Task -> Points] /\ point \in [Task -> Rw!Points]
      /\ TypeOK
  BY DEF IInv, TypeOK, Coupled
<1>1. ASSUME In({"holding"})' = In({"holding"}), UNCHANGED rwVars PROVE UNCHANGED Rw!vars
  BY <1>1 DEF Rw!vars, rwVars
<1>2. ASSUME NEW t \in Task, StartLock(t) PROVE Rw!Next
  <2>1. In({"holding"})' = In({"holding"})
    BY <1>2 DEF StartLock, vars, In
  <2>2. Rw!StartLock(t)
    BY <1>2, <2>1 DEF StartLock, NoFuture, LockPoints, Move, Rw!StartLock, Rw!Goto
  <2> QED
    BY <2>2 DEF Rw!Next, Rw!Begin
<1>3. ASSUME NEW t \in Task, PollLock(t) PROVE Rw!Next \/ UNCHANGED Rw!vars
  <2>1. point[t] \in LockPoints /\ pc[t] # "holding" /\ ~halted
    BY <1>3, Places DEF PollLock, Coupled, Running
  <2>2. PICK q \in Points \ {"idle", "unlock"} :
          /\ pc' = [pc EXCEPT ![t] = q]
          /\ pc'[t] = "holding" => In({"holding"}) = {}
    BY <1>3, <2>1, LockSteps DEF PollLock
  <2>3. pc'[t] = q /\ t \notin In({"holding"})
    BY <1>0, <2>1, <2>2 DEF In
  <2>4. CASE q = "holding"
    <3>1. Rw!TakeMutex(t)
      BY <1>0, <2>2, <2>3, <2>4, OwnerMove DEF Rw!TakeMutex
    <3>2. Move(t, IF point[t] = "up_lock" THEN "up_load" ELSE "w_bit")
      BY <1>3, <2>3, <2>4 DEF PollLock
    <3>3. Rw!Granted(t)
      BY <2>1, <3>1, <3>2 DEF Move, LockPoints, Rw!Granted, Rw!At, Rw!Goto
    <3> QED
      BY <3>3 DEF Rw!Next
  <2>5. CASE q # "holding"
    <3>1. UNCHANGED rwVars
      BY <1>3, <2>3, <2>5 DEF PollLock
    <3>2. In({"holding"})' = In({"holding"}) \ {t}
      BY <1>0, <2>2, <2>5, OwnerMove
    <3>3. In({"holding"})' = In({"holding"})
      BY <2>3, <3>2
    <3> QED
      BY <1>1, <3>1, <3>3
  <2> QED
    BY <2>4, <2>5
<1>4. ASSUME NEW t \in Task, StartTryLock(t) PROVE Rw!Next
  <2>1. pc[t] # "holding" /\ TryLock(t) /\ pc' = [pc EXCEPT ![t] = "holding"]
    BY <1>4 DEF StartTryLock, TryLock, Fresh, At, Goto
  <2>2. In({"holding"}) = {}
    BY <1>0, <2>1, LockSteps
  <2>3. Rw!TakeMutex(t)
    BY <1>0, <2>1, <2>2, OwnerMove DEF Rw!TakeMutex
  <2>4. Rw!TryLock(t)
    BY <1>4, <2>3 DEF StartTryLock, NoFuture, Move, Rw!TryLock, Rw!Goto
  <2> QED
    BY <2>4 DEF Rw!Next, Rw!Begin
<1>5. ASSUME NEW t \in Task, DropPending(t) PROVE Rw!Next
  <2>1. pc[t] # "holding" /\ pc' = [pc EXCEPT ![t] = "idle"]
    BY <1>0, <1>5 DEF DropPending, Cancel, Fresh, At, Goto, vars
  <2>2. In({"holding"})' = In({"holding"})
    BY <1>0, <2>1, OwnerMove DEF In
  <2>3. Rw!Cancel(t)
    BY <1>5, <2>2 DEF DropPending, Running, LockPoints, Move, Rw!Cancel, Rw!At, Rw!Goto
  <2> QED
    BY <2>3 DEF Rw!Next
<1>6. ASSUME NEW t \in Task, DropLock(t) \/ AbortInLock(t) PROVE UNCHANGED Rw!vars
  <2>1. UNCHANGED pc /\ UNCHANGED rwVars
    BY <1>6 DEF DropLock, AbortInLock, DropFuture, Abort
  <2> QED
    BY <1>1, <2>1 DEF In
<1>7. ASSUME NEW t \in Task, ReleaseMutex(t) PROVE Rw!Next
  <2>1. /\ pc[t] = "holding" /\ pc' = [pc EXCEPT ![t] = "unlock"]
        /\ point[t] \in {"mutex_unlock", "dw_mutex", "up_read"} /\ ~halted
        /\ Move(t, After(point[t]))
    BY <1>7 DEF ReleaseMutex, Running, Unlock, At, Goto
  <2>2. In({"holding"}) = {t}
    BY <2>1 DEF In, IInv, MutualExclusion, Owners
  <2>3. In({"holding"})' = {}
    BY <1>0, <2>1, <2>2, OwnerMove
  <2>4. CASE point[t] = "mutex_unlock"
    <3>1. Rw!MutexUnlock(t)
      BY <2>1, <2>3, <2>4 DEF After, Move, Rw!MutexUnlock, Rw!At, Rw!Goto
    <3> QED
      BY <3>1 DEF Rw!Next, Rw!Release
  <2>5. CASE point[t] = "dw_mutex"
    <3>1. Rw!DowngradeMutexUnlock(t)
      BY <2>1, <2>3, <2>5 DEF After, Move, Rw!DowngradeMutexUnlock, Rw!At, Rw!Goto
    <3> QED
      BY <3>1 DEF Rw!Next, Rw!Release
  <2>6. CASE point[t] = "up_read"
    <3>1. Rw!DowngradeUpgradable(t) /\ Rw!At(t, "up_read")
      BY <2>1, <2>3, <2>6 DEF After, Move, Rw!DowngradeUpgradable, Rw!At, Rw!Goto
    <3> QED
      BY <3>1 DEF Rw!Next, Rw!Change
  <2> QED
    BY <2>1, <2>4, <2>5, <2>6
<1>8. ASSUME NEW t \in Task, NotifyLockOps(t) PROVE UNCHANGED Rw!vars
  <2>1. pc[t] = "unlock" /\ pc' = [pc EXCEPT ![t] = "idle"] /\ UNCHANGED rwVars
    BY <1>8 DEF NotifyLockOps, UnlockNotify, At, Goto
  <2>2. In({"holding"})' = In({"holding"})
    BY <1>0, <2>1, OwnerMove DEF In
  <2> QED
    BY <1>1, <2>1, <2>2
<1>9. ASSUME NEW t \in Task, RwStep(t) \/ StartRead(t) PROVE Rw!Next
  BY <1>0, <1>9, OwnSteps
<1>10. CASE UNCHANGED <<vars, rwVars>>
  BY <1>1, <1>10 DEF vars, In
<1> QED
  BY <1>2, <1>3, <1>4, <1>5, <1>6, <1>7, <1>8, <1>9, <1>10 DEF RwNext

\* The RwLock over the mutex in full implements the RwLock over the specification of
\* the mutex: everything RwLockProofs shows of RwLock holds for it, the slow path, the
\* starvation counter and the listeners of the mutex included.
THEOREM RwRefinement == RwSpec => ImplementsRw
<1>1. RwInit => Rw!Init
  <2>1. ASSUME RwInit PROVE In({"holding"}) = {}
    BY <2>1 DEF RwInit, Init, In
  <2> QED
    BY <2>1 DEF RwInit, Rw!Init, NewEvent, Rw!NewEvent
<1>2. RwSpec => []Coupled
  BY OwnerReleases, PTL
<1> QED
  BY <1>1, <1>2, RwRefines, MutexInvariant, PTL DEF RwSpec, ImplementsRw, Rw!Spec
=============================================================================
