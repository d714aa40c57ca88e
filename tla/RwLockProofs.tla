---------------------------- MODULE RwLockProofs ----------------------------
(***************************************************************************)
(* Proofs about RwLock and RwLockArc, for every finite set of tasks and    *)
(* every word of at least three bits, also one with less room than tasks.  *)
(*                                                                         *)
(* WriterExclusive is not inductive: a reader gets in because it saw no    *)
(* writer bit (WordInv: then nobody writes) or because it owns the inner   *)
(* mutex (MutexInv: then nobody else writes); a writer gets in because it  *)
(* saw no reader (WordInv).  That the word counts at all rests on Room: no *)
(* increment wraps it, as readers are turned away at half its range.  The  *)
(* five together are inductive.                                            *)
(*                                                                         *)
(* That nobody oversleeps rests on them: NoSleepingWriter because only one *)
(* writer waits at a time, NoSleepingReader because the bit goes away only *)
(* where somebody goes on to notify.  Both need to know that a listener is *)
(* in its list at most once (Registered).                                  *)
(***************************************************************************)
EXTENDS RwLockArc, ArcCountProofs, EventListenerProofs

\* Nobody becomes a reader beyond half the range, but for one upgradable reader, which
\* was counted out before and incremented the word later.
Half == MAX \div 2
Room == /\ 2 * Cardinality(Counted) <= Half + 3
        /\ In({"up_inc"}) # {} => 2 * Cardinality(Counted) <= Half + 1

IInv == TypeOK /\ WordInv /\ MutexInv /\ WriterExclusive /\ Room

\* What a control point stands for, as numbers that the state word adds up.
R(p) == IF p \in CountedPoints THEN 1 ELSE 0
B(p) == IF p \in BitPoints THEN 1 ELSE 0

\* Moving one task moves it, and nobody else, into or out of a set of points.
LEMMA Moved ==
  ASSUME pc \in [Task -> Points], NEW t \in Task, NEW p \in Points, Goto(t, p), NEW P
  PROVE  /\ In(P)' = IF p \in P THEN In(P) \cup {t} ELSE In(P) \ {t}
         /\ t \in In(P) <=> pc[t] \in P
BY DEF In, Goto

\* Read guards are finite in number.
LEMMA FewReaders ==
  /\ IsFiniteSet(Counted) /\ IsFiniteSet(Counted')
  /\ Cardinality(Counted) \in Nat /\ Cardinality(Counted') \in Nat
<1>1. Counted \in SUBSET Task /\ Counted' \in SUBSET Task
  BY DEF Counted, In
<1> QED
  BY <1>1, RwLockAssumption, FS_Subset, FS_CardinalityType

\* The word in numbers: isize::MAX is odd, and what Room allows fits into the word,
\* with the writer bit.
LEMMA WordSize ==
  /\ MAX \in Nat /\ Half \in Nat /\ Half >= 3 /\ Half + 4 <= MAX
  /\ \A c \in Nat : 2 * c <= Half => 2 * c + 1 <= Half
<1>1. PICK k \in Nat : MAX = 4 * k + 3
  BY RwLockAssumption, MAX = 4 * (MAX \div 4) + (MAX % 4), MAX \div 4 \in Nat
<1>2. Half = 2 * k + 1 /\ k >= 1
  BY <1>1, RwLockAssumption DEF Half
<1> QED
  BY <1>1, <1>2

\* How moving one task changes the number of readers.
LEMMA ReaderCount ==
  ASSUME pc \in [Task -> Points], NEW t \in Task, NEW p \in Points, Goto(t, p)
  PROVE  Cardinality(Counted') = Cardinality(Counted) + R(p) - R(pc[t])
<1>1. /\ Counted' = IF p \in CountedPoints THEN Counted \cup {t} ELSE Counted \ {t}
      /\ t \in Counted <=> pc[t] \in CountedPoints
  BY Moved DEF Counted
<1>2. /\ Cardinality(Counted \cup {t})
           = IF t \in Counted THEN Cardinality(Counted) ELSE Cardinality(Counted) + 1
      /\ Cardinality(Counted \ {t})
           = IF t \in Counted THEN Cardinality(Counted) - 1 ELSE Cardinality(Counted)
  BY FewReaders, FS_AddElement, FS_RemoveElement
<1>3. CASE p \in CountedPoints
  BY <1>1, <1>2, <1>3, FewReaders DEF R
<1>4. CASE p \notin CountedPoints
  BY <1>1, <1>2, <1>4, FewReaders DEF R
<1> QED
  BY <1>3, <1>4

\* What the word says about the sets of tasks.
LEMMA WordMeaning ==
  ASSUME IInv
  PROVE  /\ ~HasWriterBit(state) => In(BitPoints) = {}
         /\ state < ONE_READER => Counted = {}
         /\ state = ONE_READER => \A t \in Counted : Counted = {t}
         /\ \A t \in In(MutexPoints) : \A u \in In(MutexPoints) : t = u
<1> DEFINE c == Cardinality(Counted)
           b == IF In(BitPoints) = {} THEN 0 ELSE 1
<1>1. state = 2 * c + b /\ c \in Nat /\ IsFiniteSet(Counted)
  BY FewReaders DEF IInv, WordInv, ONE_READER, WRITER_BIT
<1>2. ~HasWriterBit(state) => In(BitPoints) = {}
  BY <1>1 DEF HasWriterBit, WRITER_BIT
<1>3. state < ONE_READER => Counted = {}
  BY <1>1, FS_EmptySet DEF ONE_READER
<1>4. state = ONE_READER => \A t \in Counted : Counted = {t}
  <2>1. SUFFICES ASSUME state = ONE_READER, NEW t \in Counted PROVE Counted \ {t} = {}
    OBVIOUS
  <2>2. c = 1
    BY <1>1, <2>1 DEF ONE_READER
  <2>3. Cardinality(Counted \ {t}) = 0 /\ IsFiniteSet(Counted \ {t})
    BY <1>1, <2>1, <2>2, FS_RemoveElement
  <2> QED
    BY <2>3, FS_EmptySet
<1>5. \A t \in In(MutexPoints) : \A u \in In(MutexPoints) : t = u
  BY DEF IInv, MutexInv
<1> QED
  BY <1>2, <1>3, <1>4, <1>5

\* When one task moves, and the word and the mutex change by what its two control
\* points stand for, the invariant is preserved, provided that
\*  - a task gets the mutex when it is free, and the bit when it owns the mutex;
\*  - it becomes a reader when there is no writer bit and not too many readers, or
\*    after an upgradable reader's check of the number, or from the writer;
\*  - it becomes the writer when the word counts nobody but itself.
LEMMA Bookkeeping ==
  ASSUME IInv, NEW t \in Task, NEW p \in Points, Goto(t, p),
         NEW x \in Int, x = state + 2 * (R(p) - R(pc[t])) + (B(p) - B(pc[t])),
         state' \in {x, Wrap(x)},
         mutex' = IF p \in MutexPoints THEN mutex \cup {t} ELSE mutex \ {t},
         p \in MutexPoints /\ pc[t] \notin MutexPoints => mutex = {},
         p \in BitPoints => pc[t] \in MutexPoints,
         R(p) > R(pc[t]) => \/ ~HasWriterBit(state) /\ ~TooManyReaders(state)
                            \/ pc[t] \in {"up_inc", "writing"},
         p = "up_inc" => ~TooManyReaders(state),
         p = "writing" /\ pc[t] # "writing" => state = 2 * R(pc[t]) + B(pc[t]),
         no_readers' \in EventOf(Task), no_writer' \in EventOf(Task)
  PROVE  IInv'
<1> DEFINE c  == Cardinality(Counted)
           c1 == Cardinality(Counted')
           b  == IF In(BitPoints) = {} THEN 0 ELSE 1
           b1 == IF In(BitPoints)' = {} THEN 0 ELSE 1
<1>1. /\ pc \in [Task -> Points] /\ state = 2 * c + b /\ c \in Nat /\ c1 \in Nat
      /\ mutex = In(MutexPoints)
  BY FewReaders DEF IInv, TypeOK, WordInv, MutexInv, ONE_READER, WRITER_BIT
<1>2. c1 = c + R(p) - R(pc[t])
  BY <1>1, ReaderCount
<1>3. BitPoints \subseteq MutexPoints
  BY DEF MutexPoints
<1>4. MutexInv'
  <2>1. mutex' = In(MutexPoints)'
    BY <1>1, Moved
  <2>2. ASSUME NEW u \in mutex', NEW v \in mutex' PROVE u = v
    <3>1. t \in In(MutexPoints) <=> pc[t] \in MutexPoints
      BY <1>1, Moved
    <3> QED
      BY <1>1, <2>2, <3>1, WordMeaning
  <2> QED
    BY <2>1, <2>2 DEF MutexInv
<1>5. /\ In(BitPoints)' = IF p \in BitPoints THEN In(BitPoints) \cup {t} ELSE In(BitPoints) \ {t}
      /\ t \in In(BitPoints) <=> pc[t] \in BitPoints
      /\ t \in In(MutexPoints) <=> pc[t] \in MutexPoints
  BY <1>1, Moved
<1>6. In(BitPoints) \subseteq In(MutexPoints) /\ In(BitPoints)' \subseteq In(MutexPoints)'
  BY <1>3 DEF In
<1>7. \A u, v \in In(BitPoints)' : u = v
  BY <1>4, <1>6 DEF MutexInv
<1>8. \A u, v \in In(BitPoints) : u = v
  BY <1>6, WordMeaning
<1>9. b1 = b + B(p) - B(pc[t])
  <2>1. CASE p \in BitPoints /\ pc[t] \in BitPoints
    BY <1>5, <2>1 DEF B
  <2>2. CASE p \in BitPoints /\ pc[t] \notin BitPoints
    <3>1. In(BitPoints) = {}
      BY <1>5, <1>6, <2>2, WordMeaning
    <3> QED
      BY <1>5, <2>2, <3>1 DEF B
  <2>3. CASE p \notin BitPoints /\ pc[t] \in BitPoints
    BY <1>5, <1>8, <2>3 DEF B
  <2>4. CASE p \notin BitPoints /\ pc[t] \notin BitPoints
    BY <1>5, <2>4 DEF B
  <2> QED
    BY <2>1, <2>2, <2>3, <2>4
<1>10. x = 2 * c1 + b1
  BY <1>1, <1>2, <1>9 DEF R, B
<1>11. Room'
  <2> DEFINE late  == In({"up_inc"})
             late1 == In({"up_inc"})'
  <2>1. /\ late1 = IF p = "up_inc" THEN late \cup {t} ELSE late \ {t}
        /\ t \in late <=> pc[t] = "up_inc"
    BY <1>1 DEF In, Goto
  <2>2. late \subseteq In(MutexPoints) /\ {"up_inc", "writing"} \subseteq MutexPoints
    BY DEF In, MutexPoints, BitPoints
  <2>3. 2 * c <= Half + 3 /\ (late # {} => 2 * c <= Half + 1)
    BY DEF IInv, Room
  <2>4. /\ R(p) \in {0, 1} /\ R(pc[t]) \in {0, 1} /\ R("up_inc") = 0 /\ R("writing") = 0
    BY DEF R, CountedPoints
  <2>5. ~TooManyReaders(state) => 2 * c + 1 <= Half
    <3>1. ~TooManyReaders(state) => state <= Half
      BY <1>1, WordSize DEF TooManyReaders, Half
    <3> QED
      BY <1>1, <3>1, WordSize
  <2>6. CASE ~(R(p) > R(pc[t]))
    <3>1. c1 <= c
      BY <1>1, <1>2, <2>4, <2>6
    <3>2. late1 # {} => late # {} \/ ~TooManyReaders(state)
      BY <2>1
    <3> QED
      BY <1>1, <2>3, <2>5, <3>1, <3>2, WordSize DEF Room
  <2>7. CASE R(p) > R(pc[t]) /\ ~TooManyReaders(state)
    BY <1>1, <1>2, <2>4, <2>5, <2>7, WordSize DEF Room
  <2>8. CASE R(p) > R(pc[t]) /\ pc[t] \in {"up_inc", "writing"}
    <3>1. late1 = {}
      <4>1. t \in In(MutexPoints) /\ p # "up_inc"
        BY <1>5, <2>2, <2>4, <2>8
      <4> QED
        BY <2>1, <2>2, <4>1, WordMeaning
    <3>2. c1 = c + 1
      BY <1>1, <1>2, <2>4, <2>8
    <3>3. CASE pc[t] = "up_inc"
      BY <1>1, <2>1, <2>3, <3>1, <3>2, <3>3, WordSize DEF Room
    <3>4. CASE pc[t] = "writing"
      <4>1. Counted = {}
        BY <3>4 DEF IInv, WriterExclusive, In
      <4>2. c = 0
        BY <4>1, FS_EmptySet
      <4> QED
        BY <3>1, <3>2, <4>2, WordSize DEF Room
    <3> QED
      BY <2>8, <3>3, <3>4
  <2> QED
    BY <2>6, <2>7, <2>8
<1>12. x \in 0..MAX /\ state' = x
  BY <1>1, <1>10, <1>11, WordSize DEF Wrap, Room
<1>13. WordInv'
  BY <1>7, <1>10, <1>12 DEF WordInv, ONE_READER, WRITER_BIT
<1>14. TypeOK'
  <2>1. pc' \in [Task -> Points] /\ aborted' \in BOOLEAN
    BY <1>1 DEF Goto, IInv, TypeOK
  <2>2. mutex' \in SUBSET Task
    BY DEF IInv, TypeOK
  <2> QED
    BY <1>12, <2>1, <2>2 DEF TypeOK
<1>15. In({"writing"})' # {} => Counted' = {}
  <2>1. /\ In({"writing"})' = IF p = "writing" THEN In({"writing"}) \cup {t} ELSE In({"writing"}) \ {t}
        /\ Counted' = IF p \in CountedPoints THEN Counted \cup {t} ELSE Counted \ {t}
        /\ t \in Counted <=> pc[t] \in CountedPoints
        /\ t \in In({"writing"}) <=> pc[t] = "writing"
    <3>1. /\ In({"writing"})' = IF p = "writing" THEN In({"writing"}) \cup {t} ELSE In({"writing"}) \ {t}
          /\ t \in In({"writing"}) <=> pc[t] = "writing"
      BY <1>1 DEF In, Goto
    <3>2. /\ In(CountedPoints)' = IF p \in CountedPoints THEN In(CountedPoints) \cup {t} ELSE In(CountedPoints) \ {t}
          /\ t \in In(CountedPoints) <=> pc[t] \in CountedPoints
      BY <1>1, Moved
    <3> QED
      BY <3>1, <3>2 DEF Counted
  <2>2. "writing" \in BitPoints /\ "writing" \notin CountedPoints
    BY DEF BitPoints, CountedPoints
  <2>3. In({"writing"}) \subseteq In(BitPoints)
    BY <2>2 DEF In
  <2>4. In({"writing"}) # {} => Counted = {}
    BY DEF IInv, WriterExclusive
  <2>5. CASE p = "writing" /\ pc[t] # "writing"
    <3>1. R(pc[t]) \in {0, 1} /\ B(pc[t]) \in {0, 1} /\ R(p) = 0
      BY <2>2, <2>5 DEF R, B
    <3>2. b \in {0, 1} /\ state = 2 * R(pc[t]) + B(pc[t])
      BY <2>5
    <3>3. c1 = 0
      BY <1>1, <1>2, <3>1, <3>2
    <3> QED
      BY <3>3, FewReaders, FS_EmptySet
  <2>6. CASE p = "writing" /\ pc[t] = "writing"
    BY <2>1, <2>2, <2>4, <2>6
  <2>7. CASE p # "writing" /\ R(p) > R(pc[t])
    <3>1. "up_inc" \in MutexPoints /\ "writing" \in MutexPoints
      BY DEF MutexPoints, BitPoints
    <3>2. In({"writing"}) \ {t} = {}
      BY <1>5, <1>6, <2>3, <2>7, <3>1, WordMeaning
    <3> QED
      BY <2>1, <2>7, <3>2
  <2>8. CASE p # "writing" /\ ~(R(p) > R(pc[t]))
    <3>1. Counted' \subseteq Counted
      BY <2>1, <2>8 DEF R
    <3> QED
      BY <2>1, <2>4, <2>8, <3>1
  <2> QED
    BY <2>5, <2>6, <2>7, <2>8
<1>16. WriterExclusive'
  <2>1. In({"writing"})' \subseteq In(BitPoints)'
    BY DEF In, BitPoints
  <2> QED
    BY <1>7, <1>15, <2>1 DEF WriterExclusive
<1> QED
  BY <1>4, <1>11, <1>13, <1>14, <1>16 DEF IInv

\* In particular if neither the word nor what the task stands for changes.
LEMMA Quiet ==
  ASSUME IInv, NEW t \in Task, NEW p \in Points, Goto(t, p), UNCHANGED <<state, mutex>>,
         p \in CountedPoints <=> pc[t] \in CountedPoints,
         p \in BitPoints <=> pc[t] \in BitPoints,
         p \in MutexPoints <=> pc[t] \in MutexPoints,
         p # "writing", p = "up_inc" => ~TooManyReaders(state),
         no_readers' \in EventOf(Task), no_writer' \in EventOf(Task)
  PROVE  IInv'
<1>1. pc \in [Task -> Points] /\ state \in Int /\ mutex = In(MutexPoints)
  BY DEF IInv, TypeOK, MutexInv
<1>2. t \in In(MutexPoints) <=> pc[t] \in MutexPoints
  BY <1>1, Moved
<1>3. R(p) = R(pc[t]) /\ B(p) = B(pc[t]) /\ R(p) \in Int /\ B(p) \in Int
  BY DEF R, B
<1>4. state = state + 2 * (R(p) - R(pc[t])) + (B(p) - B(pc[t]))
  BY <1>1, <1>3
<1>5. mutex' = IF p \in MutexPoints THEN mutex \cup {t} ELSE mutex \ {t}
  BY <1>1, <1>2
<1>6. p \in BitPoints => pc[t] \in MutexPoints
  BY DEF MutexPoints
<1>7. ~(R(p) > R(pc[t]))
  BY <1>3
<1> QED
  BY <1>1, <1>4, <1>5, <1>6, <1>7, Bookkeeping

\* No operation on an event leaves its type.
LEMMA EventSteps ==
  ASSUME NEW e \in EventOf(Task), NEW t \in Task
  PROVE  /\ Listen(e, t) \in EventOf(Task)
         /\ Notify(e, 1) \in EventOf(Task)
         /\ Consume(e, t) \in EventOf(Task)
         /\ t \in Listeners(e) => DropListener(e, t) \in EventOf(Task)
BY ListenType, NotifyType, ConsumeType, DropListenerType, RwLockAssumption

\* Aborting changes nothing that the invariant is about.
LEMMA AbortKeeps == IInv /\ Abort => IInv'
BY DEF Abort, IInv, TypeOK, WordInv, MutexInv, WriterExclusive, Room, Counted, In

\* Control points that stand for nothing.
Plain == {"idle", "up_lock", "w_lock", "ru_notify"} \cup ReadPoints

\* They hold neither the mutex nor the bit nor a reader.
LEMMA PlainPoints ==
  Plain \subseteq Points /\ Plain \cap (CountedPoints \cup BitPoints \cup MutexPoints) = {}
    /\ "writing" \notin Plain /\ "up_inc" \notin Plain
BY DEF Plain, Points, ReadPoints, UpPoints, WritePoints, ReleasePoints, CountedPoints, BitPoints,
       MutexPoints

\* A step from one to another of them.
LEMMA PlainStep ==
  ASSUME IInv, NEW t \in Task, NEW p \in Plain, pc[t] \in Plain, Goto(t, p),
         UNCHANGED <<state, mutex>>,
         no_readers' \in EventOf(Task), no_writer' \in EventOf(Task)
  PROVE  IInv'
BY PlainPoints, Quiet

\* An attempt to read takes nothing before its compare_exchange.
LEMMA AttemptKeeps ==
  ASSUME IInv, NEW t \in Task, NEW p \in Plain, pc[t] \in Plain, Attempt(t, p)
  PROVE  IInv'
<1>1. no_readers' \in EventOf(Task) /\ no_writer' \in EventOf(Task)
  BY DEF Attempt, IInv, TypeOK
<1>2. "read_cas" \in Plain
  BY DEF Plain, ReadPoints
<1>3. CASE Goto(t, p) \/ Goto(t, "read_cas")
  BY <1>1, <1>2, <1>3, PlainStep DEF Attempt
<1>4. CASE Abort
  BY <1>4, AbortKeeps
<1> QED
  BY <1>3, <1>4 DEF Attempt

\* Becoming a reader, when there is no writer bit or for the owner of the mutex.
LEMMA AddReader ==
  ASSUME IInv, NEW t \in Task, NEW p \in {"reading", "up_read"}, Goto(t, p),
         state' = Wrap(state + ONE_READER), UNCHANGED <<mutex, no_readers, no_writer>>,
         \/ p = "reading" /\ pc[t] \in Plain /\ ~HasWriterBit(state) /\ ~TooManyReaders(state)
         \/ p = "up_read" /\ pc[t] = "up_inc"
  PROVE  IInv'
<1>1. /\ pc \in [Task -> Points] /\ state \in Int /\ mutex = In(MutexPoints)
      /\ no_readers' \in EventOf(Task) /\ no_writer' \in EventOf(Task)
  BY DEF IInv, TypeOK, MutexInv
<1>2. /\ R(p) = 1 /\ B(p) = 0 /\ R(pc[t]) = 0 /\ B(pc[t]) = 0 /\ p \in Points
      /\ p \in MutexPoints <=> pc[t] \in MutexPoints
      /\ p \notin BitPoints /\ p # "writing" /\ p # "up_inc"
      /\ (~HasWriterBit(state) /\ ~TooManyReaders(state)) \/ pc[t] = "up_inc"
  BY PlainPoints DEF R, B, CountedPoints, BitPoints, MutexPoints, Points, UpPoints
<1>3. mutex' = IF p \in MutexPoints THEN mutex \cup {t} ELSE mutex \ {t}
  BY <1>1, <1>2, Moved
<1>4. state + ONE_READER = state + 2 * (R(p) - R(pc[t])) + (B(p) - B(pc[t]))
      /\ state + ONE_READER \in Int
  BY <1>1, <1>2 DEF ONE_READER
<1> QED
  BY <1>1, <1>2, <1>3, <1>4, Bookkeeping

\* The steps of a read call.
LEMMA ReaderSteps ==
  ASSUME IInv, NEW t \in Task,
         StartRead(t) \/ StartTryRead(t) \/ ReadCas(t) \/ TryReadCas(t) \/ ReadListen(t)
           \/ ReadReload(t) \/ ReadWake(t) \/ ReadChain(t)
  PROVE  IInv'
<1> USE DEF At, Fresh
<1>1. /\ no_readers \in EventOf(Task) /\ no_writer \in EventOf(Task)
      /\ Listen(no_writer, t) \in EventOf(Task) /\ Notify(no_writer, 1) \in EventOf(Task)
      /\ Consume(no_writer, t) \in EventOf(Task)
  BY EventSteps DEF IInv, TypeOK
<1>2. /\ "idle" \in Plain /\ "read_listen" \in Plain /\ "read_reload" \in Plain
      /\ "read_cas" \in Plain /\ "read_wait" \in Plain /\ "read_chain" \in Plain
      /\ "try_cas" \in Plain /\ Blocked(t) \in Plain
  BY DEF Plain, ReadPoints, Blocked
<1>3. CASE StartRead(t)
  BY <1>2, <1>3, AttemptKeeps DEF StartRead
<1>4. CASE StartTryRead(t)
  BY <1>1, <1>2, <1>4, AbortKeeps, PlainStep DEF StartTryRead
<1>5. CASE ReadCas(t)
  BY <1>2, <1>5, AttemptKeeps, AddReader DEF ReadCas
<1>6. CASE TryReadCas(t)
  BY <1>2, <1>6, AttemptKeeps, AddReader DEF TryReadCas
<1>7. CASE ReadListen(t)
  BY <1>1, <1>2, <1>7, PlainStep DEF ReadListen
<1>8. CASE ReadReload(t)
  BY <1>2, <1>8, AttemptKeeps DEF ReadReload
<1>9. CASE ReadWake(t)
  BY <1>1, <1>2, <1>9, PlainStep DEF ReadWake
<1>10. CASE ReadChain(t)
  BY <1>1, <1>2, <1>10, PlainStep DEF ReadChain
<1> QED
  BY <1>3, <1>4, <1>5, <1>6, <1>7, <1>8, <1>9, <1>10

\* The inner mutex is taken when it is free, and given back by its owner.
LEMMA TakeStep ==
  ASSUME IInv, NEW t \in Task, NEW p \in {"up_load", "w_bit", "tw_cas"}, Goto(t, p),
         TakeMutex(t), pc[t] \in Plain, UNCHANGED <<state, no_readers, no_writer>>
  PROVE  IInv'
<1>1. /\ state \in Int /\ no_readers' \in EventOf(Task) /\ no_writer' \in EventOf(Task)
  BY DEF IInv, TypeOK
<1>2. /\ R(p) = 0 /\ B(p) = 0 /\ R(pc[t]) = 0 /\ B(pc[t]) = 0 /\ p \in Points
      /\ p \in MutexPoints /\ p \notin BitPoints /\ p # "writing"
  BY PlainPoints
  DEF R, B, CountedPoints, BitPoints, MutexPoints, Points, UpPoints, WritePoints
<1>3. mutex' = mutex \cup {t} /\ mutex = {}
  BY DEF TakeMutex
<1>4. state = state + 2 * (R(p) - R(pc[t])) + (B(p) - B(pc[t])) /\ ~(R(p) > R(pc[t]))
  BY <1>1, <1>2
<1> QED
  BY <1>1, <1>2, <1>3, <1>4, Bookkeeping

\* The mutex is released by a call that keeps what it has of the word.
LEMMA GiveBackStep ==
  ASSUME IInv, NEW t \in Task, NEW p \in Points, Goto(t, p), mutex' = {},
         pc[t] \in MutexPoints, p \notin MutexPoints, p # "writing",
         R(p) = R(pc[t]), B(p) = B(pc[t]), UNCHANGED <<state, no_readers, no_writer>>
  PROVE  IInv'
<1>1. /\ pc \in [Task -> Points] /\ state \in Int /\ mutex = In(MutexPoints)
      /\ no_readers' \in EventOf(Task) /\ no_writer' \in EventOf(Task)
  BY DEF IInv, TypeOK, MutexInv
<1>2. t \in In(MutexPoints)
  BY <1>1, Moved
<1>3. mutex' = mutex \ {t}
  BY <1>1, <1>2, WordMeaning
<1>4. state = state + 2 * (R(p) - R(pc[t])) + (B(p) - B(pc[t])) /\ ~(R(p) > R(pc[t]))
  BY <1>1 DEF R, B
<1>5. p \notin BitPoints /\ p # "up_inc"
  BY DEF MutexPoints
<1> QED
  BY <1>1, <1>3, <1>4, <1>5, Bookkeeping

\* A step on the word that neither takes nor gives back the mutex.
LEMMA WordStep ==
  ASSUME IInv, NEW t \in Task, NEW p \in Points, Goto(t, p),
         UNCHANGED <<mutex, no_readers, no_writer>>,
         p \in MutexPoints <=> pc[t] \in MutexPoints,
         NEW x \in Int, x = state + 2 * (R(p) - R(pc[t])) + (B(p) - B(pc[t])),
         state' \in {x, Wrap(x)},
         R(p) > R(pc[t]) => pc[t] = "writing", p # "up_inc",
         p = "writing" /\ pc[t] # "writing" => state = 2 * R(pc[t]) + B(pc[t])
  PROVE  IInv'
<1>1. /\ pc \in [Task -> Points] /\ state \in Int /\ mutex = In(MutexPoints)
      /\ no_readers' \in EventOf(Task) /\ no_writer' \in EventOf(Task)
  BY DEF IInv, TypeOK, MutexInv
<1>2. mutex' = IF p \in MutexPoints THEN mutex \cup {t} ELSE mutex \ {t}
  BY <1>1, Moved
<1>3. p \in BitPoints => pc[t] \in MutexPoints
  BY DEF MutexPoints
<1> QED
  BY <1>1, <1>2, <1>3, Bookkeeping

\* The groups of the control points of upgradable readers, writers and guards.
LEMMA Groups ==
  /\ \A p \in {"up_load", "up_inc", "w_bit", "tw_cas", "uu_notify", "wu_notify", "mutex_unlock"} :
       p \in Points /\ R(p) = 0 /\ B(p) = 0 /\ p \in MutexPoints
         /\ p \notin CountedPoints /\ p \notin BitPoints
  /\ \A p \in {"w_listen", "w_check", "w_wait", "upgrading", "writing"} :
       p \in Points /\ R(p) = 0 /\ B(p) = 1 /\ p \in MutexPoints
         /\ p \notin CountedPoints /\ p \in BitPoints
  /\ \A p \in {"up_read", "dw_mutex"} :
       p \in Points /\ R(p) = 1 /\ B(p) = 0 /\ p \in MutexPoints
         /\ p \in CountedPoints /\ p \notin BitPoints
  /\ \A p \in {"reading", "dw_notify"} :
       p \in Points /\ R(p) = 1 /\ B(p) = 0 /\ p \notin MutexPoints
         /\ p \in CountedPoints /\ p \notin BitPoints
  /\ \A p \in {"idle", "ru_notify", "read_wait", "up_lock", "w_lock"} :
       p \in Points /\ R(p) = 0 /\ B(p) = 0 /\ p \notin MutexPoints
         /\ p \notin CountedPoints /\ p \notin BitPoints /\ p \in Plain
BY DEF R, B, CountedPoints, BitPoints, MutexPoints, Points, ReadPoints, UpPoints, WritePoints,
       ReleasePoints, Plain

\* Steps of the inner mutex and of upgradable readers.
LEMMA UpgradableSteps ==
  ASSUME IInv, NEW t \in Task,
         StartLock(t) \/ Granted(t) \/ TryLock(t) \/ MutexUnlock(t) \/ UpLoad(t)
           \/ UpIncrement(t) \/ TryUpgrade(t) \/ Upgrade(t)
  PROVE  IInv'
<1> USE DEF At, Fresh
<1>1. state \in Int /\ no_readers \in EventOf(Task) /\ no_writer \in EventOf(Task)
  BY DEF IInv, TypeOK
<1>2. CASE StartLock(t)
  BY <1>1, <1>2, Groups, PlainStep DEF StartLock
<1>3. CASE Granted(t)
  BY <1>3, Groups, TakeStep DEF Granted
<1>4. CASE TryLock(t)
  BY <1>4, Groups, TakeStep DEF TryLock
<1>5. CASE MutexUnlock(t)
  <2>1. pc[t] = "mutex_unlock" /\ Goto(t, "idle") /\ mutex' = {}
    BY <1>5 DEF MutexUnlock
  <2> QED
    BY <1>5, <2>1, Groups, GiveBackStep DEF MutexUnlock
<1>6. CASE UpLoad(t)
  <2>1. CASE TooManyReaders(state)
    BY <1>6, <2>1, AbortKeeps DEF UpLoad
  <2>2. CASE ~TooManyReaders(state)
    BY <1>1, <1>6, <2>2, Groups, Quiet DEF UpLoad
  <2> QED
    BY <2>1, <2>2
<1>7. CASE UpIncrement(t)
  BY <1>7, AddReader DEF UpIncrement
<1>8. CASE TryUpgrade(t)
  <2>1. /\ R("writing") = 0 /\ B("writing") = 1 /\ R("up_read") = 1 /\ B("up_read") = 0
        /\ "writing" \in MutexPoints /\ "up_read" \in MutexPoints /\ "writing" \in Points
    BY Groups
  <2>2. /\ pc[t] = "up_read" /\ Goto(t, "writing") /\ state = 2 /\ state' = 1
        /\ UNCHANGED <<mutex, no_readers, no_writer>>
    BY <1>8 DEF TryUpgrade, ONE_READER, WRITER_BIT
  <2>3. 1 = state + 2 * (R("writing") - R(pc[t])) + (B("writing") - B(pc[t]))
        /\ ~(R("writing") > R(pc[t])) /\ state = 2 * R(pc[t]) + B(pc[t])
    BY <2>1, <2>2
  <2> QED
    BY <2>1, <2>2, <2>3, WordStep
<1>9. CASE Upgrade(t)
  <2>1. /\ R("upgrading") = 0 /\ B("upgrading") = 1 /\ R("up_read") = 1 /\ B("up_read") = 0
        /\ "upgrading" \in MutexPoints /\ "up_read" \in MutexPoints /\ "upgrading" \in Points
    BY Groups
  <2>2. /\ pc[t] = "up_read" /\ Goto(t, "upgrading") /\ state' = Wrap(state - 1)
        /\ UNCHANGED <<mutex, no_readers, no_writer>>
    BY <1>9 DEF Upgrade, ONE_READER, WRITER_BIT
  <2>3. state - 1 = state + 2 * (R("upgrading") - R(pc[t])) + (B("upgrading") - B(pc[t]))
        /\ ~(R("upgrading") > R(pc[t])) /\ state - 1 \in Int
    BY <1>1, <2>1, <2>2
  <2> QED
    BY <2>1, <2>2, <2>3, WordStep
<1> QED
  BY <1>2, <1>3, <1>4, <1>5, <1>6, <1>7, <1>8, <1>9

\* Steps of writers.
LEMMA WriterSteps ==
  ASSUME IInv, NEW t \in Task,
         WriteBit(t) \/ WriteListen(t) \/ WriteCheck(t) \/ WriteWake(t) \/ TryWriteCas(t)
  PROVE  IInv'
<1> USE DEF At
<1>1. /\ pc \in [Task -> Points] /\ state \in Int /\ mutex = In(MutexPoints)
      /\ no_readers \in EventOf(Task) /\ no_writer \in EventOf(Task)
      /\ Listen(no_readers, t) \in EventOf(Task) /\ Consume(no_readers, t) \in EventOf(Task)
  BY EventSteps DEF IInv, TypeOK, MutexInv
<1>2. CASE WriteBit(t)
  <2>1. pc[t] = "w_bit" /\ UNCHANGED <<mutex, no_readers, no_writer>>
    BY <1>2 DEF WriteBit
  <2>2. ~HasWriterBit(state)
    <3>1. t \in In(MutexPoints) /\ t \notin In(BitPoints) /\ In(BitPoints) \subseteq In(MutexPoints)
      BY <2>1, Groups DEF In, MutexPoints
    <3>2. In(BitPoints) = {}
      BY <3>1, WordMeaning
    <3> QED
      BY <1>1, <3>2, FewReaders DEF IInv, WordInv, HasWriterBit, ONE_READER, WRITER_BIT
  <2>3. state' = state + 1 /\ Goto(t, "w_listen")
    BY <1>1, <1>2, <2>2 DEF WriteBit, HasWriterBit, WRITER_BIT
  <2>4. /\ R("w_listen") = 0 /\ B("w_listen") = 1 /\ R("w_bit") = 0 /\ B("w_bit") = 0
        /\ "w_listen" \in MutexPoints /\ "w_bit" \in MutexPoints /\ "w_listen" \in Points
    BY Groups
  <2>5. state + 1 = state + 2 * (R("w_listen") - R(pc[t])) + (B("w_listen") - B(pc[t]))
        /\ ~(R("w_listen") > R(pc[t])) /\ state + 1 \in Int
    BY <1>1, <2>1, <2>4
  <2> QED
    BY <2>1, <2>3, <2>4, <2>5, WordStep
<1>3. CASE WriteListen(t)
  BY <1>1, <1>3, Groups, Quiet DEF WriteListen
<1>4. CASE WriteCheck(t)
  <2>1. pc[t] \in {"w_check", "upgrading"} /\ UNCHANGED <<state, mutex, no_readers, no_writer>>
    BY <1>4 DEF WriteCheck
  <2>2. CASE state = WRITER_BIT /\ Goto(t, "writing")
    <3>1. /\ R("writing") = 0 /\ B("writing") = 1 /\ R(pc[t]) = 0 /\ B(pc[t]) = 1
          /\ "writing" \in MutexPoints /\ pc[t] \in MutexPoints /\ "writing" \in Points
      BY <2>1, Groups
    <3>2. state = state + 2 * (R("writing") - R(pc[t])) + (B("writing") - B(pc[t]))
          /\ ~(R("writing") > R(pc[t])) /\ state = 2 * R(pc[t]) + B(pc[t])
      BY <1>1, <2>2, <3>1 DEF WRITER_BIT
    <3> QED
      BY <1>1, <2>1, <2>2, <3>1, <3>2, WordStep
  <2>3. CASE Goto(t, "w_wait") \/ Goto(t, "w_listen")
    BY <1>1, <2>1, <2>3, Groups, Quiet
  <2> QED
    BY <1>4, <2>2, <2>3 DEF WriteCheck
<1>5. CASE WriteWake(t)
  BY <1>1, <1>5, Groups, Quiet DEF WriteWake
<1>6. CASE TryWriteCas(t)
  <2>1. pc[t] = "tw_cas" /\ UNCHANGED <<mutex, no_readers, no_writer>>
    BY <1>6 DEF TryWriteCas
  <2>2. CASE state = 0 /\ state' = WRITER_BIT /\ Goto(t, "writing")
    <3>1. /\ R("writing") = 0 /\ B("writing") = 1 /\ R(pc[t]) = 0 /\ B(pc[t]) = 0
          /\ "writing" \in MutexPoints /\ pc[t] \in MutexPoints /\ "writing" \in Points
      BY <2>1, Groups
    <3>2. 1 = state + 2 * (R("writing") - R(pc[t])) + (B("writing") - B(pc[t]))
          /\ ~(R("writing") > R(pc[t])) /\ state = 2 * R(pc[t]) + B(pc[t]) /\ state' = 1
      BY <2>2, <3>1 DEF WRITER_BIT
    <3> QED
      BY <2>1, <2>2, <3>1, <3>2, WordStep
  <2>3. CASE Goto(t, "mutex_unlock") /\ UNCHANGED state
    BY <1>1, <2>1, <2>3, Groups, Quiet
  <2> QED
    BY <1>6, <2>2, <2>3 DEF TryWriteCas
<1> QED
  BY <1>2, <1>3, <1>4, <1>5, <1>6

\* The bit is set while its owner is at one of its points.
LEMMA BitIsSet ==
  ASSUME IInv, NEW t \in Task, pc[t] \in BitPoints
  PROVE  HasWriterBit(state) /\ (ClearBit => state' = state - 1)
<1>1. t \in In(BitPoints)
  BY DEF In
<1>2. state = 2 * Cardinality(Counted) + 1 /\ Cardinality(Counted) \in Nat
  BY <1>1, FewReaders DEF IInv, WordInv, ONE_READER, WRITER_BIT
<1> QED
  BY <1>2 DEF ClearBit, HasWriterBit, WRITER_BIT

\* Guards that are dropped.
LEMMA ReleaseSteps ==
  ASSUME IInv, NEW t \in Task,
         ReadUnlock(t) \/ UpgradableUnlock(t) \/ WriteUnlock(t) \/ NotifyNoReaders(t)
           \/ NotifyNoWriter(t) \/ DowngradeMutexUnlock(t)
  PROVE  IInv'
<1> USE DEF At
<1>1. /\ state \in Int /\ no_readers \in EventOf(Task) /\ no_writer \in EventOf(Task)
      /\ Notify(no_readers, 1) \in EventOf(Task) /\ Notify(no_writer, 1) \in EventOf(Task)
  BY EventSteps DEF IInv, TypeOK
<1>2. CASE ReadUnlock(t)
  <2>1. PICK p \in {"ru_notify", "idle"} : Goto(t, p)
    BY <1>2 DEF ReadUnlock
  <2>2. pc[t] = "reading" /\ state' = Wrap(state - 2) /\ UNCHANGED <<mutex, no_readers, no_writer>>
    BY <1>2 DEF ReadUnlock, ONE_READER
  <2>3. /\ R(p) = 0 /\ B(p) = 0 /\ R(pc[t]) = 1 /\ B(pc[t]) = 0 /\ p # "writing"
        /\ p \notin MutexPoints /\ pc[t] \notin MutexPoints /\ p \in Points
    BY <2>1, <2>2, Groups
  <2>4. state - 2 = state + 2 * (R(p) - R(pc[t])) + (B(p) - B(pc[t])) /\ ~(R(p) > R(pc[t]))
    BY <1>1, <2>3
  <2> QED
    BY <1>1, <2>1, <2>2, <2>3, <2>4, WordStep
<1>3. CASE UpgradableUnlock(t)
  <2>1. PICK p \in {"uu_notify", "mutex_unlock"} : Goto(t, p)
    BY <1>3 DEF UpgradableUnlock
  <2>2. pc[t] = "up_read" /\ state' = Wrap(state - 2) /\ UNCHANGED <<mutex, no_readers, no_writer>>
    BY <1>3 DEF UpgradableUnlock, ONE_READER
  <2>3. /\ R(p) = 0 /\ B(p) = 0 /\ R(pc[t]) = 1 /\ B(pc[t]) = 0 /\ p # "writing"
        /\ p \in MutexPoints /\ pc[t] \in MutexPoints /\ p \in Points
    BY <2>1, <2>2, Groups
  <2>4. state - 2 = state + 2 * (R(p) - R(pc[t])) + (B(p) - B(pc[t])) /\ ~(R(p) > R(pc[t]))
    BY <1>1, <2>3
  <2> QED
    BY <1>1, <2>1, <2>2, <2>3, <2>4, WordStep
<1>4. ASSUME pc[t] \in {"writing", "w_wait", "upgrading"}, ClearBit, Goto(t, "wu_notify"),
             UNCHANGED <<mutex, no_readers, no_writer>>
      PROVE  IInv'
  <2>1. /\ R("wu_notify") = 0 /\ B("wu_notify") = 0 /\ R(pc[t]) = 0 /\ B(pc[t]) = 1
        /\ "wu_notify" \in MutexPoints /\ pc[t] \in MutexPoints /\ "wu_notify" \in Points
        /\ pc[t] \in BitPoints
    BY <1>4, Groups
  <2>2. /\ state - 1 = state + 2 * (R("wu_notify") - R(pc[t])) + (B("wu_notify") - B(pc[t]))
        /\ ~(R("wu_notify") > R(pc[t])) /\ state' = state - 1
    BY <1>1, <1>4, <2>1, BitIsSet
  <2> QED
    BY <1>1, <1>4, <2>1, <2>2, WordStep
<1>5. CASE WriteUnlock(t)
  BY <1>4, <1>5 DEF WriteUnlock
<1>6. CASE NotifyNoReaders(t)
  BY <1>1, <1>6, Groups, Quiet DEF NotifyNoReaders
<1>7. CASE NotifyNoWriter(t)
  BY <1>1, <1>7, Groups, Quiet DEF NotifyNoWriter
<1>8. CASE DowngradeMutexUnlock(t)
  <2>1. pc[t] = "dw_mutex" /\ Goto(t, "dw_notify") /\ mutex' = {}
    BY <1>8 DEF DowngradeMutexUnlock
  <2> QED
    BY <1>8, <2>1, Groups, GiveBackStep DEF DowngradeMutexUnlock
<1> QED
  BY <1>2, <1>3, <1>5, <1>6, <1>7, <1>8

\* Write and upgradable guards that are downgraded.
LEMMA DowngradeSteps ==
  ASSUME IInv, NEW t \in Task,
         DowngradeWrite(t) \/ DowngradeToUpgradable(t) \/ DowngradeUpgradable(t)
  PROVE  IInv'
<1> USE DEF At
<1>1. state \in Int
  BY DEF IInv, TypeOK
<1>2. ASSUME NEW p \in {"dw_mutex", "up_read"}, Goto(t, p), pc[t] = "writing",
             state' = Wrap(state + 1), UNCHANGED <<mutex, no_readers, no_writer>>
      PROVE  IInv'
  <2>1. /\ R(p) = 1 /\ B(p) = 0 /\ R(pc[t]) = 0 /\ B(pc[t]) = 1 /\ p # "writing"
        /\ p \in MutexPoints /\ pc[t] \in MutexPoints /\ p \in Points
    BY <1>2, Groups
  <2>2. state + 1 = state + 2 * (R(p) - R(pc[t])) + (B(p) - B(pc[t]))
    BY <1>1, <2>1
  <2> QED
    BY <1>1, <1>2, <2>1, <2>2, WordStep
<1>3. CASE DowngradeWrite(t)
  BY <1>2, <1>3 DEF DowngradeWrite, ONE_READER, WRITER_BIT
<1>4. CASE DowngradeToUpgradable(t)
  BY <1>2, <1>4 DEF DowngradeToUpgradable, ONE_READER, WRITER_BIT
<1>5. CASE DowngradeUpgradable(t)
  <2>1. pc[t] = "up_read" /\ Goto(t, "reading") /\ mutex' = {}
    BY <1>5 DEF DowngradeUpgradable
  <2> QED
    BY <1>5, <2>1, Groups, GiveBackStep DEF DowngradeUpgradable
<1> QED
  BY <1>3, <1>4, <1>5

\* Futures that are dropped.
LEMMA DropSteps ==
  ASSUME IInv, NEW t \in Task, Cancel(t) \/ CancelWrite(t) \/ DropFuture(t)
  PROVE  IInv'
<1> USE DEF At
<1>1. state \in Int /\ no_readers \in EventOf(Task) /\ no_writer \in EventOf(Task)
  BY DEF IInv, TypeOK
<1>2. CASE Cancel(t)
  BY <1>1, <1>2, Groups, PlainStep DEF Cancel
<1>3. CASE CancelWrite(t)
  <2>1. /\ pc[t] \in {"w_wait", "upgrading"} /\ ClearBit /\ Goto(t, "wu_notify")
        /\ UNCHANGED <<mutex, no_readers, no_writer>>
    BY <1>3 DEF CancelWrite
  <2>2. /\ R("wu_notify") = 0 /\ B("wu_notify") = 0 /\ R(pc[t]) = 0 /\ B(pc[t]) = 1
        /\ "wu_notify" \in MutexPoints /\ pc[t] \in MutexPoints /\ "wu_notify" \in Points
        /\ pc[t] \in BitPoints
    BY <2>1, Groups
  <2>3. /\ state - 1 = state + 2 * (R("wu_notify") - R(pc[t])) + (B("wu_notify") - B(pc[t]))
        /\ ~(R("wu_notify") > R(pc[t])) /\ state' = state - 1
    BY <1>1, <2>1, <2>2, BitIsSet
  <2> QED
    BY <1>1, <2>1, <2>2, <2>3, WordStep
<1>4. CASE DropFuture(t)
  <2>1. no_readers' \in EventOf(Task) /\ no_writer' \in EventOf(Task)
    BY <1>1, <1>4, EventSteps DEF DropFuture
  <2> QED
    BY <1>4, <2>1
    DEF DropFuture, IInv, TypeOK, WordInv, MutexInv, WriterExclusive, Room, Counted, In
<1> QED
  BY <1>2, <1>3, <1>4

----------------------------------------------------------------------------
\* The lock starts with no reader, no writer and a free mutex.
LEMMA Initially == Init => IInv
<1> SUFFICES ASSUME Init PROVE IInv
  OBVIOUS
<1>1. /\ Counted = {} /\ In(BitPoints) = {} /\ In(MutexPoints) = {} /\ In({"writing"}) = {}
      /\ In({"up_inc"}) = {}
  BY Groups DEF Init, Counted, In
<1>2. TypeOK
  <2>1. NewEvent \in EventOf(Task)
    BY NewEventType
  <2>2. 0 \in 0..MAX
    BY RwLockAssumption
  <2>3. [t \in Task |-> "idle"] \in [Task -> Points]
    BY DEF Points
  <2> QED
    BY <2>1, <2>2, <2>3 DEF Init, TypeOK
<1> QED
  BY <1>1, <1>2, FS_EmptySet, WordSize
  DEF Init, IInv, WordInv, MutexInv, WriterExclusive, Room, ONE_READER

\* Every step of every task keeps the invariant.
LEMMA Inductive == IInv /\ [Next]_vars => IInv'
<1> SUFFICES ASSUME IInv, [Next]_vars PROVE IInv'
  OBVIOUS
<1>1. CASE Next
  BY <1>1, ReaderSteps, UpgradableSteps, WriterSteps, ReleaseSteps, DowngradeSteps, DropSteps
  DEF Next, Begin, Poll, Release, Change
<1>2. CASE UNCHANGED vars
  BY <1>2 DEF vars, IInv, TypeOK, WordInv, MutexInv, WriterExclusive, Room, Counted, In
<1> QED
  BY <1>1, <1>2

\* The inductive invariant holds in every reachable state.
THEOREM Invariant == Spec => []IInv
BY Initially, Inductive, PTL DEF Spec

\* Every variable stays in its type.
THEOREM TypeCorrect == Spec => []TypeOK
<1>1. IInv => TypeOK
  BY DEF IInv
<1> QED
  BY <1>1, Invariant, PTL

\* The state word is always twice the number of read guards plus the writer's bit
\* (rwlock/raw.rs:36-43).
THEOREM WordExact == Spec => []WordInv
<1>1. IInv => WordInv
  BY DEF IInv
<1> QED
  BY <1>1, Invariant, PTL

\* The word has room for whoever adds to it, and holds what guards subtract from it.
LEMMA WordFits ==
  ASSUME IInv
  PROVE  /\ ~TooManyReaders(state) \/ In({"up_inc"}) # {}
              => Wrap(state + ONE_READER) = state + ONE_READER
         /\ In({"writing"}) # {} => Wrap(state + 1) = state + 1
         /\ \A t \in Counted : Wrap(state - 1) = state - 1 /\ Wrap(state - 2) = state - 2
<1> DEFINE c == Cardinality(Counted)
           b == IF In(BitPoints) = {} THEN 0 ELSE 1
<1>1. state = 2 * c + b /\ b \in {0, 1} /\ c \in Nat /\ IsFiniteSet(Counted) /\ state \in 0..MAX
  BY FewReaders DEF IInv, TypeOK, WordInv, ONE_READER, WRITER_BIT
<1>2. ~TooManyReaders(state) => Wrap(state + ONE_READER) = state + ONE_READER
  BY <1>1, WordSize DEF TooManyReaders, Half, Wrap, ONE_READER
<1>3. In({"up_inc"}) # {} => Wrap(state + ONE_READER) = state + ONE_READER
  <2>1. In({"up_inc"}) # {} => 2 * c <= Half + 1
    BY DEF IInv, Room
  <2> QED
    BY <1>1, <2>1, WordSize DEF Wrap, ONE_READER
<1>4. In({"writing"}) # {} => Wrap(state + 1) = state + 1
  <2>1. In({"writing"}) # {} => c = 0
    BY FS_EmptySet DEF IInv, WriterExclusive
  <2> QED
    BY <1>1, <2>1, WordSize DEF Wrap
<1>5. ASSUME NEW t \in Counted PROVE Wrap(state - 1) = state - 1 /\ Wrap(state - 2) = state - 2
  <2>1. c # 0
    BY <1>1, <1>5, FS_EmptySet
  <2> QED
    BY <1>1, <2>1, WordSize DEF Wrap
<1> QED
  BY <1>2, <1>3, <1>4, <1>5

\* No operation wraps the state word, however many guards are alive or were forgotten:
\* the aborts at isize::MAX keep readers from overflowing into nothing, also the
\* increment of an upgradable reader, which does not look at the number again, and the
\* fetch_sub of guards finds what it subtracts (rwlock/raw.rs:72, 113-127, 190-199,
\* 214-233, 241-256, 311-323, 381-397).
THEOREM WordNeverWraps == Spec => NeverWraps
<1>1. ASSUME IInv, [Next]_vars PROVE state' - state \in (-ONE_READER)..ONE_READER
  <2>1. state \in 0..MAX /\ MAX \in Nat
    BY <1>1, WordSize DEF IInv, TypeOK
  <2>2. ASSUME NEW d \in (-2)..2, state' = state + d
        PROVE  state' - state \in (-ONE_READER)..ONE_READER
    BY <2>1, <2>2 DEF ONE_READER
  <2>3. CASE UNCHANGED vars
    BY <2>1, <2>2, <2>3 DEF vars
  <2>4. ASSUME NEW t \in Task,
               \/ Begin(t) \/ Granted(t) \/ Poll(t) \/ Release(t) \/ Change(t)
               \/ Cancel(t) \/ CancelWrite(t) \/ DropFuture(t)
        PROVE  state' - state \in (-ONE_READER)..ONE_READER
    <3>1. CASE ReadCas(t) \/ TryReadCas(t)
      <4>1. CASE HasWriterBit(state) \/ TooManyReaders(state)
        BY <2>1, <2>2, <3>1, <4>1 DEF ReadCas, TryReadCas, Attempt
      <4>2. CASE ~(HasWriterBit(state) \/ TooManyReaders(state))
        BY <1>1, <2>1, <2>2, <3>1, <4>2, WordFits DEF ReadCas, TryReadCas, ONE_READER
      <4> QED
        BY <4>1, <4>2
    <3>2. CASE UpIncrement(t)
      <4>1. t \in In({"up_inc"}) /\ state' = Wrap(state + ONE_READER)
        BY <3>2 DEF UpIncrement, At, In
      <4> QED
        BY <1>1, <2>1, <2>2, <4>1, WordFits DEF ONE_READER
    <3>3. CASE Upgrade(t) \/ ReadUnlock(t) \/ UpgradableUnlock(t)
      <4>1. t \in Counted /\ state' \in {Wrap(state - 1), Wrap(state - 2)}
        BY <3>3
        DEF Upgrade, ReadUnlock, UpgradableUnlock, At, Counted, In, CountedPoints, ONE_READER,
            WRITER_BIT
      <4> QED
        BY <1>1, <2>1, <2>2, <4>1, WordFits
    <3>4. CASE DowngradeWrite(t) \/ DowngradeToUpgradable(t)
      <4>1. t \in In({"writing"}) /\ state' = Wrap(state + 1)
        BY <3>4 DEF DowngradeWrite, DowngradeToUpgradable, At, In, ONE_READER, WRITER_BIT
      <4> QED
        BY <1>1, <2>1, <2>2, <4>1, WordFits
    <3>5. CASE \/ TryUpgrade(t) \/ WriteBit(t) \/ TryWriteCas(t) \/ WriteUnlock(t)
               \/ CancelWrite(t)
      BY <2>1, <2>2, <3>5
      DEF TryUpgrade, WriteBit, TryWriteCas, WriteUnlock, CancelWrite, ClearBit, ONE_READER,
          WRITER_BIT
    <3>6. CASE \/ Begin(t) \/ Granted(t) \/ ReadListen(t) \/ ReadReload(t) \/ ReadWake(t)
               \/ ReadChain(t) \/ UpLoad(t) \/ WriteListen(t) \/ WriteCheck(t) \/ WriteWake(t)
               \/ NotifyNoReaders(t) \/ NotifyNoWriter(t) \/ DowngradeMutexUnlock(t)
               \/ MutexUnlock(t) \/ DowngradeUpgradable(t) \/ Cancel(t) \/ DropFuture(t)
      <4>1. state' = state
        BY <3>6
        DEF Begin, StartRead, StartTryRead, StartLock, TryLock, Attempt, Granted, ReadListen,
            ReadReload, ReadWake, ReadChain, UpLoad, WriteListen, WriteCheck, WriteWake,
            NotifyNoReaders, NotifyNoWriter, DowngradeMutexUnlock, MutexUnlock,
            DowngradeUpgradable, Cancel, DropFuture
      <4> QED
        BY <2>1, <2>2, <4>1
    <3> QED
      BY <2>4, <3>1, <3>2, <3>3, <3>4, <3>5, <3>6 DEF Poll, Release, Change
  <2> QED
    BY <1>1, <2>3, <2>4 DEF Next
<1>2. IInv /\ [Next]_vars => [state' - state \in (-ONE_READER)..ONE_READER]_vars
  BY <1>1
<1> QED
  BY <1>2, Invariant, PTL DEF Spec, NeverWraps

\* The forgotten guard of the inner mutex is released exactly once, by the
\* operation that owns it (rwlock/raw.rs:108, 154, 219-220, 259-260, 273-275).
THEOREM MutexOwnership == Spec => []MutexInv
<1>1. IInv => MutexInv
  BY DEF IInv
<1> QED
  BY <1>1, Invariant, PTL

\* A write guard excludes all other guards (rwlock.rs:18-19).
THEOREM Exclusion == Spec => []WriterExclusive
<1>1. IInv => WriterExclusive
  BY DEF IInv
<1> QED
  BY <1>1, Invariant, PTL

----------------------------------------------------------------------------
(* The lock implements the write-preferring reader-writer lock *)

\* The groups that the refinement maps to readers and to the waiting writer.
SharedPoints == {"reading", "dw_mutex", "dw_notify"}
IntentPoints == BitPoints \ {"writing"}

Shared     == In(SharedPoints)
Upgradable == In({"up_read"})
Intent     == In(IntentPoints)
Writer     == In({"writing"})

\* Where one task is after a step, and the others as before.
LEMMA Regrouped ==
  ASSUME pc \in [Task -> Points], NEW t \in Task, NEW p \in Points, Goto(t, p)
  PROVE  /\ Shared' = IF p \in SharedPoints THEN Shared \cup {t} ELSE Shared \ {t}
         /\ Upgradable' = IF p = "up_read" THEN Upgradable \cup {t} ELSE Upgradable \ {t}
         /\ Intent' = IF p \in IntentPoints THEN Intent \cup {t} ELSE Intent \ {t}
         /\ Writer' = IF p = "writing" THEN Writer \cup {t} ELSE Writer \ {t}
BY DEF Shared, Upgradable, Intent, Writer, In, Goto

\* The group of a task is that of its control point.
LEMMA Membership ==
  ASSUME NEW t \in Task
  PROVE  /\ t \in Shared <=> pc[t] \in SharedPoints
         /\ t \in Upgradable <=> pc[t] = "up_read"
         /\ t \in Intent <=> pc[t] \in IntentPoints
         /\ t \in Writer <=> pc[t] = "writing"
BY DEF Shared, Upgradable, Intent, Writer, In

\* A step that leaves every task in its group is a stuttering step of the promise.
LEMMA SameGroups ==
  ASSUME TypeOK, NEW t \in Task, NEW p \in Points, Goto(t, p),
         p \in SharedPoints <=> pc[t] \in SharedPoints,
         p = "up_read" <=> pc[t] = "up_read",
         p \in IntentPoints <=> pc[t] \in IntentPoints,
         p = "writing" <=> pc[t] = "writing"
  PROVE  UNCHANGED Promise!vars
<1>1. pc \in [Task -> Points]
  BY DEF TypeOK
<1>2. /\ Shared' = IF p \in SharedPoints THEN Shared \cup {t} ELSE Shared \ {t}
      /\ Upgradable' = IF p = "up_read" THEN Upgradable \cup {t} ELSE Upgradable \ {t}
      /\ Intent' = IF p \in IntentPoints THEN Intent \cup {t} ELSE Intent \ {t}
      /\ Writer' = IF p = "writing" THEN Writer \cup {t} ELSE Writer \ {t}
  BY <1>1, Regrouped
<1>3. Shared' = Shared
  BY <1>2, Membership
<1>4. Upgradable' = Upgradable
  BY <1>2, Membership
<1>5. Intent' = Intent
  BY <1>2, Membership
<1>6. Writer' = Writer
  BY <1>2, Membership
<1> QED
  BY <1>3, <1>4, <1>5, <1>6 DEF Promise!vars, Shared, Upgradable, Intent, Writer, SharedPoints, IntentPoints

\* Who else can be where, for the owner of the inner mutex and without a writer bit.
LEMMA Alone ==
  ASSUME IInv
  PROVE  /\ ~HasWriterBit(state) => Intent = {} /\ Writer = {}
         /\ \A t \in Task : pc[t] \in MutexPoints =>
              /\ Upgradable \subseteq {t} /\ Intent \subseteq {t} /\ Writer \subseteq {t}
         /\ state < ONE_READER => Shared = {} /\ Upgradable = {}
         /\ \A t \in Task : state = ONE_READER /\ pc[t] = "up_read" => Shared = {}
<1>1. Intent \subseteq In(BitPoints) /\ Writer \subseteq In(BitPoints)
  BY DEF Intent, Writer, IntentPoints, BitPoints, In
<1>2. In(BitPoints) \subseteq In(MutexPoints) /\ Upgradable \subseteq In(MutexPoints)
  BY DEF Upgradable, MutexPoints, In
<1>3. Shared \subseteq Counted /\ Upgradable \subseteq Counted
  BY DEF Shared, SharedPoints, Upgradable, Counted, CountedPoints, In
<1>4. ASSUME NEW t \in Task, pc[t] \in MutexPoints
      PROVE  Upgradable \subseteq {t} /\ Intent \subseteq {t} /\ Writer \subseteq {t}
  <2>1. t \in In(MutexPoints)
    BY <1>4 DEF In
  <2> QED
    BY <1>1, <1>2, <2>1, WordMeaning
<1>5. ASSUME NEW t \in Task, state = ONE_READER, pc[t] = "up_read"
      PROVE  Shared = {}
  <2>1. Counted = {t}
    BY <1>5, WordMeaning DEF Counted, CountedPoints, In
  <2>2. t \notin Shared
    BY <1>5 DEF Shared, SharedPoints, In
  <2> QED
    BY <1>3, <2>1, <2>2
<1> QED
  BY <1>1, <1>3, <1>4, <1>5, WordMeaning

\* The promise in terms of the groups.
LEMMA PromiseSteps ==
  ASSUME NEW t \in Task
  PROVE
  /\ (/\ t \notin Shared \cup Upgradable \cup Intent \cup Writer /\ Writer = {} /\ Intent = {}
      /\ Shared' = Shared \cup {t} /\ UNCHANGED <<Upgradable, Intent, Writer>>) => Promise!Next
  /\ (/\ t \notin Shared \cup Upgradable \cup Intent \cup Writer /\ Writer = {} /\ Intent = {}
      /\ Upgradable = {} /\ Upgradable' = {t} /\ UNCHANGED <<Shared, Intent, Writer>>)
       => Promise!Next
  /\ (/\ Writer = {} /\ Intent = {} /\ Upgradable \in {{}, {t}} /\ t \notin Shared
      /\ Intent' = {t} /\ Upgradable' = {} /\ UNCHANGED <<Shared, Writer>>) => Promise!Next
  /\ (/\ Intent = {t} /\ Shared = {} /\ Writer' = {t} /\ Intent' = {}
      /\ UNCHANGED <<Shared, Upgradable>>) => Promise!Next
  /\ (/\ t \in Intent /\ Intent' = {} /\ UNCHANGED <<Shared, Upgradable, Writer>>)
       => Promise!Next
  /\ (/\ Writer = {} /\ Intent = {} /\ Upgradable \in {{}, {t}} /\ Shared = {}
      /\ Writer' = {t} /\ Upgradable' = {} /\ UNCHANGED <<Shared, Intent>>) => Promise!Next
  /\ (/\ t \in Writer \cup Upgradable /\ Shared' = Shared \cup {t} /\ Writer' = Writer \ {t}
      /\ Upgradable' = Upgradable \ {t} /\ UNCHANGED Intent) => Promise!Next
  /\ (/\ t \in Writer /\ Upgradable' = {t} /\ Writer' = {} /\ UNCHANGED <<Shared, Intent>>)
       => Promise!Next
  /\ (/\ t \in Shared \cup Upgradable \cup Writer /\ Shared' = Shared \ {t}
      /\ Writer' = Writer \ {t} /\ Upgradable' = Upgradable \ {t} /\ UNCHANGED Intent)
       => Promise!Next
<1> USE DEF Shared, Upgradable, Intent, Writer, SharedPoints, IntentPoints
<1>1. (/\ t \notin Shared \cup Upgradable \cup Intent \cup Writer /\ Writer = {} /\ Intent = {}
      /\ Shared' = Shared \cup {t} /\ UNCHANGED <<Upgradable, Intent, Writer>>) => Promise!Next
  BY DEF Promise!Next, Promise!Read, Promise!Idle, Promise!NoWriter
<1>2. (/\ t \notin Shared \cup Upgradable \cup Intent \cup Writer /\ Writer = {} /\ Intent = {}
      /\ Upgradable = {} /\ Upgradable' = {t} /\ UNCHANGED <<Shared, Intent, Writer>>)
       => Promise!Next
  BY DEF Promise!Next, Promise!ReadUpgradable, Promise!Idle, Promise!NoWriter, Promise!NoUpgradable
<1>3. (/\ Writer = {} /\ Intent = {} /\ Upgradable \in {{}, {t}} /\ t \notin Shared
      /\ Intent' = {t} /\ Upgradable' = {} /\ UNCHANGED <<Shared, Writer>>) => Promise!Next
  BY DEF Promise!Next, Promise!Announce, Promise!NoWriter
<1>4. (/\ Intent = {t} /\ Shared = {} /\ Writer' = {t} /\ Intent' = {}
      /\ UNCHANGED <<Shared, Upgradable>>) => Promise!Next
  BY DEF Promise!Next, Promise!Write
<1>5. (/\ t \in Intent /\ Intent' = {} /\ UNCHANGED <<Shared, Upgradable, Writer>>)
       => Promise!Next
  BY DEF Promise!Next, Promise!Withdraw
<1>6. (/\ Writer = {} /\ Intent = {} /\ Upgradable \in {{}, {t}} /\ Shared = {}
      /\ Writer' = {t} /\ Upgradable' = {} /\ UNCHANGED <<Shared, Intent>>) => Promise!Next
  BY DEF Promise!Next, Promise!WriteAtOnce, Promise!NoWriter
<1>7. (/\ t \in Writer \cup Upgradable /\ Shared' = Shared \cup {t} /\ Writer' = Writer \ {t}
      /\ Upgradable' = Upgradable \ {t} /\ UNCHANGED Intent) => Promise!Next
  BY DEF Promise!Next, Promise!Downgrade
<1>8. (/\ t \in Writer /\ Upgradable' = {t} /\ Writer' = {} /\ UNCHANGED <<Shared, Intent>>)
       => Promise!Next
  BY DEF Promise!Next, Promise!DowngradeToUpgradable
<1>9. (/\ t \in Shared \cup Upgradable \cup Writer /\ Shared' = Shared \ {t}
      /\ Writer' = Writer \ {t} /\ Upgradable' = Upgradable \ {t} /\ UNCHANGED Intent)
       => Promise!Next
  BY DEF Promise!Next, Promise!Release
<1> QED
  BY <1>1, <1>2, <1>3, <1>4, <1>5, <1>6, <1>7, <1>8, <1>9

\* Steps of readers and upgradable readers: they come in, or go on waiting.
LEMMA ReadersRefine ==
  ASSUME IInv, NEW t \in Task,
         Begin(t) \/ Granted(t) \/ ReadCas(t) \/ TryReadCas(t) \/ ReadListen(t)
           \/ ReadReload(t) \/ ReadWake(t) \/ ReadChain(t) \/ UpLoad(t) \/ UpIncrement(t)
  PROVE  [Promise!Next]_(Promise!vars)
<1> USE DEF At, Fresh
<1>1. TypeOK /\ pc \in [Task -> Points]
  BY DEF IInv, TypeOK
<1> DEFINE Out == {"idle", "up_lock", "w_lock", "up_load", "up_inc", "w_bit", "tw_cas"} \cup ReadPoints
<1>2. \A p \in Out : /\ p \in Points /\ p \notin SharedPoints /\ p # "up_read"
                     /\ p \notin IntentPoints /\ p # "writing"
  BY DEF Points, ReadPoints, UpPoints, WritePoints, SharedPoints, IntentPoints, BitPoints
<1>3. ASSUME NEW p \in Out, pc[t] \in Out, Goto(t, p)
      PROVE  UNCHANGED Promise!vars
  BY <1>1, <1>2, <1>3, SameGroups
<1>4. ASSUME Abort
      PROVE  UNCHANGED Promise!vars
  BY <1>4 DEF Abort, Promise!vars, In
<1>5. /\ "idle" \in Out /\ "up_lock" \in Out /\ "w_lock" \in Out /\ "up_load" \in Out
      /\ "up_inc" \in Out /\ "w_bit" \in Out /\ "tw_cas" \in Out /\ "read_listen" \in Out
      /\ "read_reload" \in Out /\ "read_cas" \in Out /\ "read_wait" \in Out
      /\ "read_chain" \in Out /\ "try_cas" \in Out /\ Blocked(t) \in Out
  BY DEF ReadPoints, Blocked
<1>6. ASSUME NEW p \in Out, pc[t] \in Out, Attempt(t, p)
      PROVE  UNCHANGED Promise!vars
  <2>1. CASE Goto(t, p) \/ Goto(t, "read_cas")
    BY <1>3, <1>5, <1>6, <2>1
  <2> QED
    BY <1>4, <1>6, <2>1 DEF Attempt
<1>7. ASSUME pc[t] \in Out, ~HasWriterBit(state), Goto(t, "reading")
      PROVE  Promise!Next
  <2>1. /\ "reading" \in SharedPoints /\ "reading" \in Points /\ "reading" \notin IntentPoints
    BY DEF SharedPoints, IntentPoints, BitPoints, Points
  <2>2. /\ Shared' = Shared \cup {t} /\ Upgradable' = Upgradable \ {t}
        /\ Intent' = Intent \ {t} /\ Writer' = Writer \ {t}
    BY <1>1, <1>7, <2>1, Regrouped
  <2>3. t \notin Shared \cup Upgradable \cup Intent \cup Writer
    BY <1>2, <1>7, Membership
  <2>4. Intent = {} /\ Writer = {}
    BY <1>7, Alone
  <2> QED
    BY <2>2, <2>3, <2>4, PromiseSteps
<1> HIDE DEF Out
<1>8. CASE StartRead(t)
  BY <1>5, <1>6, <1>8 DEF StartRead
<1>9. CASE StartTryRead(t)
  BY <1>3, <1>4, <1>5, <1>9 DEF StartTryRead
<1>10. CASE StartLock(t) \/ TryLock(t)
  BY <1>3, <1>5, <1>10 DEF StartLock, TryLock
<1>11. CASE Granted(t)
  BY <1>3, <1>5, <1>11 DEF Granted
<1>12. CASE ReadCas(t) \/ TryReadCas(t)
  BY <1>5, <1>6, <1>7, <1>12 DEF ReadCas, TryReadCas
<1>13. CASE ReadListen(t) \/ ReadWake(t) \/ ReadChain(t)
  BY <1>3, <1>5, <1>13 DEF ReadListen, ReadWake, ReadChain
<1>14. CASE ReadReload(t)
  BY <1>5, <1>6, <1>14 DEF ReadReload
<1>15. CASE UpLoad(t)
  BY <1>3, <1>4, <1>5, <1>15 DEF UpLoad
<1>16. CASE UpIncrement(t)
  <2>1. pc[t] = "up_inc" /\ Goto(t, "up_read")
    BY <1>16 DEF UpIncrement
  <2>2. /\ "up_read" \notin SharedPoints /\ "up_read" \in Points /\ "up_read" \notin IntentPoints
    BY DEF SharedPoints, IntentPoints, BitPoints, Points, UpPoints
  <2>3. /\ Shared' = Shared \ {t} /\ Upgradable' = Upgradable \cup {t}
        /\ Intent' = Intent \ {t} /\ Writer' = Writer \ {t}
    BY <1>1, <2>1, <2>2, Regrouped
  <2>4. t \notin Shared /\ t \notin Upgradable /\ t \notin Intent /\ t \notin Writer
    BY <1>2, <1>5, <2>1, Membership
  <2>5. Upgradable \subseteq {t} /\ Intent \subseteq {t} /\ Writer \subseteq {t}
    BY <2>1, Groups, Alone
  <2>6. Upgradable = {} /\ Intent = {} /\ Writer = {}
    BY <2>4, <2>5
  <2> QED
    BY <2>3, <2>4, <2>6, PromiseSteps
<1> QED
  BY <1>8, <1>9, <1>10, <1>11, <1>12, <1>13, <1>14, <1>15, <1>16 DEF Begin

\* Steps of upgrades and writers: they announce themselves, and write.
LEMMA WritersRefine ==
  ASSUME IInv, NEW t \in Task,
         TryUpgrade(t) \/ Upgrade(t) \/ WriteBit(t) \/ WriteListen(t) \/ WriteCheck(t)
           \/ WriteWake(t) \/ TryWriteCas(t)
  PROVE  [Promise!Next]_(Promise!vars)
<1> USE DEF At
<1>1. TypeOK /\ pc \in [Task -> Points] /\ state \in Int
  BY DEF IInv, TypeOK
<1>2. /\ \A p \in {"w_listen", "w_check", "w_wait", "upgrading"} :
            p \in Points /\ p \notin SharedPoints /\ p # "up_read" /\ p \in IntentPoints
              /\ p # "writing" /\ p \in MutexPoints
      /\ \A p \in {"w_bit", "tw_cas", "mutex_unlock"} :
            p \in Points /\ p \notin SharedPoints /\ p # "up_read" /\ p \notin IntentPoints
              /\ p # "writing" /\ p \in MutexPoints
      /\ \A p \in {"writing", "up_read"} :
            p \in Points /\ p \notin SharedPoints /\ p \notin IntentPoints /\ p \in MutexPoints
  BY Groups DEF SharedPoints, IntentPoints, BitPoints
<1>3. ASSUME NEW p \in {"w_listen", "w_check", "w_wait", "upgrading"}, Goto(t, p),
             pc[t] \in {"w_listen", "w_check", "w_wait", "upgrading"}
      PROVE  UNCHANGED Promise!vars
  BY <1>1, <1>2, <1>3, SameGroups
<1>4. ASSUME NEW p \in {"w_listen", "upgrading"}, Goto(t, p), pc[t] \in {"w_bit", "up_read"}
      PROVE  Promise!Next
  <2>1. /\ Shared' = Shared \ {t} /\ Upgradable' = Upgradable \ {t}
        /\ Intent' = Intent \cup {t} /\ Writer' = Writer \ {t}
    BY <1>1, <1>2, <1>4, Regrouped
  <2>2. t \notin Shared /\ t \notin Intent /\ t \notin Writer
    BY <1>2, <1>4, Membership
  <2>3. Upgradable \subseteq {t} /\ Intent \subseteq {t} /\ Writer \subseteq {t}
    BY <1>2, <1>4, Alone
  <2>4. Intent = {} /\ Writer = {} /\ Upgradable \in {{}, {t}}
    BY <2>2, <2>3
  <2> QED
    BY <2>1, <2>2, <2>4, PromiseSteps
<1>5. ASSUME Goto(t, "writing"), pc[t] \in {"tw_cas", "up_read"}, Shared = {}
      PROVE  Promise!Next
  <2>1. /\ Shared' = Shared \ {t} /\ Upgradable' = Upgradable \ {t}
        /\ Intent' = Intent \ {t} /\ Writer' = Writer \cup {t}
    BY <1>1, <1>2, <1>5, Regrouped
  <2>2. t \notin Intent /\ t \notin Writer
    BY <1>2, <1>5, Membership
  <2>3. Upgradable \subseteq {t} /\ Intent \subseteq {t} /\ Writer \subseteq {t}
    BY <1>2, <1>5, Alone
  <2>4. Intent = {} /\ Writer = {} /\ Upgradable \in {{}, {t}}
    BY <2>2, <2>3
  <2> QED
    BY <1>5, <2>1, <2>2, <2>4, PromiseSteps
<1>6. CASE TryUpgrade(t)
  BY <1>5, <1>6, Alone DEF TryUpgrade
<1>7. CASE Upgrade(t)
  BY <1>4, <1>7 DEF Upgrade
<1>8. CASE WriteBit(t)
  <2>1. pc[t] = "w_bit"
    BY <1>8 DEF WriteBit
  <2>2. state # WRITER_BIT
    <3>1. t \in In(MutexPoints) /\ t \notin In(BitPoints) /\ In(BitPoints) \subseteq In(MutexPoints)
      BY <2>1, Groups DEF In, MutexPoints
    <3>2. In(BitPoints) = {}
      BY <3>1, WordMeaning
    <3> QED
      BY <1>1, <3>2, FewReaders DEF IInv, WordInv, ONE_READER, WRITER_BIT
  <2> QED
    BY <1>4, <1>8, <2>1, <2>2 DEF WriteBit
<1>9. CASE WriteListen(t)
  BY <1>3, <1>9 DEF WriteListen
<1>10. CASE WriteCheck(t)
  <2>1. pc[t] \in {"w_check", "upgrading"}
    BY <1>10 DEF WriteCheck
  <2>2. CASE Goto(t, "w_wait") \/ Goto(t, "w_listen")
    BY <1>3, <2>1, <2>2
  <2>3. CASE state = WRITER_BIT /\ Goto(t, "writing")
    <3>1. /\ Shared' = Shared \ {t} /\ Upgradable' = Upgradable \ {t}
          /\ Intent' = Intent \ {t} /\ Writer' = Writer \cup {t}
      BY <1>1, <1>2, <2>3, Regrouped
    <3>2. t \in Intent /\ t \notin Writer /\ t \notin Upgradable
      BY <1>2, <2>1, Membership
    <3>3. Upgradable \subseteq {t} /\ Intent \subseteq {t} /\ Writer \subseteq {t}
      BY <1>2, <2>1, Alone
    <3>4. Shared = {}
      BY <2>3, Alone DEF WRITER_BIT, ONE_READER
    <3>5. /\ Intent = {t} /\ Writer' = {t} /\ Intent' = {}
          /\ Shared' = Shared /\ Upgradable' = Upgradable
      BY <3>1, <3>2, <3>3, <3>4
    <3> QED
      BY <3>4, <3>5, PromiseSteps
  <2> QED
    BY <1>10, <2>2, <2>3 DEF WriteCheck
<1>11. CASE WriteWake(t)
  BY <1>3, <1>11 DEF WriteWake
<1>12. CASE TryWriteCas(t)
  <2>1. pc[t] = "tw_cas"
    BY <1>12 DEF TryWriteCas
  <2>2. CASE state = 0 /\ Goto(t, "writing")
    BY <1>5, <2>1, <2>2, Alone DEF ONE_READER
  <2>3. CASE Goto(t, "mutex_unlock")
    BY <1>1, <1>2, <2>1, <2>3, SameGroups
  <2> QED
    BY <1>12, <2>2, <2>3 DEF TryWriteCas
<1> QED
  BY <1>6, <1>7, <1>8, <1>9, <1>10, <1>11, <1>12

\* Steps of guards and dropped futures: they leave, step down, or withdraw.
LEMMA GuardsRefine ==
  ASSUME IInv, NEW t \in Task,
         Release(t) \/ DowngradeWrite(t) \/ DowngradeToUpgradable(t) \/ DowngradeUpgradable(t)
           \/ Cancel(t) \/ CancelWrite(t) \/ DropFuture(t)
  PROVE  [Promise!Next]_(Promise!vars)
<1> USE DEF At
<1>1. TypeOK /\ pc \in [Task -> Points]
  BY DEF IInv, TypeOK
<1> DEFINE Gone == {"idle", "read_wait", "up_lock", "w_lock", "mutex_unlock"}
                     \cup {"ru_notify", "uu_notify", "wu_notify"}
<1>2. /\ \A p \in Gone : p \in Points /\ p \notin SharedPoints /\ p # "up_read"
                           /\ p \notin IntentPoints /\ p # "writing"
      /\ \A p \in SharedPoints : p \in Points /\ p # "up_read" /\ p \notin IntentPoints
                                   /\ p # "writing"
      /\ \A p \in {"writing", "up_read"} :
            p \in Points /\ p \notin SharedPoints /\ p \notin IntentPoints /\ p \in MutexPoints
      /\ \A p \in {"w_wait", "upgrading"} :
            p \notin SharedPoints /\ p # "up_read" /\ p \in IntentPoints /\ p # "writing"
              /\ p \in MutexPoints
      /\ "reading" \in SharedPoints /\ "dw_mutex" \in SharedPoints /\ "dw_notify" \in SharedPoints
  BY Groups DEF SharedPoints, IntentPoints, BitPoints
<1>3. ASSUME NEW p \in Gone, Goto(t, p), pc[t] \in Gone PROVE UNCHANGED Promise!vars
  BY <1>1, <1>2, <1>3, SameGroups
<1>4. ASSUME NEW p \in SharedPoints, Goto(t, p), pc[t] \in SharedPoints
      PROVE  UNCHANGED Promise!vars
  BY <1>1, <1>2, <1>4, SameGroups
<1>5. ASSUME NEW p \in Gone, Goto(t, p), pc[t] \in {"reading", "up_read", "writing"}
      PROVE  Promise!Next
  <2>1. /\ Shared' = Shared \ {t} /\ Upgradable' = Upgradable \ {t}
        /\ Intent' = Intent \ {t} /\ Writer' = Writer \ {t}
    BY <1>1, <1>2, <1>5, Regrouped
  <2>2. t \in Shared \cup Upgradable \cup Writer
    BY <1>2, <1>5, Membership
  <2>3. t \notin Intent
    BY <1>2, <1>5, Membership
  <2> QED
    BY <2>1, <2>2, <2>3, PromiseSteps
<1>6. ASSUME NEW p \in SharedPoints, Goto(t, p), pc[t] \in {"up_read", "writing"}
      PROVE  Promise!Next
  <2>1. /\ Shared' = Shared \cup {t} /\ Upgradable' = Upgradable \ {t}
        /\ Intent' = Intent \ {t} /\ Writer' = Writer \ {t}
    BY <1>1, <1>2, <1>6, Regrouped
  <2>2. t \in Writer \cup Upgradable
    BY <1>2, <1>6, Membership
  <2>3. t \notin Intent
    BY <1>2, <1>6, Membership
  <2> QED
    BY <2>1, <2>2, <2>3, PromiseSteps
<1> HIDE DEF Gone
<1>7. /\ "idle" \in Gone /\ "mutex_unlock" \in Gone /\ "ru_notify" \in Gone
      /\ "uu_notify" \in Gone /\ "wu_notify" \in Gone /\ "read_wait" \in Gone
      /\ "up_lock" \in Gone /\ "w_lock" \in Gone
  BY DEF Gone
<1>8. CASE ReadUnlock(t) \/ UpgradableUnlock(t) \/ WriteUnlock(t)
  BY <1>5, <1>7, <1>8 DEF ReadUnlock, UpgradableUnlock, WriteUnlock
<1>9. CASE NotifyNoReaders(t) \/ MutexUnlock(t) \/ Cancel(t)
  BY <1>3, <1>7, <1>9 DEF NotifyNoReaders, MutexUnlock, Cancel
<1>10. CASE NotifyNoWriter(t)
  BY <1>2, <1>3, <1>4, <1>7, <1>10 DEF NotifyNoWriter
<1>11. CASE DowngradeMutexUnlock(t)
  BY <1>2, <1>4, <1>11 DEF DowngradeMutexUnlock
<1>12. CASE DowngradeWrite(t) \/ DowngradeUpgradable(t)
  BY <1>2, <1>6, <1>12 DEF DowngradeWrite, DowngradeUpgradable
<1>13. CASE DowngradeToUpgradable(t)
  <2>1. pc[t] = "writing" /\ Goto(t, "up_read")
    BY <1>13 DEF DowngradeToUpgradable
  <2>2. /\ Shared' = Shared \ {t} /\ Upgradable' = Upgradable \cup {t}
        /\ Intent' = Intent \ {t} /\ Writer' = Writer \ {t}
    BY <1>1, <1>2, <2>1, Regrouped
  <2>3. t \notin Shared /\ t \notin Intent /\ t \notin Upgradable /\ t \in Writer
    BY <1>2, <2>1, Membership
  <2>4. Upgradable \subseteq {t} /\ Writer \subseteq {t}
    BY <1>2, <2>1, Alone
  <2>5. /\ Upgradable' = {t} /\ Writer' = {} /\ Shared' = Shared /\ Intent' = Intent
    BY <2>2, <2>3, <2>4
  <2> QED
    BY <2>3, <2>5, PromiseSteps
<1>14. CASE CancelWrite(t)
  <2>1. pc[t] \in {"w_wait", "upgrading"} /\ Goto(t, "wu_notify")
    BY <1>14 DEF CancelWrite
  <2>2. /\ Shared' = Shared \ {t} /\ Upgradable' = Upgradable \ {t}
        /\ Intent' = Intent \ {t} /\ Writer' = Writer \ {t}
    BY <1>1, <1>2, <1>7, <2>1, Regrouped
  <2>3. t \notin Shared /\ t \in Intent /\ t \notin Upgradable /\ t \notin Writer
    BY <1>2, <2>1, Membership
  <2>4. Intent \subseteq {t}
    BY <1>2, <2>1, Alone
  <2>5. /\ Intent' = {} /\ Shared' = Shared /\ Upgradable' = Upgradable /\ Writer' = Writer
    BY <2>2, <2>3, <2>4
  <2> QED
    BY <2>3, <2>5, PromiseSteps
<1>15. CASE DropFuture(t)
  BY <1>15 DEF DropFuture, Promise!vars, In
<1> QED
  BY <1>8, <1>9, <1>10, <1>11, <1>12, <1>13, <1>14, <1>15 DEF Release

\* Every behaviour of the lock is one of the write-preferring reader-writer lock:
\* above all, no reader gets in once a writer has set its bit (rwlock.rs:21).
THEOREM Refinement == Spec => ImplementsRwLock
<1>1. Init => Promise!Init
  BY DEF Init, Promise!Init, In, BitPoints
<1>2. IInv /\ [Next]_vars => [Promise!Next]_(Promise!vars)
  <2>1. SUFFICES ASSUME IInv, [Next]_vars PROVE [Promise!Next]_(Promise!vars)
    OBVIOUS
  <2>2. CASE Next
    BY <2>1, <2>2, ReadersRefine, WritersRefine, GuardsRefine DEF Next, Poll, Change
  <2>3. CASE UNCHANGED vars
    BY <2>3 DEF vars, Promise!vars, In
  <2> QED
    BY <2>1, <2>2, <2>3
<1> QED
  BY <1>1, <1>2, Invariant, PTL DEF Spec, ImplementsRwLock, Promise!Spec
----------------------------------------------------------------------------
(* Nobody sleeps who should not *)

\* Where an operation has no listener of "no readers" yet, and where one is about
\* to notify, or to pass on, that there is no writer.
UnlistenedPoints == {"w_lock", "w_bit", "w_listen"}
TellPoints       == {"wu_notify", "dw_mutex", "dw_notify", "read_chain"}

\* An operation registers one listener at a time, so a listener is in its list once.
Registered ==
  /\ WellFormed(no_readers) /\ WellFormed(no_writer)
  /\ \A t \in Task : pc[t] \in UnlistenedPoints => t \notin Listeners(no_readers)
  /\ \A t \in Task : pc[t] = "read_listen" => t \notin Listeners(no_writer)

WakeInv == Registered /\ NoSleepingWriter

\* The control points that NoSleepingWriter and Registered speak about.
LEMMA WakePoints ==
  /\ UnlistenedPoints \subseteq Points /\ TellPoints \subseteq Points
  /\ TellPoints \cap BitPoints = {}
  /\ {"w_wait", "read_wait", "read_listen", "ru_notify"} \subseteq Points
BY DEF UnlistenedPoints, TellPoints, Points, ReadPoints, UpPoints, WritePoints, ReleasePoints,
       BitPoints

\* What the operations on events do to the listeners of an event.
LEMMA EventMembers ==
  ASSUME NEW e \in EventOf(Task), WellFormed(e), NEW t \in Task
  PROVE  /\ t \notin Listeners(e) =>
              /\ WellFormed(Listen(e, t)) /\ Listen(e, t).notified = e.notified
              /\ Asleep(Listen(e, t)) = Asleep(e) \cup {t}
              /\ Listeners(Listen(e, t)) = Listeners(e) \cup {t}
         /\ WellFormed(Notify(e, 1)) /\ Listeners(Notify(e, 1)) = Listeners(e)
         /\ Asleep(Notify(e, 1)) # {} => Notify(e, 1).notified # {}
         /\ t \in e.notified =>
              WellFormed(Consume(e, t)) /\ Listeners(Consume(e, t)) = Listeners(e) \ {t}
         /\ t \in Listeners(e) =>
              /\ WellFormed(DropListener(e, t))
              /\ Listeners(DropListener(e, t)) = Listeners(e) \ {t}
              /\ Asleep(DropListener(e, t)) \subseteq Asleep(e)
              /\ Asleep(DropListener(e, t)) # {} /\ e.notified # {}
                   => DropListener(e, t).notified # {}
<1>1. 1 \in Nat /\ 1 > 0 /\ IsFiniteSet(Task)
  BY RwLockAssumption
<1>2. t \notin Listeners(e) =>
        /\ WellFormed(Listen(e, t)) /\ Listen(e, t).notified = e.notified
        /\ Asleep(Listen(e, t)) = Asleep(e) \cup {t}
        /\ Listeners(Listen(e, t)) = Listeners(e) \cup {t}
  BY ListenMembers DEF Listeners
<1>3. /\ WellFormed(Notify(e, 1)) /\ Listeners(Notify(e, 1)) = Listeners(e)
      /\ Asleep(Notify(e, 1)) # {} => Notify(e, 1).notified # {}
  <2>1. /\ WellFormed(Notify(e, 1)) /\ Listeners(Notify(e, 1)) = Listeners(e)
        /\ Listeners(e) # {} => Notify(e, 1).notified # {}
    BY <1>1, NotifyMembers
  <2> QED
    BY <2>1 DEF Listeners
<1>4. t \in e.notified =>
        WellFormed(Consume(e, t)) /\ Listeners(Consume(e, t)) = Listeners(e) \ {t}
  BY ConsumeMembers
<1>5. ASSUME t \in Listeners(e)
      PROVE  /\ WellFormed(DropListener(e, t))
             /\ Listeners(DropListener(e, t)) = Listeners(e) \ {t}
             /\ Asleep(DropListener(e, t)) \subseteq Asleep(e)
             /\ Asleep(DropListener(e, t)) # {} /\ e.notified # {}
                  => DropListener(e, t).notified # {}
  <2>1. /\ WellFormed(DropListener(e, t))
        /\ Asleep(DropListener(e, t)) \in SUBSET Asleep(e)
        /\ Listeners(DropListener(e, t)) = Listeners(e) \ {t}
        /\ e.notified \ {t} \in SUBSET DropListener(e, t).notified
        /\ (t \in e.notified /\ Listeners(e) # {t}) => DropListener(e, t).notified # {}
    BY <1>1, <1>5, DropListenerMembers
  <2>2. ASSUME Asleep(DropListener(e, t)) # {} PROVE Listeners(e) # {t}
    BY <2>1, <2>2 DEF Listeners
  <2> QED
    BY <2>1, <2>2
<1> QED
  BY <1>2, <1>3, <1>4, <1>5

\* A step that moves one task keeps the listeners registered once, provided that it
\* registers at most its own and not where it has none.
LEMMA RegisteredStep ==
  ASSUME IInv, Registered, NEW t \in Task, NEW p \in Points, Goto(t, p),
         WellFormed(no_readers'), WellFormed(no_writer'),
         Listeners(no_readers') \subseteq Listeners(no_readers) \cup {t},
         Listeners(no_writer') \subseteq Listeners(no_writer) \cup {t},
         p \in UnlistenedPoints => t \notin Listeners(no_readers'),
         p = "read_listen" => t \notin Listeners(no_writer')
  PROVE  Registered'
<1>1. pc \in [Task -> Points]
  BY DEF IInv, TypeOK
<1>2. \A u \in Task : pc'[u] = IF u = t THEN p ELSE pc[u]
  BY <1>1 DEF Goto
<1>3. ASSUME NEW u \in Task, pc'[u] \in UnlistenedPoints PROVE u \notin Listeners(no_readers')
  BY <1>2, <1>3 DEF Registered
<1>4. ASSUME NEW u \in Task, pc'[u] = "read_listen" PROVE u \notin Listeners(no_writer')
  BY <1>2, <1>4 DEF Registered
<1> QED
  BY <1>3, <1>4 DEF Registered, Listeners, Asleep, WellFormed

\* A step of the owner of the inner mutex leaves no writer asleep, unless it goes to
\* sleep itself, and then there are readers: only one writer waits at a time.
LEMMA OwnerStep ==
  ASSUME IInv, NEW t \in Task, NEW p \in Points, Goto(t, p), pc[t] \in MutexPoints,
         p = "w_wait" => state' # WRITER_BIT
  PROVE  NoSleepingWriter'
<1>1. pc \in [Task -> Points]
  BY DEF IInv, TypeOK
<1>2. CASE p = "w_wait"
  BY <1>2 DEF NoSleepingWriter
<1>3. CASE p # "w_wait"
  <2>1. In({"w_wait"})' = In({"w_wait"}) \ {t} /\ t \in In(MutexPoints)
    <3>1. pc'[t] = p /\ \A u \in Task \ {t} : pc'[u] = pc[u]
      BY <1>1 DEF Goto
    <3> QED
      BY <1>3, <3>1 DEF In
  <2>2. In({"w_wait"}) \subseteq In(MutexPoints)
    BY DEF In, MutexPoints, BitPoints
  <2>3. In({"w_wait"})' = {}
    BY <2>1, <2>2, WordMeaning
  <2> QED
    BY <2>3 DEF NoSleepingWriter
<1> QED
  BY <1>2, <1>3

\* A step of a task without it leaves the writer on somebody's way, unless it takes
\* the last reader out and does not go on to notify.
LEMMA BystanderStep ==
  ASSUME IInv, NoSleepingWriter, NEW t \in Task, NEW p \in Points, Goto(t, p),
         pc[t] \notin {"ru_notify", "uu_notify", "w_wait"}, p # "w_wait",
         state' = WRITER_BIT => state = WRITER_BIT \/ p = "ru_notify",
         UNCHANGED no_readers
  PROVE  NoSleepingWriter'
<1>1. pc \in [Task -> Points]
  BY DEF IInv, TypeOK
<1>2. pc'[t] = p /\ \A u \in Task \ {t} : pc'[u] = pc[u]
  BY <1>1 DEF Goto
<1>3. /\ In({"w_wait"})' = In({"w_wait"})
      /\ In({"ru_notify", "uu_notify"}) \subseteq In({"ru_notify", "uu_notify"})'
      /\ p = "ru_notify" => t \in In({"ru_notify", "uu_notify"})'
  BY <1>2 DEF In
<1>4. Asleep(no_readers)' = Asleep(no_readers) /\ (no_readers.notified)' = no_readers.notified
  BY DEF Asleep
<1> QED
  BY <1>3, <1>4 DEF NoSleepingWriter

\* Neither is disturbed when the process aborts.
LEMMA AbortWakes == WakeInv /\ Abort => WakeInv'
BY DEF Abort, WakeInv, Registered, NoSleepingWriter, WellFormed, Listeners, Asleep, In

\* A step that touches no event.
LEMMA SilentStep ==
  ASSUME IInv, WakeInv, NEW t \in Task, NEW p \in Points, Goto(t, p),
         UNCHANGED <<no_readers, no_writer>>,
         p \in UnlistenedPoints => t \notin Listeners(no_readers),
         p = "read_listen" => t \notin Listeners(no_writer),
         p = "w_wait" => state' # WRITER_BIT,
         pc[t] \in MutexPoints \/ (/\ pc[t] # "ru_notify" /\ p # "w_wait"
                                   /\ state' = WRITER_BIT => state = WRITER_BIT \/ p = "ru_notify")
  PROVE  WakeInv'
<1>1. Registered'
  <2>1. /\ WellFormed(no_readers') /\ WellFormed(no_writer')
        /\ Listeners(no_readers') = Listeners(no_readers)
        /\ Listeners(no_writer') = Listeners(no_writer)
    BY DEF WakeInv, Registered
  <2> QED
    BY <2>1, RegisteredStep DEF WakeInv
<1>2. CASE pc[t] \in MutexPoints
  BY <1>1, <1>2, OwnerStep DEF WakeInv
<1>3. CASE pc[t] \notin MutexPoints
  <2>1. pc[t] \notin {"ru_notify", "uu_notify", "w_wait"}
    BY <1>3 DEF MutexPoints, BitPoints
  <2> QED
    BY <1>1, <1>3, <2>1, BystanderStep DEF WakeInv
<1> QED
  BY <1>2, <1>3

\* An attempt to become a reader: a task that sleeps saw the writer's bit, and one
\* that is to listen has no listener.
LEMMA AttemptWakes ==
  ASSUME IInv, WakeInv, NEW t \in Task, NEW p \in Points, Attempt(t, p),
         pc[t] \in ReadPoints \cup {"idle"},
         p \in {"read_listen", "read_wait", "idle"},
         p = "read_listen" => t \notin Listeners(no_writer)
  PROVE  WakeInv'
<1>1. CASE Abort
  BY <1>1, AbortWakes
<1>2. ASSUME NEW q \in {p, "read_cas"}, Goto(t, q) PROVE WakeInv'
  <2>1. /\ q \in Points /\ q \notin UnlistenedPoints /\ q # "w_wait" /\ pc[t] # "ru_notify"
        /\ q = "read_listen" => t \notin Listeners(no_writer)
    BY DEF ReadPoints, Points, UnlistenedPoints
  <2>2. UNCHANGED <<state, no_readers, no_writer>>
    BY DEF Attempt
  <2> QED
    BY <1>2, <2>1, <2>2, SilentStep
<1> QED
  BY <1>1, <1>2 DEF Attempt

\* Blocked readers listen once.
LEMMA BlockedPoint ==
  ASSUME NEW t
  PROVE  /\ Blocked(t) \in Points /\ Blocked(t) \in {"read_listen", "read_wait", "idle"}
         /\ Blocked(t) = "read_listen" => t \notin Listeners(no_writer)
BY DEF Blocked, Points, ReadPoints

\* Readers, and calls that start.
LEMMA ReaderWakes ==
  ASSUME IInv, WakeInv, NEW t \in Task,
         Begin(t) \/ Granted(t) \/ ReadCas(t) \/ TryReadCas(t) \/ ReadListen(t)
           \/ ReadReload(t) \/ ReadWake(t) \/ ReadChain(t) \/ Cancel(t)
  PROVE  WakeInv'
<1> USE DEF At
<1>0. /\ no_readers \in EventOf(Task) /\ no_writer \in EventOf(Task) /\ state \in Nat
      /\ WellFormed(no_readers) /\ WellFormed(no_writer)
  BY DEF IInv, TypeOK, WakeInv, Registered
<1>1. CASE StartRead(t)
  BY <1>1, AttemptWakes DEF StartRead, Fresh, Points, ReadPoints
<1>2. CASE StartTryRead(t)
  <2>1. CASE Abort
    BY <2>1, AbortWakes
  <2>2. CASE Goto(t, "try_cas")
    BY <1>2, <2>2, SilentStep DEF StartTryRead, Fresh, Points, ReadPoints, UnlistenedPoints
  <2> QED
    BY <1>2, <2>1, <2>2 DEF StartTryRead
<1>3. CASE StartLock(t)
  <2>1. PICK p \in {"up_lock", "w_lock"} : Goto(t, p)
    BY <1>3 DEF StartLock
  <2>2. p \in Points /\ p # "w_wait" /\ p # "read_listen"
    BY DEF Points, UpPoints, WritePoints
  <2> QED
    BY <1>3, <2>1, <2>2, SilentStep DEF StartLock, Fresh
<1>4. CASE TryLock(t)
  <2>1. PICK p \in {"up_load", "tw_cas"} : Goto(t, p)
    BY <1>4 DEF TryLock
  <2>2. p \in Points /\ p # "w_wait" /\ p # "read_listen" /\ p \notin UnlistenedPoints
    BY DEF Points, UpPoints, WritePoints, UnlistenedPoints
  <2> QED
    BY <1>4, <2>1, <2>2, SilentStep DEF TryLock, Fresh
<1>5. CASE Granted(t)
  <2>1. CASE pc[t] = "up_lock" /\ Goto(t, "up_load")
    BY <1>5, <2>1, SilentStep DEF Granted, Points, UpPoints, UnlistenedPoints
  <2>2. CASE pc[t] = "w_lock" /\ Goto(t, "w_bit")
    <3>1. t \notin Listeners(no_readers)
      BY <2>2 DEF WakeInv, Registered, UnlistenedPoints
    <3> QED
      BY <1>5, <2>2, <3>1, SilentStep DEF Granted, Points, WritePoints
  <2> QED
    BY <1>5, <2>1, <2>2 DEF Granted
<1>6. CASE ReadCas(t) \/ TryReadCas(t)
  <2>1. CASE Attempt(t, Blocked(t)) \/ Attempt(t, "idle")
    BY <1>6, <2>1, AttemptWakes, BlockedPoint DEF ReadCas, TryReadCas, ReadPoints, Points
  <2>2. CASE ~(HasWriterBit(state) \/ TooManyReaders(state))
    <3>1. /\ Goto(t, "reading") /\ state' = Wrap(state + ONE_READER)
          /\ UNCHANGED <<no_readers, no_writer>>
      BY <1>6, <2>2 DEF ReadCas, TryReadCas
    <3>2. state' = state + ONE_READER
      BY <2>2, <3>1, WordFits
    <3>3. state' # WRITER_BIT
      BY <1>0, <3>2 DEF ONE_READER, WRITER_BIT
    <3> QED
      BY <1>6, <3>1, <3>3, SilentStep DEF ReadCas, TryReadCas, Points, UnlistenedPoints
  <2> QED
    BY <1>6, <2>1, <2>2 DEF ReadCas, TryReadCas
<1>7. CASE ReadListen(t)
  <2>1. /\ pc[t] = "read_listen" /\ no_writer' = Listen(no_writer, t) /\ Goto(t, "read_reload")
        /\ UNCHANGED <<state, no_readers>> /\ t \notin Listeners(no_writer)
    BY <1>7 DEF ReadListen, WakeInv, Registered
  <2>2. WellFormed(no_writer') /\ Listeners(no_writer') = Listeners(no_writer) \cup {t}
    BY <1>0, <2>1, EventMembers
  <2>3. Registered'
    BY <1>0, <2>1, <2>2, RegisteredStep DEF Points, ReadPoints, UnlistenedPoints, WakeInv
  <2>4. NoSleepingWriter'
    BY <2>1, BystanderStep DEF WakeInv, Points, ReadPoints
  <2> QED
    BY <2>3, <2>4 DEF WakeInv
<1>8. CASE ReadReload(t)
  BY <1>8, AttemptWakes, BlockedPoint DEF ReadReload, ReadPoints
<1>9. CASE ReadWake(t) \/ ReadChain(t)
  <2>1. /\ pc[t] \in {"read_wait", "read_chain"} /\ UNCHANGED <<state, no_readers>>
        /\ \E p \in {"read_chain", "read_reload"} : Goto(t, p)
    BY <1>9 DEF ReadWake, ReadChain
  <2>2. PICK p \in {"read_chain", "read_reload"} : Goto(t, p)
    BY <2>1
  <2>3. p \in Points /\ p \notin UnlistenedPoints /\ p # "read_listen" /\ p # "w_wait"
    BY DEF Points, ReadPoints, UnlistenedPoints
  <2>4. WellFormed(no_writer') /\ Listeners(no_writer') \subseteq Listeners(no_writer)
    BY <1>0, <1>9, EventMembers DEF ReadWake, ReadChain
  <2>5. Registered'
    BY <1>0, <2>1, <2>2, <2>3, <2>4, RegisteredStep DEF WakeInv
  <2>6. NoSleepingWriter'
    BY <2>1, <2>2, <2>3, BystanderStep DEF WakeInv
  <2> QED
    BY <2>5, <2>6 DEF WakeInv
<1>10. CASE Cancel(t)
  BY <1>10, SilentStep DEF Cancel, Points, UnlistenedPoints
<1> QED
  BY <1>1, <1>2, <1>3, <1>4, <1>5, <1>6, <1>7, <1>8, <1>9, <1>10 DEF Begin

\* Upgradable readers and writers own the inner mutex.
LEMMA WriterWakes ==
  ASSUME IInv, WakeInv, NEW t \in Task,
         UpLoad(t) \/ UpIncrement(t) \/ TryUpgrade(t) \/ Upgrade(t) \/ WriteBit(t)
           \/ WriteListen(t) \/ WriteCheck(t) \/ WriteWake(t) \/ TryWriteCas(t)
  PROVE  WakeInv'
<1> USE DEF At
<1>0. /\ no_readers \in EventOf(Task) /\ no_writer \in EventOf(Task)
      /\ WellFormed(no_readers) /\ WellFormed(no_writer)
  BY DEF IInv, TypeOK, WakeInv, Registered
<1>1. pc[t] \in MutexPoints
  BY DEF UpLoad, UpIncrement, TryUpgrade, Upgrade, WriteBit, WriteListen, WriteCheck, WriteWake,
         TryWriteCas, MutexPoints, BitPoints
<1>2. CASE UpLoad(t)
  <2>1. CASE Abort
    BY <2>1, AbortWakes
  <2>2. CASE Goto(t, "up_inc")
    BY <1>1, <1>2, <2>2, SilentStep DEF UpLoad, Points, UpPoints, UnlistenedPoints
  <2> QED
    BY <1>2, <2>1, <2>2 DEF UpLoad
<1>3. CASE UpIncrement(t) \/ TryUpgrade(t) \/ Upgrade(t) \/ TryWriteCas(t)
  <2>1. PICK p \in {"up_read", "writing", "upgrading", "mutex_unlock"} : Goto(t, p)
    BY <1>3 DEF UpIncrement, TryUpgrade, Upgrade, TryWriteCas
  <2>2. p \in Points /\ p \notin UnlistenedPoints /\ p # "read_listen" /\ p # "w_wait"
    BY DEF Points, UpPoints, WritePoints, ReleasePoints, UnlistenedPoints
  <2>3. UNCHANGED <<no_readers, no_writer>>
    BY <1>3 DEF UpIncrement, TryUpgrade, Upgrade, TryWriteCas
  <2> QED
    BY <1>1, <2>1, <2>2, <2>3, SilentStep
<1>4. CASE WriteBit(t)
  <2>1. PICK p \in {"writing", "w_listen"} : Goto(t, p)
    BY <1>4 DEF WriteBit
  <2>2. p \in Points /\ p # "read_listen" /\ p # "w_wait"
    BY DEF Points, WritePoints
  <2>3. t \notin Listeners(no_readers)
    BY <1>4 DEF WriteBit, WakeInv, Registered, UnlistenedPoints
  <2> QED
    BY <1>1, <1>4, <2>1, <2>2, <2>3, SilentStep DEF WriteBit
<1>5. CASE WriteListen(t)
  <2>1. /\ pc[t] = "w_listen" /\ no_readers' = Listen(no_readers, t) /\ Goto(t, "w_check")
        /\ UNCHANGED <<state, no_writer>> /\ t \notin Listeners(no_readers)
    BY <1>5 DEF WriteListen, WakeInv, Registered, UnlistenedPoints
  <2>2. WellFormed(no_readers') /\ Listeners(no_readers') = Listeners(no_readers) \cup {t}
    BY <1>0, <2>1, EventMembers
  <2>3. Registered'
    BY <1>0, <2>1, <2>2, RegisteredStep DEF Points, WritePoints, UnlistenedPoints, WakeInv
  <2>4. NoSleepingWriter'
    BY <1>1, <2>1, OwnerStep DEF Points, WritePoints
  <2> QED
    BY <2>3, <2>4 DEF WakeInv
<1>6. CASE WriteCheck(t)
  <2>1. PICK p \in {"writing", "w_wait", "w_listen"} :
          /\ Goto(t, p)
          /\ p = "w_wait" => state # WRITER_BIT
          /\ p = "w_listen" => t \notin Listeners(no_readers)
    BY <1>6 DEF WriteCheck
  <2>2. /\ p \in Points /\ p # "read_listen"
        /\ p \in UnlistenedPoints => p = "w_listen"
    BY DEF Points, WritePoints, UnlistenedPoints
  <2> QED
    BY <1>1, <1>6, <2>1, <2>2, SilentStep DEF WriteCheck
<1>7. CASE WriteWake(t)
  <2>1. /\ t \in no_readers.notified /\ no_readers' = Consume(no_readers, t)
        /\ Goto(t, "w_check") /\ UNCHANGED <<state, no_writer>>
    BY <1>7 DEF WriteWake
  <2>2. WellFormed(no_readers') /\ Listeners(no_readers') = Listeners(no_readers) \ {t}
    BY <1>0, <2>1, EventMembers
  <2>3. Registered'
    BY <1>0, <2>1, <2>2, RegisteredStep DEF Points, WritePoints, UnlistenedPoints, WakeInv
  <2>4. NoSleepingWriter'
    BY <1>1, <2>1, OwnerStep DEF Points, WritePoints
  <2> QED
    BY <2>3, <2>4 DEF WakeInv
<1> QED
  BY <1>2, <1>3, <1>4, <1>5, <1>6, <1>7

\* Guards and futures that are dropped: the reader that leaves the word at the bare
\* writer bit goes on to notify, and a dropped listener passes its notification on.
LEMMA GuardWakes ==
  ASSUME IInv, WakeInv, NEW t \in Task,
         Release(t) \/ DowngradeWrite(t) \/ DowngradeToUpgradable(t) \/ DowngradeUpgradable(t)
           \/ CancelWrite(t) \/ DropFuture(t)
  PROVE  WakeInv'
<1> USE DEF At
<1>0. /\ no_readers \in EventOf(Task) /\ no_writer \in EventOf(Task)
      /\ WellFormed(no_readers) /\ WellFormed(no_writer)
  BY DEF IInv, TypeOK, WakeInv, Registered
<1>1. CASE ReadUnlock(t)
  <2>1. /\ pc[t] = "reading" /\ state' = Wrap(state - 2)
        /\ UNCHANGED <<no_readers, no_writer>>
        /\ Goto(t, IF WasLastReader(state) THEN "ru_notify" ELSE "idle")
    BY <1>1 DEF ReadUnlock, ONE_READER
  <2>2. state \in 0..MAX /\ MAX \in Nat /\ state >= 2
    <3>1. Counted # {}
      BY <2>1 DEF Counted, In, CountedPoints
    <3> QED
      BY <3>1, WordMeaning, RwLockAssumption DEF IInv, TypeOK, ONE_READER
  <2>3. state' = WRITER_BIT => WasLastReader(state)
    BY <2>1, <2>2 DEF Wrap, WRITER_BIT, WasLastReader, ONE_READER
  <2> DEFINE p == IF WasLastReader(state) THEN "ru_notify" ELSE "idle"
  <2>4. /\ p \in Points /\ p \notin UnlistenedPoints /\ p # "read_listen" /\ p # "w_wait"
        /\ WasLastReader(state) => p = "ru_notify"
    BY DEF Points, ReleasePoints, UnlistenedPoints
  <2> HIDE DEF p
  <2>5. Goto(t, p)
    BY <2>1 DEF p
  <2> QED
    BY <2>1, <2>3, <2>4, <2>5, SilentStep
<1>2. CASE \/ UpgradableUnlock(t) \/ WriteUnlock(t) \/ DowngradeMutexUnlock(t) \/ MutexUnlock(t)
           \/ DowngradeWrite(t) \/ DowngradeToUpgradable(t) \/ DowngradeUpgradable(t)
           \/ CancelWrite(t)
  <2>1. pc[t] \in MutexPoints /\ UNCHANGED <<no_readers, no_writer>>
    BY <1>2 DEF UpgradableUnlock, WriteUnlock, DowngradeMutexUnlock, MutexUnlock, DowngradeWrite,
                DowngradeToUpgradable, DowngradeUpgradable, CancelWrite, MutexPoints, BitPoints
  <2>2. PICK p \in {"uu_notify", "mutex_unlock", "wu_notify", "dw_mutex", "dw_notify", "idle",
                    "up_read", "reading"} : Goto(t, p)
    BY <1>2 DEF UpgradableUnlock, WriteUnlock, DowngradeMutexUnlock, MutexUnlock, DowngradeWrite,
                DowngradeToUpgradable, DowngradeUpgradable, CancelWrite
  <2>3. p \in Points /\ p \notin UnlistenedPoints /\ p # "read_listen" /\ p # "w_wait"
    BY DEF Points, UpPoints, ReleasePoints, UnlistenedPoints
  <2> QED
    BY <2>1, <2>2, <2>3, SilentStep
<1>3. CASE NotifyNoReaders(t)
  <2>1. PICK p \in {"idle", "mutex_unlock"} : Goto(t, p)
    BY <1>3 DEF NotifyNoReaders
  <2>2. p \in Points /\ p \notin UnlistenedPoints /\ p # "read_listen"
    BY DEF Points, ReleasePoints, UnlistenedPoints
  <2>3. no_readers' = Notify(no_readers, 1) /\ UNCHANGED no_writer
    BY <1>3 DEF NotifyNoReaders
  <2>4. /\ WellFormed(no_readers') /\ Listeners(no_readers') = Listeners(no_readers)
        /\ Asleep(no_readers') # {} => no_readers'.notified # {}
    BY <1>0, <2>3, EventMembers
  <2>5. Registered'
    BY <1>0, <2>1, <2>2, <2>3, <2>4, RegisteredStep DEF WakeInv
  <2>6. NoSleepingWriter'
    BY <2>4 DEF NoSleepingWriter, Asleep
  <2> QED
    BY <2>5, <2>6 DEF WakeInv
<1>4. CASE NotifyNoWriter(t)
  <2>1. PICK p \in {"mutex_unlock", "reading"} : Goto(t, p)
    BY <1>4 DEF NotifyNoWriter
  <2>2. p \in Points /\ p \notin UnlistenedPoints /\ p # "read_listen" /\ p # "w_wait"
    BY DEF Points, ReleasePoints, UnlistenedPoints
  <2>3. /\ no_writer' = Notify(no_writer, 1) /\ UNCHANGED <<state, no_readers>>
        /\ pc[t] \in {"wu_notify", "dw_notify"}
    BY <1>4 DEF NotifyNoWriter
  <2>4. WellFormed(no_writer') /\ Listeners(no_writer') = Listeners(no_writer)
    BY <1>0, <2>3, EventMembers
  <2>5. Registered'
    BY <1>0, <2>1, <2>2, <2>3, <2>4, RegisteredStep DEF WakeInv
  <2>6. NoSleepingWriter'
    BY <2>1, <2>2, <2>3, BystanderStep DEF WakeInv
  <2> QED
    BY <2>5, <2>6 DEF WakeInv
<1>5. CASE DropFuture(t)
  <2>1. pc' = pc /\ UNCHANGED <<state, aborted>> /\ pc \in [Task -> Points]
    BY <1>5 DEF DropFuture, IInv, TypeOK
  <2>2. /\ WellFormed(no_readers') /\ WellFormed(no_writer')
        /\ Listeners(no_readers') \subseteq Listeners(no_readers)
        /\ Listeners(no_writer') \subseteq Listeners(no_writer)
        /\ Asleep(no_readers') \subseteq Asleep(no_readers)
        /\ Asleep(no_readers') # {} /\ no_readers.notified # {} => no_readers'.notified # {}
    BY <1>0, <1>5, EventMembers DEF DropFuture
  <2>3. Registered'
    <3>1. \A u \in Task : pc'[u] \in UnlistenedPoints => u \notin Listeners(no_readers')
      BY <2>1, <2>2 DEF WakeInv, Registered
    <3>2. \A u \in Task : pc'[u] = "read_listen" => u \notin Listeners(no_writer')
      BY <2>1, <2>2 DEF WakeInv, Registered
    <3> QED
      BY <2>2, <3>1, <3>2 DEF Registered, WellFormed, Listeners, Asleep
  <2>4. NoSleepingWriter'
    <3>1. In({"w_wait"})' = In({"w_wait"})
          /\ In({"ru_notify", "uu_notify"})' = In({"ru_notify", "uu_notify"})
      BY <2>1 DEF In
    <3> QED
      BY <2>1, <2>2, <3>1 DEF WakeInv, NoSleepingWriter, Asleep
  <2> QED
    BY <2>3, <2>4 DEF WakeInv
<1> QED
  BY <1>1, <1>2, <1>3, <1>4, <1>5 DEF Release

\* Listeners stay registered once and no writer is left asleep, in every reachable
\* state.
THEOREM WakeInvariant == Spec => []WakeInv
<1>1. Init => WakeInv
  BY NewEventMembers DEF Init, WakeInv, Registered, NoSleepingWriter, UnlistenedPoints
<1>2. IInv /\ WakeInv /\ [Next]_vars => WakeInv'
  <2> SUFFICES ASSUME IInv, WakeInv, [Next]_vars PROVE WakeInv'
    OBVIOUS
  <2>1. CASE Next
    BY <2>1, ReaderWakes, WriterWakes, GuardWakes DEF Next, Poll, Change
  <2>2. CASE UNCHANGED vars
    BY <2>2 DEF vars, WakeInv, Registered, NoSleepingWriter, WellFormed, Listeners, Asleep, In
  <2> QED
    BY <2>1, <2>2
<1> QED
  BY <1>1, <1>2, Invariant, PTL DEF Spec

\* Once the last reader left, a writer that sleeps is on somebody's way: the reader
\* that has yet to notify, or a listener that was notified (rwlock/raw.rs:240-260,
\* 449-511).
THEOREM WriterNotForgotten == Spec => []NoSleepingWriter
<1>1. WakeInv => NoSleepingWriter
  BY DEF WakeInv
<1> QED
  BY <1>1, WakeInvariant, PTL

----------------------------------------------------------------------------
(* No reader is left asleep, as long as nobody calls downgrade_to_upgradable *)

\* The word has the bit exactly while somebody owns it.
LEMMA BitOwned == IInv => (HasWriterBit(state) <=> In(BitPoints) # {})
<1> SUFFICES ASSUME IInv PROVE HasWriterBit(state) <=> In(BitPoints) # {}
  OBVIOUS
<1> DEFINE c == Cardinality(Counted)
<1>1. c \in Nat
  BY FewReaders
<1>2. CASE In(BitPoints) = {}
  <2>1. state = 2 * c
    BY <1>1, <1>2 DEF IInv, WordInv, ONE_READER
  <2> QED
    BY <1>1, <1>2, <2>1 DEF HasWriterBit, WRITER_BIT
<1>3. CASE In(BitPoints) # {}
  <2>1. state = 2 * c + 1
    BY <1>1, <1>3 DEF IInv, WordInv, ONE_READER, WRITER_BIT
  <2> QED
    BY <1>1, <1>3, <2>1 DEF HasWriterBit, WRITER_BIT
<1> QED
  BY <1>2, <1>3

\* A step that leaves the event alone keeps sleeping readers on somebody's way, if a
\* task that gives the bit up, or that was to notify, goes on to notify, and a task
\* that goes to sleep saw the bit.
LEMMA ReaderStep ==
  ASSUME IInv, IInv', NoSleepingReader, NEW t \in Task, NEW p \in Points, Goto(t, p),
         UNCHANGED no_writer,
         pc[t] \in BitPoints => p \in BitPoints \cup TellPoints,
         pc[t] \in TellPoints => p \in TellPoints,
         p = "read_wait" => HasWriterBit(state')
  PROVE  NoSleepingReader'
<1>1. pc \in [Task -> Points]
  BY DEF IInv, TypeOK
<1>2. pc'[t] = p /\ \A u \in Task \ {t} : pc'[u] = pc[u]
  BY <1>1 DEF Goto
<1>3. Asleep(no_writer)' = Asleep(no_writer) /\ (no_writer.notified)' = no_writer.notified
  BY DEF Asleep
<1>4. CASE p \in TellPoints
  <2>1. t \in In(TellPoints)'
    BY <1>2, <1>4 DEF In
  <2> QED
    BY <2>1 DEF NoSleepingReader, TellPoints
<1>5. CASE p \notin TellPoints
  <2>1. In(TellPoints) = In(TellPoints)' /\ In(BitPoints) \subseteq In(BitPoints)'
    BY <1>2, <1>5 DEF In
  <2>2. HasWriterBit(state) => HasWriterBit(state')
    <3>1. (IInv => (HasWriterBit(state) <=> In(BitPoints) # {}))'
      BY BitOwned, PTL
    <3> QED
      BY <2>1, <3>1, BitOwned DEF HasWriterBit
  <2>3. CASE p = "read_wait"
    BY <2>3 DEF NoSleepingReader, HasWriterBit
  <2>4. CASE p # "read_wait"
    <3>1. In({"read_wait"})' \subseteq In({"read_wait"})
      BY <1>2, <2>4 DEF In
    <3> QED
      BY <1>3, <2>1, <2>2, <3>1 DEF NoSleepingReader, TellPoints, HasWriterBit
  <2> QED
    BY <2>3, <2>4
<1> QED
  BY <1>4, <1>5

\* A task that sleeps as a reader saw the bit, and the word still has it.
LEMMA AttemptTells ==
  ASSUME IInv, IInv', NoSleepingReader, NEW t \in Task, NEW p \in Points, Attempt(t, p),
         pc[t] \in {"idle", "read_cas", "try_cas", "read_reload"}
  PROVE  NoSleepingReader'
<1>1. UNCHANGED <<state, no_writer>> /\ pc[t] \notin BitPoints \cup TellPoints
  BY DEF Attempt, BitPoints, TellPoints
<1>2. CASE Abort
  BY <1>2 DEF Abort, NoSleepingReader, HasWriterBit, Asleep, In
<1>3. CASE HasWriterBit(state) /\ Goto(t, p)
  BY <1>1, <1>3, ReaderStep DEF HasWriterBit
<1>4. CASE Goto(t, "read_cas")
  BY <1>1, <1>4, ReaderStep DEF Points, ReadPoints
<1> QED
  BY <1>2, <1>3, <1>4 DEF Attempt

\* The actions that leave "no writer" alone.
LEMMA QuietTells ==
  ASSUME IInv, IInv', NoSleepingReader, ~UsesDowngradeToUpgradable, NEW t \in Task,
         \/ Begin(t) \/ Granted(t) \/ ReadCas(t) \/ TryReadCas(t) \/ ReadReload(t) \/ UpLoad(t)
         \/ UpIncrement(t) \/ WriteBit(t) \/ WriteListen(t) \/ WriteCheck(t) \/ WriteWake(t)
         \/ TryWriteCas(t) \/ ReadUnlock(t) \/ UpgradableUnlock(t) \/ WriteUnlock(t)
         \/ NotifyNoReaders(t) \/ DowngradeMutexUnlock(t) \/ MutexUnlock(t) \/ Change(t)
         \/ Cancel(t) \/ CancelWrite(t)
  PROVE  NoSleepingReader'
<1> USE DEF At
<1>1. CASE Abort
  BY <1>1 DEF Abort, NoSleepingReader, HasWriterBit, Asleep, In
<1>2. CASE StartRead(t) \/ ReadReload(t)
  BY <1>2, AttemptTells, BlockedPoint DEF StartRead, Fresh, ReadReload, Points, ReadPoints
<1>3. CASE ReadCas(t) \/ TryReadCas(t)
  <2>1. CASE Attempt(t, Blocked(t)) \/ Attempt(t, "idle")
    BY <1>3, <2>1, AttemptTells, BlockedPoint DEF ReadCas, TryReadCas, Points
  <2>2. CASE Goto(t, "reading") /\ UNCHANGED no_writer
    BY <1>3, <2>2, ReaderStep DEF ReadCas, TryReadCas, Points, BitPoints, TellPoints
  <2> QED
    BY <1>3, <2>1, <2>2 DEF ReadCas, TryReadCas
<1>4. CASE StartTryRead(t) \/ StartLock(t) \/ TryLock(t)
  <2>1. pc[t] = "idle" /\ UNCHANGED no_writer
    BY <1>4 DEF StartTryRead, StartLock, TryLock, Fresh
  <2>2. Abort \/ \E p \in {"try_cas", "up_lock", "w_lock", "up_load", "tw_cas"} : Goto(t, p)
    BY <1>4 DEF StartTryRead, StartLock, TryLock
  <2> QED
    BY <1>1, <2>1, <2>2, ReaderStep
    DEF Points, ReadPoints, UpPoints, WritePoints, BitPoints, TellPoints
<1>5. CASE Granted(t) \/ UpLoad(t) \/ UpIncrement(t) \/ WriteBit(t) \/ TryWriteCas(t)
  <2>1. /\ pc[t] \in {"up_lock", "w_lock", "up_load", "up_inc", "w_bit", "tw_cas"}
        /\ UNCHANGED no_writer
    BY <1>5 DEF Granted, UpLoad, UpIncrement, WriteBit, TryWriteCas
  <2>2. \/ Abort
        \/ \E p \in {"up_load", "w_bit", "up_inc", "up_read", "writing", "w_listen",
                     "mutex_unlock"} : Goto(t, p)
    BY <1>5 DEF Granted, UpLoad, UpIncrement, WriteBit, TryWriteCas
  <2> QED
    BY <1>1, <2>1, <2>2, ReaderStep
    DEF Points, UpPoints, WritePoints, ReleasePoints, BitPoints, TellPoints
<1>6. CASE ReadUnlock(t) \/ UpgradableUnlock(t) \/ NotifyNoReaders(t) \/ MutexUnlock(t)
             \/ TryUpgrade(t) \/ Upgrade(t) \/ DowngradeUpgradable(t) \/ Cancel(t)
  <2>1. /\ pc[t] \in {"reading", "up_read", "ru_notify", "uu_notify", "mutex_unlock", "read_wait",
                      "up_lock", "w_lock"}
        /\ UNCHANGED no_writer
    BY <1>6 DEF ReadUnlock, UpgradableUnlock, NotifyNoReaders, MutexUnlock, TryUpgrade, Upgrade,
                DowngradeUpgradable, Cancel
  <2>2. \E p \in {"ru_notify", "idle", "uu_notify", "mutex_unlock", "writing", "upgrading",
                  "reading"} : Goto(t, p)
    BY <1>6 DEF ReadUnlock, UpgradableUnlock, NotifyNoReaders, MutexUnlock, TryUpgrade, Upgrade,
                DowngradeUpgradable, Cancel
  <2> QED
    BY <2>1, <2>2, ReaderStep DEF Points, WritePoints, ReleasePoints, BitPoints, TellPoints
<1>7. CASE WriteListen(t) \/ WriteCheck(t) \/ WriteWake(t) \/ WriteUnlock(t) \/ DowngradeWrite(t)
             \/ CancelWrite(t)
  <2>1. pc[t] \in BitPoints /\ UNCHANGED no_writer
    BY <1>7 DEF WriteListen, WriteCheck, WriteWake, WriteUnlock, DowngradeWrite, CancelWrite,
                BitPoints
  <2>2. \E p \in {"w_check", "writing", "w_wait", "w_listen", "wu_notify", "dw_mutex"} : Goto(t, p)
    BY <1>7 DEF WriteListen, WriteCheck, WriteWake, WriteUnlock, DowngradeWrite, CancelWrite
  <2> QED
    BY <2>1, <2>2, WakePoints, ReaderStep DEF Points, WritePoints, ReleasePoints, BitPoints, TellPoints
<1>8. CASE DowngradeMutexUnlock(t)
  BY <1>8, ReaderStep DEF DowngradeMutexUnlock, Points, ReleasePoints, BitPoints, TellPoints
<1> QED
  BY <1>2, <1>3, <1>4, <1>5, <1>6, <1>7, <1>8 DEF Begin, Change, DowngradeToUpgradable

\* The actions on "no writer": a woken reader passes the notification on, and so does
\* a listener that is dropped.
LEMMA EventTells ==
  ASSUME IInv, WakeInv, NoSleepingReader, NEW t \in Task,
         ReadListen(t) \/ ReadWake(t) \/ ReadChain(t) \/ NotifyNoWriter(t) \/ DropFuture(t)
  PROVE  NoSleepingReader'
<1> USE DEF At
<1>0. no_writer \in EventOf(Task) /\ WellFormed(no_writer) /\ pc \in [Task -> Points]
  BY DEF IInv, TypeOK, WakeInv, Registered
<1>1. CASE ReadListen(t)
  <2>1. /\ pc[t] = "read_listen" /\ no_writer' = Listen(no_writer, t) /\ UNCHANGED state
        /\ t \notin Listeners(no_writer) /\ Goto(t, "read_reload")
    BY <1>1 DEF ReadListen, WakeInv, Registered
  <2>2. no_writer'.notified = no_writer.notified /\ Asleep(no_writer') = Asleep(no_writer) \cup {t}
    BY <1>0, <2>1, EventMembers
  <2>3. In({"read_wait"})' = In({"read_wait"}) /\ t \notin In({"read_wait"})
        /\ In(TellPoints)' = In(TellPoints)
    <3>1. pc'[t] = "read_reload" /\ \A u \in Task \ {t} : pc'[u] = pc[u]
      BY <1>0, <2>1 DEF Goto
    <3> QED
      BY <2>1, <3>1 DEF In, TellPoints
  <2> QED
    BY <2>1, <2>2, <2>3 DEF NoSleepingReader, TellPoints, Asleep, HasWriterBit
<1>2. CASE ReadWake(t)
  <2>1. t \in In(TellPoints)'
    BY <1>0, <1>2 DEF ReadWake, Goto, In, TellPoints
  <2> QED
    BY <2>1 DEF NoSleepingReader, TellPoints
<1>3. CASE ReadChain(t) \/ NotifyNoWriter(t)
  <2>1. no_writer' = Notify(no_writer, 1)
    BY <1>3 DEF ReadChain, NotifyNoWriter
  <2>2. Asleep(no_writer') # {} => no_writer'.notified # {}
    BY <1>0, <2>1, EventMembers
  <2> QED
    BY <2>2 DEF NoSleepingReader, Asleep
<1>4. CASE DropFuture(t)
  <2>1. pc' = pc /\ UNCHANGED state
    BY <1>4 DEF DropFuture
  <2>2. /\ Asleep(no_writer') \subseteq Asleep(no_writer)
        /\ Asleep(no_writer') # {} /\ no_writer.notified # {} => no_writer'.notified # {}
    BY <1>0, <1>4, EventMembers DEF DropFuture
  <2>3. In({"read_wait"})' = In({"read_wait"}) /\ In(TellPoints)' = In(TellPoints)
    BY <2>1 DEF In
  <2> QED
    BY <2>1, <2>2, <2>3 DEF NoSleepingReader, TellPoints, Asleep, HasWriterBit
<1> QED
  BY <1>1, <1>2, <1>3, <1>4

\* Once there is no writer, a reader that sleeps is on somebody's way, unless some
\* write guard was downgraded to an upgradable one, which tells nobody
\* (rwlock/raw.rs:214-234, 267-276, 301-345, 417-440, 520-531).
THEOREM ReaderNotForgotten == Spec => [](~UsesDowngradeToUpgradable => NoSleepingReader)
<1> DEFINE Told == ~UsesDowngradeToUpgradable => NoSleepingReader
<1>1. Init => Told
  BY NewEventMembers DEF Init, NoSleepingReader
<1>2. IInv /\ WakeInv /\ Told /\ [Next]_vars => Told'
  <2> SUFFICES ASSUME IInv, WakeInv, NoSleepingReader, ~UsesDowngradeToUpgradable, [Next]_vars
               PROVE  NoSleepingReader'
    OBVIOUS
  <2>1. IInv'
    BY Inductive
  <2>2. CASE Next
    BY <2>1, <2>2, QuietTells, EventTells DEF Next, Poll, Release
  <2>3. CASE UNCHANGED vars
    BY <2>3 DEF vars, NoSleepingReader, HasWriterBit, Asleep, In
  <2> QED
    BY <2>2, <2>3
<1> QED
  BY <1>1, <1>2, Invariant, WakeInvariant, PTL DEF Spec

----------------------------------------------------------------------------
(* No deadlock *)

\* A future that returned Pending from the wait for readers, or for a writer, has its
\* listener in the list.
PendingListens == \A t \in Task :
  /\ pc[t] = "w_wait" => t \in Listeners(no_readers)
  /\ pc[t] = "read_wait" => t \in Listeners(no_writer)

\* A task moves, and takes no listener but its own out of a list.
LEMMA ListensStep ==
  ASSUME IInv, PendingListens, NEW t \in Task, NEW p, Goto(t, p),
         Listeners(no_readers) \ {t} \subseteq Listeners(no_readers'),
         Listeners(no_writer) \ {t} \subseteq Listeners(no_writer'),
         p = "w_wait" => t \in Listeners(no_readers'),
         p = "read_wait" => t \in Listeners(no_writer')
  PROVE  PendingListens'
<1>1. pc \in [Task -> Points]
  BY DEF IInv, TypeOK
<1>2. \A u \in Task : pc'[u] = IF u = t THEN p ELSE pc[u]
  BY <1>1 DEF Goto
<1>3. ASSUME NEW u \in Task
      PROVE  /\ pc'[u] = "w_wait" => u \in Listeners(no_readers')
             /\ pc'[u] = "read_wait" => u \in Listeners(no_writer')
  BY <1>2, <1>3 DEF PendingListens
<1> QED
  BY <1>3 DEF PendingListens, Listeners, Asleep

\* The steps that touch no list.
LEMMA QuietListens ==
  ASSUME IInv, PendingListens, NEW t \in Task, UNCHANGED <<no_readers, no_writer>>,
         \/ Begin(t) \/ Granted(t) \/ Poll(t) \/ Release(t) \/ Change(t)
         \/ Cancel(t) \/ CancelWrite(t)
  PROVE  PendingListens'
<1>1. ASSUME NEW p, Goto(t, p), p = "w_wait" => t \in Listeners(no_readers),
             p = "read_wait" => t \in Listeners(no_writer)
      PROVE  PendingListens'
  BY <1>1, ListensStep
<1>2. CASE Abort
  BY <1>2 DEF Abort, PendingListens, Listeners, Asleep
<1>3. ASSUME NEW p, Attempt(t, p), p \in {"read_listen", "idle", Blocked(t)} PROVE PendingListens'
  <2>1. p = "read_wait" => t \in Listeners(no_writer)
    BY <1>3 DEF Blocked
  <2>2. p # "w_wait"
    BY <1>3 DEF Blocked
  <2> QED
    BY <1>1, <1>2, <1>3, <2>1, <2>2 DEF Attempt
<1>4. CASE Begin(t) \/ Granted(t)
  BY <1>1, <1>2, <1>3, <1>4 DEF Begin, StartRead, StartTryRead, StartLock, TryLock, Granted
<1>5. CASE ReadCas(t) \/ TryReadCas(t) \/ ReadReload(t)
  BY <1>1, <1>3, <1>5 DEF ReadCas, TryReadCas, ReadReload
<1>6. CASE \/ ReadListen(t) \/ ReadWake(t) \/ ReadChain(t) \/ UpLoad(t) \/ UpIncrement(t)
  BY <1>1, <1>2, <1>6 DEF ReadListen, ReadWake, ReadChain, UpLoad, UpIncrement
<1>7. CASE WriteBit(t) \/ WriteListen(t) \/ WriteCheck(t) \/ WriteWake(t) \/ TryWriteCas(t)
  BY <1>1, <1>7 DEF WriteBit, WriteListen, WriteCheck, WriteWake, TryWriteCas
<1>8. CASE Release(t)
  BY <1>1, <1>8 DEF Release, ReadUnlock, UpgradableUnlock, WriteUnlock, NotifyNoReaders,
                    NotifyNoWriter, DowngradeMutexUnlock, MutexUnlock
<1>9. CASE Change(t)
  BY <1>1, <1>9 DEF Change, TryUpgrade, Upgrade, DowngradeWrite, DowngradeToUpgradable,
                    DowngradeUpgradable
<1>10. CASE Cancel(t) \/ CancelWrite(t)
  BY <1>1, <1>10 DEF Cancel, CancelWrite
<1> QED
  BY <1>4, <1>5, <1>6, <1>7, <1>8, <1>9, <1>10 DEF Poll

\* The steps that do.
LEMMA EventListens ==
  ASSUME IInv, Registered, PendingListens, NEW t \in Task,
         \/ ReadListen(t) \/ ReadWake(t) \/ ReadChain(t) \/ WriteListen(t) \/ WriteWake(t)
         \/ NotifyNoReaders(t) \/ NotifyNoWriter(t) \/ DropFuture(t)
  PROVE  PendingListens'
<1>1. /\ no_readers \in EventOf(Task) /\ no_writer \in EventOf(Task)
      /\ WellFormed(no_readers) /\ WellFormed(no_writer) /\ pc \in [Task -> Points]
  BY DEF IInv, TypeOK, Registered
<1>2. CASE ReadListen(t) \/ WriteListen(t)
  <2>1. /\ pc[t] = "read_listen" => t \notin Listeners(no_writer)
        /\ pc[t] = "w_listen" => t \notin Listeners(no_readers)
    BY DEF Registered, UnlistenedPoints
  <2>2. /\ Listeners(no_readers) \subseteq Listeners(no_readers')
        /\ Listeners(no_writer) \subseteq Listeners(no_writer')
    BY <1>1, <1>2, <2>1, EventMembers DEF ReadListen, WriteListen, At
  <2> QED
    BY <1>2, <2>2, ListensStep DEF ReadListen, WriteListen
<1>3. CASE ReadWake(t) \/ WriteWake(t)
  <2>1. /\ Listeners(no_readers) \ {t} \subseteq Listeners(no_readers')
        /\ Listeners(no_writer) \ {t} \subseteq Listeners(no_writer')
    BY <1>1, <1>3, EventMembers DEF ReadWake, WriteWake
  <2> QED
    BY <1>3, <2>1, ListensStep DEF ReadWake, WriteWake
<1>4. CASE ReadChain(t) \/ NotifyNoReaders(t) \/ NotifyNoWriter(t)
  <2>1. Listeners(no_readers') = Listeners(no_readers) /\ Listeners(no_writer') = Listeners(no_writer)
    BY <1>1, <1>4, EventMembers DEF ReadChain, NotifyNoReaders, NotifyNoWriter
  <2> QED
    BY <1>4, <2>1, ListensStep DEF ReadChain, NotifyNoReaders, NotifyNoWriter
<1>5. CASE DropFuture(t)
  <2>1. /\ Listeners(no_readers) \ {t} \subseteq Listeners(no_readers')
        /\ Listeners(no_writer) \ {t} \subseteq Listeners(no_writer')
    BY <1>1, <1>5, EventMembers DEF DropFuture
  <2>2. pc' = pc /\ pc[t] \in {"idle", "reading", "up_read", "writing"}
    BY <1>5 DEF DropFuture, At
  <2>3. ASSUME NEW u \in Task
        PROVE  /\ pc'[u] = "w_wait" => u \in Listeners(no_readers')
               /\ pc'[u] = "read_wait" => u \in Listeners(no_writer')
    BY <2>1, <2>2, <2>3 DEF PendingListens
  <2> QED
    BY <2>3 DEF PendingListens, Listeners, Asleep
<1> QED
  BY <1>2, <1>3, <1>4, <1>5

\* A future that sleeps is registered with the event that is to wake it
\* (rwlock/raw.rs:328-336, 473, 492-498, 560-566).
THEOREM PendingIsRegistered == Spec => []PendingListens
<1>1. Init => PendingListens
  BY DEF Init, PendingListens
<1>2. ASSUME IInv, WakeInv, PendingListens, [Next]_vars
      PROVE  PendingListens'
  <2>1. CASE UNCHANGED vars
    BY <1>2, <2>1 DEF vars, PendingListens, Listeners, Asleep
  <2>2. ASSUME NEW t \in Task,
               \/ ReadListen(t) \/ ReadWake(t) \/ ReadChain(t) \/ WriteListen(t) \/ WriteWake(t)
               \/ NotifyNoReaders(t) \/ NotifyNoWriter(t) \/ DropFuture(t)
        PROVE  PendingListens'
    BY <1>2, <2>2, EventListens DEF WakeInv
  <2>3. ASSUME NEW t \in Task,
               \/ Begin(t) \/ Granted(t) \/ ReadCas(t) \/ TryReadCas(t) \/ ReadReload(t)
               \/ UpLoad(t) \/ UpIncrement(t) \/ WriteBit(t) \/ WriteCheck(t) \/ TryWriteCas(t)
        PROVE  PendingListens'
    <3>1. UNCHANGED <<no_readers, no_writer>>
      BY <2>3 DEF Begin, StartRead, StartTryRead, StartLock, TryLock, Granted, ReadCas, TryReadCas,
                  ReadReload, UpLoad, UpIncrement, WriteBit, WriteCheck, TryWriteCas, Attempt
    <3> QED
      BY <1>2, <2>3, <3>1, QuietListens DEF Poll
  <2>4. ASSUME NEW t \in Task,
               \/ ReadUnlock(t) \/ UpgradableUnlock(t) \/ WriteUnlock(t)
               \/ DowngradeMutexUnlock(t) \/ MutexUnlock(t) \/ Change(t)
               \/ Cancel(t) \/ CancelWrite(t)
        PROVE  PendingListens'
    <3>1. UNCHANGED <<no_readers, no_writer>>
      BY <2>4 DEF ReadUnlock, UpgradableUnlock, WriteUnlock, DowngradeMutexUnlock, MutexUnlock,
                  Change, TryUpgrade, Upgrade, DowngradeWrite, DowngradeToUpgradable,
                  DowngradeUpgradable, Cancel, CancelWrite
    <3> QED
      BY <1>2, <2>4, <3>1, QuietListens DEF Release
  <2> QED
    BY <1>2, <2>1, <2>2, <2>3, <2>4 DEF Next, Poll, Release
<1> QED
  BY <1>1, <1>2, Invariant, WakeInvariant, PTL DEF Spec

\* No guard is alive, no notification is under way, each call has returned, or returned
\* Pending, and the inner mutex is not free for one that waits for it.
AtRest ==
  /\ no_readers.notified = {} /\ no_writer.notified = {}
  /\ \A t \in Task : pc[t] \in {"idle", "read_wait", "up_lock", "w_lock", "w_wait"}
  /\ mutex = {} => In({"up_lock", "w_lock"}) = {}

\* The lock does not deadlock: when nobody has anything left to do, nobody waits, unless
\* some write guard was downgraded to an upgradable one (rwlock/raw.rs, all paths).
THEOREM NobodyLeftWaiting ==
  Spec => [](AtRest /\ ~UsesDowngradeToUpgradable => \A t \in Task : pc[t] = "idle")
<1>1. ASSUME IInv, WakeInv, PendingListens, NoSleepingReader, AtRest
      PROVE  \A t \in Task : pc[t] = "idle"
  <2>1. In({"ru_notify", "uu_notify"}) = {} /\ In(TellPoints) = {} /\ Counted = {}
    BY <1>1 DEF AtRest, In, TellPoints, Counted, CountedPoints
  <2>2. In({"w_wait"}) = {}
    <3> SUFFICES ASSUME NEW t \in In({"w_wait"}) PROVE FALSE
      OBVIOUS
    <3>1. t \in Asleep(no_readers)
      BY <1>1 DEF PendingListens, AtRest, In, Listeners
    <3>2. t \in In(BitPoints) /\ Cardinality(Counted) = 0
      BY <2>1, FS_EmptySet DEF In, BitPoints
    <3>3. state = WRITER_BIT
      BY <1>1, <3>2 DEF IInv, WordInv, ONE_READER, WRITER_BIT
    <3> QED
      BY <1>1, <2>1, <3>1, <3>3 DEF WakeInv, NoSleepingWriter, AtRest
  <2>3. In(BitPoints) = {} /\ In(MutexPoints) = {}
    BY <1>1, <2>2 DEF AtRest, In, BitPoints, MutexPoints
  <2>4. In({"up_lock", "w_lock"}) = {}
    BY <1>1, <2>3 DEF AtRest, IInv, MutexInv
  <2>5. In({"read_wait"}) = {}
    <3> SUFFICES ASSUME NEW t \in In({"read_wait"}) PROVE FALSE
      OBVIOUS
    <3>1. t \in Asleep(no_writer)
      BY <1>1 DEF PendingListens, AtRest, In, Listeners
    <3>2. ~HasWriterBit(state)
      BY <1>1, <2>3, BitOwned
    <3> QED
      BY <1>1, <2>1, <3>1, <3>2 DEF NoSleepingReader, AtRest, TellPoints
  <2> QED
    BY <1>1, <2>2, <2>4, <2>5 DEF AtRest, In
<1>2. /\ IInv /\ WakeInv /\ PendingListens /\ (~UsesDowngradeToUpgradable => NoSleepingReader)
      => (AtRest /\ ~UsesDowngradeToUpgradable => \A t \in Task : pc[t] = "idle")
  BY <1>1
<1> QED
  BY <1>2, Invariant, WakeInvariant, PendingIsRegistered, ReaderNotForgotten, PTL

----------------------------------------------------------------------------
(* The abort *)

\* A caller that is not counted as a reader finds room in the word, or there are very
\* many callers.
LEMMA RoomForReader ==
  ASSUME IInv, NEW t \in Task, pc[t] \notin CountedPoints, TooManyReaders(state)
  PROVE  2 * Cardinality(Task) > MAX \div 2
<1>1. /\ Cardinality(Task) \in Nat /\ MAX \div 2 \in Int /\ state \in Int
      /\ Cardinality(Task \ {t}) = Cardinality(Task) - 1 /\ IsFiniteSet(Task \ {t})
  <2>1. MAX \in Nat /\ IsFiniteSet(Task)
    BY RwLockAssumption
  <2> QED
    BY <2>1, FS_CardinalityType, FS_RemoveElement DEF IInv, TypeOK
<1>2. Counted \in SUBSET (Task \ {t})
  BY DEF Counted, In
<1>3. Cardinality(Counted) <= Cardinality(Task) - 1 /\ Cardinality(Counted) \in Nat
  BY <1>1, <1>2, FewReaders, FS_Subset
<1>4. state <= 2 * Cardinality(Counted) + 1
  BY <1>3 DEF IInv, WordInv, ONE_READER, WRITER_BIT
<1> QED
  BY <1>1, <1>3, <1>4 DEF TooManyReaders

\* The process is aborted only if there are more callers than a quarter of the largest
\* usize: no sequence of upgrades, downgrades and cancelled calls adds up to an abort
\* (rwlock/raw.rs:72-74, 113-115, 311-313, 381-383).
THEOREM NoNeedlessAbort == Spec => [](aborted => 2 * Cardinality(Task) > MAX \div 2)
<1> DEFINE Crowded  == 2 * Cardinality(Task) > MAX \div 2
           AbortInv == aborted => Crowded
<1>1. Init => AbortInv
  BY DEF Init
<1>2. ASSUME IInv, AbortInv, [Next]_vars
      PROVE  AbortInv'
  <2>1. ASSUME NEW t \in Task, pc[t] \notin CountedPoints, TooManyReaders(state) PROVE Crowded
    BY <1>2, <2>1, RoomForReader
  <2> HIDE DEF Crowded
  <2>2. Crowded' = Crowded
    BY DEF Crowded
  <2>3. ASSUME UNCHANGED aborted PROVE AbortInv'
    BY <1>2, <2>2, <2>3
  <2>4. ASSUME NEW t \in Task, StartRead(t) \/ StartTryRead(t) \/ UpLoad(t)
        PROVE  AbortInv'
    <3>1. pc[t] \notin CountedPoints
      BY <2>4 DEF StartRead, StartTryRead, UpLoad, Fresh, At, CountedPoints
    <3>2. TooManyReaders(state) \/ UNCHANGED aborted
      BY <2>4 DEF StartRead, StartTryRead, UpLoad, Attempt, Goto
    <3> QED
      BY <2>1, <2>2, <2>3, <3>1, <3>2
  <2>5. ASSUME NEW t \in Task, ReadCas(t) \/ TryReadCas(t) \/ ReadReload(t)
        PROVE  AbortInv'
    <3>1. pc[t] \notin CountedPoints
      BY <2>5 DEF ReadCas, TryReadCas, ReadReload, At, CountedPoints
    <3>2. TooManyReaders(state) \/ UNCHANGED aborted
      BY <2>5 DEF ReadCas, TryReadCas, ReadReload, Attempt, Goto
    <3> QED
      BY <2>1, <2>2, <2>3, <3>1, <3>2
  <2>6. ASSUME NEW t \in Task,
               \/ StartLock(t) \/ TryLock(t) \/ Granted(t) \/ ReadListen(t) \/ ReadWake(t)
               \/ ReadChain(t) \/ UpIncrement(t) \/ WriteBit(t) \/ WriteListen(t)
               \/ WriteCheck(t) \/ WriteWake(t) \/ TryWriteCas(t)
        PROVE  UNCHANGED aborted
    BY <2>6 DEF StartLock, TryLock, Granted, ReadListen, ReadWake, ReadChain, UpIncrement,
                WriteBit, WriteListen, WriteCheck, WriteWake, TryWriteCas, Goto
  <2>7. ASSUME NEW t \in Task, Release(t) PROVE UNCHANGED aborted
    BY <2>7 DEF Release, ReadUnlock, UpgradableUnlock, WriteUnlock, NotifyNoReaders,
                NotifyNoWriter, DowngradeMutexUnlock, MutexUnlock, Goto
  <2>8. ASSUME NEW t \in Task, Change(t) \/ Cancel(t) \/ CancelWrite(t) \/ DropFuture(t)
        PROVE  UNCHANGED aborted
    BY <2>8 DEF Change, TryUpgrade, Upgrade, DowngradeWrite, DowngradeToUpgradable,
                DowngradeUpgradable, Cancel, CancelWrite, DropFuture, Goto
  <2>9. CASE UNCHANGED vars
    BY <2>3, <2>9 DEF vars
  <2> HIDE DEF AbortInv
  <2> QED
    BY <1>2, <2>3, <2>4, <2>5, <2>6, <2>7, <2>8, <2>9 DEF Next, Begin, Poll
<1>3. AbortInv => (aborted => 2 * Cardinality(Task) > MAX \div 2)
  OBVIOUS
<1> HIDE DEF AbortInv
<1> QED
  BY <1>1, <1>2, <1>3, Invariant, PTL DEF Spec
----------------------------------------------------------------------------
(* RwLockArc.  What keeps the lock alive is that every call in progress is *)
(* anchored: a task inside an operation has a handle it borrows from, or a *)
(* count of its own.  With the exact count this is inductive.  That the    *)
(* lock is idle when nobody is inside follows from the invariant of RwLock, *)
(* which holds here too because each step on the lock is one of RwLock.    *)

\* A task inside an operation has a handle or owns a count.
Anchored == \A t \in Task : pc[t] # "idle" => t \in handles \/ call[t] = "owned"

ArcInv == ArcTypeOK /\ CountExact /\ Anchored

\* The sets that the count counts are finite.
LEMMA FewOwners ==
  ASSUME ArcTypeOK
  PROVE  /\ IsFiniteSet(handles) /\ IsFiniteSet(Owned)
         /\ Cardinality(handles) \in Nat /\ Cardinality(Owned) \in Nat
<1>1. handles \in SUBSET Task /\ Owned \in SUBSET Task
  BY DEF ArcTypeOK, Owned
<1> QED
  BY <1>1, RwLockAssumption, FS_Subset, FS_CardinalityType

----------------------------------------------------------------------------
(* The steps on the lock are steps of RwLock *)

\* The changes of a guard, one by one.
LEMMA Changes ==
  ASSUME NEW t,
         \/ TryUpgrade(t) \/ Upgrade(t) \/ DowngradeUpgradable(t)
         \/ DowngradeWrite(t) \/ DowngradeToUpgradable(t)
  PROVE  Change(t)
<1>1. ASSUME TryUpgrade(t) \/ Upgrade(t) \/ DowngradeUpgradable(t) PROVE At(t, "up_read")
  BY <1>1 DEF TryUpgrade, Upgrade, DowngradeUpgradable
<1>2. ASSUME DowngradeWrite(t) \/ DowngradeToUpgradable(t) PROVE At(t, "writing")
  BY <1>2 DEF DowngradeWrite, DowngradeToUpgradable
<1> QED
  BY <1>1, <1>2 DEF Change

\* Calls and guards that borrow the lock.
LEMMA BorrowedRaw ==
  ASSUME NEW t \in Task, BorrowedStep(t) PROVE Next \/ UNCHANGED vars
<1>1. ASSUME NEW c, CallRead(t, c) \/ CallUpgradableRead(t, c) \/ CallWrite(t, c)
      PROVE  Begin(t)
  BY <1>1 DEF CallRead, CallUpgradableRead, CallWrite, Begin
<1>2. CASE PollBorrowed(t)
  BY <1>2 DEF PollBorrowed, Next
<1>3. CASE DropBorrowed(t) \/ DropBorrowedListener(t)
  BY <1>3 DEF DropBorrowed, DropBorrowedListener, Next
<1>4. CASE ReadGuard(t) \/ UpgradableReadGuard(t) \/ WriteGuard(t)
  <2>1. Release(t) \/ Change(t)
    BY <1>4, Changes DEF ReadGuard, UpgradableReadGuard, WriteGuard, Release
  <2> QED
    BY <2>1 DEF Next
<1> QED
  BY <1>1, <1>2, <1>3, <1>4 DEF BorrowedStep, Next

\* Futures and guards that own an Arc of the lock.
LEMMA OwnedRaw ==
  ASSUME NEW t \in Task, OwnedStep(t) PROVE Next \/ UNCHANGED vars
<1>1. CASE ReadArc(t) \/ UpgradableReadArc(t) \/ WriteArc(t) \/ ArcDrop(t)
  BY <1>1 DEF ReadArc, UpgradableReadArc, WriteArc, OwnClone, ArcDrop
<1>2. CASE ReadGuardArcDrop(t) \/ UpgradableReadGuardArcDrop(t) \/ WriteGuardArcDrop(t)
  <2>1. Release(t)
    BY <1>2 DEF ReadGuardArcDrop, UpgradableReadGuardArcDrop, WriteGuardArcDrop, Release
  <2> QED
    BY <2>1 DEF Next
<1>3. CASE \/ UpgradableReadGuardArcDowngrade(t) \/ UpgradableReadGuardArcTryUpgrade(t)
           \/ UpgradableReadGuardArcUpgrade(t)
           \/ WriteGuardArcDowngrade(t) \/ WriteGuardArcDowngradeToUpgradable(t)
  <2>1. Change(t)
    BY <1>3, Changes DEF UpgradableReadGuardArcDowngrade, UpgradableReadGuardArcTryUpgrade,
                UpgradableReadGuardArcUpgrade, WriteGuardArcDowngrade,
                WriteGuardArcDowngradeToUpgradable
  <2> QED
    BY <2>1 DEF Next
<1>4. CASE UpgradeArcPoll(t)
  <2>1. Poll(t)
    BY <1>4 DEF UpgradeArcPoll, Poll
  <2> QED
    BY <2>1 DEF Next
<1>5. CASE UpgradeArcDrop(t)
  BY <1>5 DEF UpgradeArcDrop, DropRaw, Next
<1> QED
  BY <1>1, <1>2, <1>3, <1>4, <1>5 DEF OwnedStep

\* Clones and drops of the Arc leave the lock alone; every other step is one of RwLock.
LEMMA RawStep ==
  ASSUME [ArcNext]_arcVars PROVE [Next]_vars
<1>1. ASSUME NEW t \in Task, Unlocking(t) PROVE Next
  <2>1. Release(t)
    BY <1>1 DEF Unlocking, Release
  <2> QED
    BY <2>1 DEF Next
<1>2. ASSUME NEW t \in Task, NEW u \in Task, CloneHandle(t, u) \/ DropHandle(t) \/ IntoInner(t)
      PROVE  UNCHANGED vars
  BY <1>2 DEF CloneHandle, DropHandle, IntoInner
<1> QED
  BY <1>1, <1>2, BorrowedRaw, OwnedRaw DEF ArcNext, arcVars

\* A step of RwLock moves one task, and starts from "idle" only where a call begins.
LEMMA PollMoves ==
  ASSUME TypeOK, NEW t \in Task, Granted(t) \/ Poll(t)
  PROVE  pc[t] # "idle" /\ \A u \in Task \ {t} : pc'[u] = pc[u]
<1>1. pc \in [Task -> Points]
  BY DEF TypeOK
<1> USE DEF At, Goto, Abort, Attempt
<1>2. CASE Granted(t)
  BY <1>1, <1>2 DEF Granted
<1>3. CASE ReadCas(t) \/ TryReadCas(t) \/ ReadListen(t) \/ ReadReload(t) \/ ReadWake(t)
             \/ ReadChain(t)
  BY <1>1, <1>3 DEF ReadCas, TryReadCas, ReadListen, ReadReload, ReadWake, ReadChain
<1>4. CASE UpLoad(t) \/ UpIncrement(t)
  BY <1>1, <1>4 DEF UpLoad, UpIncrement
<1>5. CASE WriteBit(t) \/ WriteListen(t) \/ WriteCheck(t) \/ WriteWake(t) \/ TryWriteCas(t)
  BY <1>1, <1>5 DEF WriteBit, WriteListen, WriteCheck, WriteWake, TryWriteCas
<1> QED
  BY <1>2, <1>3, <1>4, <1>5 DEF Poll

\* A guard or future that goes or changes moves its own task only.
LEMMA GuardMoves ==
  ASSUME TypeOK, NEW t \in Task, Release(t) \/ Change(t) \/ Cancel(t) \/ CancelWrite(t)
  PROVE  pc[t] # "idle" /\ \A u \in Task \ {t} : pc'[u] = pc[u]
<1>1. pc \in [Task -> Points]
  BY DEF TypeOK
<1> USE DEF At, Goto
<1>2. CASE Release(t)
  BY <1>1, <1>2 DEF Release, ReadUnlock, UpgradableUnlock, WriteUnlock, NotifyNoReaders,
                    NotifyNoWriter, DowngradeMutexUnlock, MutexUnlock
<1>3. CASE Change(t)
  BY <1>1, <1>3 DEF Change, TryUpgrade, Upgrade, DowngradeWrite, DowngradeToUpgradable,
                    DowngradeUpgradable
<1>4. CASE Cancel(t) \/ CancelWrite(t)
  BY <1>1, <1>4 DEF Cancel, CancelWrite
<1> QED
  BY <1>2, <1>3, <1>4

----------------------------------------------------------------------------
(* The invariant is inductive *)

\* Nothing that the invariant is about changes but the place of a task that is
\* inside an operation already.
LEMMA ArcQuiet ==
  ASSUME ArcInv, NEW t \in Task, UNCHANGED <<handles, call, strong, freed>>,
         ready' \in SUBSET Task,
         pc[t] # "idle" \/ t \in handles \/ pc'[t] = pc[t],
         \A u \in Task \ {t} : pc'[u] = pc[u]
  PROVE  ArcInv'
<1>1. ArcTypeOK'
  BY DEF ArcInv, ArcTypeOK
<1>2. CountExact'
  BY DEF ArcInv, CountExact, Owned
<1>3. Anchored'
  BY DEF ArcInv, Anchored
<1> QED
  BY <1>1, <1>2, <1>3 DEF ArcInv

\* Handles come and go.
LEMMA HandleSteps ==
  ASSUME ArcInv, NEW t \in Task, NEW u \in Task,
         CloneHandle(t, u) \/ DropHandle(t) \/ IntoInner(t)
  PROVE  ArcInv'
<1>1. /\ ArcTypeOK /\ CountExact /\ Anchored /\ Owned' = Owned
      /\ pc' = pc /\ call' = call /\ ready' = ready
  BY DEF ArcInv, CloneHandle, DropHandle, IntoInner, vars, Owned
<1>2. /\ IsFiniteSet(handles) /\ Cardinality(handles) \in Nat /\ Cardinality(Owned) \in Nat
  BY <1>1, FewOwners
<1>3. CASE CloneHandle(t, u)
  <2>1. handles' = handles \cup {u} /\ u \notin handles /\ strong' = strong + 1 /\ freed' = freed
        /\ t \in handles
    BY <1>3 DEF CloneHandle, GiveHandle, Increment
  <2>2. Cardinality(handles') = Cardinality(handles) + 1
    BY <1>2, <2>1, FS_AddElement
  <2>3. strong # 0
    BY <1>1, <1>2, <2>1, FS_EmptySet DEF CountExact
  <2>4. CountExact'
    BY <1>1, <1>2, <2>1, <2>2, <2>3 DEF CountExact
  <2>5. ArcTypeOK' /\ Anchored'
    BY <1>1, <2>1 DEF ArcTypeOK, Anchored
  <2> QED
    BY <2>4, <2>5 DEF ArcInv
<1>4. CASE DropHandle(t)
  <2>1. /\ handles' = handles \ {t} /\ t \in handles /\ strong' = strong - 1
        /\ freed' = (freed \/ strong = 1) /\ ~Borrows(t)
    BY <1>4 DEF DropHandle, LoseHandle, Decrement
  <2>2. Cardinality(handles') = Cardinality(handles) - 1
    BY <1>2, <2>1, FS_RemoveElement
  <2>3. Cardinality(handles) # 0
    BY <1>2, <2>1, FS_EmptySet
  <2>4. strong' = Cardinality(handles') + Cardinality(Owned') /\ strong' \in Nat
    BY <1>1, <1>2, <2>1, <2>2, <2>3 DEF CountExact
  <2>5. ~freed
    BY <1>1, <1>2, <2>3 DEF CountExact
  <2>6. freed' <=> strong' = 0
    <3>1. strong = 1 <=> strong' = 0
      BY <1>1, <2>1 DEF ArcTypeOK
    <3> QED
      BY <2>1, <2>5, <3>1
  <2>7. ArcTypeOK' /\ Anchored'
    BY <1>1, <2>1, <2>4 DEF ArcTypeOK, Anchored, Borrows
  <2> QED
    BY <2>4, <2>6, <2>7 DEF ArcInv, CountExact
<1> QED
  BY <1>3, <1>4 DEF IntoInner

\* A guard comes to own a count, and gives it up.
LEMMA CountSteps ==
  ASSUME ArcInv, NEW t \in Task, (\E p \in Points : OwnClone(t, p) /\ p # "idle") \/ ArcDrop(t)
  PROVE  ArcInv'
<1>1. /\ ArcTypeOK /\ CountExact /\ Anchored
      /\ pc' = pc /\ handles' = handles /\ ready' = ready
  BY DEF ArcInv, OwnClone, ArcDrop, vars
<1>2. /\ IsFiniteSet(Owned) /\ Cardinality(handles) \in Nat /\ Cardinality(Owned) \in Nat
      /\ call \in [Task -> {"ref", "arc", "owned"}]
  BY <1>1, FewOwners DEF ArcTypeOK
<1>3. ASSUME NEW p \in Points, OwnClone(t, p), p # "idle" PROVE ArcInv'
  <2>1. /\ call' = [call EXCEPT ![t] = "owned"] /\ call[t] = "arc" /\ pc[t] = p
        /\ strong' = strong + 1 /\ freed' = freed
    BY <1>3 DEF OwnClone, Has, Increment, At
  <2>2. Owned' = Owned \cup {t} /\ t \notin Owned
    BY <1>2, <2>1 DEF Owned
  <2>3. Cardinality(Owned') = Cardinality(Owned) + 1
    BY <1>2, <2>2, FS_AddElement
  <2>4. t \in handles /\ IsFiniteSet(handles)
    BY <1>1, <1>3, <2>1, FewOwners DEF Anchored
  <2>5. Cardinality(handles) # 0
    BY <2>4, FS_EmptySet
  <2>6. CountExact'
    BY <1>1, <1>2, <2>1, <2>3, <2>5 DEF CountExact
  <2>7. ArcTypeOK' /\ Anchored'
    BY <1>1, <2>1 DEF ArcTypeOK, Anchored
  <2> QED
    BY <2>6, <2>7 DEF ArcInv
<1>4. CASE ArcDrop(t)
  <2>1. /\ call' = [call EXCEPT ![t] = "ref"] /\ call[t] = "owned" /\ pc[t] = "idle"
        /\ strong' = strong - 1 /\ freed' = (freed \/ strong = 1)
    BY <1>4 DEF ArcDrop, Has, Decrement, At
  <2>2. Owned' = Owned \ {t} /\ t \in Owned
    BY <1>2, <2>1 DEF Owned
  <2>3. Cardinality(Owned') = Cardinality(Owned) - 1
    BY <1>2, <2>2, FS_RemoveElement
  <2>4. Cardinality(Owned) # 0
    BY <1>2, <2>2, FS_EmptySet
  <2>5. strong' = Cardinality(handles') + Cardinality(Owned') /\ strong' \in Nat
    BY <1>1, <1>2, <2>1, <2>3, <2>4 DEF CountExact
  <2>6. ~freed
    BY <1>1, <1>2, <2>4 DEF CountExact
  <2>7. freed' <=> strong' = 0
    <3>1. strong = 1 <=> strong' = 0
      BY <1>1, <2>1 DEF ArcTypeOK
    <3> QED
      BY <2>1, <2>6, <3>1
  <2>8. ArcTypeOK' /\ Anchored'
    BY <1>1, <2>1, <2>5 DEF ArcTypeOK, Anchored
  <2> QED
    BY <2>5, <2>7, <2>8 DEF ArcInv, CountExact
<1> QED
  BY <1>3, <1>4

\* A call begins at a handle.
LEMMA CallSteps ==
  ASSUME ArcInv, TypeOK, NEW t \in Task, NEW c \in {"ref", "arc"},
         CallRead(t, c) \/ CallUpgradableRead(t, c) \/ CallWrite(t, c)
  PROVE  ArcInv'
<1>1. /\ call' = [call EXCEPT ![t] = c] /\ call[t] # "owned" /\ t \in handles
      /\ UNCHANGED <<handles, ready, strong, freed>>
  BY DEF CallRead, CallUpgradableRead, CallWrite, Starts, Has
<1>2. call \in [Task -> {"ref", "arc", "owned"}] /\ pc \in [Task -> Points]
  BY DEF ArcInv, ArcTypeOK, TypeOK
<1>3. Owned' = Owned
  BY <1>1, <1>2 DEF Owned
<1>4. \A u \in Task \ {t} : pc'[u] = pc[u]
  <2>1. StartRead(t) \/ StartTryRead(t) \/ StartLock(t) \/ TryLock(t)
    BY DEF CallRead, CallUpgradableRead, CallWrite
  <2> QED
    BY <1>2, <2>1 DEF StartRead, StartTryRead, StartLock, TryLock, Attempt, Abort, Goto
<1>5. ArcTypeOK'
  BY <1>1, <1>2 DEF ArcInv, ArcTypeOK
<1>6. CountExact'
  BY <1>1, <1>3 DEF ArcInv, CountExact
<1>7. Anchored'
  BY <1>1, <1>2, <1>4 DEF ArcInv, Anchored
<1> QED
  BY <1>5, <1>6, <1>7 DEF ArcInv

\* Futures and guards that borrow, and unlocking, leave every count alone.
LEMMA BorrowedSteps ==
  ASSUME ArcInv, TypeOK, NEW t \in Task, BorrowedStep(t) \/ Unlocking(t)
  PROVE  ArcInv'
<1>1. ready \in SUBSET Task
  BY DEF ArcInv, ArcTypeOK
<1>2. CASE \E c \in {"ref", "arc"} :
             CallRead(t, c) \/ CallUpgradableRead(t, c) \/ CallWrite(t, c)
  BY <1>2, CallSteps
<1>3. CASE PollBorrowed(t)
  BY <1>1, <1>3, PollMoves, ArcQuiet DEF PollBorrowed, arc
<1>4. CASE DropBorrowed(t)
  BY <1>1, <1>4, GuardMoves, ArcQuiet DEF DropBorrowed, arc
<1>5. CASE DropBorrowedListener(t)
  <2>1. pc' = pc
    BY <1>5 DEF DropBorrowedListener, DropFuture
  <2> QED
    BY <1>1, <1>5, <2>1, ArcQuiet DEF DropBorrowedListener, arc
<1>6. CASE ReadGuard(t) \/ UpgradableReadGuard(t) \/ WriteGuard(t) \/ Unlocking(t)
  <2>1. (Release(t) \/ Change(t)) /\ UNCHANGED arc
    BY <1>6, Changes DEF ReadGuard, UpgradableReadGuard, WriteGuard, Unlocking, Release
  <2> QED
    BY <1>1, <2>1, GuardMoves, ArcQuiet DEF arc
<1> QED
  BY <1>2, <1>3, <1>4, <1>5, <1>6 DEF BorrowedStep

\* Owned guards and upgrades: a conversion leaves the count alone, and so does a
\* completed UpgradeArc.
LEMMA OwnedSteps ==
  ASSUME ArcInv, TypeOK, NEW t \in Task, OwnedStep(t)
  PROVE  ArcInv'
<1>1. ready \in SUBSET Task
  BY DEF ArcInv, ArcTypeOK
<1>2. CASE ReadArc(t) \/ UpgradableReadArc(t) \/ WriteArc(t) \/ ArcDrop(t)
  <2>1. {"reading", "up_read", "writing"} \subseteq Points
    BY DEF Points, UpPoints, WritePoints
  <2> QED
    BY <1>2, <2>1, CountSteps DEF ReadArc, UpgradableReadArc, WriteArc
<1>3. CASE ReadGuardArcDrop(t) \/ UpgradableReadGuardArcDrop(t) \/ WriteGuardArcDrop(t)
  <2>1. Release(t) /\ UNCHANGED arc
    BY <1>3 DEF ReadGuardArcDrop, UpgradableReadGuardArcDrop, WriteGuardArcDrop, Release
  <2> QED
    BY <1>1, <2>1, GuardMoves, ArcQuiet DEF arc
<1>4. CASE \/ UpgradableReadGuardArcDowngrade(t) \/ UpgradableReadGuardArcTryUpgrade(t)
           \/ UpgradableReadGuardArcUpgrade(t)
           \/ WriteGuardArcDowngrade(t) \/ WriteGuardArcDowngradeToUpgradable(t)
  <2>1. Change(t) /\ UNCHANGED arc
    BY <1>4, Changes DEF UpgradableReadGuardArcDowngrade, UpgradableReadGuardArcTryUpgrade,
                UpgradableReadGuardArcUpgrade, WriteGuardArcDowngrade,
                WriteGuardArcDowngradeToUpgradable, IntoArc
  <2> QED
    BY <1>1, <2>1, GuardMoves, ArcQuiet DEF arc
<1>5. CASE UpgradeArcPoll(t)
  <2>1. /\ Poll(t) /\ ready' \in SUBSET Task /\ UNCHANGED <<handles, call, strong, freed>>
    BY <1>1, <1>5 DEF UpgradeArcPoll, Poll
  <2> QED
    BY <2>1, PollMoves, ArcQuiet
<1>6. CASE UpgradeArcDrop(t)
  <2>1. CASE t \in ready /\ DropRaw(t) /\ ready' = ready \ {t}
               /\ UNCHANGED <<handles, call, strong, freed>>
    <3>1. pc' = pc
      BY <2>1 DEF DropRaw, DropFuture, vars
    <3> QED
      BY <1>1, <2>1, <3>1, ArcQuiet
  <2>2. CASE CancelWrite(t) /\ UNCHANGED arc
    BY <1>1, <2>2, GuardMoves, ArcQuiet DEF arc
  <2> QED
    BY <1>6, <2>1, <2>2 DEF UpgradeArcDrop
<1> QED
  BY <1>2, <1>3, <1>4, <1>5, <1>6 DEF OwnedStep

\* The one handle is the one count.
LEMMA ArcInitially == ArcInit => ArcInv
<1> SUFFICES ASSUME ArcInit PROVE ArcInv
  OBVIOUS
<1>1. PICK t \in Task : handles = {t}
  BY DEF ArcInit, OneHandle
<1>2. Owned = {}
  BY DEF ArcInit, Owned
<1>3. Cardinality(handles) = 1 /\ Cardinality(Owned) = 0
  BY <1>1, <1>2, FS_EmptySet, FS_Singleton
<1>4. \A u \in Task : pc[u] = "idle"
  BY DEF ArcInit, Init
<1>5. strong = Cardinality(handles) + Cardinality(Owned) /\ strong # 0
  BY <1>3 DEF ArcInit, OneHandle
<1>6. CountExact
  BY <1>5 DEF ArcInit, OneHandle, CountExact
<1>7. ArcTypeOK
  BY <1>1 DEF ArcInit, OneHandle, ArcTypeOK
<1> QED
  BY <1>4, <1>6, <1>7 DEF ArcInv, Anchored

\* Every step keeps the invariant, given the type invariant of RwLock.
LEMMA ArcInductive == ArcInv /\ TypeOK /\ [ArcNext]_arcVars => ArcInv'
<1> SUFFICES ASSUME ArcInv, TypeOK, [ArcNext]_arcVars PROVE ArcInv'
  OBVIOUS
<1>1. CASE ArcNext
  BY <1>1, HandleSteps, BorrowedSteps, OwnedSteps DEF ArcNext
<1>2. CASE UNCHANGED arcVars
  BY <1>2 DEF arcVars, vars, arc, ArcInv, ArcTypeOK, CountExact, Owned, Anchored
<1> QED
  BY <1>1, <1>2

----------------------------------------------------------------------------
(* Theorems *)

\* The lock behind the Arc is the lock of RwLock, whatever mix of borrowing and owning
\* calls uses it: all that is proved above of Spec holds of it (rwlock.rs:39-51, and the
\* guards and futures that carry an Arc).
THEOREM ArcImplementsRwLock == ArcSpec => Spec
<1>1. ArcInit => Init
  BY DEF ArcInit
<1>2. [ArcNext]_arcVars => [Next]_vars
  BY RawStep
<1> QED
  BY <1>1, <1>2, PTL DEF ArcSpec, Spec

\* In particular its inductive invariant.
THEOREM RawInvariant == ArcSpec => []IInv
BY ArcImplementsRwLock, Invariant, PTL

\* Each count of the Arc has its owner, and whoever uses the lock owns or borrows one.
THEOREM ArcInvariant == ArcSpec => []ArcInv
<1>1. IInv => TypeOK
  BY DEF IInv
<1> QED
  BY <1>1, RawInvariant, ArcInitially, ArcInductive, PTL DEF ArcSpec

\* The strong count never goes below zero (rwlock.rs: every guard that owns an Arc).
THEOREM ArcTypeCorrect == ArcSpec => []ArcTypeOK
<1>1. ArcInv => ArcTypeOK
  BY DEF ArcInv
<1> QED
  BY <1>1, ArcInvariant, PTL

\* Through ManuallyDrop, ptr::read and from_raw the count stays the number of its
\* owners: no leak and no double drop (rwlock.rs:778-808, 1084-1178, 1382-1437;
\* futures.rs:427-446, 469-484).
THEOREM CountIsExact == ArcSpec => []CountExact
<1>1. ArcInv => CountExact
  BY DEF ArcInv
<1> QED
  BY <1>1, ArcInvariant, PTL

\* Without a count there is neither a handle nor an owned guard.
LEMMA NoneLeft ==
  ASSUME ArcInv, freed PROVE handles = {} /\ Owned = {}
<1>1. /\ Cardinality(handles) = 0 /\ Cardinality(Owned) = 0
      /\ IsFiniteSet(handles) /\ IsFiniteSet(Owned)
  BY FewOwners DEF ArcInv, CountExact
<1> QED
  BY <1>1, FS_EmptySet

\* Guards, futures and destructors find the lock alive: in particular the 'static
\* reference of an UpgradeArc (futures.rs:406-417) and the raw pointer of a
\* RwLockReadGuardArc (rwlock.rs:760-808) never dangle while they are used.
THEOREM NoUseAfterFree == ArcSpec => []LockOutlivesUse
<1>1. ArcInv => LockOutlivesUse
  BY NoneLeft DEF ArcInv, Anchored, Owned, LockOutlivesUse
<1> QED
  BY <1>1, ArcInvariant, PTL

\* When a single handle is left, the lock is idle (rwlock.rs:91, 676: into_inner and
\* get_mut do not look at the lock).
THEOREM SoleHandle == ArcSpec => []SoleHandleIsUnlocked
<1>1. ASSUME ArcInv, IInv, strong = 1, NEW t \in handles, ~Borrows(t)
      PROVE  state = 0 /\ mutex = {}
  <2>1. /\ IsFiniteSet(handles) /\ IsFiniteSet(Owned) /\ t \in Task
        /\ Cardinality(handles) \in Nat /\ Cardinality(Owned) \in Nat
        /\ 1 = Cardinality(handles) + Cardinality(Owned)
    BY <1>1, FewOwners DEF ArcInv, ArcTypeOK, CountExact
  <2>2. /\ Cardinality(handles \ {t}) = Cardinality(handles) - 1
        /\ IsFiniteSet(handles \ {t}) /\ Cardinality(handles \ {t}) \in Nat
    BY <1>1, <2>1, FS_RemoveElement, FS_CardinalityType
  <2>3. Cardinality(handles \ {t}) = 0 /\ Cardinality(Owned) = 0
    BY <2>1, <2>2
  <2>4. handles \ {t} = {} /\ Owned = {}
    BY <2>1, <2>2, <2>3, FS_EmptySet
  <2>5. \A u \in Task : pc[u] = "idle"
    BY <1>1, <2>1, <2>4 DEF ArcInv, Anchored, Owned, Borrows
  <2>6. "idle" \notin CountedPoints \cup BitPoints \cup MutexPoints
    BY DEF CountedPoints, BitPoints, MutexPoints
  <2>7. Counted = {} /\ In(BitPoints) = {} /\ In(MutexPoints) = {}
    BY <2>5, <2>6 DEF Counted, In
  <2>8. Cardinality(Counted) = 0
    BY <2>7, FS_EmptySet
  <2>9. state = 0
    BY <1>1, <2>7, <2>8 DEF IInv, WordInv, ONE_READER
  <2> QED
    BY <1>1, <2>7, <2>9 DEF IInv, MutexInv
<1>2. ArcInv /\ IInv => SoleHandleIsUnlocked
  BY <1>1 DEF SoleHandleIsUnlocked
<1> QED
  BY <1>2, ArcInvariant, RawInvariant, PTL
=============================================================================
