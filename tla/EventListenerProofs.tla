------------------------ MODULE EventListenerProofs ------------------------
(***************************************************************************)
(* What the operations on an event return: lemmas every proof about a      *)
(* component cites.  S is any set of listeners.                            *)
(***************************************************************************)
EXTENDS EventListener, FiniteSetTheorems, SequenceTheorems, TLAPS

\* A new event has no listeners.
LEMMA NewEventType == ASSUME NEW S PROVE NewEvent \in EventOf(S)
BY DEF NewEvent, EventOf

\* Registering a listener of S keeps the event over S.
LEMMA ListenType ==
  ASSUME NEW S, NEW e \in EventOf(S), NEW l \in S
  PROVE  Listen(e, l) \in EventOf(S)
BY DEF Listen, EventOf

\* Waking some of the sleeping listeners makes no listener up.
LEMMA WakeOldestType ==
  ASSUME NEW S, NEW e \in EventOf(S), NEW k \in 0..Len(e.queue)
  PROVE  WakeOldest(e, k) \in EventOf(S)
<1>1. e.queue \in Seq(S) /\ e.notified \in SUBSET S
  BY DEF EventOf
<1>2. {e.queue[i] : i \in 1..k} \in SUBSET S
  BY <1>1
<1>3. SubSeq(e.queue, k + 1, Len(e.queue)) \in Seq(S)
  BY <1>1
<1> QED
  BY <1>1, <1>2, <1>3 DEF WakeOldest, EventOf

\* notify(n), for any n.
LEMMA NotifyType ==
  ASSUME NEW S, IsFiniteSet(S), NEW e \in EventOf(S), NEW n \in Nat
  PROVE  Notify(e, n) \in EventOf(S)
<1>1. e.queue \in Seq(S) /\ Len(e.queue) \in Nat /\ e.notified \in SUBSET S
  BY DEF EventOf
<1>2. Cardinality(e.notified) \in Nat
  BY <1>1, FS_Subset, FS_CardinalityType
<1> DEFINE missing == n - Cardinality(e.notified)
           k == IF missing < Len(e.queue) THEN missing ELSE Len(e.queue)
<1>3. CASE missing <= 0
  BY <1>3 DEF Notify
<1>4. CASE ~(missing <= 0)
  <2>1. k \in 0..Len(e.queue)
    BY <1>1, <1>2, <1>4
  <2>2. WakeOldest(e, k) \in EventOf(S)
    BY <2>1, WakeOldestType
  <2> QED
    BY <2>2, <1>4 DEF Notify
<1> QED
  BY <1>3, <1>4

\* A listener that goes leaves an event over the same set.
LEMMA ConsumeType ==
  ASSUME NEW S, NEW e \in EventOf(S), NEW l
  PROVE  Consume(e, l) \in EventOf(S)
BY DEF Consume, EventOf

\* Dropping a listener, notified or asleep.
LEMMA DropListenerType ==
  ASSUME NEW S, IsFiniteSet(S), NEW e \in EventOf(S), NEW l \in Listeners(e)
  PROVE  DropListener(e, l) \in EventOf(S)
<1>1. CASE l \in e.notified
  BY <1>1, ConsumeType, NotifyType DEF DropListener
<1>2. CASE l \notin e.notified
  <2>1. PICK i \in 1..Len(e.queue) : e.queue[i] = l
    BY <1>2 DEF Listeners, Asleep, ToSet, EventOf
  <2>2. Position(e, l) \in 1..Len(e.queue)
    BY <2>1 DEF Position
  <2>3. RemoveAt(e.queue, Position(e, l)) \in Seq(S)
    BY <2>2 DEF RemoveAt, EventOf
  <2> QED
    BY <1>2, <2>3 DEF DropListener, EventOf
<1> QED
  BY <1>1, <1>2
----------------------------------------------------------------------------
(* Who is in the list, who sleeps, and who is notified *)

\* A listener is in the list once, and does not sleep when it was notified.
WellFormed(e) ==
  /\ \A i, j \in 1..Len(e.queue) : e.queue[i] = e.queue[j] => i = j
  /\ e.notified \cap Asleep(e) = {}

\* The sleeping listeners are the elements of the queue.
LEMMA AsleepElements ==
  ASSUME NEW S, NEW e \in EventOf(S)
  PROVE  /\ Asleep(e) = {e.queue[i] : i \in 1..Len(e.queue)}
         /\ Asleep(e) \in SUBSET S /\ Listeners(e) \in SUBSET S
BY DEF EventOf, Asleep, Listeners, ToSet

\* A new event is empty.
LEMMA NewEventMembers ==
  /\ WellFormed(NewEvent) /\ Listeners(NewEvent) = {} /\ Asleep(NewEvent) = {}
  /\ NewEvent.notified = {}
BY DEF WellFormed, NewEvent, Listeners, Asleep, ToSet

\* A listener that is registered joins those that sleep.
LEMMA ListenMembers ==
  ASSUME NEW S, NEW e \in EventOf(S), WellFormed(e), NEW l \in S, l \notin Listeners(e)
  PROVE  /\ WellFormed(Listen(e, l))
         /\ Asleep(Listen(e, l)) = Asleep(e) \cup {l}
         /\ Listen(e, l).notified = e.notified
<1> DEFINE f == Listen(e, l)
<1>1. e.queue \in Seq(S) /\ Len(e.queue) \in Nat
  BY DEF EventOf
<1>2. f \in EventOf(S) /\ f.queue = Append(e.queue, l) /\ f.notified = e.notified
  BY ListenType DEF Listen, EventOf
<1>3. /\ Len(f.queue) = Len(e.queue) + 1 /\ f.queue[Len(e.queue) + 1] = l
      /\ \A i \in 1..Len(e.queue) : f.queue[i] = e.queue[i]
  BY <1>1, <1>2
<1>4. \A i \in 1..Len(e.queue) : e.queue[i] # l
  BY AsleepElements DEF Listeners
<1>5. Asleep(f) = Asleep(e) \cup {l}
  BY <1>1, <1>2, <1>3, AsleepElements
<1>6. ASSUME NEW i \in 1..Len(f.queue), NEW j \in 1..Len(f.queue), f.queue[i] = f.queue[j]
      PROVE  i = j
  <2> HIDE DEF f
  <2>1. \A x \in 1..Len(f.queue) : x \in 1..Len(e.queue) \/ x = Len(e.queue) + 1
    BY <1>1, <1>3
  <2>2. CASE i \in 1..Len(e.queue) /\ j \in 1..Len(e.queue)
    BY <1>3, <1>6, <2>2 DEF WellFormed
  <2>3. CASE i = Len(e.queue) + 1 /\ j \in 1..Len(e.queue)
    BY <1>3, <1>4, <1>6, <2>3
  <2>4. CASE j = Len(e.queue) + 1 /\ i \in 1..Len(e.queue)
    BY <1>3, <1>4, <1>6, <2>4
  <2> QED
    BY <2>1, <2>2, <2>3, <2>4
<1>7. f.notified \cap Asleep(f) = {}
  BY <1>2, <1>5 DEF WellFormed, Listeners
<1> QED
  BY <1>2, <1>5, <1>6, <1>7 DEF WellFormed

\* Waking some listeners moves them from those that sleep to those that are notified.
LEMMA WakeOldestMembers ==
  ASSUME NEW S, NEW e \in EventOf(S), WellFormed(e), NEW k \in 0..Len(e.queue)
  PROVE  /\ WellFormed(WakeOldest(e, k))
         /\ Asleep(WakeOldest(e, k)) \in SUBSET Asleep(e)
         /\ Listeners(WakeOldest(e, k)) = Listeners(e)
         /\ e.notified \in SUBSET WakeOldest(e, k).notified
         /\ k > 0 => WakeOldest(e, k).notified # {}
         /\ k = Len(e.queue) => Asleep(WakeOldest(e, k)) = {}
<1> DEFINE f == WakeOldest(e, k)
           n == Len(e.queue)
<1>1. e.queue \in Seq(S) /\ n \in Nat /\ k \in Nat /\ k <= n
  BY DEF EventOf
<1>2. /\ f \in EventOf(S) /\ f.queue = SubSeq(e.queue, k + 1, n)
      /\ f.notified = e.notified \cup {e.queue[i] : i \in 1..k}
  BY WakeOldestType DEF WakeOldest, EventOf
<1>3. Len(f.queue) = n - k /\ \A i \in 1..(n - k) : f.queue[i] = e.queue[i + k]
  BY <1>1, <1>2
<1>4. Asleep(f) = {e.queue[i] : i \in (k + 1)..n}
  <2>1. Asleep(f) = {f.queue[i] : i \in 1..(n - k)}
    BY <1>2, <1>3, AsleepElements
  <2>2. \A x \in Asleep(f) : x \in {e.queue[i] : i \in (k + 1)..n}
    BY <1>1, <1>3, <2>1
  <2>3. ASSUME NEW i \in (k + 1)..n PROVE e.queue[i] \in Asleep(f)
    <3>1. i - k \in 1..(n - k) /\ f.queue[i - k] = e.queue[i]
      BY <1>1, <1>3
    <3> QED
      BY <2>1, <3>1
  <2> QED
    BY <2>2, <2>3
<1>5. Asleep(e) = {e.queue[i] : i \in 1..n}
  BY AsleepElements
<1>6. \A i, j \in 1..Len(f.queue) : f.queue[i] = f.queue[j] => i = j
  BY <1>1, <1>3 DEF WellFormed
<1>7. f.notified \cap Asleep(f) = {}
  <2>1. \A i \in 1..k, j \in (k + 1)..n : e.queue[i] # e.queue[j]
    BY <1>1 DEF WellFormed
  <2> QED
    BY <1>1, <1>2, <1>4, <1>5, <2>1 DEF WellFormed
<1>8. Listeners(f) = Listeners(e)
  <2>1. \A i \in 1..n : i \in 1..k \/ i \in (k + 1)..n
    BY <1>1
  <2>2. 1..k \subseteq 1..n /\ (k + 1)..n \subseteq 1..n
    BY <1>1
  <2> QED
    BY <1>2, <1>4, <1>5, <2>1, <2>2 DEF Listeners
<1>9. k > 0 => f.notified # {}
  <2>1. k > 0 => 1 \in 1..k
    BY <1>1
  <2> QED
    BY <1>2, <2>1
<1>10. k = n => Asleep(f) = {}
  BY <1>1, <1>4
<1>11. Asleep(f) \in SUBSET Asleep(e)
  BY <1>1, <1>4, <1>5
<1> QED
  BY <1>2, <1>6, <1>7, <1>8, <1>9, <1>10, <1>11 DEF WellFormed

\* After notify(n) with n > 0 somebody is notified, unless the list is empty.
LEMMA NotifyMembers ==
  ASSUME NEW S, IsFiniteSet(S), NEW e \in EventOf(S), WellFormed(e), NEW n \in Nat
  PROVE  /\ WellFormed(Notify(e, n))
         /\ Asleep(Notify(e, n)) \in SUBSET Asleep(e)
         /\ Listeners(Notify(e, n)) = Listeners(e)
         /\ e.notified \in SUBSET Notify(e, n).notified
         /\ n > 0 /\ Listeners(e) # {} => Notify(e, n).notified # {}
<1>1. e.queue \in Seq(S) /\ Len(e.queue) \in Nat /\ e.notified \in SUBSET S
  BY DEF EventOf
<1>2. Cardinality(e.notified) \in Nat /\ IsFiniteSet(e.notified)
  BY <1>1, FS_Subset, FS_CardinalityType
<1> DEFINE missing == n - Cardinality(e.notified)
           k == IF missing < Len(e.queue) THEN missing ELSE Len(e.queue)
<1>3. CASE missing <= 0
  <2>1. Notify(e, n) = e
    BY <1>3 DEF Notify
  <2>2. n > 0 => e.notified # {}
    BY <1>2, <1>3, FS_EmptySet
  <2> QED
    BY <2>1, <2>2
<1>4. CASE ~(missing <= 0)
  <2>1. k \in 0..Len(e.queue)
    BY <1>1, <1>2, <1>4
  <2>2. Notify(e, n) = WakeOldest(e, k)
    BY <1>4 DEF Notify
  <2>3. Asleep(e) # {} => k > 0
    BY <1>1, <1>2, <1>4, AsleepElements
  <2> HIDE DEF k
  <2>4. /\ WellFormed(WakeOldest(e, k))
        /\ Asleep(WakeOldest(e, k)) \in SUBSET Asleep(e)
        /\ Listeners(WakeOldest(e, k)) = Listeners(e)
        /\ e.notified \in SUBSET WakeOldest(e, k).notified
        /\ k > 0 => WakeOldest(e, k).notified # {}
    BY <2>1, WakeOldestMembers
  <2>5. Listeners(e) # {} => WakeOldest(e, k).notified # {}
    BY <2>3, <2>4 DEF Listeners
  <2> QED
    BY <2>2, <2>4, <2>5
<1> QED
  BY <1>3, <1>4

\* notify(usize::MAX) leaves nobody asleep.
LEMMA NotifyAllMembers ==
  ASSUME NEW S, NEW e \in EventOf(S), WellFormed(e)
  PROVE  /\ NotifyAll(e) \in EventOf(S) /\ WellFormed(NotifyAll(e))
         /\ Asleep(NotifyAll(e)) = {}
         /\ Listeners(NotifyAll(e)) = Listeners(e)
<1>1. Len(e.queue) \in 0..Len(e.queue)
  BY DEF EventOf
<1> QED
  BY <1>1, WakeOldestType, WakeOldestMembers DEF NotifyAll

\* A consumed notification takes its listener out of the list.
LEMMA ConsumeMembers ==
  ASSUME NEW S, NEW e \in EventOf(S), WellFormed(e), NEW l \in e.notified
  PROVE  /\ WellFormed(Consume(e, l))
         /\ Asleep(Consume(e, l)) = Asleep(e)
         /\ Consume(e, l).notified = e.notified \ {l}
         /\ Listeners(Consume(e, l)) = Listeners(e) \ {l}
<1>1. Consume(e, l).queue = e.queue /\ Consume(e, l).notified = e.notified \ {l}
  BY DEF Consume, EventOf
<1>2. l \notin Asleep(e)
  BY DEF WellFormed
<1> QED
  BY <1>1, <1>2 DEF WellFormed, Asleep, Listeners

\* A dropped listener leaves the list; if it was notified, its notification does
\* not get lost while others sleep.
LEMMA DropListenerMembers ==
  ASSUME NEW S, IsFiniteSet(S), NEW e \in EventOf(S), WellFormed(e), NEW l \in Listeners(e)
  PROVE  /\ WellFormed(DropListener(e, l))
         /\ Asleep(DropListener(e, l)) \in SUBSET Asleep(e)
         /\ Listeners(DropListener(e, l)) = Listeners(e) \ {l}
         /\ e.notified \ {l} \in SUBSET DropListener(e, l).notified
         /\ l \in e.notified /\ Listeners(e) # {l} => DropListener(e, l).notified # {}
<1>1. CASE l \in e.notified
  <2> DEFINE c == Consume(e, l)
  <2>1. c \in EventOf(S) /\ DropListener(e, l) = Notify(c, 1)
    BY <1>1, ConsumeType DEF DropListener
  <2>2. /\ WellFormed(c) /\ Asleep(c) = Asleep(e) /\ c.notified = e.notified \ {l}
        /\ Listeners(c) = Listeners(e) \ {l}
    BY <1>1, ConsumeMembers
  <2>3. /\ WellFormed(Notify(c, 1)) /\ Asleep(Notify(c, 1)) \in SUBSET Asleep(c)
        /\ Listeners(Notify(c, 1)) = Listeners(c)
        /\ c.notified \in SUBSET Notify(c, 1).notified
        /\ Listeners(c) # {} => Notify(c, 1).notified # {}
    <3> HIDE DEF c
    <3>1. 1 \in Nat /\ 1 > 0
      OBVIOUS
    <3>2. c \in EventOf(S) /\ WellFormed(c)
      BY <2>1, <2>2
    <3> QED
      BY <3>1, <3>2, NotifyMembers
  <2>4. Listeners(e) # {l} => Listeners(c) # {}
    BY <2>2
  <2> HIDE DEF c
  <2> QED
    BY <2>1, <2>2, <2>3, <2>4
<1>2. CASE l \notin e.notified
  <2> DEFINE n == Len(e.queue)
             i == Position(e, l)
             f == DropListener(e, l)
  <2>1. e.queue \in Seq(S) /\ n \in Nat
    BY DEF EventOf
  <2>2. i \in 1..n /\ e.queue[i] = l
    <3>1. PICK j \in 1..n : e.queue[j] = l
      BY <1>2, AsleepElements DEF Listeners
    <3> QED
      BY <3>1 DEF Position
  <2> HIDE DEF i
  <2>3. /\ f \in EventOf(S) /\ f.notified = e.notified
        /\ f.queue = SubSeq(e.queue, 1, i - 1) \o SubSeq(e.queue, i + 1, n)
    BY <1>2, DropListenerType DEF DropListener, RemoveAt, EventOf, i
  <2>4. /\ Len(f.queue) = n - 1
        /\ \A j \in 1..(n - 1) : f.queue[j] = IF j < i THEN e.queue[j] ELSE e.queue[j + 1]
    <3> DEFINE a == SubSeq(e.queue, 1, i - 1)
               b == SubSeq(e.queue, i + 1, n)
    <3>1. /\ a \in Seq(S) /\ Len(a) = i - 1
          /\ \A j \in 1..(i - 1) : a[j] = e.queue[j]
      BY <2>1, <2>2
    <3>2. /\ b \in Seq(S) /\ Len(b) = n - i
          /\ \A j \in 1..(n - i) : b[j] = e.queue[j + i]
      BY <2>1, <2>2
    <3>3. f.queue = a \o b
      BY <2>3
    <3> HIDE DEF a, b, f, n
    <3>4. /\ Len(a \o b) = n - 1
          /\ \A j \in 1..(n - 1) : (a \o b)[j] = IF j < i THEN a[j] ELSE b[j - i + 1]
      <4>1. /\ Len(a \o b) = Len(a) + Len(b)
            /\ \A j \in 1..(Len(a) + Len(b)) :
                 (a \o b)[j] = IF j <= Len(a) THEN a[j] ELSE b[j - Len(a)]
        BY <3>1, <3>2, ConcatProperties
      <4>2. ASSUME NEW j \in 1..(n - 1)
            PROVE  (a \o b)[j] = IF j < i THEN a[j] ELSE b[j - i + 1]
        <5>1. /\ j \in 1..(Len(a) + Len(b)) /\ j - Len(a) = j - i + 1
              /\ j <= Len(a) <=> j < i
          BY <2>1, <2>2, <3>1, <3>2
        <5> QED
          BY <4>1, <5>1
      <4> QED
        BY <2>1, <2>2, <3>1, <3>2, <4>1, <4>2
    <3>5. ASSUME NEW j \in 1..(n - 1)
          PROVE  f.queue[j] = IF j < i THEN e.queue[j] ELSE e.queue[j + 1]
      <4>1. CASE j < i
        BY <2>1, <2>2, <3>1, <3>3, <3>4, <4>1
      <4>2. CASE ~(j < i)
        <5>1. j - i + 1 \in 1..(n - i) /\ (j - i + 1) + i = j + 1
          BY <2>1, <2>2, <4>2
        <5> QED
          BY <3>2, <3>3, <3>4, <4>2, <5>1
      <4> QED
        BY <4>1, <4>2
    <3> QED
      BY <3>3, <3>4, <3>5
  <2>5. \A j \in 1..n : j # i => e.queue[j] # l
    BY <2>2 DEF WellFormed
  <2>6. Asleep(f) = Asleep(e) \ {l}
    <3>1. Asleep(f) = {f.queue[j] : j \in 1..(n - 1)} /\ Asleep(e) = {e.queue[j] : j \in 1..n}
      BY <2>3, <2>4, AsleepElements
    <3>2. ASSUME NEW j \in 1..(n - 1) PROVE f.queue[j] \in Asleep(e) \ {l}
      <4>1. CASE j < i
        BY <2>1, <2>2, <2>4, <2>5, <3>1, <4>1
      <4>2. CASE ~(j < i)
        BY <2>1, <2>2, <2>4, <2>5, <3>1, <4>2
      <4> QED
        BY <4>1, <4>2
    <3>3. ASSUME NEW j \in 1..n, j # i PROVE e.queue[j] \in Asleep(f)
      <4>1. CASE j < i
        <5>1. j \in 1..(n - 1) /\ f.queue[j] = e.queue[j]
          BY <2>1, <2>2, <2>4, <4>1
        <5> QED
          BY <3>1, <5>1
      <4>2. CASE ~(j < i)
        <5>1. j - 1 \in 1..(n - 1) /\ f.queue[j - 1] = e.queue[j]
          BY <2>1, <2>2, <2>4, <3>3, <4>2
        <5> QED
          BY <3>1, <5>1
      <4> QED
        BY <4>1, <4>2
    <3>4. ASSUME NEW x \in Asleep(e) \ {l} PROVE x \in Asleep(f)
      BY <2>2, <3>1, <3>3
    <3>5. ASSUME NEW x \in Asleep(f) PROVE x \in Asleep(e) \ {l}
      BY <3>1, <3>2
    <3> QED
      BY <3>4, <3>5
  <2>7. ASSUME NEW j \in 1..(n - 1), NEW k \in 1..(n - 1), f.queue[j] = f.queue[k]
        PROVE  j = k
    <3> DEFINE at(x) == IF x < i THEN x ELSE x + 1
    <3>1. at(j) \in 1..n /\ at(k) \in 1..n
      BY <2>1, <2>2
    <3>2. f.queue[j] = e.queue[at(j)] /\ f.queue[k] = e.queue[at(k)]
      BY <2>4
    <3>3. at(j) = at(k)
      BY <2>7, <3>1, <3>2 DEF WellFormed
    <3> QED
      BY <2>1, <2>2, <3>3
  <2>8. WellFormed(f)
    BY <2>3, <2>4, <2>6, <2>7 DEF WellFormed
  <2> QED
    BY <1>2, <2>3, <2>6, <2>8 DEF Listeners
<1> QED
  BY <1>1, <1>2
=============================================================================
