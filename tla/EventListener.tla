--------------------------- MODULE EventListener ---------------------------
(***************************************************************************)
(* The notification primitive every lock of the crate is built on: the     *)
(* Event and EventListener of the event-listener crate, as src/ uses them. *)
(*                                                                         *)
(* An event is a FIFO list of listeners, some of which were notified.      *)
(* Notifications go to the oldest listener without one, so the notified    *)
(* listeners are a prefix of the list; their order no longer matters, and  *)
(* the list is the pair of                                                 *)
(*   notified : the set of listeners that were notified and whose owner    *)
(*              has not been polled since;                                 *)
(*   queue    : the sequence of listeners that still wait, oldest first.   *)
(* Every operation runs under the lock of the event's list and begins with *)
(* a full fence: it is one atomic, sequentially consistent step.           *)
(***************************************************************************)
EXTENDS Integers, Sequences, FiniteSets, SequencesExt

\* What an event over the listeners of S looks like.
EventOf(S) == [notified : SUBSET S, queue : Seq(S)]

NewEvent == [notified |-> {}, queue |-> <<>>]

Asleep(e)    == ToSet(e.queue)
Listeners(e) == e.notified \cup Asleep(e)

\* The oldest k sleeping listeners receive a notification.
WakeOldest(e, k) ==
  [notified |-> e.notified \cup {e.queue[i] : i \in 1..k},
   queue    |-> SubSeq(e.queue, k + 1, Len(e.queue))]

\* Event::listen: a listener of its own, at the end of the list.
Listen(e, l) == [e EXCEPT !.queue = Append(@, l)]

\* Event::notify(n) makes sure that n listeners hold a notification: those that
\* were notified earlier and have not consumed it yet count.
Notify(e, n) ==
  LET missing == n - Cardinality(e.notified)
  IN  IF missing <= 0 THEN e
      ELSE WakeOldest(e, IF missing < Len(e.queue) THEN missing ELSE Len(e.queue))

\* Event::notify(usize::MAX).
NotifyAll(e) == WakeOldest(e, Len(e.queue))

\* A poll of a notified listener consumes the notification and the listener.
Consume(e, l) == [e EXCEPT !.notified = @ \ {l}]

Position(e, l) == CHOOSE i \in 1..Len(e.queue) : e.queue[i] = l

\* Dropping a listener of the event. A notification that nobody consumed is passed on.
DropListener(e, l) ==
  IF l \in e.notified THEN Notify(Consume(e, l), 1)
                      ELSE [e EXCEPT !.queue = RemoveAt(@, Position(e, l))]
=============================================================================
