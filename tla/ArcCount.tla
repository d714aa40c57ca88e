------------------------------ MODULE ArcCount ------------------------------
(***************************************************************************)
(* The Arc around a lock, as the owned guards and futures of the crate use *)
(* it: a strong count, and the handles of the program.  The count is an    *)
(* atomic number of its own; that it equals the number of owners is        *)
(* something to prove of the code that uses it.                            *)
(***************************************************************************)
EXTENDS Naturals

VARIABLES handles,  \* the tasks that have an Arc of their own, to call methods on
          strong,   \* the strong count
          freed     \* the last Arc is gone and the lock with it

\* Arc::clone and the drop of an Arc.
Increment == strong' = strong + 1 /\ UNCHANGED freed
Decrement == strong' = strong - 1 /\ freed' = (freed \/ strong = 1)

\* Arc::new: one handle.
OneHandle(T) ==
  /\ \E t \in T : handles = {t}
  /\ strong = 1
  /\ freed = FALSE

GiveHandle(t, u) ==
  /\ t \in handles /\ u \notin handles
  /\ handles' = handles \cup {u}
  /\ Increment

LoseHandle(t) ==
  /\ t \in handles
  /\ handles' = handles \ {t}
  /\ Decrement
=============================================================================
