--------------------------- MODULE ArcCountProofs ---------------------------
(* What a clone and a drop do to a count that is exact. *)
EXTENDS ArcCount, TLAPS

\* A clone counts one more owner and does not free the lock.
LEMMA Incremented ==
  ASSUME strong \in Nat, strong # 0, freed <=> strong = 0, Increment
  PROVE  strong' = strong + 1 /\ strong' \in Nat /\ (freed' <=> strong' = 0)
<1>1. strong' = strong + 1 /\ strong' \in Nat /\ strong' # 0 /\ freed' = freed
  BY DEF Increment
<1> QED
  BY <1>1

\* The last Arc to be dropped frees the lock, and no other does.
LEMMA Decremented ==
  ASSUME strong \in Nat, strong # 0, freed <=> strong = 0, Decrement
  PROVE  strong' = strong - 1 /\ strong' \in Nat /\ (freed' <=> strong' = 0)
<1>1. strong' = strong - 1 /\ strong' \in Nat /\ (strong = 1 <=> strong' = 0)
  BY DEF Decrement
<1>2. freed' = (freed \/ strong = 1) /\ ~freed
  BY DEF Decrement
<1> QED
  BY <1>1, <1>2
=============================================================================
