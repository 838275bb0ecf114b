----------------------------- MODULE TxQueueOps -----------------------------
(* The logical contents of a transaction ring, a sequence of append IDs. *)
EXTENDS Integers, Sequences

\* Faulty variant: filters the whole ring, though IDs need not be in order.
CleanupFiltersRing(ring, b) == SelectSeq(ring, LAMBDA id : id >= b)

\* The loop of cleanupAppendIDsBelow stops after k IDs.
KeepsFrom(ring, b, k) ==
    /\ \A i \in 1..k : ring[i] < b
    /\ k < Len(ring) => ring[k + 1] >= b

\* txRing.cleanupAppendIDsBelow pops IDs off the front while they are below b.
CleanupBelow(ring, b) ==
    LET k == CHOOSE k \in 0..Len(ring) : KeepsFrom(ring, b, k)
    IN  SubSeq(ring, k + 1, Len(ring))
=============================================================================
