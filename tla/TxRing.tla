------------------------------- MODULE TxRing -------------------------------
(***************************************************************************)
(* The circular array that holds the append IDs of a series                *)
(* (txRing, tsdb/isolation.go), shown to implement TxQueue.  All its       *)
(* operations run under the lock of the series.                            *)
(***************************************************************************)
EXTENDS Integers, Sequences

CONSTANTS
    RingIDs,            \* append IDs
    Capacity,       \* size of a new ring (newMemSeries asks for 4)
    MaxCapacity     \* bound on the size of the ring

ASSUME RingAssumption ==
    /\ RingIDs \subseteq Nat \ {0}
    /\ Capacity \in Nat \ {0}
    /\ MaxCapacity \in Nat

VARIABLES
    txIDs,          \* the array, a function on 0..(len - 1)
    txIDFirst,      \* position of the first ID
    txIDCount       \* number of IDs

ringVars == <<txIDs, txIDFirst, txIDCount>>

RingSize(ids) == IF DOMAIN ids = {} THEN 0
             ELSE 1 + CHOOSE n \in DOMAIN ids : \A m \in DOMAIN ids : m <= n

RingInit ==
    /\ txIDs = [i \in 0..(Capacity - 1) |-> 0]
    /\ txIDFirst = 0
    /\ txIDCount = 0

\* Faulty variant: the wrapped part of a full ring is not moved.
RingGrownForgetsWrap(ids, first) ==
    [i \in 0..(2 * RingSize(ids) - 1) |->
        IF i < RingSize(ids) - first THEN ids[first + i] ELSE 0]

\* The array of twice the size, IDs moved to its start: the part from first to
\* the end, then the part that had wrapped around.
RingGrown(ids, first) ==
    [i \in 0..(2 * RingSize(ids) - 1) |->
        CASE i < RingSize(ids) - first -> ids[first + i]
          [] i >= RingSize(ids) - first /\ i < RingSize(ids) -> ids[i - (RingSize(ids) - first)]
          [] OTHER -> 0]

\* txRing.add
RingAdd(id) ==
    LET full == txIDCount = RingSize(txIDs)
        ids == IF full THEN RingGrown(txIDs, txIDFirst) ELSE txIDs
        first == IF full THEN 0 ELSE txIDFirst
    IN  /\ RingSize(ids) <= MaxCapacity
        /\ txIDs' = [ids EXCEPT ![(first + txIDCount) % RingSize(ids)] = id]
        /\ txIDFirst' = first
        /\ txIDCount' = txIDCount + 1

\* Faulty variant: the position of the first ID runs past the end of the array.
RingCleanupNoWrap(b) ==
    \E k \in 0..txIDCount :
        /\ \A i \in 0..(k - 1) : txIDs[(txIDFirst + i) % RingSize(txIDs)] < b
        /\ k < txIDCount => txIDs[(txIDFirst + k) % RingSize(txIDs)] >= b
        /\ txIDFirst' = txIDFirst + k
        /\ txIDCount' = txIDCount - k
        /\ UNCHANGED txIDs

\* txRing.cleanupAppendIDsBelow: the loop advances k times, wrapping its read
\* position; txIDFirst itself is wrapped once, after the loop.
RingCleanup(b) ==
    \E k \in 0..txIDCount :
        /\ \A i \in 0..(k - 1) : txIDs[(txIDFirst + i) % RingSize(txIDs)] < b
        /\ k < txIDCount => txIDs[(txIDFirst + k) % RingSize(txIDs)] >= b
        /\ txIDFirst' = (txIDFirst + k) % RingSize(txIDs)
        /\ txIDCount' = txIDCount - k
        /\ UNCHANGED txIDs

RingNext ==
    \/ \E id \in RingIDs : RingAdd(id)
    \/ \E b \in RingIDs : RingCleanup(b)

RingSpec == RingInit /\ [][RingNext]_ringVars

-----------------------------------------------------------------------------
(* Properties. *)

\* The array is indexed from 0, the first ID lies in it and there are never
\* more IDs than places.
RingTypeOK ==
    /\ DOMAIN txIDs = 0..(RingSize(txIDs) - 1)
    /\ \A i \in DOMAIN txIDs : txIDs[i] \in RingIDs \cup {0}
    /\ txIDFirst \in DOMAIN txIDs
    /\ txIDCount \in 0..RingSize(txIDs)

\* What txIDCount steps of a txRingIterator return: it starts at txIDFirst and
\* wraps at the end of the array.
Contents == [i \in 1..txIDCount |-> txIDs[(txIDFirst + i - 1) % RingSize(txIDs)]]

Queue == INSTANCE TxQueue WITH IDs <- RingIDs, queue <- Contents

\* The ring implements the queue the isolation logic relies on: growing,
\* wrapping and cleaning never lose, reorder or resurrect an ID.
ImplementsQueue == Queue!Spec
=============================================================================
