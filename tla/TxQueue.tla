------------------------------- MODULE TxQueue -------------------------------
(* What a transaction ring promises the series that owns it: a FIFO queue of *)
(* append IDs of unbounded capacity, cleaned from the front.                 *)
EXTENDS TxQueueOps

CONSTANT IDs        \* append IDs

VARIABLE queue

Init == queue = << >>

Add(id) == queue' = Append(queue, id)

Cleanup(b) == queue' = CleanupBelow(queue, b)

Next == \E id \in IDs : Add(id) \/ Cleanup(id)

Spec == Init /\ [][Next]_queue
=============================================================================
