--------------------------- MODULE SampleIterator ---------------------------
(***************************************************************************)
(* What chunkenc.Iterator promises (tsdb/chunkenc/chunk.go): the samples of *)
(* a series in timestamp order, with Next and Seek.  samples is the sequence *)
(* of timestamps, at the position: 0 before the first call, beyond the end  *)
(* once the iterator is exhausted.  call is the latest call.                *)
(***************************************************************************)
EXTENDS Integers, Sequences

ItNext(s, i) == IF i > Len(s) THEN i ELSE i + 1
ItSeek(s, i, t) ==
  IF i \in DOMAIN s /\ s[i] >= t THEN i
  ELSE LET ok == {j \in DOMAIN s : j >= i /\ s[j] >= t}
       IN IF ok = {} THEN Len(s) + 1 ELSE CHOOSE j \in ok : \A k \in ok : j <= k

VARIABLES samples, at, call

NextCall == [op |-> "next", t |-> 0]
SeekCall(t) == [op |-> "seek", t |-> t]

ItInit == at = 0
ItSteps ==
  \/ call' = NextCall /\ at' = ItNext(samples, at)
  \/ call'.op = "seek" /\ at' = ItSeek(samples, at, call'.t)
ItSpec == ItInit /\ [][ItSteps /\ UNCHANGED samples]_<<samples, at, call>>
=============================================================================
