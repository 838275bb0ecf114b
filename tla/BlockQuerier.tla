---------------------------- MODULE BlockQuerier ----------------------------
(***************************************************************************)
(* Reading the samples of one series from a block: tombstone intervals      *)
(* (tsdb/tombstones), the choice of chunks and the iterators that leave out  *)
(* deleted samples (tsdb/querier.go), and the iterators of the head that     *)
(* bound a chunk by time or by the number of samples a query may see         *)
(* (tsdb/head_read.go).  A chunk is the ascending sequence of its           *)
(* timestamps; the chunk iterator keeps the contract of SampleIterator.     *)
(***************************************************************************)
EXTENDS Integers, Sequences, FiniteSets, SequencesExt, FiniteSetsExt

CONSTANTS BqTimes,          \* the timestamps of samples
          BqMin, BqMax,     \* math.MinInt64 and math.MaxInt64
          BqLayouts,        \* the chunks a series may consist of
          BqCalls           \* bound on the calls to an iterator

ASSUME QuerierAssumption == BqTimes \subseteq BqMin + 1 .. BqMax - 1

VARIABLE bq    \* kind of iterator, chunks, stones (the tombstones), mint, maxt and
               \* stop, the iterator's state st, and what it returned: out, call
bqVars == <<bq>>

ChunkIt == INSTANCE SampleIterator WITH samples <- <<>>, at <- 0, call <- 0

-----------------------------------------------------------------------------
InBounds(r, t) == r.min <= t /\ t <= r.max
IsSubrange(r, ivs) == \E i \in DOMAIN ivs : InBounds(ivs[i], r.min) /\ InBounds(ivs[i], r.max)
Deleted(ivs, t) == \E i \in DOMAIN ivs : InBounds(ivs[i], t)

\* sort.Search: the first index, from 0, for which P holds; n when none does.
SearchIn(S, n) == IF S = {} THEN n ELSE Min(S)
Panic == <<[min |-> BqMax, max |-> BqMin]>>   \* index out of range
\* Intervals.Add; indexes from 0.
\* Faulty variant: neighbours are not merged with what is added.
AddIntervalApart(in, n) ==
  LET mini == SearchIn({i \in 0 .. Len(in) - 1 : in[i + 1].max >= n.min}, Len(in))
      maxi == SearchIn({i \in 0 .. Len(in) - mini - 1 : in[mini + i + 1].min > n.max}, Len(in) - mini)
      merged == [min |-> Min({n.min, in[mini + 1].min}), max |-> Max({n.max, in[maxi + mini].max})]
  IN IF mini = Len(in) THEN Append(in, n)
     ELSE IF maxi = 0 THEN SubSeq(in, 1, mini) \o <<n>> \o SubSeq(in, mini + 1, Len(in))
     ELSE SubSeq(in, 1, mini) \o <<merged>> \o SubSeq(in, maxi + mini + 1, Len(in))
AddInterval(in, n) ==
  LET mini == IF n.min = BqMin THEN 0
              ELSE SearchIn({i \in 0 .. Len(in) - 1 : in[i + 1].max >= n.min - 1}, Len(in))
      maxi == IF n.max = BqMax THEN Len(in)
              ELSE SearchIn({i \in 0 .. Len(in) - mini - 1 : in[mini + i + 1].min > n.max + 1}, Len(in) - mini)
      merged == [min |-> Min({n.min, in[mini + 1].min}), max |-> Max({n.max, in[maxi + mini].max})]
  IN IF in = <<>> \/ mini = Len(in) THEN Append(in, n)
     ELSE IF maxi = 0 THEN SubSeq(in, 1, mini) \o <<n>> \o SubSeq(in, mini + 1, Len(in))
     ELSE IF maxi + mini > Len(in) THEN Panic
     ELSE SubSeq(in, 1, mini) \o <<merged>> \o SubSeq(in, maxi + mini + 1, Len(in))
TruncateBefore(ivs, t) ==
  LET old == {i \in DOMAIN ivs : t > ivs[i].max}
  IN IF old = {} THEN ivs ELSE SubSeq(ivs, Max(old) + 1, Len(ivs))

-----------------------------------------------------------------------------
\* blockBaseSeriesSet.Next, for one series: the chunks to read and the intervals
\* to leave out, the ends of the queried range among them.
Meta(c) == [min |-> c[1], max |-> c[Len(c)]]
Kept(b) == SelectSeq(b.chunks, LAMBDA c : /\ Meta(c).max >= b.mint /\ Meta(c).min <= b.maxt
                                          /\ ~IsSubrange(Meta(c), b.stones))
Trimmed(b) ==
  LET chks == ToSet(Kept(b))
      front == IF \E c \in chks : Meta(c).min < b.mint
               THEN AddInterval(b.stones, [min |-> BqMin, max |-> b.mint - 1]) ELSE b.stones
  IN IF \E c \in chks : Meta(c).max > b.maxt
     THEN AddInterval(front, [min |-> b.maxt + 1, max |-> BqMax]) ELSE front

\* The samples the query asks for.
Wanted(b) ==
  SelectSeq(FlattenSeq(b.chunks), LAMBDA t : b.mint <= t /\ t <= b.maxt /\ ~Deleted(b.stones, t))

-----------------------------------------------------------------------------
\* DeletedIterator over chunk c: a position and the intervals not yet passed.
Passed(ivs, t) == SelectSeq(ivs, LAMBDA r : t <= r.max)
RECURSIVE DelNext(_, _)
DelNext(c, s) ==
  LET pos == ChunkIt!ItNext(c, s.pos)
      ivs == Passed(s.ivs, c[pos])
  IN IF pos > Len(c) THEN [s EXCEPT !.pos = pos]
     ELSE IF Deleted(ivs, c[pos]) THEN DelNext(c, [pos |-> pos, ivs |-> ivs])
     ELSE [pos |-> pos, ivs |-> ivs]
\* Faulty variant: the sample that was sought may be a deleted one.
DelSeekAsIs(c, s, t) == [s EXCEPT !.pos = ChunkIt!ItSeek(c, s.pos, t)]
DelSeek(c, s, t) ==
  LET pos == ChunkIt!ItSeek(c, s.pos, t)
      ivs == Passed(s.ivs, c[pos])
  IN IF pos > Len(c) THEN [s EXCEPT !.pos = pos]
     ELSE IF Deleted(ivs, c[pos]) THEN DelNext(c, [pos |-> pos, ivs |-> ivs])
     ELSE [pos |-> pos, ivs |-> ivs]

\* populateWithDelSeriesIterator: the chunk i and the iterator over it.
\* Faulty variant: an interval that begins before the chunk is not among them.
OverlappingInside(c, ivs) == SelectSeq(ivs, LAMBDA r : Meta(c).min <= r.min /\ r.min <= Meta(c).max)
Overlapping(c, ivs) == SelectSeq(ivs, LAMBDA r : Meta(c).min <= r.max /\ r.min <= Meta(c).max)
RECURSIVE PopNext(_, _)
PopNext(b, st) ==
  LET chks == Kept(b)
      cur == IF st.i > 0 THEN DelNext(chks[st.i], st.cur) ELSE st.cur
  IN IF st.i > 0 /\ cur.pos <= Len(chks[st.i]) THEN [st EXCEPT !.cur = cur]
     ELSE IF st.i >= Len(chks) THEN [st EXCEPT !.cur = cur, !.done = TRUE]
     ELSE PopNext(b, [st EXCEPT !.i = @ + 1,
                                !.cur = [pos |-> 0, ivs |-> Overlapping(chks[st.i + 1], Trimmed(b))]])
RECURSIVE PopSeek(_, _, _)
PopSeek(b, st, t) ==
  LET chks == Kept(b)
      cur == IF st.i > 0 THEN DelSeek(chks[st.i], st.cur, t) ELSE st.cur
      next == PopNext(b, [st EXCEPT !.cur = cur])
  IN IF st.i > 0 /\ cur.pos <= Len(chks[st.i]) THEN [st EXCEPT !.cur = cur]
     ELSE IF next.done THEN next ELSE PopSeek(b, next, t)

\* populateWithDelChunkSeriesIterator: the chunks it gives.  A chunk that overlaps
\* an interval is encoded again; when nothing is left of it, Next is false.
RECURSIVE ChunksFrom(_, _)
ChunksFrom(b, k) ==
  IF k > Len(Kept(b)) THEN <<>>
  ELSE LET c == Kept(b)[k]
           left == SelectSeq(c, LAMBDA t : ~Deleted(Overlapping(c, Trimmed(b)), t))
       IN IF left = <<>> THEN <<>> ELSE <<left>> \o ChunksFrom(b, k + 1)

-----------------------------------------------------------------------------
\* boundedIterator over the first chunk, between mint and maxt; pos is the
\* position of the chunk iterator, val whether a value was returned.
Chunk(b) == b.chunks[1]
At(b, pos) == Chunk(b)[pos]
BoundedNext(b, st) ==
  LET from == {p \in st.pos + 1 .. Len(Chunk(b)) : At(b, p) >= b.mint}
      pos == IF from = {} THEN Len(Chunk(b)) + 1 ELSE Min(from)
  IN [pos |-> pos, val |-> pos <= Len(Chunk(b)) /\ At(b, pos) <= b.maxt]
BoundedSeek(b, st, t) ==
  LET low == ChunkIt!ItSeek(Chunk(b), st.pos, b.mint)
      pos == ChunkIt!ItSeek(Chunk(b), st.pos, t)
      after == ChunkIt!ItSeek(Chunk(b), low, t)
  IN IF t < b.mint
     THEN IF low > Len(Chunk(b)) THEN [pos |-> low, val |-> FALSE]
          ELSE IF At(b, low) <= b.maxt THEN [pos |-> low, val |-> TRUE]
          ELSE [pos |-> after, val |-> after <= Len(Chunk(b))]
     ELSE IF t > b.maxt THEN [pos |-> pos, val |-> FALSE]
     ELSE [pos |-> pos, val |-> pos <= Len(Chunk(b))]

\* stopIterator over the first chunk: only Next counts; Seek is the chunk
\* iterator's own.
StopNext(b, st) ==
  IF st.i + 1 > b.stop THEN [st EXCEPT !.val = FALSE]
  ELSE LET pos == ChunkIt!ItNext(Chunk(b), st.pos)
       IN [i |-> st.i + 1, pos |-> pos, val |-> pos <= Len(Chunk(b))]
StopSeek(b, st, t) ==
  LET pos == ChunkIt!ItSeek(Chunk(b), st.pos, t) IN [st EXCEPT !.pos = pos, !.val = pos <= Len(Chunk(b))]

-----------------------------------------------------------------------------
Expected(b) ==
  IF b.kind = "stop" THEN SubSeq(Chunk(b), 1, b.stop)
  ELSE IF b.kind = "bounded" THEN SelectSeq(Chunk(b), LAMBDA t : b.mint <= t /\ t <= b.maxt)
  ELSE Wanted(b)
\* Where the sample under the iterator is among the expected ones; -1 is nowhere.
Place(b, t) == IF t \in ToSet(Expected(b)) THEN CHOOSE k \in DOMAIN Expected(b) : Expected(b)[k] = t ELSE -1
OutOf(b, st) ==
  IF b.kind = "populate"
  THEN IF st.done THEN Len(Expected(b)) + 1 ELSE Place(b, Kept(b)[st.i][st.cur.pos])
  ELSE IF st.val THEN Place(b, At(b, st.pos)) ELSE Len(Expected(b)) + 1

BqCall(st, c) ==
  /\ bq.calls < BqCalls
  /\ bq' = [bq EXCEPT !.st = st, !.call = c, !.calls = @ + 1, !.out = OutOf(bq, st)]
BqStep ==
  BqCall(IF bq.kind = "populate" THEN PopNext(bq, bq.st)
         ELSE IF bq.kind = "bounded" THEN BoundedNext(bq, bq.st) ELSE StopNext(bq, bq.st),
         [op |-> "next", t |-> 0])
BqSeek(t) ==
  BqCall(IF bq.kind = "populate" THEN PopSeek(bq, bq.st, t)
         ELSE IF bq.kind = "bounded" THEN BoundedSeek(bq, bq.st, t) ELSE StopSeek(bq, bq.st, t),
         [op |-> "seek", t |-> t])

Intervals == {r \in [min : BqTimes, max : BqTimes] : r.min <= r.max}
Stones == {<<>>} \cup {AddInterval(AddInterval(<<>>, r), q) : r, q \in Intervals}
Start(kind) == IF kind = "populate" THEN [i |-> 0, cur |-> [pos |-> 0, ivs |-> <<>>], done |-> FALSE]
               ELSE IF kind = "bounded" THEN [pos |-> 0, val |-> FALSE] ELSE [i |-> 0, pos |-> 0, val |-> FALSE]
NewBq(kind, chunks, stones, r, stop) ==
  [kind |-> kind, chunks |-> chunks, stones |-> stones, mint |-> r.min, maxt |-> r.max, stop |-> stop,
   st |-> Start(kind), out |-> 0, call |-> [op |-> "new", t |-> 0], calls |-> 0]
BqCases ==
  {NewBq("populate", chunks, stones, r, 0) : chunks \in BqLayouts, r \in Intervals, stones \in Stones}
  \cup {NewBq("bounded", chunks, <<>>, r, 0) : chunks \in BqLayouts, r \in Intervals}
  \cup UNION {{NewBq("stop", chunks, <<>>, r, stop) : stop \in 1 .. Len(chunks[1]) - 1} :
                chunks \in BqLayouts, r \in Intervals}
BqInit == bq \in BqCases
BqNext == BqStep \/ \E t \in BqTimes : BqSeek(t)
BqSpec == BqInit /\ [][BqNext]_bqVars

-----------------------------------------------------------------------------
Covered(ivs) == {t \in BqMin .. BqMax : Deleted(ivs, t)}
\* Adding an interval deletes exactly what it covers, on top of what was deleted,
\* and leaves the intervals sorted with a gap between any two; truncating forgets
\* no deletion at or after the given time.
IntervalsAreExact ==
  bq.call.op = "new" /\ bq.kind = "populate" =>
    /\ \A n \in Intervals \cup {[min |-> BqMin, max |-> bq.mint - 1]} :
         LET r == AddInterval(bq.stones, n)
         IN /\ Covered(r) = Covered(bq.stones) \cup Covered(<<n>>)
            /\ \A i \in 1 .. Len(r) - 1 : r[i].max + 1 < r[i + 1].min
    /\ \A t \in BqTimes : Covered(TruncateBefore(bq.stones, t)) \cap t .. BqMax = Covered(bq.stones) \cap t .. BqMax

\* The same for the interval that cuts off the end of a query's range.
CutOffIsAdded ==
  bq.call.op = "new" /\ bq.kind = "populate" => Trimmed(bq) # Panic

\* A query for samples gets those of its range that are not deleted, through
\* whichever calls of Next and Seek, and so do the head's bounded iterators.
QuerierContract == INSTANCE SampleIterator WITH samples <- Expected(bq), at <- bq.out, call <- bq.call
QuerierIsAnIterator == QuerierContract!ItSpec

\* Chunks that the tombstones remove entirely are left out before the chunks are
\* read: each one that is read has a sample left.
EmptyChunksAreFiltered ==
  bq.call.op = "new" /\ bq.kind = "populate" /\ Trimmed(bq) # Panic =>
    \A c \in ToSet(Kept(bq)) : \E i \in DOMAIN c : ~Deleted(Trimmed(bq), c[i])

\* A query for chunks, a compaction's for one, gets the samples a query for samples
\* gets, encoded in chunks again, when no chunk read is empty.
ChunksMatchSamples ==
  bq.call.op = "new" /\ bq.kind = "populate" /\ Trimmed(bq) # Panic /\ EmptyChunksAreFiltered =>
    FlattenSeq(ChunksFrom(bq, 1)) = Wanted(bq)
=============================================================================
