---------------------------- MODULE SampleBuffer ----------------------------
(***************************************************************************)
(* storage/buffer.go and storage/memoized_iterator.go: iterators that keep   *)
(* the samples of a lookback window, or the previous sample, for the query  *)
(* engine.  The wrapped iterator keeps the contract of SampleIterator.      *)
(* Ring positions count from 0, as in the code.                             *)
(***************************************************************************)
EXTENDS Integers, Sequences, FiniteSets, SequencesExt, FiniteSetsExt

CONSTANTS SbTimes, SbKinds,    \* timestamps and sample types
          SbDelta,             \* the lookback
          SbRing,              \* size of a new ring buffer (16 in the code)
          SbSeries,            \* the series that are iterated
          SbCalls

ASSUME BufferAssumption == SbTimes \subseteq Nat /\ SbDelta \in Nat /\ SbRing \in Nat \ {0}

VARIABLES sb,     \* BufferedSeriesIterator: series, position, lastTime, valid
                  \* (valueType is not ValNone), the ring; first and call are history
          mm      \* MemoizedSeriesIterator: series, position, lastTime, valid, prev
sbVars == <<sb, mm>>

Iter == INSTANCE SampleIterator WITH samples <- <<>>, at <- 0, call <- 0
TimesOf(s) == [i \in DOMAIN s |-> s[i].t]
MinT == -1000

-----------------------------------------------------------------------------
\* sampleRing: a buffer per type and the mixed one, "mixed"; use is the one in
\* use.  reset leaves the buffers as they are.
Bufs == SbKinds \cup {"mixed"}
NewRing == [buf |-> [k \in Bufs |-> <<>>], use |-> "no", i |-> -1, f |-> 0, l |-> 0, delta |-> SbDelta]
ResetRing(r) == [r EXCEPT !.l = 0, !.i = -1, !.f = 0, !.use = "no"]

ZeroSample == [t |-> 0, k |-> "zero"]
Zeros(n) == [j \in 1 .. n |-> ZeroSample]
\* Free the head of the buffer of samples that fell out of the range.
RECURSIVE Free(_, _, _)
Free(r, buf, tmin) ==
  IF buf[r.f + 1].t >= tmin THEN r
  ELSE Free([r EXCEPT !.f = (@ + 1) % Len(buf), !.l = @ - 1], buf, tmin)
\* Faulty variant: a full ring is not unrolled when it grows.
GrownFlat(r, buf) == [buf |-> buf \o Zeros(Len(buf)), i |-> Len(buf), f |-> r.f]
\* A full ring grows: the elements from f on move to the end.
Grown(r, buf) ==
  LET l == Len(buf)
  IN [buf |-> [j \in 1 .. 2 * l |-> IF j <= r.f THEN buf[j] ELSE IF j > l + r.f THEN buf[j - l] ELSE ZeroSample],
      i |-> r.f, f |-> r.f + l]
genericAdd(r, which, s) ==
  LET b0 == IF r.buf[which] = <<>> THEN Zeros(SbRing) ELSE r.buf[which]
      g == IF Len(b0) = r.l THEN Grown(r, b0) ELSE [buf |-> b0, i |-> (r.i + 1) % Len(b0), f |-> r.f]
      buf == [j \in DOMAIN g.buf |-> IF j = g.i + 1 THEN s ELSE g.buf[j]]
      n == [r EXCEPT !.buf[which] = buf, !.i = g.i, !.f = g.f, !.l = @ + 1]
  IN Free(n, buf, s.t - r.delta)
\* A sample of another type moves what is there to the mixed buffer.
Convert(r) ==
  IF r.use = "no" THEN r
  ELSE [r EXCEPT !.buf["mixed"] = r.buf["mixed"] \o r.buf[r.use], !.buf[r.use] = <<>>, !.use = "mixed"]
Add(r, s) ==
  IF r.use = "no" THEN [genericAdd(r, s.k, s) EXCEPT !.use = s.k]
  ELSE IF r.use \in {s.k, "mixed"} THEN genericAdd(r, r.use, s)
  ELSE genericAdd(Convert(r), "mixed", s)
reduceDelta(r, d) ==
  IF d >= r.delta THEN r
  ELSE IF r.l = 0 THEN [r EXCEPT !.delta = d]
  ELSE Free([r EXCEPT !.delta = d], r.buf[r.use], r.buf[r.use][r.i + 1].t - d)
\* What the iterator over the ring gives.
RingSamples(r) ==
  IF r.use = "no" \/ r.l <= 0 THEN <<>>
  ELSE [n \in 1 .. r.l |-> r.buf[r.use][((r.f + n - 1) % Len(r.buf[r.use])) + 1]]

-----------------------------------------------------------------------------
ResetBuffer(b, s) ==
  [b EXCEPT !.s = s, !.lastTime = MinT, !.ring = [ResetRing(@) EXCEPT !.delta = SbDelta],
            !.pos = 1, !.valid = s # <<>>, !.first = 1]
BufferNext(b) ==
  LET pos == Iter!ItNext(TimesOf(b.s), b.pos)
      valid == pos <= Len(b.s)
  IN IF ~b.valid THEN b
     ELSE [b EXCEPT !.ring = Add(@, b.s[b.pos]), !.pos = pos, !.valid = valid,
                    !.lastTime = IF valid THEN b.s[pos].t ELSE @]
RECURSIVE BufferNextUntil(_, _)
BufferNextUntil(b, t) ==
  LET n == BufferNext(b)
  IN IF ~n.valid \/ n.lastTime >= t THEN n ELSE BufferNextUntil(n, t)
\* A Seek that goes further than the lookback jumps to its start.
\* Faulty variant: to its end.
SeekStartLate(b, t) == t
SeekStart(b, t) == t - b.ring.delta
BufferSeek(b, t) ==
  LET t0 == SeekStart(b, t)
      jump == b.valid /\ t0 > b.lastTime
      pos == Iter!ItSeek(TimesOf(b.s), b.pos, t0)
      valid == pos <= Len(b.s)
      n == IF ~jump THEN b
           ELSE [b EXCEPT !.ring = ResetRing(@), !.pos = pos, !.valid = valid, !.first = pos,
                          !.lastTime = IF valid THEN b.s[pos].t ELSE @]
  IN IF (jump /\ ~valid) \/ n.lastTime >= t THEN n ELSE BufferNextUntil(n, t)

Did(b, op, t) == [b EXCEPT !.calls = @ + 1, !.call = [op |-> op, t |-> t]]
\* The engine evaluates its steps in the order of time: call.t is the time it has
\* got to.
SbCall(b) == sb.calls < SbCalls /\ sb' = b /\ UNCHANGED mm
SbReset(s) == SbCall(Did(ResetBuffer(sb, s), "reset", 0))
SbSeek(t) == t >= sb.call.t /\ SbCall(Did(BufferSeek(sb, t), "seek", t))
SbStep == LET n == BufferNext(sb) IN SbCall(Did(n, "next", Max({sb.call.t, n.lastTime})))
SbReduce(d) == SbCall(Did([sb EXCEPT !.ring = reduceDelta(@, d)], "reduce", sb.call.t))

-----------------------------------------------------------------------------
\* The memoized iterator remembers the previous element; 0 is none.
MemoNext(m) ==
  LET pos == Iter!ItNext(TimesOf(m.s), m.pos)
      valid == pos <= Len(m.s)
  IN IF ~m.valid THEN m
     ELSE [m EXCEPT !.prev = m.pos, !.pos = pos, !.valid = valid,
                    !.lastTime = IF valid THEN m.s[pos].t ELSE @]
RECURSIVE MemoNextUntil(_, _)
MemoNextUntil(m, t) ==
  LET n == MemoNext(m)
  IN IF ~n.valid \/ n.lastTime >= t THEN n ELSE MemoNextUntil(n, t)
\* Faulty variant: the previous element survives a jump.
MemoSeekKeepsPrev(m, t) ==
  LET t0 == t - SbDelta
      jump == m.valid /\ t0 > m.lastTime
      pos == Iter!ItSeek(TimesOf(m.s), m.pos, t0)
      valid == pos <= Len(m.s)
      n == IF ~jump THEN m
           ELSE [m EXCEPT !.pos = pos, !.valid = valid, !.lastTime = IF valid THEN m.s[pos].t ELSE @]
  IN IF (jump /\ ~valid) \/ n.lastTime >= t THEN n ELSE MemoNextUntil(n, t)
MemoSeek(m, t) ==
  LET t0 == t - SbDelta
      jump == m.valid /\ t0 > m.lastTime
      pos == Iter!ItSeek(TimesOf(m.s), m.pos, t0)
      valid == pos <= Len(m.s)
      n == IF ~jump THEN m
           ELSE [m EXCEPT !.prev = 0, !.pos = pos, !.valid = valid, !.lastTime = IF valid THEN m.s[pos].t ELSE @]
  IN IF (jump /\ ~valid) \/ n.lastTime >= t THEN n ELSE MemoNextUntil(n, t)
MmCall(m) == mm.calls < SbCalls /\ mm' = m /\ UNCHANGED sb
MmReset(s) == MmCall(Did([mm EXCEPT !.s = s, !.pos = 1, !.lastTime = MinT, !.valid = s # <<>>, !.prev = 0], "reset", 0))
MmSeek(t) == t >= mm.call.t /\ MmCall(Did(MemoSeek(mm, t), "seek", t))
MmStep == LET n == MemoNext(mm) IN MmCall(Did(n, "next", Max({mm.call.t, n.lastTime})))

-----------------------------------------------------------------------------
NewBuffer == [s |-> <<>>, pos |-> 1, lastTime |-> MinT, valid |-> FALSE, ring |-> NewRing, first |-> 1,
              call |-> [op |-> "reset", t |-> 0], calls |-> 0]
NewMemo == [s |-> <<>>, pos |-> 1, lastTime |-> MinT, valid |-> FALSE, prev |-> 0,
            call |-> [op |-> "reset", t |-> 0], calls |-> 0]
SbInit == sb = NewBuffer /\ mm = NewMemo
SbNext ==
  \/ \E s \in SbSeries : SbReset(s) \/ MmReset(s)
  \/ \E t \in SbTimes : SbSeek(t) \/ MmSeek(t)
  \/ SbStep \/ MmStep
  \/ \E d \in 0 .. SbDelta : SbReduce(d)
SbSpec == SbInit /\ [][SbNext]_sbVars

-----------------------------------------------------------------------------
\* The buffer holds, in order, the samples before the current one that lie within
\* the lookback of the latest of them, whatever their types are and however often
\* the ring was reset, grown or converted.
BufferIsWindow ==
  RingSamples(sb.ring)
    = SelectSeq(SubSeq(sb.s, sb.first, sb.pos - 1), LAMBDA x : x.t >= sb.s[sb.pos - 1].t - sb.ring.delta)

\* After a Seek the buffer has every sample of the window that ends at the time
\* sought, so that range functions see all of their range.
SeekFillsWindow ==
  sb.call.op = "seek" =>
    \A i \in 1 .. sb.pos - 1 : sb.s[i].t >= sb.call.t - sb.ring.delta => sb.s[i] \in ToSet(RingSamples(sb.ring))

\* The previous element is the one right before the current one, and after a Seek
\* it is there whenever it lies within the lookback.
PrevIsPrevious ==
  /\ mm.prev # 0 => mm.prev = mm.pos - 1
  /\ mm.call.op = "seek" /\ mm.pos > 1 => (mm.s[mm.pos - 1].t >= mm.call.t - SbDelta => mm.prev = mm.pos - 1)

\* The buffers of look-back iterators hold exactly the samples before the current.
LookbackIsExact == BufferIsWindow /\ SeekFillsWindow /\ PrevIsPrevious
=============================================================================
