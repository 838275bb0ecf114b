--------------------------- MODULE MergeIterators ---------------------------
(***************************************************************************)
(* storage/merge.go: the iterator that chains the samples of the same series *)
(* from several sources, and the merging of series sets, label values and   *)
(* chunks.  The sources of the chain are themselves iterators that keep the  *)
(* contract of SampleIterator; the one that a heap gives among equals is any *)
(* of them.                                                                 *)
(***************************************************************************)
EXTENDS Integers, Sequences, FiniteSets, SequencesExt, FiniteSetsExt

CONSTANTS MiTimes,        \* the timestamps, natural numbers
          MiSources,      \* the number of sources
          MiCalls,        \* bound on the calls to an iterator
          MiSplit         \* samples per chunk of the encoder (120 in the code)

ASSUME MergeAssumption == MiTimes \subseteq Nat /\ MiSources \in Nat \ {0} /\ MiSplit \in Nat \ {0}

VARIABLES src,            \* the timestamps of each source
          mi              \* the iterator: a position in each source, the heap h and
                          \* whether it exists, curr (0: nil), lastT, consecutive,
                          \* pc and changed inside Next; what was returned: out, call
miVars == <<src, mi>>

It == INSTANCE SampleIterator WITH samples <- <<>>, at <- 0, call <- 0
Ascending(S) == SetToSortSeq(S, LAMBDA a, b : a < b)
Lists == {Ascending(S) : S \in SUBSET MiTimes}
MinTime == -1
Merged == Ascending(UNION {ToSet(src[i]) : i \in DOMAIN src})

NewChain(n) == [pos |-> [i \in 1 .. n |-> 0], h |-> {}, hasHeap |-> FALSE, curr |-> 0,
                lastT |-> MinTime, consecutive |-> FALSE, pc |-> "idle", changed |-> FALSE,
                prev |-> <<0, 0>>, out |-> 0, call |-> [op |-> "new", t |-> 0], calls |-> 0]
MiCases == [1 .. MiSources -> Lists]
MiInit == src \in MiCases /\ mi = NewChain(MiSources)

Valid(pos, i) == pos[i] \in DOMAIN src[i]
AtT(pos, i) == src[i][pos[i]]
Tops(pos, h) == {i \in h : \A j \in h : AtT(pos, i) <= AtT(pos, j)}

\* Next returns the sample of source i, or nothing.
Returns(m, i, t) ==
  [m EXCEPT !.curr = i, !.pc = "idle", !.consecutive = IF i = 0 THEN @ ELSE ~m.changed,
            !.lastT = IF i = 0 THEN @ ELSE t, !.call = [op |-> "next", t |-> 0],
            !.out = IF i = 0 THEN Len(Merged) + 1 ELSE CHOOSE k \in DOMAIN Merged : Merged[k] = t]
\* Faulty variant: a change of source goes unnoticed.
PopQuietly(m, pos, h, i) ==
  LET n == [m EXCEPT !.pos = pos, !.h = h \ {i}, !.curr = i]
  IN IF AtT(pos, i) # m.lastT THEN Returns(n, i, AtT(pos, i)) ELSE n
\* The smallest of the heap becomes the current one; it is returned unless its
\* timestamp was returned before.
Pop(m, pos, h, i) ==
  LET n == [m EXCEPT !.pos = pos, !.h = h \ {i}, !.curr = i, !.changed = TRUE]
  IN IF AtT(pos, i) # m.lastT THEN Returns(n, i, AtT(pos, i)) ELSE n

Counted(m) == m.pc = "idle" /\ m.calls < MiCalls
ChainNext ==
  /\ Counted(mi)
  /\ LET others == 2 .. MiSources
         pos == IF mi.hasHeap THEN mi.pos
                ELSE [i \in DOMAIN mi.pos |-> IF i \in others THEN It!ItNext(src[i], mi.pos[i]) ELSE mi.pos[i]]
         curr == IF mi.hasHeap THEN mi.curr ELSE 1
         m == [mi EXCEPT !.pos = pos, !.hasHeap = TRUE, !.changed = ~mi.hasHeap, !.curr = curr,
                         !.h = IF mi.hasHeap THEN @ ELSE {i \in others : Valid(pos, i)},
                         !.pc = "loop", !.calls = @ + 1,
                         !.prev = IF mi.curr = 0 THEN <<0, 0>> ELSE <<mi.curr, mi.pos[mi.curr]>>]
     IN mi' = IF curr = 0 THEN Returns(m, 0, 0) ELSE m
  /\ UNCHANGED src

\* One turn of the loop in Next.
\* Faulty variant: a timestamp the current source has after another one is kept.
ChainTurnKeepsDuplicates ==
  /\ mi.pc = "loop"
  /\ LET pos == [mi.pos EXCEPT ![mi.curr] = It!ItNext(src[mi.curr], @)]
     IN IF Valid(pos, mi.curr) /\ (\A i \in mi.h : AtT(pos, mi.curr) < AtT(pos, i))
        THEN mi' = Returns([mi EXCEPT !.pos = pos], mi.curr, AtT(pos, mi.curr))
        ELSE LET h == IF Valid(pos, mi.curr) THEN mi.h \cup {mi.curr} ELSE mi.h
             IN IF h = {} THEN mi' = Returns([mi EXCEPT !.pos = pos], 0, 0)
                ELSE \E i \in Tops(pos, h) : mi' = Returns([mi EXCEPT !.pos = pos, !.h = h \ {i}, !.changed = TRUE], i, AtT(pos, i))
  /\ UNCHANGED src
ChainTurn ==
  /\ mi.pc = "loop"
  /\ LET pos == [mi.pos EXCEPT ![mi.curr] = It!ItNext(src[mi.curr], @)]
         valid == Valid(pos, mi.curr)
         h == IF valid THEN mi.h \cup {mi.curr} ELSE mi.h
     IN IF valid /\ AtT(pos, mi.curr) = mi.lastT THEN mi' = [mi EXCEPT !.pos = pos]
        ELSE IF valid /\ (\A i \in mi.h : AtT(pos, mi.curr) < AtT(pos, i))
        THEN mi' = Returns([mi EXCEPT !.pos = pos], mi.curr, AtT(pos, mi.curr))
        ELSE IF h = {} THEN mi' = Returns([mi EXCEPT !.pos = pos], 0, 0)
        ELSE \E i \in Tops(pos, h) : mi' = Pop(mi, pos, h, i)
  /\ UNCHANGED src

ChainSeek(t) ==
  /\ Counted(mi)
  /\ LET m == [mi EXCEPT !.calls = @ + 1]
         pos == [i \in DOMAIN mi.pos |-> It!ItSeek(src[i], mi.pos[i], t)]
         h == {i \in DOMAIN pos : Valid(pos, i)}
         n == [m EXCEPT !.pos = pos, !.hasHeap = TRUE, !.h = {}, !.changed = TRUE]
         Sought(r) == [r EXCEPT !.call = [op |-> "seek", t |-> t], !.consecutive = FALSE]
     IN IF mi.curr # 0 /\ mi.lastT >= t THEN mi' = [m EXCEPT !.call = [op |-> "seek", t |-> t]]
        ELSE IF h = {} THEN mi' = Sought(Returns(n, 0, 0))
        ELSE \E i \in Tops(pos, h) : mi' = Sought(Returns([n EXCEPT !.h = h \ {i}], i, AtT(pos, i)))
  /\ UNCHANGED src

MiNext == ChainNext \/ ChainTurn \/ \E t \in MiTimes : ChainSeek(t)
MiSpec == MiInit /\ [][MiNext]_miVars

-----------------------------------------------------------------------------
\* mergeStrings: two sorted lists into one, each string once.
RECURSIVE mergeStrings(_, _)
mergeStrings(a, b) ==
  IF a = <<>> \/ b = <<>> THEN a \o b
  ELSE IF Head(a) = Head(b) THEN <<Head(a)>> \o mergeStrings(Tail(a), Tail(b))
  ELSE IF Head(a) < Head(b) THEN <<Head(a)>> \o mergeStrings(Tail(a), b)
  ELSE <<Head(b)>> \o mergeStrings(a, Tail(b))
\* lvals halves the queriers until one is left.
RECURSIVE lvals(_)
lvals(ls) ==
  IF ls = <<>> THEN <<>> ELSE IF Len(ls) = 1 THEN ls[1]
  ELSE LET half == Len(ls) \div 2
       IN mergeStrings(lvals(SubSeq(ls, 1, half)), lvals(SubSeq(ls, half + 1, Len(ls))))

\* genericMergeSeriesSet: the pairs <<labels, sources>> that Next yields.
RECURSIVE MergeSeriesSets(_)
MergeSeriesSets(sets) ==
  LET open == {i \in DOMAIN sets : sets[i] # <<>>}
      low == Min({Head(sets[i]) : i \in open})
      now == {i \in open : Head(sets[i]) = low}
  IN IF open = {} THEN <<>>
     ELSE <<<<low, now>>>> \o MergeSeriesSets([i \in DOMAIN sets |-> IF i \in now THEN Tail(sets[i]) ELSE sets[i]])

-----------------------------------------------------------------------------
\* compactChunkIterator.  A chunk is the sorted sequence of its timestamps; each
\* source gives chunks that do not overlap.
ChunksOf(list, n) == [k \in 1 .. (Len(list) + n - 1) \div n |->
                        SubSeq(list, (k - 1) * n + 1, Min({k * n, Len(list)}))]
Open(iters) == {i \in DOMAIN iters : iters[i] # <<>>}
Before(c, d) == Head(c) < Head(d) \/ (Head(c) = Head(d) /\ Last(c) <= Last(d))
TopOf(iters) == CHOOSE i \in Open(iters) : \A j \in Open(iters) : Before(Head(iters[i]), Head(iters[j]))
Pulled(iters) == [i \in DOMAIN iters |-> IF i = TopOf(iters) THEN Tail(iters[i]) ELSE iters[i]]
Top(iters) == Head(iters[TopOf(iters)])
\* The end of an overlap grows with the chunks taken into it.
\* Faulty variant: it stays the end of the first.
OverlapEndOfFirst(maxT, next) == maxT
OverlapEnd(maxT, next) == Max({maxT, Last(next)})
\* The chunks at the top of the heap as long as they overlap what was taken;
\* perfect duplicates of the previous one are skipped.
RECURSIVE TakeOverlaps(_, _, _, _)
TakeOverlaps(iters, maxT, prev, got) ==
  IF Open(iters) = {} \/ Head(Top(iters)) > maxT THEN [it |-> iters, got |-> got]
  ELSE IF Top(iters) = prev THEN TakeOverlaps(Pulled(iters), maxT, prev, got)
  ELSE TakeOverlaps(Pulled(iters), OverlapEnd(maxT, Top(iters)), Top(iters), got \cup {Top(iters)})
\* The chunks that Next gives; what is left of a re-encoded overlap goes back to
\* the heap.
RECURSIVE CompactChunks(_)
CompactChunks(iters) ==
  IF Open(iters) = {} THEN <<>>
  ELSE LET curr == Top(iters)
           s == TakeOverlaps(Pulled(iters), Last(curr), curr, {})
           enc == ChunksOf(Ascending(UNION {ToSet(c) : c \in s.got \cup {curr}}), MiSplit)
       IN IF s.got = {} THEN <<curr>> \o CompactChunks(s.it)
          ELSE <<Head(enc)>> \o CompactChunks(Append(s.it, Tail(enc)))

-----------------------------------------------------------------------------
Contract == INSTANCE SampleIterator WITH samples <- Merged, at <- mi.out, call <- mi.call

\* Whatever the sources are and however they overlap, the chain is an iterator
\* over their timestamps, each once: Next gives the following one, Seek the first
\* that is not before the given time and stays where it is when it is there.
ChainIsAnIterator == Contract!ItSpec

\* Two samples that are marked consecutive are neighbours in one source, so that
\* its hint about counter resets between them can be trusted.
ConsecutiveAreNeighbours ==
  mi.pc = "idle" /\ mi.consecutive /\ mi.curr # 0 /\ mi.call.op = "next" =>
    mi.prev = <<mi.curr, mi.pos[mi.curr] - 1>>

\* Label values, series sets and chunks of several sources are merged without
\* loss, in order and without duplicates; overlapping chunks come out as chunks
\* that do not overlap and hold each sample once.
MergesAreFaithful ==
  mi.call.op = "new" =>
    /\ lvals(src) = Merged
    /\ MergeSeriesSets(src) = [k \in DOMAIN Merged |-> <<Merged[k], {i \in DOMAIN src : Merged[k] \in ToSet(src[i])}>>]
    /\ \A n \in 1 .. 2, m \in 1 .. 2 :
         LET out == CompactChunks([i \in DOMAIN src |-> ChunksOf(src[i], IF i = 1 THEN n ELSE m)])
         IN FlattenSeq(out) = Merged
=============================================================================
