-------------------------- MODULE PostingsIterators --------------------------
(***************************************************************************)
(* The iterators over postings (tsdb/index/postings.go): plain lists, lists *)
(* in an index file, intersections, unions and differences of them, and the *)
(* search for the lists that intersect another.  An iterator is a record    *)
(* that holds the iterators it is made of; Next and Seek give the iterator  *)
(* that follows and whether a value was found.                              *)
(***************************************************************************)
EXTENDS Integers, Sequences, FiniteSets, SequencesExt, FiniteSetsExt

CONSTANTS PiRefs,     \* series references
          PiCalls     \* bound on the calls

ASSUME IteratorsAssumption == PiRefs \subseteq Nat \ {0} /\ PiCalls \in Nat

VARIABLE pit    \* the iterator; the references it should give, and the position among them
piVars == <<pit>>

Ret(it, ok) == [it |-> it, ok |-> ok]
Tail1(s, i) == SubSeq(s, i + 1, Len(s))
Put(s, i, x) == [j \in DOMAIN s |-> IF j = i THEN x ELSE s[j]]
\* container/heap, where only the least element counts.
Least(h) == CHOOSE i \in DOMAIN h : \A j \in DOMAIN h : h[i].cur < h[j].cur \/ (h[i].cur = h[j].cur /\ i <= j)
Without1(h, i) == SubSeq(h, 1, i - 1) \o Tail1(h, i)

-----------------------------------------------------------------------------
RECURSIVE Next1(_), Seek1(_, _), DoNext(_), NextAll(_, _), MergeNext(_), MergeSeek(_, _), RemNext(_)

\* ListPostings and bigEndianPostings.
ListNext(it) ==
  IF it.list # <<>> THEN Ret([it EXCEPT !.cur = it.list[1], !.list = Tail(@)], TRUE)
  ELSE Ret([it EXCEPT !.cur = IF it.kind = "list" THEN 0 ELSE @], FALSE)
ListSeek(it, x) ==
  LET ok == {i \in DOMAIN it.list : it.list[i] >= x}
  IN IF it.cur >= x THEN Ret(it, TRUE)
     ELSE IF ok = {} THEN Ret([it EXCEPT !.list = <<>>], FALSE)
     ELSE Ret([it EXCEPT !.cur = it.list[Min(ok)], !.list = Tail1(it.list, Min(ok))], TRUE)

\* intersectPostings: every iterator is moved to the greatest value seen, until
\* all are there.
RECURSIVE SeekAll(_, _)
SeekAll(it, i) ==
  IF i > Len(it.arr) THEN Ret(it, TRUE)
  ELSE LET r == Seek1(it.arr[i], it.cur)
           moved == [it EXCEPT !.arr = Put(it.arr, i, r.it)]
       IN IF ~r.ok THEN Ret(moved, FALSE)
          ELSE IF r.it.cur > it.cur THEN SeekAll([moved EXCEPT !.cur = r.it.cur], 1)
          ELSE SeekAll(moved, i + 1)
DoNext(it) == SeekAll(it, 1)
NextAll(it, i) ==
  IF i > Len(it.arr) THEN DoNext(it)
  ELSE LET r == Next1(it.arr[i])
           moved == [it EXCEPT !.arr = Put(it.arr, i, r.it)]
       IN IF ~r.ok THEN Ret(moved, FALSE)
          ELSE NextAll([moved EXCEPT !.cur = Max({@, r.it.cur})], i + 1)

\* mergedPostings.
MergeFirst(it) == [it EXCEPT !.cur = it.h[Least(it.h)].cur, !.init = TRUE]
MergeMove(it, r, i) == [it EXCEPT !.h = IF r.ok THEN Put(it.h, i, r.it) ELSE Without1(it.h, i)]
\* Faulty variant: a reference that two lists hold is given twice.
MergeNextTwice(it) ==
  IF it.h = <<>> THEN Ret(it, FALSE)
  ELSE IF ~it.init THEN Ret(MergeFirst(it), TRUE)
  ELSE LET i == Least(it.h)
           moved == MergeMove(it, Next1(it.h[i]), i)
       IN IF moved.h = <<>> THEN Ret(moved, FALSE) ELSE Ret(MergeFirst(moved), TRUE)
MergeNext(it) ==
  IF it.h = <<>> THEN Ret(it, FALSE)
  ELSE IF ~it.init THEN Ret(MergeFirst(it), TRUE)
  ELSE LET i == Least(it.h)
           moved == MergeMove(it, Next1(it.h[i]), i)
       IN IF moved.h = <<>> THEN Ret(moved, FALSE)
          ELSE IF moved.h[Least(moved.h)].cur # it.cur THEN Ret(MergeFirst(moved), TRUE)
          ELSE MergeNext(moved)
MergeSeek(it, x) ==
  IF it.h = <<>> THEN Ret(it, FALSE)
  ELSE IF ~it.init THEN MergeSeek(MergeFirst(it), x)
  ELSE IF it.cur >= x THEN Ret(it, TRUE)
  ELSE LET i == Least(it.h)
           moved == MergeMove(it, Seek1(it.h[i], x), i)
       IN IF moved.h = <<>> THEN Ret(moved, FALSE) ELSE MergeSeek(MergeFirst(moved), x)

\* removedPostings: full is one ahead of what was given.
FullNext(it) == LET r == Next1(it.full) IN [it EXCEPT !.full = r.it, !.fok = r.ok]
RemStart(it) == LET r == Next1(it.remove) IN [FullNext(it) EXCEPT !.remove = r.it, !.rok = r.ok, !.init = TRUE]
RemNext(it) ==
  IF ~it.init THEN RemNext(RemStart(it))
  ELSE IF ~it.fok THEN Ret(it, FALSE)
  ELSE IF ~it.rok \/ it.full.cur < it.remove.cur THEN Ret(FullNext([it EXCEPT !.cur = it.full.cur]), TRUE)
  ELSE IF it.remove.cur < it.full.cur
  THEN LET r == Seek1(it.remove, it.full.cur) IN RemNext([it EXCEPT !.remove = r.it, !.rok = r.ok])
  ELSE RemNext(FullNext(it))
RemSeek(it, x) ==
  IF it.cur >= x THEN Ret(it, TRUE)
  ELSE LET f == Seek1(it.full, x)
           r == Seek1(it.remove, x)
       IN RemNext([it EXCEPT !.full = f.it, !.fok = f.ok, !.remove = r.it, !.rok = r.ok, !.init = TRUE])

Next1(it) ==
  CASE it.kind \in {"list", "be"} -> ListNext(it)
    [] it.kind = "inter" -> NextAll(it, 1)
    [] it.kind = "merge" -> MergeNext(it)
    [] OTHER -> RemNext(it)
Seek1(it, x) ==
  CASE it.kind \in {"list", "be"} -> ListSeek(it, x)
    [] it.kind = "inter" -> DoNext([it EXCEPT !.cur = x])
    [] it.kind = "merge" -> MergeSeek(it, x)
    [] OTHER -> RemSeek(it, x)

-----------------------------------------------------------------------------
\* Intersect, Merge and Without; newMergedPostings moves each list to its first.
ListIt(kind, S) == [kind |-> kind, list |-> SetToSortSeq(S, <), cur |-> 0]
Intersect(its) == [kind |-> "inter", arr |-> its, cur |-> 0]
Merge(its) ==
  LET firsts == SelectSeq([i \in DOMAIN its |-> Next1(its[i])], LAMBDA r : r.ok)
  IN [kind |-> "merge", h |-> [i \in DOMAIN firsts |-> firsts[i].it], cur |-> 0, init |-> FALSE]
Without(full, drop) ==
  [kind |-> "rem", full |-> full, remove |-> drop, cur |-> 0, init |-> FALSE, fok |-> FALSE, rok |-> FALSE]

\* FindIntersectingPostings: the indexes of the candidates that share a reference
\* with p; a candidate that was found is popped.
RECURSIVE Intersecting(_, _)
\* Faulty variant: a candidate whose first reference is not there is given up.
IntersectingAtFirst(p, h) ==
  IF h = <<>> THEN {}
  ELSE LET i == Least(h)
           s == Seek1(p, h[i].cur)
       IN IF ~s.ok THEN {}
          ELSE (IF s.it.cur = h[i].cur THEN {h[i].index} ELSE {}) \cup Intersecting(s.it, Without1(h, i))
Intersecting(p, h) ==
  IF h = <<>> THEN {}
  ELSE LET i == Least(h)
           s == Seek1(p, h[i].cur)
           n == ListNext(h[i])
       IN IF ~s.ok THEN {}
          ELSE IF s.it.cur = h[i].cur THEN {h[i].index} \cup Intersecting(s.it, Without1(h, i))
          ELSE Intersecting(s.it, IF n.ok THEN Put(h, i, n.it) ELSE Without1(h, i))
FindIntersecting(p, lists) ==
  LET cands == SelectSeq([i \in DOMAIN lists |-> ListNext([kind |-> "list", list |-> lists[i], cur |-> 0, index |-> i])],
                         LAMBDA r : r.ok)
  IN Intersecting(p, [i \in DOMAIN cands |-> cands[i].it])

-----------------------------------------------------------------------------
\* The shapes of iterators that matchers give rise to, and what each should give.
Shapes(a, b, c) ==
  LET A == ListIt("list", a)
      B == ListIt("be", b)
      C == ListIt("list", c)
  IN {[it |-> A, want |-> a], [it |-> B, want |-> b],
      [it |-> Intersect(<<Merge(<<A, B>>), C>>), want |-> (a \cup b) \cap c],
      [it |-> Without(Intersect(<<A, B>>), C), want |-> (a \cap b) \ c],
      [it |-> Without(A, Merge(<<B, C>>)), want |-> a \ (b \cup c)],
      [it |-> Without(Without(B, A), C), want |-> (b \ a) \ c],
      [it |-> Merge(<<Without(A, B), C>>), want |-> (a \ b) \cup c]}
Subs == SUBSET PiRefs
PiCases ==
  {[it |-> x.it, want |-> SetToSortSeq(x.want, <), at |-> 0, call |-> [op |-> "new", t |-> 0], calls |-> 0] :
     x \in UNION {Shapes(a, b, c) : a, b, c \in Subs}}
PiInit == pit \in PiCases
PiStep(r, c) ==
  /\ pit.calls < PiCalls
  /\ pit.at <= Len(pit.want)
  /\ pit' = [pit EXCEPT !.it = r.it, !.call = c, !.calls = @ + 1,
               !.at = IF ~r.ok THEN Len(pit.want) + 1
                      ELSE IF r.it.cur \in ToSet(pit.want) THEN CHOOSE i \in DOMAIN pit.want : pit.want[i] = r.it.cur
                      ELSE -1]
PiNext ==
  \/ PiStep(Next1(pit.it), [op |-> "next", t |-> 0])
  \/ \E x \in PiRefs : PiStep(Seek1(pit.it, x), [op |-> "seek", t |-> x])
PiSpec == PiInit /\ [][PiNext]_piVars

-----------------------------------------------------------------------------
\* Every combination of postings behaves like an iterator over the set it stands
\* for, whichever calls of Next and Seek its user makes until it is exhausted.
PostingsContract == INSTANCE SampleIterator WITH samples <- pit.want, at <- pit.at, call <- pit.call
PostingsAreIterators == PostingsContract!ItSpec

\* The label values of the series a query selects are exactly those whose postings
\* share a reference with the query's.
IntersectingAreFound ==
  pit.call.op = "new" =>
    \A a, b \in Subs :
      LET lists == <<SetToSortSeq(a, <), SetToSortSeq(b, <)>>
      IN FindIntersecting(pit.it, lists) = {i \in 1 .. 2 : ToSet(lists[i]) \cap ToSet(pit.want) # {}}
=============================================================================
