----------------------------- MODULE RemoteRead -----------------------------
(***************************************************************************)
(* concreteSeriesIterator of storage/remote/codec.go: the iterator over a   *)
(* series read from a remote endpoint, which keeps its floats and its       *)
(* histograms apart.  Cursors count from 1; 0 is the code's -1.             *)
(***************************************************************************)
EXTENDS Integers, Sequences, FiniteSets, SequencesExt

CONSTANTS RrTimes, RrCalls

ASSUME RemoteReadAssumption == RrTimes \subseteq Nat /\ RrCalls \in Nat

VARIABLES series,    \* [floats, hists]: timestamps; intHist: whether the histograms
                     \* have integer counts
          rr         \* floatsCur, histogramsCur, curValType; what was returned: out,
                     \* call
rrVars == <<series, rr>>

RrSorted(S) == SetToSortSeq(S, LAMBDA a, b : a < b)
RrLists == {RrSorted(S) : S \in SUBSET RrTimes}
floats == series.floats
hists == series.hists
RrAll == RrSorted(ToSet(floats) \cup ToSet(hists))
getHistogramValType == IF series.intHist THEN "histogram" ELSE "floathistogram"

RrSeries == [floats : RrLists, hists : RrLists, intHist : BOOLEAN]
NewRr == [fc |-> 0, hc |-> 0, typ |-> "none", out |-> 0, call |-> [op |-> "new", t |-> 0], calls |-> 0]
RrInit ==
  /\ series \in RrSeries
  /\ rr = NewRr

\* What a call returns: the type, and through At the sample under its cursor.
RrReturns(fc, hc, typ, call) ==
  /\ rr.calls < RrCalls
  /\ LET t == IF typ = "float" THEN floats[fc] ELSE hists[hc]
     IN rr' = [fc |-> fc, hc |-> hc, typ |-> typ, call |-> call, calls |-> rr.calls + 1,
               out |-> IF typ = "none" THEN Len(RrAll) + 1 ELSE CHOOSE k \in DOMAIN RrAll : RrAll[k] = t]
  /\ UNCHANGED series

NoTS == 1000000
Peek(list, cur) == IF cur + 1 <= Len(list) THEN list[cur + 1] ELSE NoTS
\* Faulty variant: of two samples with the same timestamp only the float is
\* passed.
RrNextOneCursor ==
  LET f == Peek(floats, rr.fc)
      h == Peek(hists, rr.hc)
      Step(fc, hc, typ) == RrReturns(fc, hc, typ, [op |-> "next", t |-> 0])
  IN IF f = NoTS /\ h = NoTS THEN Step(Len(floats) + 1, Len(hists) + 1, "none")
     ELSE IF h < f THEN Step(rr.fc, rr.hc + 1, "histogram")
     ELSE Step(rr.fc + 1, rr.hc, "float")
RrNext ==
  LET f == Peek(floats, rr.fc)
      h == Peek(hists, rr.hc)
      Step(fc, hc, typ) == RrReturns(fc, hc, typ, [op |-> "next", t |-> 0])
  IN IF f < h THEN Step(rr.fc + 1, rr.hc, "float")
     ELSE IF h < f THEN Step(rr.fc, rr.hc + 1, "histogram")
     ELSE IF f = NoTS THEN Step(Len(floats) + 1, Len(hists) + 1, "none")
     ELSE Step(rr.fc + 1, rr.hc + 1, "float")

\* sort.Search from a cursor on: the first timestamp not before t.
Search(list, cur, t) ==
  IF \E i \in cur .. Len(list) : list[i] >= t
  THEN CHOOSE i \in cur .. Len(list) : list[i] >= t /\ \A j \in cur .. i - 1 : list[j] < t
  ELSE Len(list) + 1
RrSeek(t) ==
  LET fc == IF rr.fc = 0 THEN 1 ELSE rr.fc
      hc == IF rr.hc = 0 THEN 1 ELSE rr.hc
      f == Search(floats, fc, t)
      h == Search(hists, hc, t)
      Step(a, b, typ) == RrReturns(a, b, typ, [op |-> "seek", t |-> t])
  IN IF fc > Len(floats) /\ hc > Len(hists)
     THEN /\ rr.calls < RrCalls
          /\ rr' = [rr EXCEPT !.fc = fc, !.hc = hc, !.calls = @ + 1, !.call = [op |-> "seek", t |-> t],
                              !.out = Len(RrAll) + 1]
          /\ UNCHANGED series
     ELSE IF (rr.typ = "float" /\ floats[fc] >= t) \/ (rr.typ \notin {"none", "float"} /\ hists[hc] >= t)
     THEN Step(fc, hc, rr.typ)
     ELSE IF f <= Len(floats) /\ h <= Len(hists)
     THEN IF floats[f] <= hists[h]
          THEN Step(f, IF floats[f] # hists[h] THEN h - 1 ELSE h, "float")
          ELSE Step(f - 1, h, getHistogramValType)
     ELSE IF f <= Len(floats) THEN Step(f, h, "float")
     ELSE IF h <= Len(hists) THEN Step(f, h, getHistogramValType)
     ELSE Step(f, h, "none")

RrSteps == RrNext \/ \E t \in RrTimes : RrSeek(t)
RrSpec == RrInit /\ [][RrSteps]_rrVars

-----------------------------------------------------------------------------
RemoteContract == INSTANCE SampleIterator WITH samples <- RrAll, at <- rr.out, call <- rr.call

\* The iterator over floats and histograms read from a remote endpoint gives every
\* timestamp once and in order, and a Seek that is already there has no effect on
\* the calls that follow.
RemoteIsAnIterator == RemoteContract!ItSpec

\* The type that Next and Seek return is the type of the sample at the cursor, so
\* that the caller reads it with the method for its type.
TypeIsOfSample ==
  rr.typ \in {"histogram", "floathistogram"} => rr.typ = getHistogramValType
=============================================================================
