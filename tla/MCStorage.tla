------------------------------ MODULE MCStorage ------------------------------
(***************************************************************************)
(* The structures of the head, the iterators of queries and the pure parts *)
(* of remote storage on small instances.  They are independent of each     *)
(* other: part says which of them runs.                                    *)
(***************************************************************************)
EXTENDS TxRing, HeadSeries, MemPostings, PostingsIterators, BlockQuerier,
        MergeIterators, SampleBuffer, RemoteRead, RemoteCodec

VARIABLE part
mcVars == <<part, ringVars, hsVars, pVars, piVars, bqVars, miVars, sbVars, rrVars, input>>

Eq(n, v) == [name |-> n, kind |-> "eq", vals |-> {v}, set |-> FALSE]
Ne(n, v) == [name |-> n, kind |-> "ne", vals |-> {v}, set |-> FALSE]
Re(n, vs, set) == [name |-> n, kind |-> "re", vals |-> vs, set |-> set]
Nre(n, vs, set) == [name |-> n, kind |-> "nre", vals |-> vs, set |-> set]
MCLabels == <<<<1, 0>>, <<2, 1>>, <<0, 1>>>>
MCQueries ==
  {<<m>> : m \in {Eq(1, 1), Eq(1, 0), Ne(1, 1), Ne(1, 0), Re(1, {1, 2}, TRUE), Re(1, {0, 1}, TRUE),
                  Re(1, {0, 2}, FALSE), Nre(1, {1, 2}, TRUE), Nre(1, {0, 1}, TRUE)}}
  \cup {<<Ne(2, 1), Ne(1, 0)>>, <<Ne(1, 2), Eq(2, 1)>>, <<Re(1, {0, 1}, TRUE), Ne(1, 0)>>,
        <<Ne(1, 1), Re(1, {1, 2}, FALSE)>>, <<Ne(2, 1), Nre(1, {2}, TRUE)>>}
MCLayouts == {<<<<1, 2>>, <<3, 4>>>>, <<<<1, 3>>, <<4>>>>, <<<<2>>, <<3>>, <<4>>>>, <<<<1, 2, 4>>>>}
F(t) == [t |-> t, k |-> "f"]
H(t) == [t |-> t, k |-> "h"]
MCSeries == {<<F(1), F(5), F(6), F(7), F(8)>>, <<F(1), H(2), F(3), H(4), H(8)>>, <<H(2), F(4)>>}

AnyPostings == [(CHOOSE p \in PiCases : p.want = <<>>) EXCEPT !.call.op = "none"]
AnyQuerier == NewBq("stop", <<<<1>>>>, <<>>, [min |-> 1, max |-> 1], 0)
MCInit ==
  /\ part \in {"ring", "series", "index", "postings", "querier", "merge", "buffer", "remote", "codec"}
  /\ RingInit /\ HsInit /\ PInit /\ SbInit
  /\ IF part = "postings" THEN PiInit ELSE pit = AnyPostings
  /\ IF part = "querier" THEN BqInit ELSE bq = AnyQuerier
  /\ IF part = "merge" THEN MiInit ELSE src = [i \in 1 .. MiSources |-> <<>>] /\ mi = [NewChain(MiSources) EXCEPT !.call.op = "none"]
  /\ IF part = "remote" THEN RrInit ELSE series = [floats |-> <<>>, hists |-> <<>>, intHist |-> FALSE] /\ rr = NewRr
  /\ IF part = "codec" THEN input \in CodecInputs ELSE input = [fn |-> "none"]

RingPart ==
  part = "ring" /\ RingNext
  /\ UNCHANGED <<part, hsVars, pVars, piVars, bqVars, miVars, sbVars, rrVars, input>>
\* The collection visits a series while no call is between finding and marking it;
\* an exemplar follows a sample of its series in the same scrape.
Calm(l) == \A a \in HsAppenders :
  /\ ap[a].lset = l => ap[a].pc \notin {"set", "byid", "post", "mark"}
  /\ \A b \in ap[a].batch : hs.objs[b[1]].lset = l => hs.objs[b[1]].pending
MCExemplar(a, l) ==
  Entering(l) = {} /\ (\E b \in ap[a].batch : hs.objs[b[1]].lset = l) /\ AppendExemplar(a, l)
SeriesPart ==
  /\ part = "series"
  /\ \/ \E a \in HsAppenders :
          \/ \E l \in HsLabels, t \in HsTimes : BeginAppend(a, l, t)
          \/ LookupHash(a) \/ SetHash(a) \/ SetID(a) \/ AddPostings(a) \/ Mark(a)
          \/ \E l \in HsLabels : MCExemplar(a, l)
          \/ CommitExemplar(a) \/ CommitSample(a) \/ RollbackSample(a)
     \/ \E mint \in HsTimes : GcStart(mint)
     \/ \E l \in HsLabels : Calm(l) /\ GcSeries(l)
     \/ GcPostings
  /\ UNCHANGED <<part, ringVars, pVars, piVars, bqVars, miVars, sbVars, rrVars, input>>
\* While a query runs, references are added in increasing order.
IndexPart ==
  /\ part = "index"
  /\ \/ \E s \in PRefs : (pqry.pc \in {"idle", "done"} \/ \A o \in pidx.added : o < s) /\ PAdd(s)
     \/ \E s \in {1, 3} \cap pidx.added : pidx.deleted = {} /\ PDelete({s})
     \/ \E n \in {0} \cup PNames : DeleteName(n)
     \/ \E k \in Keys : DeleteList(k)
     \/ DeleteDone \/ QueryStart \/ QueryValues \/ QueryFetch \/ QueryRead
  /\ UNCHANGED <<part, ringVars, hsVars, piVars, bqVars, miVars, sbVars, rrVars, input>>
PostingsPart ==
  part = "postings" /\ PiNext
  /\ UNCHANGED <<part, ringVars, hsVars, pVars, bqVars, miVars, sbVars, rrVars, input>>
\* The cut-off of the query can be added to the tombstones, and the iterators of
\* the head are sought only where Seek stays within their bounds.
QuerierPart ==
  /\ part = "querier"
  /\ Trimmed(bq) # Panic
  /\ \/ BqStep
     \/ \E t \in BqTimes :
          /\ \/ bq.kind = "populate"
             \/ bq.kind = "bounded" /\ LET s == BoundedSeek(bq, bq.st, t) IN s.val => At(bq, s.pos) <= bq.maxt
          /\ BqSeek(t)
  /\ UNCHANGED <<part, ringVars, hsVars, pVars, piVars, miVars, sbVars, rrVars, input>>
MergePart ==
  part = "merge" /\ MiNext
  /\ UNCHANGED <<part, ringVars, hsVars, pVars, piVars, bqVars, sbVars, rrVars, input>>
\* The ring is converted to the mixed buffer at most once.
OneConversion ==
  \/ sb.ring.buf["mixed"] = <<>>
  \/ sb'.ring.use # "mixed"
  \/ sb.ring.use = "mixed" /\ sb'.first = sb.first
BufferPart ==
  /\ part = "buffer"
  /\ \/ /\ mm.calls = 0
        /\ \/ \E s \in SbSeries : SbReset(s)
           \/ \E t \in SbTimes : SbSeek(t) /\ OneConversion
           \/ SbStep /\ OneConversion
           \/ \E d \in 0 .. SbDelta : SbReduce(d)
     \/ /\ sb.calls = 0
        /\ (\E s \in SbSeries : MmReset(s)) \/ (\E t \in SbTimes : MmSeek(t)) \/ MmStep
  /\ UNCHANGED <<part, ringVars, hsVars, pVars, piVars, bqVars, miVars, rrVars, input>>
\* No Seek to where the iterator already is while one of its cursors has not started.
RemotePart ==
  /\ part = "remote"
  /\ \/ RrNext
     \/ \E t \in RrTimes :
          /\ ~(rr.typ = "float" /\ rr.hc = 0 /\ hists # <<>> /\ floats[rr.fc] >= t)
          /\ ~(rr.typ \notin {"none", "float"} /\ rr.fc = 0 /\ floats # <<>> /\ hists[rr.hc] >= t)
          /\ RrSeek(t)
  /\ UNCHANGED <<part, ringVars, hsVars, pVars, piVars, bqVars, miVars, sbVars, input>>
MCNext ==
  \/ RingPart \/ SeriesPart \/ IndexPart \/ PostingsPart \/ QuerierPart \/ MergePart
  \/ BufferPart \/ RemotePart
MCSpec == MCInit /\ [][MCNext]_mcVars

\* Every iterator moves forward over exactly its samples, whatever sequence of Next
\* and Seek it gets: the postings, the deleting, the chained and the remote one.
IteratorsAreFaithful ==
  PostingsAreIterators /\ QuerierIsAnIterator /\ ChainIsAnIterator /\ RemoteIsAnIterator

\* Merging chunks, deleting intervals and intersecting postings give exactly what the
\* definition in terms of sets of samples gives.
SetsAreExact ==
  /\ IntersectingAreFound /\ IntervalsAreExact /\ ChunksMatchSamples
  /\ ConsecutiveAreNeighbours /\ MergesAreFaithful
=============================================================================
