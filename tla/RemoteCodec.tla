---------------------------- MODULE RemoteCodec ----------------------------
(***************************************************************************)
(* The pure parts of remote storage: external labels on the way out and on  *)
(* the way back (write, read client, read handler), the framing of streamed *)
(* responses, the fate of a write request, the desired number of shards.    *)
(* Label names and values are numbers; value 0 is the empty value of an     *)
(* absent label.                                                            *)
(***************************************************************************)
EXTENDS Inputs, Integers, Sequences, FiniteSets, SequencesExt, FiniteSetsExt, Functions

CONSTANTS Names, Values,      \* sets of positive numbers
          MaxSeries, MaxMatchers, MaxChunks, MaxBytes

ASSUME CodecAssumption == Names \subseteq Nat \ {0} /\ Values \subseteq Nat \ {0}

-----------------------------------------------------------------------------
\* A label set is a sequence of [n, v] sorted by name.
LabelSets == UNION {[S -> Values] : S \in SUBSET Names}
Sorted(f) == LET ns == SetToSortSeq(DOMAIN f, LAMBDA a, b : a < b)
             IN [i \in DOMAIN ns |-> [n |-> ns[i], v |-> f[ns[i]]]]
Value(ls, n) == IF \E i \in DOMAIN ls : ls[i].n = n
                THEN ls[CHOOSE i \in DOMAIN ls : ls[i].n = n].v ELSE 0
NamesOf(ls) == {ls[i].n : i \in DOMAIN ls}

\* processExternalLabels: one pass over the sorted labels with a cursor j in the
\* sorted external labels; a label of the series wins.
ExtBefore(ext, j, n) == Cardinality({k \in j .. Len(ext) : ext[k].n < n})
\* Faulty variant: an external label the series already has is added too.
TakeLabelTwice(acc, l, ext) ==
  LET j == acc.j + ExtBefore(ext, acc.j, l.n)
  IN [out |-> acc.out \o SubSeq(ext, acc.j, j - 1) \o <<l>>, j |-> j]
TakeLabel(acc, l, ext) ==
  LET j == acc.j + ExtBefore(ext, acc.j, l.n)
      same == j <= Len(ext) /\ ext[j].n = l.n
  IN [out |-> acc.out \o SubSeq(ext, acc.j, j - 1) \o <<l>>, j |-> IF same THEN j + 1 ELSE j]
processExternalLabels(ls, ext) ==
  LET r == FoldLeft(LAMBDA acc, l : TakeLabel(acc, l, ext), [out |-> <<>>, j |-> 1], ls)
  IN r.out \o SubSeq(ext, r.j, Len(ext))

\* MergeLabels: the merge of two sorted lists; the primary wins.
MergeLabels(p, s) ==
  LET M[i \in 1 .. Len(p) + 1, j \in 1 .. Len(s) + 1] ==
        IF i > Len(p) THEN SubSeq(s, j, Len(s))
        ELSE IF j > Len(s) THEN SubSeq(p, i, Len(p))
        ELSE IF p[i].n < s[j].n THEN <<p[i]>> \o M[i + 1, j]
        ELSE IF p[i].n > s[j].n THEN <<s[j]>> \o M[i, j + 1]
        ELSE <<p[i]>> \o M[i + 1, j + 1]
  IN M[1, 1]

-----------------------------------------------------------------------------
\* Matchers of the form name = value and name != value.
Matchers == [n : Names, v : Values \cup {0}, eq : BOOLEAN]
Matches(ls, m) == (Value(ls, m.n) = m.v) = m.eq
MatchesAll(ls, ms) == \A m \in ms : Matches(ls, m)

\* The read client: every external label not named by a matcher becomes one,
\* and its name is taken off the result.
addedLabels(ext, ms) == SelectSeq(ext, LAMBDA l : \A m \in ms : m.n # l.n)
addExternalLabels(ext, ms) ==
  LET add == addedLabels(ext, ms)
  IN ms \cup {[n |-> add[i].n, v |-> add[i].v, eq |-> TRUE] : i \in DOMAIN add}
seriesFilter(ls, add) == SelectSeq(ls, LAMBDA l : l.n \notin NamesOf(add))

\* Faulty variant: matchers on external labels go to the storage as they are.
filterNothing(ms, ext) == ms
\* The read handler: an equality with an external label looks for its absence.
filterExtLabelsFromMatchers(ms, ext) ==
  {IF m.eq /\ Value(ext, m.n) = m.v THEN [m EXCEPT !.v = 0] ELSE m : m \in ms}
remoteReadSamples(store, ms, ext) ==
  {MergeLabels(ls, ext) : ls \in {x \in store : MatchesAll(x, filterExtLabelsFromMatchers(ms, ext))}}

\* Select of the read client against a server with external labels serverExt.
\* Required matchers must all be among the given ones, or nothing is asked.
RemoteSelect(store, required, ms, ext, serverExt) ==
  IF ~(required \subseteq ms) THEN {}
  ELSE {seriesFilter(ls, addedLabels(ext, ms)) :
          ls \in remoteReadSamples(store, addExternalLabels(ext, ms), serverExt)}

-----------------------------------------------------------------------------
\* StreamChunkedReadResponses, one series: chunks of the given sizes are put in
\* frames with room bytes each; a frame is sent when it is full or the series
\* ends.
\* Faulty variant: a frame is sent only when it is full.
FramesUnfinished(sizes, room) ==
  FoldLeft(LAMBDA acc, i :
             LET f == Append(acc.frame, i)
                 left == acc.left - sizes[i]
             IN IF left > 0 THEN [acc EXCEPT !.frame = f, !.left = left]
                ELSE [sent |-> Append(acc.sent, f), frame |-> <<>>, left |-> room],
           [sent |-> <<>>, frame |-> <<>>, left |-> room],
           [i \in DOMAIN sizes |-> i]).sent
Frames(sizes, room) ==
  FoldLeft(LAMBDA acc, i :
             LET f == Append(acc.frame, i)
                 left == acc.left - sizes[i]
             IN IF left > 0 /\ i < Len(sizes) THEN [acc EXCEPT !.frame = f, !.left = left]
                ELSE [sent |-> Append(acc.sent, f), frame |-> <<>>, left |-> room],
           [sent |-> <<>>, frame |-> <<>>, left |-> room],
           [i \in DOMAIN sizes |-> i]).sent

-----------------------------------------------------------------------------
\* writeHandler.write: the first sample or histogram the storage refuses ends
\* the request and rolls everything back; exemplars are only counted.
Refused == {"out_of_order", "out_of_bounds", "duplicate"}
SampleErrors(req) == SelectSeq(req, LAMBDA e : e.kind # "exemplar" /\ e.answer # "ok")
\* Faulty variant: what was appended before the error is committed.
HandleWriteKeeps(req) ==
  LET errs == SampleErrors(req)
      bad == {i \in DOMAIN req : req[i].kind # "exemplar" /\ req[i].answer # "ok"}
  IN [status |-> IF errs = <<>> THEN 204 ELSE IF errs[1].answer \in Refused THEN 400 ELSE 500,
      stored |-> {i \in DOMAIN req : req[i].answer = "ok" /\ \A b \in bad : i < b}]
HandleWrite(req) ==
  LET errs == SampleErrors(req)
  IN [status |-> IF errs = <<>> THEN 204 ELSE IF errs[1].answer \in Refused THEN 400 ELSE 500,
      stored |-> IF errs = <<>> THEN {i \in DOMAIN req : req[i].answer = "ok"} ELSE {}]

\* Client.Store: what an answer means for the sender.
StoreResult(status, retryOnRateLimit) ==
  CASE status \div 100 = 2 -> "ok"
    [] status \div 100 = 5 -> "retry"
    [] status = 429 /\ retryOnRateLimit -> "retry"
    [] OTHER -> "fail"

\* calculateDesiredShards; rates per second, delay in seconds, busy the seconds
\* spent sending per second.  All the factors of the code's floating-point
\* product but these cancel; 5% of the backlog is added per second of delay.
CeilDiv(a, b) == (a + b - 1) \div b
\* Faulty variant: the bounds of the configuration are not applied.
DesiredUnbounded(n, in, out, dropped, busy, delay, min, max) ==
  LET d == CeilDiv(busy * in * (20 + delay), 20 * (dropped + out))
  IN IF out <= 0 \/ (7 * n <= 10 * d /\ 10 * d <= 13 * n) \/ (d < n /\ delay > 10) THEN n ELSE d
calculateDesiredShards(n, in, out, dropped, busy, delay, min, max) ==
  LET d == CeilDiv(busy * in * (20 + delay), 20 * (dropped + out))
  IN IF out <= 0 \/ (7 * n <= 10 * d /\ 10 * d <= 13 * n) \/ (d < n /\ delay > 10) THEN n
     ELSE IF d > max THEN max ELSE IF d < min THEN min ELSE d

-----------------------------------------------------------------------------
Kinds == {"sample", "exemplar", "histogram"}
Answers == {"ok", "out_of_order", "other"}
Sizes == 1 .. MaxBytes
CodecInputs ==
  [fn : {"labels"}, ls : LabelSets, ext : LabelSets]
  \cup [fn : {"read"}, store : kSubset(MaxSeries, LabelSets), ext : LabelSets,
        ms : UNION {kSubset(k, Matchers) : k \in 1 .. MaxMatchers}]
  \cup [fn : {"frames"}, sizes : BoundedSeq(Sizes, MaxChunks) \ {<<>>}, room : -1 .. MaxBytes]
  \cup [fn : {"write"}, req : BoundedSeq([kind : Kinds, answer : Answers], 2)]
  \cup [fn : {"shards"}, n : 1 .. 4, in : 1 .. 4, out : 0 .. 3, dropped : 0 .. 1,
        busy : 0 .. 3, delay : {0, 10, 20}]

-----------------------------------------------------------------------------
\* The labels of a series override the external labels, and the result is
\* sorted and without duplicates, both when samples are sent
\* (processExternalLabels) and when they are read (MergeLabels).
ExternalLabelsMerged ==
  input.fn = "labels" =>
    LET want == Sorted([n \in DOMAIN input.ls \cup DOMAIN input.ext |->
                          IF n \in DOMAIN input.ls THEN input.ls[n] ELSE input.ext[n]])
    IN /\ processExternalLabels(Sorted(input.ls), Sorted(input.ext)) = want
       /\ MergeLabels(Sorted(input.ls), Sorted(input.ext)) = want

\* Reading from a server with the same external labels gives what the series of
\* its storage, with the external labels added, answer to equality matchers (not
\* those for an absent label), and takes the labels
\* off again that the query did not name.
ReadSeesExternalLabels ==
  input.fn = "read" /\ (\A m \in input.ms : m.eq /\ m.v # 0)
    /\ (\A ls \in input.store : DOMAIN ls \cap DOMAIN input.ext = {}) =>
    LET ext == Sorted(input.ext)
        whole == {MergeLabels(Sorted(ls), ext) : ls \in input.store}
    IN RemoteSelect({Sorted(ls) : ls \in input.store}, {}, input.ms, ext, ext)
         = {seriesFilter(ls, addedLabels(ext, input.ms)) : ls \in {x \in whole : MatchesAll(x, input.ms)}}

\* The frames of a streamed response hold every chunk once and in order, none is
\* empty, and a frame goes over its size by its last chunk only.
FramesHoldEveryChunk ==
  input.fn = "frames" =>
    LET fs == Frames(input.sizes, input.room)
    IN /\ FlattenSeq(fs) = [i \in DOMAIN input.sizes |-> i]
       /\ \A f \in ToSet(fs) : f # <<>>
       /\ \A f \in ToSet(fs) : FoldLeft(LAMBDA a, i : a + input.sizes[i], 0, Front(f)) < Max({1, input.room})

\* A write request is stored whole, up to exemplars, or not at all, and a sender
\* does not retry one whose samples are out of order.
WriteIsAllOrNothing ==
  input.fn = "write" =>
    LET r == HandleWrite(input.req)
        samples == {i \in DOMAIN input.req : input.req[i].kind # "exemplar"}
    IN /\ r.stored \cap samples = IF r.status = 204 THEN samples ELSE {}
       /\ (StoreResult(r.status, TRUE) = "ok") = (r.status = 204)
       /\ (\E i \in samples : input.req[i].answer = "out_of_order")
            /\ (\A i \in samples : input.req[i].answer # "other") => StoreResult(r.status, TRUE) = "fail"

\* The desired number of shards is within the configured bounds and is settled:
\* with the rates unchanged another look asks for no other number.
ShardsSettle ==
  input.fn = "shards" =>
    LET D(n) == calculateDesiredShards(n, input.in, input.out, input.dropped, input.busy, input.delay, 1, 4)
    IN D(input.n) \in 1 .. 4 /\ D(D(input.n)) = D(input.n)

\* Labels, frames, writes and shards keep what they are given.
CodecIsFaithful ==
  /\ ExternalLabelsMerged /\ ReadSeesExternalLabels /\ FramesHoldEveryChunk
  /\ WriteIsAllOrNothing /\ ShardsSettle
=============================================================================
