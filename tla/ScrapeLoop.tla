----------------------------- MODULE ScrapeLoop -----------------------------
(***************************************************************************)
(* What the scrapes of one target put into the storage (scrapeLoop and     *)
(* scrapeCache of scrape/scrape.go, limitAppender of scrape/target.go).    *)
(* A scrape appends one sample for each metric the target exposes and a    *)
(* stale marker for each series that the previous scrape had and this one  *)
(* has not; the cache holds the series of the current and of the previous  *)
(* scrape (seriesCur, seriesPrev) and when each metric string was last     *)
(* seen.  A scrape that fails is rolled back and appended again as an      *)
(* empty one.  A loop that ends writes stale markers two intervals later,  *)
(* by when the target may have come back with a new loop.                  *)
(***************************************************************************)
EXTENDS Integers, Sequences, FiniteSets, SequencesExt

CONSTANTS
  Metrics,        \* the metric strings a target may expose
  SeriesOf,       \* metric -> the series (label set) it becomes
  DroppedMetrics, \* the metrics relabelling drops
  TimedMetrics,   \* the metrics exposed with an explicit timestamp
  Bodies,         \* the responses of the target: sequences of metrics
  SampleLimit,    \* sample_limit, 0 for none
  FlushSlack,     \* the 1000 entries by which the cache may grow while scrapes fail
  MaxScrapes, MaxRestarts, MaxCommitErrors

VARIABLES
  stored,  \* series -> its newest sample: [ts, stale]
  loops,   \* the loops of the target, in order: [pc, last, staleTime, cache]
  result,  \* of the last scrape: [outcome, exposed]
  tick,    \* the time, in scrape intervals
  faults   \* [restarts, commits] that have happened

loopVars == <<stored, loops, result, tick, faults>>

ScrapeSeries == {SeriesOf[m] : m \in Metrics}
NoSample == [ts |-> 0, stale |-> TRUE]
NewCache == [iter |-> 0, success |-> 0, seen |-> <<>>, cur |-> <<>>, prev |-> <<>>]
NewLoop(cache) == [pc |-> "run", last |-> 0, staleTime |-> 0, cache |-> cache]

LoopAssumption == SampleLimit \in Nat /\ FlushSlack \in Nat /\ DroppedMetrics \subseteq Metrics
ASSUME LoopAssumption

LoopInit ==
  /\ stored = [s \in ScrapeSeries |-> NoSample]
  /\ loops = <<NewLoop(NewCache)>>
  /\ result = [outcome |-> "none", exposed |-> {}]
  /\ tick = 1
  /\ faults = [restarts |-> 0, commits |-> 0]

\* f with k mapped to v.
Put(f, k, v) == [x \in DOMAIN f \cup {k} |-> IF x = k THEN v ELSE f[x]]
Only(f, K) == [x \in K |-> f[x]]

\* One entry of the response, with the cache c, the samples w appended so far,
\* the number n of samples offered to the limitAppender and whether the limit
\* was hit.  A sample that is not newer than the stored one is refused, which is
\* not an error.  A metric the cache knows is tracked for staleness when its
\* sample was appended, a new one in any case; explicit timestamps bypass it.
Entry(acc, m, ts) ==
  LET s     == SeriesOf[m]
      known == m \in DOMAIN acc.c.seen
      limit == SampleLimit > 0 /\ acc.n + 1 > SampleLimit
      added == ~limit /\ stored[s].ts < ts
      seen  == IF known \/ added THEN Put(acc.c.seen, m, acc.c.iter) ELSE acc.c.seen
      track == m \notin TimedMetrics /\ (added \/ ~known)
  IN IF m \in DroppedMetrics
     THEN [acc EXCEPT !.c.seen = Put(@, m, acc.c.iter)]
     ELSE [c |-> [acc.c EXCEPT !.seen = seen, !.cur = IF track THEN Put(@, m, s) ELSE @],
           w |-> IF added THEN Append(acc.w, [s |-> s, ts |-> ts, stale |-> FALSE]) ELSE acc.w,
           n |-> acc.n + 1, limited |-> acc.limited \/ limit]

\* iterDone: after a scrape that was not empty, or when the cache has grown too
\* much while scrapes fail, entries that were not seen are dropped; then current
\* and previous series are swapped.
IterDone(c, flush) ==
  LET count  == Cardinality(DOMAIN c.seen)
      forced == flush \/ count > c.success * 2 + FlushSlack
  IN [iter    |-> IF forced THEN c.iter + 1 ELSE c.iter,
      success |-> IF flush THEN count ELSE c.success,
      seen    |-> IF forced THEN Only(c.seen, {m \in DOMAIN c.seen : c.seen[m] = c.iter})
                  ELSE c.seen,
      cur     |-> <<>>, prev |-> c.cur]

\* Faulty variant: a metric is stale only when no scrape exposes it any more.
StaleOnesLate(c) == {c.prev[m] : m \in DOMAIN c.prev \ DOMAIN c.seen}
\* forEachStale: the series of the previous scrape that the current one lacks.
StaleOnes(c) == {c.prev[m] : m \in DOMAIN c.prev \ DOMAIN c.cur}

\* append of a response: its entries up to the one that cannot be parsed, then
\* the stale markers, refused where the stored sample is not older, and iterDone
\* unless there was an error.
AppendBody(cache, body, upTo, ts) ==
  LET start == [c |-> cache, w |-> <<>>, n |-> 0, limited |-> FALSE]
      acc   == FoldLeft(LAMBDA a, m : Entry(a, m, ts), start, SubSeq(body, 1, upTo))
      err   == acc.limited \/ upTo < Len(body)
      marks == {s \in StaleOnes(acc.c) : stored[s].ts < ts}
  IN [err   |-> err,
      cache |-> IF err THEN acc.c ELSE IterDone(acc.c, body # <<>>),
      w     |-> IF err THEN <<>>
                ELSE acc.w \o SetToSeq({[s |-> s, ts |-> ts, stale |-> TRUE] : s \in marks})]

\* Faulty variant: of several samples of a series for one time the last one stays.
CommitLast(w) == [s \in ScrapeSeries |->
                    LET i == {n \in DOMAIN w : w[n].s = s} IN
                    IF i = {} THEN stored[s]
                    ELSE [ts |-> w[Max(i)].ts, stale |-> w[Max(i)].stale]]
\* Commit: of several samples of a series for one time the first one stays.
Commit(w) == [s \in ScrapeSeries |->
                LET i == {n \in DOMAIN w : w[n].s = s} IN
                IF i = {} THEN stored[s]
                ELSE [ts |-> w[Min(i)].ts, stale |-> w[Min(i)].stale]]

Current == loops[Len(loops)]
ScrapedAt == Max({loops[n].last : n \in DOMAIN loops})
SetCurrent(l) == [loops EXCEPT ![Len(loops)] = l]

\* The append of a scrape: after an error the samples are rolled back and an
\* empty scrape is appended, with the cache as the failed append has left it.
AppendTwice(cache, body, upTo, ts) ==
  LET a == AppendBody(cache, body, upTo, ts)
      b == AppendBody(a.cache, <<>>, 0, ts)
  IN IF a.err THEN [b EXCEPT !.err = TRUE] ELSE a

\* scrapeAndReport of the current loop.  A scrape that fails, and a forced error,
\* are appended as an empty response; the commit may fail.
Scrape(body, upTo, outcome) ==
  LET a == AppendTwice(Current.cache, body, upTo, tick)
  IN /\ Current.pc = "run" /\ ScrapedAt < tick /\ tick <= MaxScrapes
     /\ loops' = SetCurrent([Current EXCEPT !.cache = a.cache, !.last = tick])
     /\ \/ stored' = Commit(a.w) /\ UNCHANGED faults
        \/ faults.commits < MaxCommitErrors
           /\ faults' = [faults EXCEPT !.commits = @ + 1] /\ UNCHANGED stored
     /\ result' = [outcome |-> IF a.err THEN "rejected" ELSE outcome,
                   exposed |-> IF a.err THEN {} ELSE {SeriesOf[m] : m \in ToSet(body) \ DroppedMetrics}]
     /\ UNCHANGED tick
ScrapeFails == Scrape(<<>>, 0, "down")
ScrapeAnswers == \E body \in Bodies : Scrape(body, Len(body), "up")
ScrapeMalformed == \E body \in Bodies : \E n \in 0 .. Len(body) - 1 : Scrape(body, n, "up")

\* The loop is stopped, with the target gone; its markers come later.
LoopEnds ==
  /\ Current.pc = "run" /\ faults.restarts < MaxRestarts
  /\ loops' = SetCurrent([Current EXCEPT !.pc = IF Current.last = 0 THEN "done" ELSE "ending",
                                         !.staleTime = Current.last + 1])
  /\ result' = [outcome |-> "none", exposed |-> {}]
  /\ UNCHANGED <<stored, tick, faults>>

\* The target comes back, with a new loop ...
TargetReturns ==
  /\ Current.pc # "run" /\ faults.restarts < MaxRestarts
  /\ loops' = Append(loops, NewLoop(NewCache))
  /\ faults' = [faults EXCEPT !.restarts = @ + 1]
  /\ UNCHANGED <<stored, result, tick>>

\* ... or the pool is reloaded with a configuration that lets the new loop have
\* the cache of the old one, which then writes no markers.
LoopReplaced ==
  /\ Current.pc = "run" /\ faults.restarts < MaxRestarts
  /\ loops' = Append(SetCurrent([Current EXCEPT !.pc = "done"]), NewLoop(Current.cache))
  /\ faults' = [faults EXCEPT !.restarts = @ + 1]
  /\ UNCHANGED <<stored, result, tick>>

\* Faulty variant: only the newest loop of a target writes its markers.
EndOfRunOfNewest(n) ==
  LET l == loops[n]
      a == AppendBody(l.cache, <<>>, 0, l.staleTime)
  IN /\ l.pc = "ending" /\ tick > l.staleTime + 1 /\ n = Len(loops)
     /\ stored' = Commit(a.w)
     /\ loops' = [loops EXCEPT ![n].pc = "done", ![n].cache = a.cache]
     /\ UNCHANGED <<result, tick, faults>>
\* endOfRunStaleness, just over two intervals after the last scrape: an empty
\* scrape at the time the next one would have been.
EndOfRun(n) ==
  LET l == loops[n]
      a == AppendBody(l.cache, <<>>, 0, l.staleTime)
  IN /\ l.pc = "ending" /\ tick > l.staleTime + 1
     /\ stored' = Commit(a.w)
     /\ loops' = [loops EXCEPT ![n].pc = "done", ![n].cache = a.cache]
     /\ UNCHANGED <<result, tick, faults>>

\* Time passes: a loop that runs scrapes at every interval, and the markers of
\* one that ended are written before another interval has passed.
Tick ==
  /\ tick <= MaxScrapes + 3
  /\ Current.pc = "run" => ScrapedAt = tick \/ tick > MaxScrapes
  /\ \A n \in DOMAIN loops : loops[n].pc = "ending" => tick <= loops[n].staleTime + 1
  /\ tick' = tick + 1
  /\ UNCHANGED <<stored, loops, result, faults>>

EndOfRunSome == \E n \in 1 .. MaxRestarts + 1 : n \in DOMAIN loops /\ EndOfRun(n)
LoopNext == ScrapeFails \/ ScrapeAnswers \/ ScrapeMalformed \/ LoopEnds \/ TargetReturns
            \/ LoopReplaced \/ EndOfRunSome \/ Tick
LoopFairness == WF_loopVars(EndOfRunSome) /\ WF_loopVars(Tick)
LoopSpec == LoopInit /\ [][LoopNext]_loopVars /\ LoopFairness

-----------------------------------------------------------------------------
NothingEnding == \A n \in DOMAIN loops : loops[n].pc # "ending"
Untimed == {SeriesOf[m] : m \in Metrics \ TimedMetrics}

\* After a scrape the newest sample of a series the target exposes is not a
\* stale marker: neither a second metric string of the same series that is gone
\* nor the markers of a loop that has ended hide it.
ExposedIsNotStale ==
  result.outcome = "up" => \A s \in result.exposed : ~stored[s].stale

\* After a scrape that succeeded, and after one that could not reach the target,
\* the series that are not exposed any more are stale.
GoneIsStale ==
  result.outcome \in {"up", "down"} /\ NothingEnding =>
    \A s \in Untimed \ result.exposed : stored[s].stale

\* A target that is gone leaves only stale series behind.
GoneTargetGoesStale ==
  \A s \in Untimed : (Current.pc # "run") ~> (stored[s].stale \/ Current.pc = "run")

\* After a scrape whose response was rejected, by the parser or by the sample
\* limit, every series of the target is stale: it is the same as an empty scrape.
RejectedIsStale ==
  result.outcome = "rejected" /\ NothingEnding => \A s \in Untimed : stored[s].stale

\* A series is stale when its target, or a scrape, does not expose it any more.
StalenessIsExact == ExposedIsNotStale /\ GoneIsStale
=============================================================================
