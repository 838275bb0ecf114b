---------------------------- MODULE WalWatcher ----------------------------
(***************************************************************************)
(* The watcher of the write-ahead log that feeds one remote-write queue     *)
(* (tsdb/wlog/watcher.go) and the series maps of the queue that it fills    *)
(* and collects (storage/remote/queue_manager.go).  The log is written,     *)
(* checkpointed and truncated by the head while the watcher reads it.       *)
(* A sample is its timestamp, which is also the order of the log.           *)
(***************************************************************************)
EXTENDS Naturals, Sequences, FiniteSetsExt

CONSTANTS Refs,           \* series references, never reused
          RelabelDropped, \* those that relabelling drops
          MaxSamples, MaxSegment, MaxCheckpoints, MaxRuns

ASSUME WatcherAssumption == RelabelDropped \subseteq Refs

VARIABLES log,   \* segments, the first one, the last checkpoint, live series
          w,     \* the watcher: its step, segment, position and start time
          gc,    \* garbageCollectSeries goroutines
          qm,    \* seriesLabels, droppedSeries, seriesSegmentIndexes
          out    \* what Append got, and the samples of unknown series
watchVars == <<log, w, gc, qm, out>>

None == [idx |-> 0, refs |-> {}]      \* no checkpoint; segments begin at 1
LastSeg == Len(log.seg)
SegsOnDisk == log.first .. LastSeg
Sample(r, t) == [ref |-> r, t |-> t]  \* t = 0: the series record of r
Nothing == [r \in {} |-> 0]
\* The map f with all of S at n.
Put(f, S, n) == [r \in S \cup DOMAIN f |-> IF r \in S THEN n ELSE f[r]]

WatchInit ==
  /\ log = [seg |-> <<<<>>>>, first |-> 1, ckpt |-> None, live |-> {}, gone |-> Nothing, t |-> 0, ckpts |-> 0]
  /\ w = [pc |-> "down", seg |-> 0, pos |-> 1, tail |-> FALSE, leave |-> FALSE,
          last |-> 0, lastCkpt |-> 0, start |-> 0, runs |-> 0]
  /\ gc = {}
  /\ qm = [labels |-> {}, dropped |-> {}, idx |-> Nothing]
  /\ out = [sent |-> <<>>, dropped |-> {}, unknown |-> {}]

-----------------------------------------------------------------------------
\* The head logs a sample, after the series record of a new series.
LogSample(r) ==
  LET t == log.t + 1
      recs == IF r \in log.live THEN <<Sample(r, t)>> ELSE <<Sample(r, 0), Sample(r, t)>>
  IN /\ r \notin DOMAIN log.gone /\ t <= MaxSamples
     /\ log' = [log EXCEPT !.seg[LastSeg] = @ \o recs, !.live = @ \cup {r}, !.t = t]
     /\ UNCHANGED <<w, gc, qm, out>>
\* A new segment: the old one is complete before the new one exists.
NextSegment ==
  /\ LastSeg < MaxSegment
  /\ log' = [log EXCEPT !.seg = Append(@, <<>>)] /\ UNCHANGED <<w, gc, qm, out>>
\* The head forgets a series, and remembers the last segment at that time.
HeadGC(r) ==
  /\ r \in log.live
  /\ log' = [log EXCEPT !.live = @ \ {r}, !.gone = Put(@, {r}, LastSeg)]
  /\ UNCHANGED <<w, gc, qm, out>>

\* A checkpoint of the segments up to k keeps the series records of live series
\* and of those forgotten too recently.
SeriesUpTo(k) ==
  log.ckpt.refs \cup UNION {{log.seg[n][i].ref : i \in {j \in DOMAIN log.seg[n] : log.seg[n][j].t = 0}}
                             : n \in log.first .. k}
Kept(r, k) == r \in log.live \/ (r \in DOMAIN log.gone /\ log.gone[r] > k)
Checkpoint(k) ==
  /\ k \in log.first .. LastSeg - 1 /\ log.ckpt.idx < k /\ log.ckpts < MaxCheckpoints
  /\ log' = [log EXCEPT !.ckpt = [idx |-> k, refs |-> {r \in SeriesUpTo(k) : Kept(r, k)}], !.ckpts = @ + 1]
  /\ UNCHANGED <<w, gc, qm, out>>
Truncate ==
  /\ log.first <= log.ckpt.idx
  /\ log' = [log EXCEPT !.first = log.ckpt.idx + 1] /\ UNCHANGED <<w, gc, qm, out>>

-----------------------------------------------------------------------------
\* StoreSeries: the labels of the series, or that it is dropped, and the segment.
StoreSeries(refs, n) ==
  [labels |-> qm.labels \cup (refs \ RelabelDropped),
   dropped |-> qm.dropped \cup (refs \cap RelabelDropped),
   idx |-> Put(qm.idx, refs, n)]
\* UpdateSeriesSegment, for the series of a checkpoint.
UpdateSeriesSegment(refs, n) == [qm EXCEPT !.idx = Put(@, refs, n)]
\* SeriesReset forgets the series of older segments.
SeriesReset(n) ==
  LET old == {r \in DOMAIN qm.idx : qm.idx[r] < n}
  IN [labels |-> qm.labels \ old, dropped |-> qm.dropped \ old,
      idx |-> [r \in DOMAIN qm.idx \ old |-> qm.idx[r]]]

\* Run: the last segment is looked up before the checkpoint is read.
RunStarts ==
  /\ w.pc = "down" /\ w.runs < MaxRuns
  /\ w' = [w EXCEPT !.pc = "checkpoint", !.last = LastSeg, !.start = log.t, !.runs = @ + 1]
  /\ UNCHANGED <<log, gc, qm, out>>
ReadCheckpoint ==
  /\ w.pc = "checkpoint"
  /\ w' = [w EXCEPT !.pc = "find", !.lastCkpt = log.ckpt.idx]
  /\ qm' = IF log.ckpt = None THEN qm ELSE StoreSeries(log.ckpt.refs, log.ckpt.idx)
  /\ UNCHANGED <<log, gc, out>>
\* Faulty variant: the last segment of the start is replayed, not tailed.
OpenSegmentReplayed(n) ==
  w' = IF n \in SegsOnDisk
       THEN [w EXCEPT !.pc = "select", !.seg = n, !.pos = 1, !.tail = n > w.last, !.leave = FALSE]
       ELSE [w EXCEPT !.pc = "down"]
\* watch(n): a segment that is not there any more is an error, and Run starts
\* again; the last segment of the start and all later ones are tailed.
OpenSegment(n) ==
  w' = IF n \in SegsOnDisk
       THEN [w EXCEPT !.pc = "select", !.seg = n, !.pos = 1, !.tail = n >= w.last, !.leave = FALSE]
       ELSE [w EXCEPT !.pc = "down"]
FindSegment ==
  /\ w.pc = "find"
  /\ LET s == {n \in SegsOnDisk : n >= w.lastCkpt}
     IN IF s = {} THEN w' = [w EXCEPT !.pc = "down"] ELSE OpenSegment(Min(s))
  /\ UNCHANGED <<log, gc, qm, out>>

\* Faulty variant: every read begins at the start of the segment.
ReadStartsOver ==
  /\ w.pc = "select"
  /\ w' = [w EXCEPT !.pc = "read", !.pos = 1] /\ UNCHANGED <<log, gc, qm, out>>
\* A notification, or the read ticker when notifications were missed.
ReadStarts ==
  /\ w.pc = "select"
  /\ w' = [w EXCEPT !.pc = "read"] /\ UNCHANGED <<log, gc, qm, out>>
\* The segment ticker finds a newer segment: read to the end, then leave.
SegmentTick ==
  /\ w.pc = "select" /\ w.tail /\ LastSeg > w.seg
  /\ w' = [w EXCEPT !.pc = "read", !.leave = TRUE] /\ UNCHANGED <<log, gc, qm, out>>

\* readSegment, one record: series are stored; of a tailed segment the samples
\* newer than the start are sent, if the labels of the series are known.
ReadRecord ==
  LET rec == log.seg[w.seg][w.pos]
      sends == w.tail /\ rec.t > w.start
  IN /\ w.pc = "read" /\ w.pos <= Len(log.seg[w.seg])
     /\ w' = [w EXCEPT !.pos = @ + 1]
     /\ qm' = IF rec.t = 0 THEN StoreSeries({rec.ref}, w.seg) ELSE qm
     /\ out' = CASE ~sends -> out
                 [] sends /\ rec.ref \in qm.labels -> [out EXCEPT !.sent = Append(@, rec.t)]
                 [] sends /\ rec.ref \in qm.dropped \ qm.labels -> [out EXCEPT !.dropped = @ \cup {rec.t}]
                 [] OTHER -> [out EXCEPT !.unknown = @ \cup {rec.t}]
     /\ UNCHANGED <<log, gc>>
ReadEnds ==
  /\ w.pc = "read" /\ w.pos > Len(log.seg[w.seg])
  /\ IF w.tail /\ ~w.leave THEN w' = [w EXCEPT !.pc = "select"] ELSE OpenSegment(w.seg + 1)
  /\ UNCHANGED <<log, gc, qm, out>>

\* Each call of watch has its own semaphore for the collection.
GcSem == <<w.runs, w.seg>>
GcFree == \A g \in gc : g.sem # GcSem
\* Faulty variant: a checkpoint is used however far behind the watcher is.
GcStartsAnyway ==
  /\ w.pc = "select" /\ w.tail /\ GcFree /\ log.ckpt # None /\ log.ckpt.idx # w.lastCkpt
  /\ w' = [w EXCEPT !.lastCkpt = log.ckpt.idx]
  /\ gc' = gc \cup {[ckpt |-> log.ckpt, sem |-> GcSem, pc |-> "read"]}
  /\ UNCHANGED <<log, qm, out>>
\* The checkpoint ticker starts garbageCollectSeries beside the watcher, which
\* does nothing while the watcher is behind the checkpoint.
GcStarts ==
  /\ w.pc = "select" /\ w.tail /\ GcFree /\ log.ckpt # None /\ log.ckpt.idx # w.lastCkpt
  /\ w' = [w EXCEPT !.lastCkpt = log.ckpt.idx]
  /\ gc' = IF log.ckpt.idx >= w.seg THEN gc ELSE gc \cup {[ckpt |-> log.ckpt, sem |-> GcSem, pc |-> "read"]}
  /\ UNCHANGED <<log, qm, out>>
\* readCheckpoint; a checkpoint that has been replaced may be gone.
GcReads(g) ==
  /\ g.pc = "read"
  /\ \/ /\ qm' = UpdateSeriesSegment(g.ckpt.refs, g.ckpt.idx)
        /\ gc' = (gc \ {g}) \cup {[g EXCEPT !.pc = "reset"]}
     \/ log.ckpt # g.ckpt /\ gc' = gc \ {g} /\ UNCHANGED qm
  /\ UNCHANGED <<log, w, out>>
GcResets(g) ==
  /\ g.pc = "reset"
  /\ qm' = SeriesReset(g.ckpt.idx) /\ gc' = gc \ {g} /\ UNCHANGED <<log, w, out>>

-----------------------------------------------------------------------------
HeadStep == \/ \E r \in Refs : LogSample(r) \/ HeadGC(r)
            \/ \E k \in 1 .. MaxSegment : Checkpoint(k)
            \/ NextSegment \/ Truncate
RunStep == RunStarts \/ ReadCheckpoint \/ FindSegment
ReadStep == ReadStarts \/ ReadRecord \/ ReadEnds
GcStep == \E g \in gc : GcReads(g) \/ GcResets(g)
WatchNext == HeadStep \/ RunStep \/ ReadStep \/ SegmentTick \/ GcStarts \/ GcStep
\* What the properties below need: no checkpoint is put in place while the watcher
\* starts, and one collection of series runs at a time.
TailNext == \/ \E r \in Refs : LogSample(r) \/ HeadGC(r)
            \/ w.pc \notin {"checkpoint", "find"} /\ \E k \in 1 .. MaxSegment : Checkpoint(k)
            \/ NextSegment \/ Truncate \/ RunStep \/ ReadStep \/ SegmentTick
            \/ gc = {} /\ GcStarts
            \/ GcStep
TailSpec == WatchInit /\ [][TailNext]_watchVars
\* The watcher's loop runs and its tickers fire.
WatchFairness == /\ WF_watchVars(RunStep) /\ WF_watchVars(GcStep)
                 /\ WF_watchVars(ReadRecord) /\ WF_watchVars(ReadEnds)
                 /\ SF_watchVars(ReadStarts) /\ SF_watchVars(SegmentTick)
WatchSpec == WatchInit /\ [][WatchNext]_watchVars /\ WatchFairness

-----------------------------------------------------------------------------
\* No sample is dropped because its series was forgotten too early: collecting
\* the labels of old series never races ahead of the samples still to be read.
SeriesStayKnown == out.unknown = {}

\* Samples are passed on once and in the order of the log, across segments and
\* restarts of the watcher.
SentOnceInOrder == \A i, j \in DOMAIN out.sent : i < j => out.sent[i] < out.sent[j]

Handled(t) == t \in Range(out.sent) \cup out.dropped \cup out.unknown
\* A sample logged after the watcher started is passed on, even if every
\* notification is missed, unless the watcher had to start again after it.
TailedIsSent ==
  \A t \in 1 .. MaxSamples :
    (w.start < t /\ t <= log.t /\ w.pc # "down") ~> (Handled(t) \/ w.start >= t \/ w.pc = "down")

\* The watcher passes on what it reads once, in order, and with its series.
TailIsExact == SeriesStayKnown /\ SentOnceInOrder
=============================================================================
