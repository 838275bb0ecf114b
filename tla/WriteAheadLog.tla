--------------------------- MODULE WriteAheadLog ----------------------------
(***************************************************************************)
(* The write-ahead log of the TSDB head: what Commit and Delete log        *)
(* (tsdb/head_append.go, tsdb/head.go), how truncateWAL and Checkpoint     *)
(* shorten the log (tsdb/head.go, tsdb/wlog/checkpoint.go,                 *)
(* tsdb/wlog/wlog.go), and what Head.Init rebuilds from it after a crash   *)
(* (tsdb/head.go, tsdb/head_wal.go).                                       *)
(*                                                                         *)
(* The process may be killed between any two steps.  What reached the log  *)
(* before stays there: Log flushes the page before it returns, and the     *)
(* checkpoint directory appears by one rename.  Chunks mapped from disk    *)
(* are not modelled; they only save replaying what the log holds as well.  *)
(***************************************************************************)
EXTENDS Integers, Sequences, FiniteSets, SequencesExt

CONSTANTS
    Appenders, Labels,
    Kinds,          \* sample kinds, a subset of {"float", "fhist"}
    NoLabel,        \* not a label: the series is not in the head
    MaxT,           \* bound on timestamps
    MaxRef,         \* bound on the series refs ever handed out
    MaxSeg,         \* bound on the index of a segment
    MaxDeletes,     \* bound on the number of deletions
    MaxRestarts     \* bound on the number of restarts

ASSUME LogAssumption ==
    /\ MaxT \in Nat /\ MaxRef \in Nat /\ MaxSeg \in Nat
    /\ MaxDeletes \in Nat /\ MaxRestarts \in Nat
    /\ NoLabel \notin Labels

VARIABLES
    firstSeg, segs,     \* index of the first segment; the segments' records
    checkpoint,         \* the last checkpoint: its index (-1: none), its records
    labelOf, memory,    \* the series of the head by ref, and their samples
    tombs,              \* in-memory tombstones, <<ref, t>>
    lastSeriesID,
    pendingCommit,      \* refs of the series with that flag set
    deleted,            \* Head.deleted: segment of a dropped series (-1: none)
    blockMaxt,          \* end of the last persisted block, the head's minValidTime
    lastWALTruncationTime,
    app,                \* the appenders
    trunc,              \* truncateWAL in progress
    committed,          \* <<label, t, kind>> whose Commit has returned
    logged,             \* <<label, t, kind>> some Commit has logged
    erased,             \* <<label, t>> whose Delete has returned
    restarts

logVars == <<firstSeg, segs, checkpoint>>
headVars == <<labelOf, memory, tombs, lastSeriesID, pendingCommit, deleted>>
timeVars == <<blockMaxt, lastWALTruncationTime>>
ghostVars == <<committed, logged, erased, restarts>>
vars == <<logVars, headVars, timeVars, app, trunc, ghostVars>>

Refs == 1..MaxRef
Time == 0..MaxT
Idle == [pc |-> "idle", ref |-> 0, lbl |-> NoLabel, created |-> FALSE, t |-> 0, kind |-> "float"]
NotTruncating == [pc |-> "idle", last |-> -1, recs |-> <<>>]
NoCheckpoint == [idx |-> -1, recs |-> <<>>]

SeriesRec(ref, l) == [type |-> "series", ref |-> ref, lbl |-> l, t |-> 0]
SampleRec(kind, ref, t) == [type |-> kind, ref |-> ref, lbl |-> NoLabel, t |-> t]
TombRec(ref, t) == [type |-> "tomb", ref |-> ref, lbl |-> NoLabel, t |-> t]

lastSeg == firstSeg + Len(segs) - 1
Logged(recs) == [segs EXCEPT ![Len(segs)] = @ \o recs]

\* The in-order check of memSeries.append: later than all the series holds.
After(samples, t) == \A s \in samples : t > s[1]

-----------------------------------------------------------------------------
(* Replay: Head.Init and loadWAL. *)

\* The records of the segments i..j, all of which exist.
Between(i, j) == FlattenSeq(SubSeq(segs, i - firstSeg + 1, j - firstSeg + 1))

\* The records Init reads: the last checkpoint, then the segments behind it.
RecordsFrom(cp) == cp.recs \o Between(cp.idx + 1, lastSeg)
Records == RecordsFrom(checkpoint)

EmptyHead == [labelOf |-> [r \in Refs |-> NoLabel], multiRef |-> [r \in Refs |-> r],
              memory |-> [r \in Refs |-> {}], tombs |-> {}]

\* getOrCreateWithID finds a series with the labels: the ref becomes an alias,
\* and resetSeriesWithMMappedChunks forgets what was replayed for the series.
ReplaySeries(h, rec) ==
    LET same == {r \in Refs : h.labelOf[r] = rec.lbl}
    IN  IF same = {}
        THEN [h EXCEPT !.labelOf[rec.ref] = rec.lbl]
        ELSE LET r == CHOOSE x \in same : TRUE
             IN  [h EXCEPT !.multiRef[rec.ref] = r, !.memory[r] = {}]

\* Faulty variant: the boundary sample is taken to be in the block.
ReplayAfterBlock(h, rec) ==
    LET r == h.multiRef[rec.ref]
    IN  IF rec.t > blockMaxt /\ h.labelOf[r] # NoLabel /\ After(h.memory[r], rec.t)
        THEN [h EXCEPT !.memory[r] = @ \cup {<<rec.t, rec.type>>}]
        ELSE h

ReplaySample(h, rec) ==
    LET r == h.multiRef[rec.ref]
    IN  IF rec.t >= blockMaxt /\ h.labelOf[r] # NoLabel /\ After(h.memory[r], rec.t)
        THEN [h EXCEPT !.memory[r] = @ \cup {<<rec.t, rec.type>>}]
        ELSE h

\* Faulty variant: the boundary deletion is taken to be in the block.
ReplayTombstoneAfter(h, rec) ==
    IF rec.t > blockMaxt /\ h.labelOf[rec.ref] # NoLabel
    THEN [h EXCEPT !.tombs = @ \cup {<<rec.ref, rec.t>>}]
    ELSE h

\* A tombstone is looked up by the ref of its record, aliases aside.
ReplayTombstone(h, rec) ==
    IF rec.t >= blockMaxt /\ h.labelOf[rec.ref] # NoLabel
    THEN [h EXCEPT !.tombs = @ \cup {<<rec.ref, rec.t>>}]
    ELSE h

ReplayRecord(h, rec) ==
    CASE rec.type = "series" -> ReplaySeries(h, rec)
      [] rec.type = "tomb" -> ReplayTombstone(h, rec)
      [] OTHER -> ReplaySample(h, rec)

Replay(recs) == FoldLeft(ReplayRecord, EmptyHead, recs)

\* The samples a query would find after a replay.
Visible(h) ==
    {<<h.labelOf[x[1]], x[2], x[3]>> :
        x \in {y \in Refs \X Time \X Kinds : <<y[2], y[3]>> \in h.memory[y[1]] /\ <<y[1], y[2]>> \notin h.tombs}}
Restored == Visible(Replay(Records))

-----------------------------------------------------------------------------
(* Appenders and deletions. *)

Init ==
    /\ firstSeg = 0 /\ segs = << <<>> >> /\ checkpoint = NoCheckpoint
    /\ labelOf = EmptyHead.labelOf /\ memory = EmptyHead.memory /\ tombs = {}
    /\ lastSeriesID = 0 /\ pendingCommit = {} /\ deleted = [r \in Refs |-> -1]
    /\ blockMaxt = 0 /\ lastWALTruncationTime = 0
    /\ app = [a \in Appenders |-> Idle] /\ trunc = NotTruncating
    /\ committed = {} /\ logged = {} /\ erased = {} /\ restarts = 0

Buffer(a, r, l, created, t, k) ==
    /\ app[a].pc = "idle" /\ t >= blockMaxt
    /\ app' = [app EXCEPT ![a] = [pc |-> "series", ref |-> r, lbl |-> l, created |-> created, t |-> t, kind |-> k]]
    /\ pendingCommit' = pendingCommit \cup {r}
    /\ UNCHANGED <<logVars, memory, tombs, deleted, timeVars, trunc, ghostVars>>

\* Append on a series of the head.
AppendKnown(a, r, t, k) ==
    /\ labelOf[r] # NoLabel /\ After(memory[r], t)
    /\ Buffer(a, r, labelOf[r], FALSE, t, k)
    /\ UNCHANGED <<labelOf, lastSeriesID>>

\* Append creates the series; its record waits for the end of the append.
AppendNew(a, l, t, k) ==
    /\ \A r \in Refs : labelOf[r] # l
    /\ lastSeriesID < MaxRef
    /\ lastSeriesID' = lastSeriesID + 1
    /\ labelOf' = [labelOf EXCEPT ![lastSeriesID'] = l]
    /\ Buffer(a, lastSeriesID', l, TRUE, t, k)

NewSeriesRecs(a) == IF app[a].created THEN <<SeriesRec(app[a].ref, app[a].lbl)>> ELSE <<>>
Sample(a) == <<app[a].lbl, app[a].t, app[a].kind>>

\* headAppender.log: the record of the new series first, then the samples.
LogSeries(a) ==
    /\ app[a].pc = "series"
    /\ segs' = Logged(NewSeriesRecs(a))
    /\ app' = [app EXCEPT ![a].pc = "samples"]
    /\ UNCHANGED <<firstSeg, checkpoint, headVars, timeVars, trunc, ghostVars>>

LogSamples(a) ==
    /\ app[a].pc = "samples"
    /\ segs' = Logged(<<SampleRec(app[a].kind, app[a].ref, app[a].t)>>)
    /\ logged' = logged \cup {Sample(a)}
    /\ app' = [app EXCEPT ![a].pc = "apply"]
    /\ UNCHANGED <<firstSeg, checkpoint, headVars, timeVars, trunc, committed, erased, restarts>>

\* Commit, after the log: the sample goes to memory unless it has become out of
\* order.  A series that gc has dropped meanwhile is no longer reachable.
Apply(a) ==
    LET r == app[a].ref
    IN  /\ app[a].pc = "apply"
        /\ app' = [app EXCEPT ![a] = Idle]
        /\ pendingCommit' = pendingCommit \ {r}
        /\ \/ /\ After(memory[r], app[a].t)
              /\ memory' = IF labelOf[r] = NoLabel THEN memory
                           ELSE [memory EXCEPT ![r] = @ \cup {<<app[a].t, app[a].kind>>}]
              /\ committed' = committed \cup {Sample(a)}
           \/ ~After(memory[r], app[a].t) /\ UNCHANGED <<memory, committed>>
        /\ UNCHANGED <<logVars, labelOf, tombs, lastSeriesID, deleted, timeVars, trunc, logged, erased, restarts>>

\* Faulty variant: the samples are logged with the series.
RollbackLogsSamples(a) ==
    /\ app[a].pc \in {"series", "samples"}
    /\ segs' = Logged(NewSeriesRecs(a) \o <<SampleRec(app[a].kind, app[a].ref, app[a].t)>>)
    /\ pendingCommit' = pendingCommit \ {app[a].ref}
    /\ app' = [app EXCEPT ![a] = Idle]
    /\ UNCHANGED <<firstSeg, checkpoint, labelOf, memory, tombs, lastSeriesID, deleted, timeVars, trunc, ghostVars>>

\* Rollback, called by the client, or by Commit when logging has failed: the
\* series stays in the head, so its record is logged in any case.  The float
\* histograms are forgotten: they are logged too, and stay pending.
Rollback(a) ==
    LET forgotten == app[a].kind = "fhist"
    IN  /\ app[a].pc \in {"series", "samples"}
        /\ segs' = Logged(NewSeriesRecs(a) \o
                IF forgotten THEN <<SampleRec("fhist", app[a].ref, app[a].t)>> ELSE <<>>)
        /\ pendingCommit' = IF forgotten THEN pendingCommit ELSE pendingCommit \ {app[a].ref}
        /\ app' = [app EXCEPT ![a] = Idle]
        /\ UNCHANGED <<firstSeg, checkpoint, labelOf, memory, tombs, lastSeriesID, deleted, timeVars, trunc, ghostVars>>

\* Head.Delete of one sample: the tombstone is logged, then added.
Delete(r, t) ==
    /\ \E k \in Kinds : <<t, k>> \in memory[r]
    /\ <<r, t>> \notin tombs /\ Cardinality(erased) < MaxDeletes
    /\ segs' = Logged(<<TombRec(r, t)>>)
    /\ tombs' = tombs \cup {<<r, t>>}
    /\ erased' = erased \cup {<<labelOf[r], t>>}
    /\ UNCHANGED <<firstSeg, checkpoint, labelOf, memory, lastSeriesID, pendingCommit, deleted, timeVars,
                   app, trunc, committed, logged, restarts>>

\* A full segment is closed and the next one begun.
CutSegment ==
    /\ lastSeg < MaxSeg /\ segs[Len(segs)] # <<>>
    /\ segs' = Append(segs, <<>>)
    /\ UNCHANGED <<firstSeg, checkpoint, headVars, timeVars, app, trunc, ghostVars>>

-----------------------------------------------------------------------------
(* Compaction of the head, truncation of the log. *)

\* Faulty variant: the segment that comes next.
GoneUntil == lastSeg + 1

\* The segment up to which gc remembers a series it drops.
GoneSince == lastSeg

\* Samples below m are in a block; Head.gc drops them, and the series that are
\* left empty, remembering the last segment for those.
CompactHead(m) ==
    LET kept == [r \in Refs |-> {s \in memory[r] : s[1] >= m}]
        gone == {r \in Refs : labelOf[r] # NoLabel /\ kept[r] = {} /\ r \notin pendingCommit}
    IN  /\ trunc.pc = "idle" /\ m > blockMaxt
        /\ \A a \in Appenders : app[a].pc = "idle" \/ app[a].t >= m
        /\ blockMaxt' = m
        /\ memory' = kept
        /\ labelOf' = [r \in Refs |-> IF r \in gone THEN NoLabel ELSE labelOf[r]]
        /\ deleted' = [r \in Refs |-> IF r \in gone THEN GoneSince ELSE deleted[r]]
        /\ tombs' = {d \in tombs : d[1] \notin gone /\ d[2] >= m}
        /\ UNCHANGED <<logVars, lastSeriesID, pendingCommit, lastWALTruncationTime, app, trunc, ghostVars>>

\* Faulty variant: the segment in use is counted too.
TwoThirdsOfAll == firstSeg + ((lastSeg + 1 - firstSeg) * 2) \div 3

\* truncateWAL: a new segment is begun, and the lower two thirds of the others
\* are to be checkpointed, unless they are too few.
TwoThirds == firstSeg + ((lastSeg - 1 - firstSeg) * 2) \div 3

StartTruncateWAL ==
    /\ trunc.pc = "idle" /\ blockMaxt > lastWALTruncationTime /\ lastSeg < MaxSeg
    /\ lastWALTruncationTime' = blockMaxt
    /\ segs' = Append(segs, <<>>)
    /\ trunc' = IF TwoThirds > firstSeg THEN [pc |-> "checkpoint", last |-> TwoThirds, recs |-> <<>>] ELSE trunc
    /\ UNCHANGED <<firstSeg, checkpoint, headVars, blockMaxt, app, ghostVars>>

\* Faulty variant: forgets the series that gc has dropped.
KeepLive(r) == labelOf[r] # NoLabel

\* The keep function truncateWAL passes to Checkpoint.
Keep(r) == labelOf[r] # NoLabel \/ deleted[r] > trunc.last

\* What Checkpoint does with one record; a record of a type it does not know,
\* float histograms among them, is dropped.
KeepRecord(rec) ==
    CASE rec.type = "series" -> Keep(rec.ref)
      [] rec.type \in {"float", "tomb"} -> rec.t >= blockMaxt
      [] OTHER -> FALSE

\* Faulty variant: the records of the old checkpoint are not carried over.
CheckpointOfSegments ==
    /\ trunc.pc = "checkpoint"
    /\ trunc' = [trunc EXCEPT !.pc = "replace", !.recs = SelectSeq(Between(checkpoint.idx + 1, trunc.last), KeepRecord)]
    /\ UNCHANGED <<logVars, headVars, timeVars, app, ghostVars>>

\* Checkpoint filters the old checkpoint and the segments behind it into a
\* temporary directory.
Checkpoint ==
    /\ trunc.pc = "checkpoint"
    /\ trunc' = [trunc EXCEPT !.pc = "replace",
                   !.recs = SelectSeq(checkpoint.recs \o Between(checkpoint.idx + 1, trunc.last), KeepRecord)]
    /\ UNCHANGED <<logVars, headVars, timeVars, app, ghostVars>>

\* fileutil.Replace: a directory in the way, which is there when the segments
\* of the last checkpoint could not be removed, goes before the rename.
RemoveOldCheckpoint ==
    /\ trunc.pc = "replace" /\ checkpoint.idx = trunc.last
    /\ checkpoint' = NoCheckpoint
    /\ UNCHANGED <<firstSeg, segs, headVars, timeVars, app, trunc, ghostVars>>

RenameCheckpoint ==
    /\ trunc.pc = "replace" /\ checkpoint.idx # trunc.last
    /\ checkpoint' = [idx |-> trunc.last, recs |-> trunc.recs]
    /\ trunc' = [pc |-> "remove", last |-> trunc.last, recs |-> <<>>]
    /\ UNCHANGED <<firstSeg, segs, headVars, timeVars, app, ghostVars>>

\* Checkpoint fails; what it has written so far is removed.
CheckpointFails ==
    /\ trunc.pc = "checkpoint"
    /\ trunc' = NotTruncating
    /\ UNCHANGED <<logVars, headVars, timeVars, app, ghostVars>>

\* Faulty variant: one segment more than the checkpoint covers.
RemoveSegmentPast ==
    /\ trunc.pc = "remove" /\ firstSeg <= trunc.last + 1
    /\ firstSeg' = firstSeg + 1
    /\ segs' = Tail(segs)
    /\ UNCHANGED <<checkpoint, headVars, timeVars, app, trunc, ghostVars>>

\* WL.Truncate removes segment files from the lowest on.
RemoveSegment ==
    /\ trunc.pc = "remove" /\ firstSeg <= trunc.last
    /\ firstSeg' = firstSeg + 1
    /\ segs' = Tail(segs)
    /\ UNCHANGED <<checkpoint, headVars, timeVars, app, trunc, ghostVars>>

\* All are gone, or one could not be removed; truncateWAL forgets the deleted
\* series that the checkpoint has left behind.
FinishTruncateWAL ==
    /\ trunc.pc = "remove"
    /\ deleted' = [r \in Refs |-> IF deleted[r] <= trunc.last THEN -1 ELSE deleted[r]]
    /\ trunc' = NotTruncating
    /\ UNCHANGED <<logVars, labelOf, memory, tombs, lastSeriesID, pendingCommit, timeVars, app, ghostVars>>

-----------------------------------------------------------------------------
(* A crash at any moment, and the start of the next process. *)

Restart ==
    LET h == Replay(Records)
        empty == {r \in Refs : h.labelOf[r] # NoLabel /\ h.memory[r] = {}}
    IN  /\ restarts < MaxRestarts /\ lastSeg < MaxSeg
        /\ restarts' = restarts + 1
        /\ segs' = Append(segs, <<>>)
        /\ labelOf' = [r \in Refs |-> IF r \in empty THEN NoLabel ELSE h.labelOf[r]]
        /\ memory' = h.memory
        /\ tombs' = {d \in h.tombs : d[1] \notin empty}
        /\ lastSeriesID' = Max({0} \cup {Records[i].ref : i \in {j \in DOMAIN Records : Records[j].type = "series"}})
        /\ deleted' = [r \in Refs |-> IF r \in empty THEN lastSeg + 1 ELSE -1]
        /\ pendingCommit' = {} /\ lastWALTruncationTime' = 0
        /\ app' = [a \in Appenders |-> Idle]
        /\ trunc' = NotTruncating
        /\ UNCHANGED <<firstSeg, checkpoint, blockMaxt, committed, logged, erased>>

\* Every step but the start of a truncation of the log.
OtherStep ==
    \/ \E a \in Appenders, r \in Refs, t \in Time, k \in Kinds : AppendKnown(a, r, t, k)
    \/ \E a \in Appenders, l \in Labels, t \in Time, k \in Kinds : AppendNew(a, l, t, k)
    \/ \E a \in Appenders : LogSeries(a) \/ LogSamples(a) \/ Apply(a) \/ Rollback(a)
    \/ \E r \in Refs, t \in Time : Delete(r, t)
    \/ CutSegment
    \/ \E m \in Time : CompactHead(m)
    \/ Checkpoint \/ CheckpointFails \/ RemoveOldCheckpoint \/ RenameCheckpoint
    \/ RemoveSegment \/ FinishTruncateWAL
    \/ Restart

Next == StartTruncateWAL \/ OtherStep

Spec == Init /\ [][Next]_vars

-----------------------------------------------------------------------------
(* Properties. *)

\* The variables have their types; above all, Head.deleted names segments that
\* exist, and only logged samples count as committed.
TypeOK ==
    /\ firstSeg \in Nat /\ Len(segs) > 0 /\ checkpoint.idx \in -1..MaxSeg
    /\ labelOf \in [Refs -> Labels \cup {NoLabel}]
    /\ memory \in [Refs -> SUBSET (Time \X Kinds)]
    /\ tombs \subseteq Refs \X Time
    /\ lastSeriesID \in 0..MaxRef /\ pendingCommit \subseteq Refs /\ deleted \in [Refs -> -1..lastSeg]
    /\ blockMaxt \in Time /\ lastWALTruncationTime \in Time
    /\ committed \subseteq logged /\ logged \subseteq Labels \X Time \X Kinds /\ erased \subseteq Labels \X Time

\* The segments behind the last checkpoint are all there, whatever has failed
\* or crashed: Init can open each, and Checkpoint never finds a gap.
NoGap ==
    firstSeg <= checkpoint.idx + 1 /\ checkpoint.idx + 1 <= lastSeg

\* The head "is secured against crashes by a write-ahead log (WAL) that can be
\* replayed" (docs/storage.md): at every moment a replay would give back every
\* committed, not deleted sample that is not yet in a block.
Recoverable ==
    \A c \in committed : (c[2] >= blockMaxt /\ <<c[1], c[2]>> \notin erased) => c \in Restored

\* A sample whose Head.Delete has returned stays deleted across a restart.
DeletedStaysDeleted ==
    \A c \in Restored : <<c[1], c[2]>> \notin erased

\* Replay never meets a sample of a series it has no labels for: that is what
\* Head.deleted keeps series records for.
KnownRefs ==
    \A i \in DOMAIN Records : Records[i].type \in Kinds =>
        \E j \in 1..(i - 1) : Records[j].type = "series" /\ Records[j].ref = Records[i].ref

\* Rollback "removes the samples and exemplars from headAppender": a replay
\* brings back only samples that some Commit has logged.
NothingInvented == Restored \subseteq logged

\* A checkpoint drops series not kept, "samples/tombstones/exemplars below mint"
\* and nothing else: when Checkpoint is about to put the new one in place, a
\* replay from it gives back what a replay from the log as it is would.
CheckpointFaithful ==
    trunc.pc = "replace" =>
        Visible(Replay(RecordsFrom([idx |-> trunc.last, recs |-> trunc.recs]))) = Restored

\* "Prometheus will retain a minimum of three write-ahead log files"
\* (docs/storage.md): truncation leaves no fewer.
RetainsThree == firstSeg > 0 => Len(segs) >= 3

\* What is on disk is a log without a hole that gives back every sample it should.
LogGivesBack == NoGap /\ Recoverable
=============================================================================
