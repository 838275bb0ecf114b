--------------------------- MODULE HeadCompaction ---------------------------
(***************************************************************************)
(* Appends, head compaction and queries over one TSDB: Head.appender and   *)
(* headAppender.Commit (tsdb/head_append.go), DB.Compact, DB.compactHead   *)
(* and DB.Querier (tsdb/db.go), Head.truncateMemory and                    *)
(* Head.IsQuerierCollidingWithTruncation (tsdb/head.go).                   *)
(*                                                                         *)
(* The goroutines share the atomics minTime, maxTime, minValidTime,        *)
(* lastMemoryTruncationTime and memTruncationInProcess, the lists of open  *)
(* appends and open reads, the in-memory samples, and the block list under *)
(* db.mtx.  Steps are cut between accesses to them, but for the last       *)
(* stores of a truncation: RaiseMinTime, and maxTime in StoreMinValidTime. *)
(*                                                                         *)
(* Each appender writes to a series of its own (as a scrape loop does), so *)
(* a sample is a pair <<appender, timestamp>>.  Out-of-order ingestion is  *)
(* off, and the head has been initialised.                                 *)
(***************************************************************************)
EXTENDS Integers, Sequences, FiniteSets

CONSTANTS
    Appenders,      \* goroutines that append, each to its own series
    Queries,        \* goroutines that query
    QueryTimes,     \* the end points a query may ask for
    MinT, MaxT,     \* bounds on timestamps
    MaxBatch,       \* bound on the samples of one appender
    ChunkRange      \* Head.chunkRange

ASSUME HeadAssumption ==
    /\ MinT \in Int /\ MaxT \in Int /\ MinT <= MaxT
    /\ MaxBatch \in Nat /\ ChunkRange \in Nat \ {0, 1}
    /\ QueryTimes \subseteq MinT..MaxT

VARIABLES
    minTime, maxTime, minValidTime,
    lastMemoryTruncationTime, memTruncationInProcess,
    memory,         \* the timestamps in memory of each series
    disk,           \* samples of the blocks in the data directory
    blocks,         \* samples of the blocks in db.blocks
    committed,      \* samples whose Commit has returned
    apc, amint, abatch,         \* an appender: where it is, minValidTime, samples
    cpc, cmint, cmaxt, cblock,  \* the compactor: where it is, range, new block
    cactual,                    \* ... and the minimum time gc has returned
    qpc, qrange, qstate,        \* a query: where it is, range, open read
    qgot, qneed                 \* ... what it has read, what it must read

headVars == <<minTime, maxTime, minValidTime>>
truncVars == <<lastMemoryTruncationTime, memTruncationInProcess>>
dataVars == <<memory, disk, blocks>>
appVars == <<apc, amint, abatch>>
compVars == <<cpc, cmint, cmaxt, cblock, cactual>>
queryVars == <<qpc, qrange, qstate, qgot, qneed>>
vars == <<headVars, truncVars, dataVars, committed, appVars, compVars, queryVars>>

Time == MinT..MaxT
Samples == Appenders \X Time
NoRead == <<>>
ReadStates == {NoRead} \cup (Int \X Int \X Int)

Least(S) == CHOOSE x \in S : \A y \in S : x <= y
Greatest(S) == CHOOSE x \in S : \A y \in S : x >= y
Larger(x, y) == IF x >= y THEN x ELSE y

\* Go's integer division rounds toward zero.
Quotient(t, w) == IF t >= 0 THEN t \div w ELSE -((-t) \div w)

rangeForTimestamp(t, width) == Quotient(t, width) * width + width

appendableMinValidTime == Larger(maxTime - ChunkRange \div 2, minValidTime)

compactable == maxTime - minTime > (ChunkRange \div 2) * 3

-----------------------------------------------------------------------------

\* The database has been opened over blocks that end at MinT, and initTime has
\* set both ends of the empty head to the time of a first append, MinT too.
Init ==
    /\ minTime = MinT /\ maxTime = MinT /\ minValidTime = MinT
    /\ lastMemoryTruncationTime = MinT /\ memTruncationInProcess = FALSE
    /\ memory = [a \in Appenders |-> {}]
    /\ disk = {} /\ blocks = {} /\ committed = {}
    /\ apc = [a \in Appenders |-> "idle"]
    /\ amint = [a \in Appenders |-> MinT]
    /\ abatch = [a \in Appenders |-> <<>>]
    /\ cpc = "idle" /\ cmint = MinT /\ cmaxt = MinT /\ cblock = {} /\ cactual = MinT
    /\ qpc = [q \in Queries |-> "idle"]
    /\ qrange = [q \in Queries |-> <<MinT, MinT>>]
    /\ qstate = [q \in Queries |-> NoRead]
    /\ qgot = [q \in Queries |-> {}]
    /\ qneed = [q \in Queries |-> {}]

-----------------------------------------------------------------------------
(* Appenders. *)

\* The appends registered in iso.appendsOpen.
OpenAppends == {a \in Appenders : apc[a] \in {"open", "written", "minUpdated", "maxUpdated"}}

\* Head.appender: the window is read ...
ReadWindow(a) ==
    /\ apc[a] = "idle"
    /\ apc' = [apc EXCEPT ![a] = "opening"]
    /\ amint' = [amint EXCEPT ![a] = appendableMinValidTime]
    /\ UNCHANGED <<abatch, headVars, truncVars, dataVars, committed, compVars, queryVars>>

\* ... then iso.newAppendID registers the append with it.
RegisterAppend(a) ==
    /\ apc[a] = "opening"
    /\ apc' = [apc EXCEPT ![a] = "open"]
    /\ UNCHANGED <<amint, abatch, headVars, truncVars, dataVars, committed, compVars, queryVars>>

\* headAppender.Append accepts t: inside the window, newer than the series.
AppendSample(a, t) ==
    /\ apc[a] = "open" /\ Len(abatch[a]) < MaxBatch
    /\ t >= amint[a]
    /\ \A u \in memory[a] : t > u
    /\ abatch' = [abatch EXCEPT ![a] = Append(@, t)]
    /\ UNCHANGED <<apc, amint, headVars, truncVars, dataVars, committed, compVars, queryVars>>

\* The samples of a batch that Commit's second check of the order lets through.
InOrder(batch) ==
    {batch[i] : i \in {j \in DOMAIN batch : \A k \in 1..(j-1) : batch[k] < batch[j]}}

\* Commit, first part: the samples go into the chunks of the series.
WriteSamples(a) ==
    /\ apc[a] = "open" /\ abatch[a] # <<>>
    /\ apc' = [apc EXCEPT ![a] = "written"]
    /\ memory' = [memory EXCEPT ![a] = @ \cup InOrder(abatch[a])]
    /\ UNCHANGED <<amint, abatch, headVars, truncVars, disk, blocks, committed, compVars, queryVars>>

\* Commit, second part: the two compare-and-swap loops of updateMinMaxTime.
LowerMinTime(a) ==
    /\ apc[a] = "written"
    /\ apc' = [apc EXCEPT ![a] = "minUpdated"]
    /\ minTime' = Least({minTime} \cup InOrder(abatch[a]))
    /\ UNCHANGED <<maxTime, minValidTime, amint, abatch, truncVars, dataVars, committed, compVars, queryVars>>

RaiseMaxTime(a) ==
    /\ apc[a] = "minUpdated"
    /\ apc' = [apc EXCEPT ![a] = "maxUpdated"]
    /\ maxTime' = Greatest({maxTime} \cup InOrder(abatch[a]))
    /\ UNCHANGED <<minTime, minValidTime, amint, abatch, truncVars, dataVars, committed, compVars, queryVars>>

\* The deferred closeAppend of Commit.
CloseCommitted(a) ==
    /\ apc[a] = "maxUpdated"
    /\ committed' = committed \cup ({a} \X InOrder(abatch[a]))
    /\ apc' = [apc EXCEPT ![a] = "idle"]
    /\ amint' = [amint EXCEPT ![a] = MinT]
    /\ abatch' = [abatch EXCEPT ![a] = <<>>]
    /\ UNCHANGED <<headVars, truncVars, dataVars, compVars, queryVars>>

\* Rollback, or the Commit of an appender without samples.
Rollback(a) ==
    /\ apc[a] = "open"
    /\ apc' = [apc EXCEPT ![a] = "idle"]
    /\ amint' = [amint EXCEPT ![a] = MinT]
    /\ abatch' = [abatch EXCEPT ![a] = <<>>]
    /\ UNCHANGED <<headVars, truncVars, dataVars, committed, compVars, queryVars>>

-----------------------------------------------------------------------------
(* The compactor: DB.Compact, under db.cmtx, so there is one. *)

At(pc) == cpc = pc
GoTo(pc) == cpc' = pc

\* The loop of Compact finds the head compactable and fixes the range.
StartCompaction ==
    /\ At("idle") /\ compactable
    /\ GoTo("waitAppends")
    /\ cmint' = minTime
    /\ cmaxt' = rangeForTimestamp(minTime, ChunkRange)
    /\ UNCHANGED <<cblock, cactual, headVars, truncVars, dataVars, committed, appVars, queryVars>>

\* Faulty variants: no wait; a wait for every appender.
WaitSkipped == At("waitAppends")
WaitForAll == At("waitAppends") /\ OpenAppends = {}

\* WaitForAppendersOverlapping(cmaxt - 1) sees no lower append time.
NoAppendOverlaps == At("waitAppends") /\ \A a \in OpenAppends : cmaxt - 1 < amint[a]

WaitForAppenders ==
    /\ NoAppendOverlaps
    /\ GoTo("write")
    /\ UNCHANGED <<cmint, cmaxt, cblock, cactual, headVars, truncVars, dataVars, committed, appVars, queryVars>>

InMemory(lo, hi) == {s \in Samples : s[2] \in memory[s[1]] /\ lo <= s[2] /\ s[2] <= hi}

\* compactor.Write persists [cmint, cmaxt - 1] with isolation off.  The chunk
\* reader of the range starts no lower than the head.
WriteBlock ==
    /\ At("write")
    /\ cblock' = InMemory(Larger(cmint, minTime), cmaxt - 1)
    /\ disk' = disk \cup cblock'
    /\ GoTo("reload")
    /\ UNCHANGED <<cmint, cmaxt, cactual, headVars, truncVars, memory, blocks, committed, appVars, queryVars>>

\* compactor.Write fails: Compact returns, and the block directory is gone.
WriteBlockFails ==
    /\ At("write")
    /\ GoTo("idle")
    /\ UNCHANGED <<cmint, cmaxt, cblock, cactual, headVars, truncVars, dataVars, committed, appVars, queryVars>>

\* Queries that hold db.mtx for reading.
RLocked == {q \in Queries : qpc[q] \in {"blocks", "registered", "again", "opened"}}

\* reloadBlocks, under db.mtx, swaps the block list for what is on disk.
ReloadBlocks ==
    /\ At("reload") /\ RLocked = {}
    /\ blocks' = disk
    /\ cblock' = {}
    /\ GoTo("truncTime")
    /\ UNCHANGED <<cmint, cmaxt, cactual, headVars, truncVars, memory, disk, committed, appVars, queryVars>>

\* reloadBlocks fails, before the swap or after it (deleteBlocks); compactHead
\* removes the new block from disk and returns.
ReloadBlocksFails ==
    /\ At("reload") /\ RLocked = {}
    /\ blocks' \in {blocks, disk}
    /\ disk' = disk \ cblock
    /\ cblock' = {}
    /\ GoTo("idle")
    /\ UNCHANGED <<cmint, cmaxt, cactual, headVars, truncVars, memory, committed, appVars, queryVars>>

\* truncateMemory(cmaxt): the truncation time is stored first ...  Only the
\* compactor raises minTime, so it is below cmaxt here.
StoreTruncationTime ==
    /\ At("truncTime") /\ minTime < cmaxt
    /\ lastMemoryTruncationTime' = cmaxt
    /\ GoTo("truncFlag")
    /\ UNCHANGED <<cmint, cmaxt, cblock, cactual, headVars, memTruncationInProcess, dataVars, committed, appVars, queryVars>>

\* ... then the flag; the head's minimum is read for the wait that follows.
SetTruncationInProcess ==
    /\ At("truncFlag")
    /\ memTruncationInProcess' = TRUE
    /\ cmint' = minTime
    /\ GoTo("waitReads")
    /\ UNCHANGED <<cmaxt, cblock, cactual, headVars, lastMemoryTruncationTime, dataVars, committed, appVars, queryVars>>

OpenReads == {q \in Queries : qstate[q] # NoRead}

\* Faulty variant: no wait.
ReadersIgnored == At("waitReads")

\* WaitForPendingReadersInTimeRange(cmint, cmaxt) sees no overlapping read.
NoReadOverlaps ==
    /\ At("waitReads")
    /\ \A q \in OpenReads : ~(qstate[q][1] <= cmaxt - 1 /\ cmint <= qstate[q][2])

WaitForReaders ==
    /\ NoReadOverlaps
    /\ GoTo("storeMin")
    /\ UNCHANGED <<cmint, cmaxt, cblock, cactual, headVars, truncVars, dataVars, committed, appVars, queryVars>>

StoreMinTime ==
    /\ At("storeMin")
    /\ minTime' = cmaxt
    /\ GoTo("storeValid")
    /\ UNCHANGED <<cmint, cmaxt, cblock, cactual, maxTime, minValidTime, truncVars, dataVars, committed, appVars, queryVars>>

StoreMinValidTime ==
    /\ At("storeValid")
    /\ minValidTime' = cmaxt
    /\ maxTime' = Larger(maxTime, cmaxt)
    /\ GoTo("gc")
    /\ UNCHANGED <<cmint, cmaxt, cblock, cactual, minTime, truncVars, dataVars, committed, appVars, queryVars>>

\* Faulty variant: the boundary sample goes as well.
KeptAfter(a) == {t \in memory[a] : t > minTime}

\* gc: chunks end at multiples of ChunkRange, as cmaxt does, so truncating the
\* chunks before minTime drops exactly the samples before it.
Kept(a) == {t \in memory[a] : t >= minTime}

\* The minimum time gc reports: that of all chunks left, and below everything
\* when a series without chunks waits for a commit.
ActualMint ==
    LET left == UNION {Kept(a) : a \in Appenders}
    IN  IF \E a \in Appenders : Kept(a) = {} /\ apc[a] = "open" /\ abatch[a] # <<>>
        THEN MinT - 1
        ELSE Least(IF left = {} THEN {minTime} ELSE left)

\* gc drops the chunks and reports the minimum of the rest ...
GC ==
    /\ At("gc")
    /\ memory' = [a \in Appenders |-> Kept(a)]
    /\ cactual' = ActualMint
    /\ GoTo("raise")
    /\ UNCHANGED <<cmint, cmaxt, cblock, headVars, truncVars, disk, blocks, committed, appVars, queryVars>>

\* ... to which truncateSeriesAndChunkDiskMapper raises the minimum of the head,
\* though at most to the append window.
RaiseMinTime ==
    /\ At("raise")
    /\ \/ /\ cactual > minTime
          /\ minTime' = Least({cactual, appendableMinValidTime})
          /\ minValidTime' = minTime'
       \/ cactual <= minTime /\ UNCHANGED <<minTime, minValidTime>>
    /\ GoTo("finish")
    /\ UNCHANGED <<cmint, cmaxt, cblock, cactual, maxTime, truncVars, dataVars, committed, appVars, queryVars>>

\* The deferred store of truncateMemory; Compact looks for the next range.
FinishTruncation ==
    /\ At("finish")
    /\ memTruncationInProcess' = FALSE
    /\ GoTo("idle")
    /\ UNCHANGED <<cmint, cmaxt, cblock, cactual, headVars, lastMemoryTruncationTime, dataVars, committed, appVars, queryVars>>

-----------------------------------------------------------------------------
(* Queries: DB.Querier, one Select, Close. *)

InRange(S, lo, hi) == {s \in S : lo <= s[2] /\ s[2] <= hi}

\* Takes db.mtx for reading and collects the blocks; what has been committed by
\* now is what the query has to return.  A query older than the head skips it.
OpenQuery(q, lo, hi) ==
    /\ qpc[q] = "idle"
    /\ qrange' = [qrange EXCEPT ![q] = <<lo, hi>>]
    /\ qneed' = [qneed EXCEPT ![q] = InRange(committed, lo, hi)]
    /\ qgot' = [qgot EXCEPT ![q] = InRange(blocks, lo, hi)]
    /\ qpc' = [qpc EXCEPT ![q] = IF hi >= minTime THEN "blocks" ELSE "done"]
    /\ UNCHANGED <<qstate, headVars, truncVars, dataVars, committed, appVars, compVars>>

\* NewBlockQuerier over a RangeHead: iso.State registers the read, chunksRange
\* then clips the range to the head.
Register(q, lo, hi) == qstate' = [qstate EXCEPT ![q] = <<lo, hi, Larger(lo, minTime)>>]

RegisterRead(q) ==
    /\ qpc[q] = "blocks"
    /\ Register(q, qrange[q][1], qrange[q][2])
    /\ qpc' = [qpc EXCEPT ![q] = "registered"]
    /\ UNCHANGED <<qrange, qgot, qneed, headVars, truncVars, dataVars, committed, appVars, compVars>>

\* Faulty variant: a new querier whenever the old one is closed.
GetNewAlways(q) == memTruncationInProcess /\ qrange[q][1] < lastMemoryTruncationTime

\* IsQuerierCollidingWithTruncation: shouldClose, and getNew when the range
\* reaches beyond the truncation.
ShouldClose(q) == memTruncationInProcess /\ qrange[q][1] < lastMemoryTruncationTime
GetNew(q) == ShouldClose(q) /\ qrange[q][2] >= lastMemoryTruncationTime

CheckCollision(q) ==
    /\ qpc[q] = "registered"
    /\ qstate' = [qstate EXCEPT ![q] = IF ShouldClose(q) THEN NoRead ELSE @]
    /\ qpc' = [qpc EXCEPT ![q] = IF GetNew(q) THEN "again" ELSE IF ShouldClose(q) THEN "done" ELSE "opened"]
    /\ qrange' = [qrange EXCEPT ![q][1] = IF GetNew(q) THEN lastMemoryTruncationTime ELSE @]
    /\ UNCHANGED <<qgot, qneed, headVars, truncVars, dataVars, committed, appVars, compVars>>

\* The second head querier, from the truncation time on.
RegisterAgain(q) ==
    /\ qpc[q] = "again"
    /\ Register(q, qrange[q][1], qrange[q][2])
    /\ qpc' = [qpc EXCEPT ![q] = "opened"]
    /\ UNCHANGED <<qrange, qgot, qneed, headVars, truncVars, dataVars, committed, appVars, compVars>>

\* The queriers of the blocks are opened and db.mtx is released ...
OpenBlocks(q) ==
    /\ qpc[q] = "opened"
    /\ qpc' = [qpc EXCEPT ![q] = "head"]
    /\ UNCHANGED <<qrange, qstate, qgot, qneed, headVars, truncVars, dataVars, committed, appVars, compVars>>

\* ... or that of a block with data in the range cannot be: the queriers of the
\* other blocks are closed and the caller gets the error, so nothing to close.
OpenBlockFails(q) ==
    /\ qpc[q] = "opened" /\ qgot[q] # {}
    /\ qpc' = [qpc EXCEPT ![q] = "failed"]
    /\ UNCHANGED <<qrange, qstate, qgot, qneed, headVars, truncVars, dataVars, committed, appVars, compVars>>

\* The head's chunks are read.
ReadHead(q) ==
    /\ qpc[q] = "head"
    /\ qgot' = [qgot EXCEPT ![q] = @ \cup InMemory(qstate[q][3], qstate[q][2])]
    /\ qpc' = [qpc EXCEPT ![q] = "done"]
    /\ UNCHANGED <<qrange, qstate, qneed, headVars, truncVars, dataVars, committed, appVars, compVars>>

CloseQuery(q) ==
    /\ qpc[q] = "done"
    /\ qpc' = [qpc EXCEPT ![q] = "idle"]
    /\ qstate' = [qstate EXCEPT ![q] = NoRead]
    /\ qrange' = [qrange EXCEPT ![q] = <<MinT, MinT>>]
    /\ qgot' = [qgot EXCEPT ![q] = {}]
    /\ qneed' = [qneed EXCEPT ![q] = {}]
    /\ UNCHANGED <<headVars, truncVars, dataVars, committed, appVars, compVars>>

-----------------------------------------------------------------------------

FinishAppend(a) ==
    RegisterAppend(a) \/ WriteSamples(a) \/ LowerMinTime(a) \/ RaiseMaxTime(a) \/ CloseCommitted(a) \/ Rollback(a)

Compact ==
    \/ StartCompaction \/ WaitForAppenders
    \/ WriteBlock \/ WriteBlockFails \/ ReloadBlocks \/ ReloadBlocksFails
    \/ StoreTruncationTime \/ SetTruncationInProcess \/ WaitForReaders
    \/ StoreMinTime \/ StoreMinValidTime \/ GC \/ RaiseMinTime \/ FinishTruncation

FinishQuery(q) ==
    RegisterRead(q) \/ CheckCollision(q) \/ RegisterAgain(q) \/ OpenBlocks(q) \/ ReadHead(q) \/ CloseQuery(q)

Next ==
    \/ \E a \in Appenders : ReadWindow(a) \/ FinishAppend(a)
    \/ \E a \in Appenders, t \in Time : AppendSample(a, t)
    \/ Compact
    \/ \E q \in Queries : FinishQuery(q) \/ OpenBlockFails(q)
    \/ \E q \in Queries, lo, hi \in QueryTimes : lo <= hi /\ OpenQuery(q, lo, hi)

\* Go runs every runnable goroutine; appenders end by Commit or Rollback and
\* queries are closed (the query timeout sees to it).
Fairness ==
    /\ \A a \in Appenders : WF_vars(FinishAppend(a))
    /\ \A q \in Queries : WF_vars(FinishQuery(q))
    /\ WF_vars(Compact)

Spec == Init /\ [][Next]_vars
FairSpec == Spec /\ Fairness

\* Head.appender's two steps run without another goroutine in between.
OpensAtOnce ==
    \A a \in Appenders : apc[a] = "opening" => apc'[a] = "open"

\* So do gc and the raise of minTime that follows it; and when it will be a
\* raise, no appender is open whose window begins below the new minimum.
RaisesAlone ==
    /\ cpc = "raise" => cpc' = "finish"
    /\ (cpc = "gc" /\ cpc' = "raise" /\ cactual' > minTime) =>
           \A a \in OpenAppends : Least({cactual', appendableMinValidTime}) <= amint[a]

\* The program under these scheduling assumptions, and under the first alone.
QuietSpec == Init /\ [][Next /\ OpensAtOnce /\ RaisesAlone]_vars
RaiseSpec == Init /\ [][Next /\ OpensAtOnce]_vars

-----------------------------------------------------------------------------
(* Properties. *)

\* The variables have their types; above all, no query is ever given a range
\* that ends before it begins when Querier moves its start to the truncation.
TypeOK ==
    /\ minTime \in Int /\ maxTime \in Int /\ minValidTime \in Int
    /\ lastMemoryTruncationTime \in Int /\ memTruncationInProcess \in BOOLEAN
    /\ memory \in [Appenders -> SUBSET Time]
    /\ disk \subseteq Samples /\ blocks \subseteq Samples /\ committed \subseteq Samples
    /\ apc \in [Appenders -> {"idle", "opening", "open", "written", "minUpdated", "maxUpdated"}]
    /\ amint \in [Appenders -> Int] /\ abatch \in [Appenders -> Seq(Time)]
    /\ cpc \in {"idle", "waitAppends", "write", "reload", "truncTime", "truncFlag",
                "waitReads", "storeMin", "storeValid", "gc", "raise", "finish"}
    /\ cmint \in Int /\ cmaxt \in Int /\ cblock \subseteq Samples /\ cactual \in Int
    /\ qpc \in [Queries -> {"idle", "blocks", "registered", "again", "opened", "head", "failed", "done"}]
    /\ qrange \in [Queries -> {r \in Int \X Int : r[1] <= r[2]}] /\ qstate \in [Queries -> ReadStates]
    /\ qgot \in [Queries -> SUBSET Samples] /\ qneed \in [Queries -> SUBSET Samples]

\* Once Commit has returned, a sample stays in a block on disk or in the part of
\* the head that is read, however appends, compactions and their failures
\* interleave.
NothingLost ==
    \A s \in committed : s \in disk \/ (s[2] \in memory[s[1]] /\ s[2] >= minTime)

\* "no new appends can start within the compaction range" (DB.Compact): from the
\* end of the wait for appenders to the end of the truncation, every open
\* appender's window lies above the range of the block.
WindowSealed ==
    cpc \notin {"idle", "waitAppends"} => \A a \in OpenAppends : amint[a] >= cmaxt

\* A query returns every sample of its range that was committed before it began,
\* from the blocks or from the head, even if the head is truncated on the way.
QueryComplete ==
    \A q \in Queries : qpc[q] = "done" => qneed[q] \subseteq qgot[q]

\* "If we fail, all previously opened queriers must be closed" (DB.Querier): a
\* query that failed to open leaves no read registered, on which truncation
\* would wait forever.
FailedQueryClosesAll ==
    \A q \in Queries : qpc[q] = "failed" => qstate[q] = NoRead

\* A started compaction comes to an end: it is not held up by appenders that
\* keep coming, nor by reads that are open, if in the end queries stop taking
\* the lock and none has failed half open.
CompactionEnds ==
    (<>[](\A q \in Queries : qpc[q] \in {"idle", "head", "done"}))
        => (cpc # "idle" ~> cpc = "idle")

=============================================================================
