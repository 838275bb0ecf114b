----------------------------- MODULE HeadProofs -----------------------------
(***************************************************************************)
(* Proofs about module HeadCompaction, for any number of appenders and     *)
(* queries, any times from 1970 on, batches and chunk ranges: under the    *)
(* scheduling of QuietSpec no committed sample is lost, the range of a     *)
(* compaction stays closed to appenders, and queries are complete.  The    *)
(* invariant and its preservation by appenders and the compactor are in    *)
(* module HeadInvariants; here are the queries and the theorems.           *)
(***************************************************************************)
EXTENDS HeadInvariants

-----------------------------------------------------------------------------
(* Queries. *)

\* What was committed is in the blocks the query has collected or in the head,
\* and all of it in the blocks for a query older than the head.
LEMMA OpenQueryInv ==
    ASSUME HeadInv, NEW q \in Queries, NEW lo \in QueryTimes, NEW hi \in QueryTimes, lo <= hi,
           OpenQuery(q, lo, hi)
    PROVE  HeadInv'
<1>. USE HeadAssumption DEF HeadInv, ReadInv, OpenQuery
<1>1. StoreInv'
  BY StoreFrame
<1>2. lo \in Int /\ hi \in Int /\ lo <= hi
  OBVIOUS
<1>3. /\ InRange(committed, lo, hi) \in SUBSET Samples
      /\ InRange(blocks, lo, hi) \in SUBSET Samples
  BY DEF InRange, StoreInv, DataType
<1>4. QueryType'
  BY <1>2, <1>3 DEF QueryType
<1>5. ASSUME NEW s \in InRange(committed, lo, hi)
      PROVE  /\ s[2] \in Int /\ s[2] <= hi /\ s[2] >= lo
             /\ s \in InRange(blocks, lo, hi) \/ InHead(s)
             /\ cpc \in BeforeStore => s \in InRange(blocks, lo, hi) \/ s[2] >= cmaxt
  <2>1. s \in committed /\ s[2] \in Int /\ lo <= s[2] /\ s[2] <= hi
    BY DEF InRange, StoreInv, DataType, Samples, Time
  <2>2. s \in blocks \/ InHead(s)
    BY <2>1 DEF StoreInv, BlockInv
  <2>3. cpc \in BeforeStore => s \in blocks \/ s[2] >= cmaxt
    BY <2>1 DEF StoreInv, BlockInv, BeforeStore, CompType
  <2>. QED  BY <1>2, <2>1, <2>2, <2>3 DEF InRange
<1>6. \A s : InHead(s)' <=> InHead(s)
  BY DEF InHead, headVars, dataVars
<1>7. /\ qpc'[q] \in {"blocks", "done"} /\ qrange'[q] = <<lo, hi>>
      /\ qneed'[q] = InRange(committed, lo, hi) /\ qgot'[q] = InRange(blocks, lo, hi)
      /\ \A p \in Queries \ {q} : /\ qpc'[p] = qpc[p] /\ qrange'[p] = qrange[p] /\ qneed'[p] = qneed[p]
                                  /\ qgot'[p] = qgot[p]
      /\ cpc' = cpc /\ cmaxt' = cmaxt /\ minTime' = minTime /\ qstate' = qstate
  BY DEF QueryType, compVars, headVars
<1>8. QueryInv'
  <2>1. ASSUME NEW p \in Queries \ {q}
        PROVE  /\ qpc[p] \in {"blocks", "registered", "again", "opened", "head"} =>
                     \A s \in qneed[p] :
                         /\ s[2] <= qrange[p][2]
                         /\ s \in qgot[p] \/ (InHead(s) /\ s[2] >= qrange[p][1])
               /\ qpc[p] \in {"blocks", "registered", "again", "opened"} /\ cpc \in BeforeStore =>
                     \A s \in qneed[p] : s \in qgot[p] \/ s[2] >= cmaxt
               /\ qpc[p] = "head" /\ cpc = "storeMin" => \A s \in qneed[p] : s \in qgot[p] \/ s[2] >= cmaxt
               /\ qpc[p] \in {"registered", "opened", "head"} =>
                     /\ qstate[p] \in Int \X Int \X Int
                     /\ qstate[p][1] = qrange[p][1] /\ qstate[p][2] = qrange[p][2]
                     /\ qstate[p][3] <= Larger(qrange[p][1], minTime)
    BY DEF QueryInv, BeforeStore
  <2>. QED  BY <1>5, <1>6, <1>7, <2>1 DEF QueryInv, BeforeStore, Larger
<1>9. QueryComplete'
  <2>1. ~(hi >= minTime) => InRange(committed, lo, hi) \subseteq InRange(blocks, lo, hi)
    BY <1>2, <1>5 DEF InHead, StoreInv, HeadType
  <2>2. hi >= minTime => qpc'[q] = "blocks"
    BY DEF QueryType
  <2>. QED  BY <1>7, <2>1, <2>2 DEF QueryComplete
<1>. QED  BY <1>1, <1>4, <1>8, <1>9, Zenon

\* The read that is registered begins where the query or the head does.
LEMMA RegisterReadInv ==
    ASSUME HeadInv, NEW q \in Queries, RegisterRead(q)
    PROVE  HeadInv'
<1>. USE HeadAssumption DEF HeadInv, ReadInv, RegisterRead
<1>1. StoreInv'
  BY StoreFrame
<1>. DEFINE read == <<qrange[q][1], qrange[q][2], Larger(qrange[q][1], minTime)>>
<1>2. qrange[q][1] \in Int /\ qrange[q][2] \in Int /\ Larger(qrange[q][1], minTime) \in Int
  BY DEF QueryType, Larger, StoreInv, HeadType
<1>3. read \in Int \X Int \X Int
  BY <1>2
<1>4. qstate' = [qstate EXCEPT ![q] = read]
  BY DEF Register
<1>5. read[1] = qrange[q][1] /\ read[2] = qrange[q][2] /\ read[3] <= Larger(qrange[q][1], minTime)
  BY <1>2
<1>. HIDE DEF read
<1>6. QueryType'
  BY <1>3, <1>4, SMTT(15) DEF QueryType, ReadStates
<1>7. QueryInv'
  BY <1>3, <1>4, <1>5 DEF QueryInv, QueryType, InHead, Larger, headVars, dataVars, compVars
<1>8. QueryComplete'
  BY DEF QueryComplete, QueryType
<1>. QED  BY <1>1, <1>6, <1>7, <1>8, Zenon

\* What a closed querier would have read below the truncation time is in the
\* blocks the query has collected.
LEMMA ClosedReadIsCovered ==
    ASSUME HeadInv, NEW q \in Queries, qpc[q] = "registered", ShouldClose(q)
    PROVE  /\ lastMemoryTruncationTime \in Int
           /\ \A s \in qneed[q] : s \in qgot[q] \/ s[2] >= lastMemoryTruncationTime
<1>. USE DEF HeadInv, StoreInv, ReadInv
<1>1. /\ lastMemoryTruncationTime = cmaxt /\ lastMemoryTruncationTime \in Int
      /\ cpc \in {"waitReads", "storeMin", "storeValid", "gc", "raise", "finish"}
  BY DEF ShouldClose, RangeInv, HeadType
<1>2. CASE cpc \in {"waitReads", "storeMin"}
  BY <1>1, <1>2 DEF QueryInv
<1>3. CASE cpc \in {"storeValid", "gc", "raise", "finish"}
  <2>1. minTime >= cmaxt
    BY <1>3 DEF RangeInv, HeadType, CompType
  <2>2. \A s \in qneed[q] : s[2] \in Int /\ (s \in qgot[q] \/ s[2] >= minTime)
    BY DEF QueryInv, QueryType, InHead, Samples, Time
  <2>. QED  BY <1>1, <2>1, <2>2 DEF HeadType, CompType
<1>. QED  BY <1>1, <1>2, <1>3

\* Nothing is missed when the querier is closed, or opened again further on.
LEMMA CheckCollisionInv ==
    ASSUME HeadInv, NEW q \in Queries, CheckCollision(q)
    PROVE  HeadInv'
<1>. USE HeadAssumption DEF HeadInv, ReadInv, CheckCollision
<1>1. StoreInv'
  BY StoreFrame
<1>2. \A s : InHead(s)' <=> InHead(s)
  BY DEF InHead, headVars, dataVars
<1>3. CASE ~ShouldClose(q)
  <2>1. qstate' = qstate /\ qrange' = qrange /\ qpc' = [qpc EXCEPT ![q] = "opened"]
    BY <1>3 DEF QueryType, GetNew
  <2>2. QueryType'
    BY <2>1 DEF QueryType
  <2>3. QueryInv'
    BY <1>2, <2>1 DEF QueryInv, QueryType, Larger, headVars, compVars
  <2>4. QueryComplete'
    BY <2>1 DEF QueryComplete, QueryType
  <2>. QED  BY <1>1, <2>2, <2>3, <2>4, Zenon
<1>4. CASE GetNew(q)
  <2>1. ShouldClose(q) /\ qrange[q][2] >= lastMemoryTruncationTime
    BY <1>4 DEF GetNew
  <2>2. /\ lastMemoryTruncationTime \in Int
        /\ \A s \in qneed[q] : s \in qgot[q] \/ s[2] >= lastMemoryTruncationTime
    BY <2>1, ClosedReadIsCovered
  <2>. DEFINE r == [qrange[q] EXCEPT ![1] = lastMemoryTruncationTime]
  <2>3. qrange' = [qrange EXCEPT ![q] = r]
    BY <1>4
  <2>4. r \in Int \X Int /\ r[1] = lastMemoryTruncationTime /\ r[2] = qrange[q][2] /\ r[1] <= r[2]
    BY <2>1, <2>2 DEF QueryType
  <2>. HIDE DEF r
  <2>5. qstate' = [qstate EXCEPT ![q] = NoRead] /\ qpc' = [qpc EXCEPT ![q] = "again"]
    BY <1>4, <2>1
  <2>6. QueryType'
    BY <2>3, <2>4, <2>5 DEF QueryType, ReadStates
  <2>7. QueryInv'
    BY <1>2, <2>2, <2>3, <2>4, <2>5 DEF QueryInv, QueryType, Larger, headVars, compVars
  <2>8. QueryComplete'
    BY <2>5 DEF QueryComplete, QueryType
  <2>. QED  BY <1>1, <2>6, <2>7, <2>8, Zenon
<1>5. CASE ShouldClose(q) /\ ~GetNew(q)
  <2>1. /\ lastMemoryTruncationTime \in Int
        /\ \A s \in qneed[q] : s \in qgot[q] \/ s[2] >= lastMemoryTruncationTime
    BY <1>5, ClosedReadIsCovered
  <2>2. qrange[q][2] \in Int /\ ~(qrange[q][2] >= lastMemoryTruncationTime)
    BY <1>5 DEF GetNew, QueryType
  <2>3. \A s \in qneed[q] : s[2] \in Int /\ s[2] <= qrange[q][2]
    BY DEF QueryInv, QueryType, Samples, Time
  <2>4. qneed[q] \subseteq qgot[q]
    BY <2>1, <2>2, <2>3
  <2>5. qrange' = qrange /\ qstate' = [qstate EXCEPT ![q] = NoRead] /\ qpc' = [qpc EXCEPT ![q] = "done"]
    BY <1>5 DEF QueryType
  <2>6. QueryType'
    BY <2>5 DEF QueryType, ReadStates
  <2>7. QueryInv'
    BY <1>2, <2>5 DEF QueryInv, QueryType, Larger, headVars, compVars
  <2>8. QueryComplete'
    BY <2>4, <2>5 DEF QueryComplete, QueryType
  <2>. QED  BY <1>1, <2>6, <2>7, <2>8, Zenon
<1>. QED  BY <1>3, <1>4, <1>5, Zenon

\* A querier that lost its race with the truncation registers for a later start.
LEMMA RegisterAgainInv ==
    ASSUME HeadInv, NEW q \in Queries, RegisterAgain(q)
    PROVE  HeadInv'
<1>. USE HeadAssumption DEF HeadInv, ReadInv, RegisterAgain
<1>1. StoreInv'
  BY StoreFrame
<1>. DEFINE read == <<qrange[q][1], qrange[q][2], Larger(qrange[q][1], minTime)>>
<1>2. qrange[q][1] \in Int /\ qrange[q][2] \in Int /\ Larger(qrange[q][1], minTime) \in Int
  BY DEF QueryType, Larger, StoreInv, HeadType
<1>3. read \in Int \X Int \X Int
  BY <1>2
<1>4. qstate' = [qstate EXCEPT ![q] = read]
  BY DEF Register
<1>5. read[1] = qrange[q][1] /\ read[2] = qrange[q][2] /\ read[3] <= Larger(qrange[q][1], minTime)
  BY <1>2
<1>. HIDE DEF read
<1>6. QueryType'
  BY <1>3, <1>4, SMTT(15) DEF QueryType, ReadStates
<1>7. QueryInv'
  BY <1>3, <1>4, <1>5 DEF QueryInv, QueryType, InHead, Larger, headVars, dataVars, compVars
<1>8. QueryComplete'
  BY DEF QueryComplete, QueryType
<1>. QED  BY <1>1, <1>6, <1>7, <1>8, Zenon

\* db.Querier opens the blocks of its time range before anything is read.
LEMMA OpenBlocksInv ==
    ASSUME HeadInv, NEW q \in Queries, OpenBlocks(q)
    PROVE  HeadInv'
<1>. USE HeadAssumption DEF HeadInv, ReadInv, OpenBlocks
<1>1. StoreInv'
  BY StoreFrame
<1>2. QueryType'
  BY DEF QueryType
<1>3. QueryInv'
  BY DEF QueryInv, QueryType, InHead, Larger, headVars, dataVars, compVars
<1>4. QueryComplete'
  BY DEF QueryComplete, QueryType
<1>. QED  BY <1>1, <1>2, <1>3, <1>4, Zenon

\* A block that cannot be opened ends the query; its registration stays.
LEMMA OpenBlockFailsInv ==
    ASSUME HeadInv, NEW q \in Queries, OpenBlockFails(q)
    PROVE  HeadInv'
<1>. USE HeadAssumption DEF HeadInv, ReadInv, OpenBlockFails
<1>1. StoreInv'
  BY StoreFrame
<1>2. QueryType'
  BY DEF QueryType
<1>3. QueryInv'
  BY DEF QueryInv, QueryType, InHead, Larger, headVars, dataVars, compVars
<1>4. QueryComplete'
  BY DEF QueryComplete, QueryType
<1>. QED  BY <1>1, <1>2, <1>3, <1>4, Zenon

\* What the query needs and has not got lies in the part of the head it reads.
LEMMA ReadHeadInv ==
    ASSUME HeadInv, NEW q \in Queries, ReadHead(q)
    PROVE  HeadInv'
<1>. USE HeadAssumption DEF HeadInv, ReadInv, ReadHead
<1>1. StoreInv'
  BY StoreFrame
<1>. DEFINE got == InMemory(qstate[q][3], qstate[q][2])
<1>2. got \in SUBSET Samples
  BY DEF InMemory
<1>3. qneed[q] \subseteq qgot[q] \cup got
  <2>1. SUFFICES ASSUME NEW s \in qneed[q], s \notin qgot[q] PROVE s \in got
    OBVIOUS
  <2>2. /\ s[2] <= qrange[q][2] /\ InHead(s) /\ s[2] >= qrange[q][1]
        /\ qstate[q] \in Int \X Int \X Int /\ qstate[q][2] = qrange[q][2]
        /\ qstate[q][3] <= Larger(qrange[q][1], minTime)
    BY <2>1 DEF QueryInv
  <2>3. s \in Samples /\ s[2] \in Int /\ qrange[q][1] \in Int /\ qrange[q][2] \in Int /\ qstate[q][3] \in Int
    BY <2>2 DEF QueryType, Samples, Time
  <2>4. qstate[q][3] <= s[2]
    BY <2>2, <2>3 DEF Larger, InHead, StoreInv, HeadType
  <2>. QED  BY <2>2, <2>3, <2>4 DEF InMemory, InHead
<1>. HIDE DEF got
<1>4. qgot' = [qgot EXCEPT ![q] = @ \cup got]
  BY DEF got
<1>5. QueryType'
  BY <1>2, <1>4, SMTT(15) DEF QueryType
<1>6. QueryInv'
  BY <1>4 DEF QueryInv, QueryType, InHead, Larger, headVars, dataVars, compVars
<1>7. QueryComplete'
  BY <1>3, <1>4 DEF QueryComplete, QueryType
<1>. QED  BY <1>1, <1>5, <1>6, <1>7, Zenon

\* Close drops the registration of the read.
LEMMA CloseQueryInv ==
    ASSUME HeadInv, NEW q \in Queries, CloseQuery(q)
    PROVE  HeadInv'
<1>. USE HeadAssumption DEF HeadInv, ReadInv, CloseQuery
<1>1. StoreInv'
  BY StoreFrame
<1>2. QueryType'
  BY DEF QueryType, ReadStates
<1>3. QueryInv'
  BY DEF QueryInv, QueryType, InHead, Larger, headVars, dataVars, compVars
<1>4. QueryComplete'
  BY DEF QueryComplete, QueryType
<1>. QED  BY <1>1, <1>2, <1>3, <1>4, Zenon

-----------------------------------------------------------------------------
\* The head as Init leaves it.
LEMMA InitHeadInv == Init => HeadInv
<1>. SUFFICES ASSUME Init PROVE HeadInv
  OBVIOUS
<1>. USE HeadAssumption DEF Init
<1>1. HeadType /\ DataType /\ CompType
  BY Zenon DEF HeadType, DataType, CompType
<1>2. AppType
  <2>1. <<>> \in Seq(Time)
    OBVIOUS
  <2>. QED  BY <2>1 DEF AppType
<1>3. RangeInv /\ WindowSealed /\ BlockInv /\ NothingLost /\ RaiseInv
  BY DEF RangeInv, WindowSealed, BlockInv, NothingLost, RaiseInv
<1>4. AppenderInv
  BY DEF AppenderInv
<1>5. QueryType
  BY DEF QueryType, ReadStates
<1>6. QueryInv /\ QueryComplete
  BY DEF QueryInv, QueryComplete
<1>. QED  BY <1>1, <1>2, <1>3, <1>4, <1>5, <1>6, Zenon DEF HeadInv, StoreInv, ReadInv

\* Every step keeps the invariant, and stuttering does.
LEMMA StepKeepsHeadInv ==
    ASSUME 0 <= MinT, HeadInv, [Next /\ OpensAtOnce /\ RaisesAlone]_vars
    PROVE  HeadInv'
<1>1. CASE UNCHANGED vars
  <2>1. StoreInv'
    BY <1>1, StoreFrame DEF HeadInv, vars
  <2>2. ReadInv'
    BY <1>1, ReadFrame DEF HeadInv, StoreInv, DataType, vars, headVars, dataVars, compVars
  <2>. QED  BY <2>1, <2>2 DEF HeadInv
<1>2. ASSUME NEW a \in Appenders, ReadWindow(a) \/ FinishAppend(a), OpensAtOnce, RaisesAlone
      PROVE  HeadInv'
  BY <1>2, ReadWindowInv, RegisterAppendInv, WriteSamplesInv, LowerMinTimeInv, RaiseMaxTimeInv,
     CloseCommittedInv, RollbackInv, Zenon DEF FinishAppend
<1>3. ASSUME NEW a \in Appenders, NEW t \in Time, AppendSample(a, t), OpensAtOnce, RaisesAlone
      PROVE  HeadInv'
  BY <1>3, AppendSampleInv, Zenon
<1>4. ASSUME Compact, OpensAtOnce, RaisesAlone
      PROVE  HeadInv'
  BY <1>4, StartCompactionInv, WaitForAppendersInv, WriteBlockInv, WriteBlockFailsInv, ReloadBlocksInv,
     ReloadBlocksFailsInv, StoreTruncationTimeInv, SetTruncationInProcessInv, WaitForReadersInv,
     StoreMinTimeInv, StoreMinValidTimeInv, GCInv, RaiseMinTimeInv, FinishTruncationInv, Zenon DEF Compact
<1>5. ASSUME NEW q \in Queries, FinishQuery(q) \/ OpenBlockFails(q)
      PROVE  HeadInv'
  BY <1>5, RegisterReadInv, CheckCollisionInv, RegisterAgainInv, OpenBlocksInv, ReadHeadInv, CloseQueryInv,
     OpenBlockFailsInv, Zenon DEF FinishQuery
<1>6. ASSUME NEW q \in Queries, NEW lo \in QueryTimes, NEW hi \in QueryTimes, lo <= hi, OpenQuery(q, lo, hi)
      PROVE  HeadInv'
  BY <1>6, OpenQueryInv, Zenon
<1>. QED  BY <1>1, <1>2, <1>3, <1>4, <1>5, <1>6, Zenon DEF Next

\* The invariant holds throughout, for samples from 1970 on: rangeForTimestamp
\* rounds toward zero, so before that a range may end where it begins.
LEMMA HeadInvariant ==
    ASSUME 0 <= MinT
    PROVE  QuietSpec => []HeadInv
<1>1. HeadInv /\ [Next /\ OpensAtOnce /\ RaisesAlone]_vars => HeadInv'
  BY StepKeepsHeadInv
<1>. QED  BY <1>1, InitHeadInv, PTL DEF QuietSpec

\* No committed sample is lost: while appenders commit, the compactor writes
\* blocks, fails to, reloads and truncates, and queries come and go, a sample
\* whose Commit has returned is on disk or in the part of the head that is read.
THEOREM CommittedSamplesAreKept ==
    ASSUME 0 <= MinT
    PROVE  QuietSpec => []NothingLost
<1>1. HeadInv => NothingLost
  BY Zenon DEF HeadInv, StoreInv
<1>. QED  BY <1>1, HeadInvariant, PTL

\* The range of a block is closed to appenders once DB.Compact has waited for
\* those that overlap it.
THEOREM RangeIsSealed ==
    ASSUME 0 <= MinT
    PROVE  QuietSpec => []WindowSealed
<1>1. HeadInv => WindowSealed
  BY Zenon DEF HeadInv, StoreInv
<1>. QED  BY <1>1, HeadInvariant, PTL

\* A query misses nothing that was committed before DB.Querier was called, though
\* the head is truncated while the query opens or reads.
THEOREM QueriesAreComplete ==
    ASSUME 0 <= MinT
    PROVE  QuietSpec => []QueryComplete
<1>1. HeadInv => QueryComplete
  BY Zenon DEF HeadInv, ReadInv
<1>. QED  BY <1>1, HeadInvariant, PTL
=============================================================================
