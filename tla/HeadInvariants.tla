----------------------------- MODULE HeadInvariants -------------------------
(***************************************************************************)
(* The inductive invariant of module HeadCompaction under QuietSpec, and   *)
(* that every step of the appenders and of the compactor preserves it, for *)
(* any number of appenders and queries, any times from 1970 on, batches    *)
(* and chunk ranges.  Module HeadProofs has the queries and the theorems.  *)
(***************************************************************************)
EXTENDS HeadCompaction, TLAPS, WellFoundedInduction

InHead(s) == s[2] \in memory[s[1]] /\ s[2] >= minTime

\* The compactor's range and flags, as far as truncateMemory has come.
RangeInv ==
    /\ minTime >= MinT
    /\ cpc # "storeValid" => minTime <= minValidTime
    /\ cpc # "idle" => maxTime - ChunkRange \div 2 >= cmaxt
    /\ cpc \in {"waitAppends", "write", "waitReads"} => cmint = minTime
    /\ cpc \in {"waitAppends", "write", "reload", "truncTime", "truncFlag", "waitReads", "storeMin"} => minTime < cmaxt
    /\ cpc \in {"storeValid", "gc", "raise"} => minTime = cmaxt
    /\ cpc = "finish" => minTime >= cmaxt
    /\ cpc = "truncFlag" => lastMemoryTruncationTime = cmaxt
    /\ memTruncationInProcess =>
          /\ cpc \in {"waitReads", "storeMin", "storeValid", "gc", "raise", "finish"}
          /\ lastMemoryTruncationTime = cmaxt

\* An appender's window lies above the head's minimum and its samples in the
\* window; what it has written stays in memory until it is committed.
AppenderInv ==
    \A a \in Appenders :
        /\ apc[a] # "idle" => amint[a] >= minTime
        /\ apc[a] = "opening" => (cpc # "idle" => amint[a] >= cmaxt) /\ cpc # "raise"
        /\ apc[a] \in {"idle", "opening"} => abatch[a] = <<>>
        /\ \A i \in DOMAIN abatch[a] : abatch[a][i] >= amint[a]
        /\ apc[a] \in {"written", "minUpdated", "maxUpdated"} => InOrder(abatch[a]) \subseteq memory[a]

\* What the new block holds, and that the block list has it before the head
\* lets go of it.
BlockInv ==
    /\ cpc = "reload" => (\A s \in cblock : InHead(s)) /\ (\A s \in committed : s[2] < cmaxt => s \in disk)
    /\ cpc \in {"truncTime", "truncFlag", "waitReads", "storeMin"} =>
          \A s \in committed : s[2] < cmaxt => s \in disk /\ s \in blocks
    /\ \A s \in committed : s \in blocks \/ InHead(s)

\* When gc has found the head to begin later than minTime, nothing is below.
RaiseInv ==
    cpc = "raise" /\ cactual > minTime =>
        /\ \A a \in Appenders : \A t \in memory[a] : t >= cactual
        /\ \A a \in OpenAppends : Least({cactual, appendableMinValidTime}) <= amint[a]

\* What a query needs and has not got yet is in the head, within its range.
QueryInv ==
    \A q \in Queries :
        /\ qpc[q] \in {"blocks", "registered", "again", "opened", "head"} =>
              \A s \in qneed[q] :
                  /\ s[2] <= qrange[q][2]
                  /\ s \in qgot[q] \/ (InHead(s) /\ s[2] >= qrange[q][1])
        /\ qpc[q] \in {"blocks", "registered", "again", "opened"}
              /\ cpc \in {"truncTime", "truncFlag", "waitReads", "storeMin"} =>
              \A s \in qneed[q] : s \in qgot[q] \/ s[2] >= cmaxt
        /\ qpc[q] = "head" /\ cpc = "storeMin" => \A s \in qneed[q] : s \in qgot[q] \/ s[2] >= cmaxt
        /\ qpc[q] \in {"registered", "opened", "head"} =>
              /\ qstate[q] \in Int \X Int \X Int
              /\ qstate[q][1] = qrange[q][1] /\ qstate[q][2] = qrange[q][2]
              /\ qstate[q][3] <= Larger(qrange[q][1], minTime)

\* The variables have their types, one group of them at a time.
HeadType == minTime \in Int /\ maxTime \in Int /\ minValidTime \in Int /\ lastMemoryTruncationTime \in Int /\ memTruncationInProcess \in BOOLEAN
DataType == memory \in [Appenders -> SUBSET Time] /\ disk \subseteq Samples /\ blocks \subseteq Samples /\ committed \subseteq Samples
AppType ==
    /\ apc \in [Appenders -> {"idle", "opening", "open", "written", "minUpdated", "maxUpdated"}]
    /\ amint \in [Appenders -> Int] /\ abatch \in [Appenders -> Seq(Time)]
CompType ==
    /\ cpc \in {"idle", "waitAppends", "write", "reload", "truncTime", "truncFlag",
                "waitReads", "storeMin", "storeValid", "gc", "raise", "finish"}
    /\ cmint \in Int /\ cmaxt \in Int /\ cblock \subseteq Samples /\ cactual \in Int
QueryType ==
    /\ qpc \in [Queries -> {"idle", "blocks", "registered", "again", "opened", "head", "failed", "done"}]
    /\ qrange \in [Queries -> {r \in Int \X Int : r[1] <= r[2]}] /\ qstate \in [Queries -> ReadStates]
    /\ qgot \in [Queries -> SUBSET Samples] /\ qneed \in [Queries -> SUBSET Samples]

\* The inductive invariant: what holds of the store, and of the queries.
StoreInv ==
    /\ HeadType /\ DataType /\ AppType /\ CompType
    /\ RangeInv /\ AppenderInv /\ WindowSealed /\ BlockInv /\ NothingLost /\ RaiseInv
ReadInv == QueryType /\ QueryInv /\ QueryComplete
HeadInv == StoreInv /\ ReadInv


-----------------------------------------------------------------------------
\* Two integers each at most the other are one.
LEMMA LessOrEqualBothWays ==
    ASSUME NEW x \in Int, NEW y \in Int, x <= y, y <= x
    PROVE  x = y
OBVIOUS

\* A set of integers with a lower bound has a least element.
LEMMA LeastOfBounded ==
    ASSUME NEW S \in SUBSET Int, S # {}, NEW m \in Int, \A x \in S : m <= x
    PROVE  Least(S) \in S /\ \A y \in S : Least(S) <= y
<1>. DEFINE N == {n \in Nat : n + m \in S}
<1>1. N \in SUBSET Nat /\ N # {}
  <2>1. PICK x \in S : TRUE
    BY Zenon
  <2>2. x - m \in Nat /\ (x - m) + m \in S
    OBVIOUS
  <2>. QED  BY <2>2, Zenon
<1>2. PICK n \in N : \A y \in N : ~(<<y, n>> \in OpToRel(<, Nat))
  BY <1>1, NatLessThanWellFounded, WFMin, Zenon
<1>3. \A y \in N : ~(y < n)
  BY <1>1, <1>2, Zenon DEF OpToRel
<1>4. n + m \in S /\ \A y \in S : n + m <= y
  <2>1. SUFFICES ASSUME NEW y \in S PROVE n + m <= y
    BY <1>1, <1>2, Zenon
  <2>2. y - m \in Nat /\ (y - m) + m \in S
    OBVIOUS
  <2>3. y - m \in N
    BY <2>2
  <2>. QED  BY <1>3, <2>2, <2>3
<1>. QED  BY <1>4, Zenon DEF Least

\* One with an upper bound has a greatest.
LEMMA GreatestOfBounded ==
    ASSUME NEW S \in SUBSET Int, S # {}, NEW m \in Int, \A x \in S : x <= m
    PROVE  Greatest(S) \in S /\ \A y \in S : Greatest(S) >= y
<1>. DEFINE N == {n \in Nat : m - n \in S}
<1>1. N \in SUBSET Nat /\ N # {}
  <2>1. PICK x \in S : TRUE
    BY Zenon
  <2>2. m - x \in Nat /\ m - (m - x) \in S
    OBVIOUS
  <2>. QED  BY <2>2, Zenon
<1>2. PICK n \in N : \A y \in N : ~(<<y, n>> \in OpToRel(<, Nat))
  BY <1>1, NatLessThanWellFounded, WFMin, Zenon
<1>3. \A y \in N : ~(y < n)
  BY <1>1, <1>2, Zenon DEF OpToRel
<1>4. m - n \in S /\ \A y \in S : m - n >= y
  <2>1. SUFFICES ASSUME NEW y \in S PROVE m - n >= y
    BY <1>1, <1>2, Zenon
  <2>2. m - y \in Nat /\ m - (m - y) \in S
    OBVIOUS
  <2>3. m - y \in N
    BY <2>2
  <2>. QED  BY <1>3, <2>2, <2>3
<1>. QED  BY <1>4, Zenon DEF Greatest

\* From 1970 on, the range of a timestamp ends after it and not more than a
\* width later.
LEMMA RangeEnd ==
    ASSUME NEW t \in Nat, NEW w \in Nat \ {0}
    PROVE  /\ rangeForTimestamp(t, w) \in Int
           /\ t < rangeForTimestamp(t, w) /\ rangeForTimestamp(t, w) <= t + w
BY DEF rangeForTimestamp, Quotient

\* Commit lets samples of the batch through.
LEMMA InOrderOfBatch ==
    ASSUME NEW b \in Seq(Time)
    PROVE  /\ InOrder(b) \subseteq Time
           /\ \A t \in InOrder(b) : \E i \in DOMAIN b : b[i] = t
BY DEF InOrder

-----------------------------------------------------------------------------

\* A query's steps leave the store alone.
LEMMA StoreFrame ==
    ASSUME StoreInv, UNCHANGED <<headVars, truncVars, dataVars, committed, appVars, compVars>>
    PROVE  StoreInv'
<1>. USE DEF StoreInv, headVars, truncVars, dataVars, appVars, compVars
<1>1. HeadType' /\ DataType' /\ AppType' /\ CompType'
  BY DEF HeadType, DataType, AppType, CompType
<1>2. RangeInv' /\ WindowSealed'
  BY DEF RangeInv, WindowSealed, OpenAppends
<1>3. AppenderInv'
  BY DEF AppenderInv
<1>4. BlockInv' /\ NothingLost'
  BY DEF BlockInv, NothingLost, InHead
<1>5. RaiseInv'
  BY Zenon DEF RaiseInv, OpenAppends, appendableMinValidTime
<1>. QED  BY <1>1, <1>2, <1>3, <1>4, <1>5, Zenon

\* A step of the store that takes nothing out of memory, leaves minTime alone
\* and does not bring the compactor past a reload or a wait leaves the queries
\* as they are.
BeforeStore == {"truncTime", "truncFlag", "waitReads", "storeMin"}
LEMMA ReadFrame ==
    ASSUME ReadInv, UNCHANGED queryVars, minTime' = minTime, HeadType,
           \A a \in Appenders : memory[a] \subseteq memory'[a],
           DOMAIN memory = Appenders,
           cpc' \in BeforeStore => cpc \in BeforeStore /\ cmaxt' = cmaxt,
           cpc' = "storeMin" => cpc = "storeMin"
    PROVE  ReadInv'
<1>. USE DEF ReadInv, queryVars
<1>1. QueryType' /\ QueryComplete'
  BY DEF QueryType, QueryComplete
<1>2. \A q \in Queries : \A s \in qneed[q] : s[1] \in Appenders /\ (InHead(s) => InHead(s)')
  BY DEF QueryType, Samples, InHead
<1>3. QueryInv'
  BY <1>2 DEF QueryInv, BeforeStore, Larger
<1>. QED  BY <1>1, <1>3, Zenon

\* An appender's step that leaves the head, the data and the compactor alone
\* leaves what holds of them.
LEMMA AppenderFrame ==
    ASSUME StoreInv, UNCHANGED <<headVars, truncVars, dataVars, committed, compVars>>
    PROVE  /\ HeadType' /\ DataType' /\ CompType' /\ RangeInv' /\ BlockInv' /\ NothingLost'
           /\ cpc # "raise" => RaiseInv'
<1>. USE DEF StoreInv, headVars, truncVars, dataVars, compVars
<1>1. HeadType' /\ DataType' /\ CompType' /\ RangeInv'
  BY DEF HeadType, DataType, CompType, RangeInv
<1>2. BlockInv' /\ NothingLost'
  BY DEF BlockInv, NothingLost, InHead
<1>3. cpc # "raise" => RaiseInv'
  BY DEF RaiseInv
<1>. QED  BY <1>1, <1>2, <1>3, Zenon

\* A step of the compactor to a wait, a flag or the end leaves what holds of the
\* appenders and of the data.
LEMMA CompactorFrame ==
    ASSUME StoreInv, UNCHANGED <<headVars, dataVars, committed, appVars, cmaxt>>, cpc # "idle",
           cpc' \notin {"raise", "reload"},
           cpc' \in {"idle", "waitAppends"} \/ cpc \notin {"idle", "waitAppends"},
           cpc' \in BeforeStore => cpc \in BeforeStore
    PROVE  DataType' /\ AppType' /\ AppenderInv' /\ WindowSealed' /\ BlockInv' /\ NothingLost' /\ RaiseInv'
<1>. USE DEF StoreInv, headVars, dataVars, appVars
<1>1. DataType' /\ AppType'
  BY DEF DataType, AppType
<1>2. AppenderInv' /\ WindowSealed'
  BY DEF AppenderInv, WindowSealed, OpenAppends
<1>3. BlockInv' /\ NothingLost'
  BY DEF BlockInv, NothingLost, InHead, BeforeStore
<1>4. RaiseInv'
  BY DEF RaiseInv
<1>. QED  BY <1>1, <1>2, <1>3, <1>4, Zenon

-----------------------------------------------------------------------------
(* Appenders. *)

\* Head.appender reads a window above the head's minimum and above the range of
\* a compaction, which ends half a chunk range below the head's maximum.
LEMMA ReadWindowInv ==
    ASSUME HeadInv, NEW a \in Appenders, ReadWindow(a), OpensAtOnce, RaisesAlone
    PROVE  HeadInv'
<1>. USE HeadAssumption DEF HeadInv, StoreInv, ReadWindow, headVars, truncVars, dataVars, compVars
<1>1. /\ appendableMinValidTime \in Int
      /\ appendableMinValidTime >= maxTime - ChunkRange \div 2
      /\ appendableMinValidTime >= minValidTime
  BY DEF appendableMinValidTime, Larger, HeadType
<1>2. cpc # "raise"
  BY DEF RaisesAlone
<1>3. AppType'
  BY <1>1 DEF AppType
<1>4. AppenderInv'
  <2>1. appendableMinValidTime >= minTime /\ (cpc # "idle" => appendableMinValidTime >= cmaxt)
    <3>1. cpc # "idle" => appendableMinValidTime >= cmaxt
      BY <1>1 DEF HeadType, CompType, RangeInv
    <3>2. appendableMinValidTime >= minTime
      BY <1>1, <3>1 DEF HeadType, CompType, RangeInv
    <3>. QED  BY <3>1, <3>2
  <2>. QED  BY <1>1, <1>2, <2>1 DEF AppenderInv, AppType
<1>5. WindowSealed'
  BY DEF WindowSealed, OpenAppends, AppType
<1>6. HeadType' /\ DataType' /\ CompType' /\ RangeInv' /\ BlockInv' /\ NothingLost' /\ RaiseInv'
  BY <1>2, AppenderFrame, Zenon
<1>7. ReadInv'
  BY ReadFrame DEF DataType
<1>. QED  BY <1>3, <1>4, <1>5, <1>6, <1>7, Zenon

\* It registers the append before the compactor has moved on.
LEMMA RegisterAppendInv ==
    ASSUME HeadInv, NEW a \in Appenders, RegisterAppend(a), OpensAtOnce, RaisesAlone
    PROVE  HeadInv'
<1>. USE HeadAssumption DEF HeadInv, StoreInv, RegisterAppend, headVars, truncVars, dataVars, compVars
<1>1. AppType'
  BY DEF AppType
<1>2. AppenderInv'
  BY DEF AppenderInv, AppType
<1>3. cpc # "raise" /\ (cpc # "idle" => amint[a] >= cmaxt)
  BY DEF AppenderInv
<1>4. WindowSealed'
  BY <1>3 DEF WindowSealed, OpenAppends, AppType
<1>5. HeadType' /\ DataType' /\ CompType' /\ RangeInv' /\ BlockInv' /\ NothingLost' /\ RaiseInv'
  BY <1>3, AppenderFrame, Zenon
<1>6. ReadInv'
  BY ReadFrame DEF DataType
<1>. QED  BY <1>1, <1>2, <1>4, <1>5, <1>6, Zenon

\* Append takes samples of the window only.
LEMMA AppendSampleInv ==
    ASSUME HeadInv, NEW a \in Appenders, NEW t \in Time, AppendSample(a, t), OpensAtOnce, RaisesAlone
    PROVE  HeadInv'
<1>. USE HeadAssumption DEF HeadInv, StoreInv, AppendSample, headVars, truncVars, dataVars, compVars
<1>1. cpc # "raise"
  BY DEF RaisesAlone
<1>2. AppType'
  <2>1. Append(abatch[a], t) \in Seq(Time)
    BY DEF AppType
  <2>. QED  BY <2>1 DEF AppType
<1>3. AppenderInv'
  <2>1. \A i \in DOMAIN Append(abatch[a], t) : Append(abatch[a], t)[i] >= amint[a]
    <3>1. abatch[a] \in Seq(Time) /\ amint[a] \in Int /\ t >= amint[a]
      BY DEF AppType
    <3>2. \A i \in DOMAIN abatch[a] : abatch[a][i] >= amint[a]
      BY DEF AppenderInv
    <3>. QED  BY <3>1, <3>2
  <2>. QED  BY <2>1 DEF AppenderInv, AppType
<1>4. WindowSealed'
  BY DEF WindowSealed, OpenAppends
<1>5. HeadType' /\ DataType' /\ CompType' /\ RangeInv' /\ BlockInv' /\ NothingLost' /\ RaiseInv'
  BY <1>1, AppenderFrame, Zenon
<1>6. ReadInv'
  BY ReadFrame DEF DataType
<1>. QED  BY <1>2, <1>3, <1>4, <1>5, <1>6, Zenon

\* Commit only adds to memory.
LEMMA WriteSamplesInv ==
    ASSUME HeadInv, NEW a \in Appenders, WriteSamples(a), OpensAtOnce, RaisesAlone
    PROVE  HeadInv'
<1>. USE HeadAssumption DEF HeadInv, StoreInv, WriteSamples, headVars, truncVars, compVars
<1>1. HeadType' /\ CompType' /\ RangeInv'
  BY DEF HeadType, CompType, RangeInv
<1>2. cpc # "raise"
  BY DEF RaisesAlone
<1>3. AppType'
  BY DEF AppType
<1>4. InOrder(abatch[a]) \subseteq Time
  BY InOrderOfBatch DEF AppType
<1>5. DataType'
  BY <1>4 DEF DataType
<1>6. /\ \A b \in Appenders : memory[b] \subseteq memory'[b]
      /\ InOrder(abatch[a]) \subseteq memory'[a]
      /\ DOMAIN memory = Appenders
  BY DEF DataType
<1>7. AppenderInv'
  BY <1>6 DEF AppenderInv, AppType
<1>8. WindowSealed'
  BY DEF WindowSealed, OpenAppends, AppType
<1>9. \A s \in Samples : InHead(s) => InHead(s)'
  BY <1>6 DEF InHead, Samples
<1>10. BlockInv' /\ NothingLost'
  <2>1. committed \subseteq Samples /\ cblock \subseteq Samples
    BY DEF DataType, CompType
  <2>2. \A s \in committed : s \in disk \/ InHead(s)
    BY DEF NothingLost, InHead
  <2>3. \A s \in committed : s \in disk \/ InHead(s)'
    BY <1>9, <2>1, <2>2
  <2>4. BlockInv'
    BY <1>9, <2>1 DEF BlockInv
  <2>. QED  BY <2>3, <2>4 DEF NothingLost, InHead
<1>11. RaiseInv'
  BY <1>2 DEF RaiseInv
<1>12. ReadInv'
  BY <1>6, ReadFrame
<1>. QED  BY <1>1, <1>3, <1>5, <1>7, <1>8, <1>10, <1>11, <1>12, Zenon

\* updateMinMaxTime finds no sample below the head's minimum.
LEMMA LowerMinTimeInv ==
    ASSUME HeadInv, NEW a \in Appenders, LowerMinTime(a), OpensAtOnce, RaisesAlone
    PROVE  HeadInv'
<1>. USE HeadAssumption DEF HeadInv, StoreInv, LowerMinTime, truncVars, dataVars, compVars
<1>1. minTime' = minTime
  <2>. DEFINE S == {minTime} \cup InOrder(abatch[a])
  <2>1. /\ InOrder(abatch[a]) \subseteq Time
        /\ \A t \in InOrder(abatch[a]) : \E i \in DOMAIN abatch[a] : abatch[a][i] = t
    BY InOrderOfBatch DEF AppType
  <2>2. amint[a] \in Int /\ amint[a] >= minTime /\ \A i \in DOMAIN abatch[a] : abatch[a][i] >= amint[a]
    BY DEF AppenderInv, AppType
  <2>3. S \in SUBSET Int /\ minTime \in S /\ minTime \in Int /\ \A x \in S : minTime <= x
    BY <2>1, <2>2 DEF HeadType, Time
  <2>4. minTime' = Least(S)
    OBVIOUS
  <2>. HIDE DEF S
  <2>5. Least(S) \in S /\ \A y \in S : Least(S) <= y
    BY <2>3, LeastOfBounded, Zenon
  <2>6. Least(S) \in Int /\ Least(S) <= minTime /\ minTime <= Least(S)
    BY <2>3, <2>5, Zenon
  <2>7. Least(S) = minTime
    BY <2>3, <2>6, LessOrEqualBothWays, Zenon
  <2>. QED  BY <2>4, <2>7, Zenon
<1>2. cpc # "raise"
  BY DEF RaisesAlone
<1>3. HeadType' /\ DataType' /\ CompType' /\ RangeInv'
  BY <1>1 DEF HeadType, DataType, CompType, RangeInv
<1>4. AppType'
  BY DEF AppType
<1>5. AppenderInv'
  BY <1>1 DEF AppenderInv, AppType
<1>6. WindowSealed'
  BY DEF WindowSealed, OpenAppends, AppType
<1>7. BlockInv' /\ NothingLost'
  BY <1>1, Zenon DEF BlockInv, NothingLost, InHead
<1>8. RaiseInv'
  BY <1>2 DEF RaiseInv
<1>9. ReadInv'
  BY <1>1, ReadFrame DEF DataType
<1>. QED  BY <1>3, <1>4, <1>5, <1>6, <1>7, <1>8, <1>9, Zenon

\* The head's maximum only grows.
LEMMA RaiseMaxTimeInv ==
    ASSUME HeadInv, NEW a \in Appenders, RaiseMaxTime(a), OpensAtOnce, RaisesAlone
    PROVE  HeadInv'
<1>. USE HeadAssumption DEF HeadInv, StoreInv, RaiseMaxTime, truncVars, dataVars, compVars
<1>1. maxTime' \in Int /\ maxTime' >= maxTime
  <2>. DEFINE S == {maxTime} \cup InOrder(abatch[a])
             m == IF maxTime >= MaxT THEN maxTime ELSE MaxT
  <2>1. InOrder(abatch[a]) \subseteq Time
    BY InOrderOfBatch DEF AppType
  <2>2. S \in SUBSET Int /\ maxTime \in S /\ m \in Int /\ \A x \in S : x <= m
    BY <2>1 DEF HeadType, Time
  <2>3. maxTime' = Greatest(S)
    OBVIOUS
  <2>. HIDE DEF S, m
  <2>4. Greatest(S) \in S /\ \A y \in S : Greatest(S) >= y
    BY <2>2, GreatestOfBounded, Zenon
  <2>. QED  BY <2>2, <2>3, <2>4, Zenon
<1>2. cpc # "raise"
  BY DEF RaisesAlone
<1>3. HeadType' /\ DataType' /\ CompType'
  BY <1>1 DEF HeadType, DataType, CompType
<1>4. RangeInv'
  BY <1>1 DEF RangeInv, HeadType, CompType
<1>5. AppType'
  BY DEF AppType
<1>6. AppenderInv'
  BY DEF AppenderInv, AppType
<1>7. WindowSealed'
  BY DEF WindowSealed, OpenAppends, AppType
<1>8. BlockInv' /\ NothingLost'
  BY DEF BlockInv, NothingLost, InHead
<1>9. RaiseInv'
  BY <1>2 DEF RaiseInv
<1>10. ReadInv'
  BY ReadFrame DEF DataType
<1>. QED  BY <1>3, <1>4, <1>5, <1>6, <1>7, <1>8, <1>9, <1>10, Zenon

\* What is committed is in memory, above the head's minimum and above the range
\* of a compaction that has waited for the appender.
LEMMA CloseCommittedInv ==
    ASSUME HeadInv, NEW a \in Appenders, CloseCommitted(a), OpensAtOnce, RaisesAlone
    PROVE  HeadInv'
<1>. USE HeadAssumption DEF HeadInv, StoreInv, CloseCommitted, headVars, truncVars, dataVars, compVars
<1>. DEFINE new == {a} \X InOrder(abatch[a])
<1>1. cpc # "raise"
  BY DEF RaisesAlone
<1>2. HeadType' /\ CompType' /\ RangeInv'
  BY DEF HeadType, CompType, RangeInv
<1>3. AppType'
  BY DEF AppType
<1>4. AppenderInv'
  BY DEF AppenderInv, AppType
<1>5. WindowSealed'
  BY DEF WindowSealed, OpenAppends, AppType
<1>6. \A s \in new : s \in Samples /\ InHead(s) /\ s[2] >= amint[a]
  <2>1. /\ InOrder(abatch[a]) \subseteq Time
        /\ \A t \in InOrder(abatch[a]) : \E i \in DOMAIN abatch[a] : abatch[a][i] = t
    BY InOrderOfBatch DEF AppType
  <2>2. /\ amint[a] \in Int /\ amint[a] >= minTime
        /\ \A i \in DOMAIN abatch[a] : abatch[a][i] >= amint[a]
        /\ InOrder(abatch[a]) \subseteq memory[a]
    BY DEF AppenderInv, AppType
  <2>3. \A t \in InOrder(abatch[a]) : t \in Int /\ t >= amint[a] /\ t >= minTime
    BY <2>1, <2>2 DEF HeadType, Time
  <2>. QED  BY <2>1, <2>2, <2>3 DEF InHead, Samples
<1>7. cpc \notin {"idle", "waitAppends"} => \A s \in new : s[2] >= cmaxt
  <2>1. cpc \notin {"idle", "waitAppends"} => amint[a] \in Int /\ amint[a] >= cmaxt
    BY DEF WindowSealed, OpenAppends, AppType
  <2>. QED  BY <1>6, <2>1 DEF CompType, Samples, Time
<1>8. committed' = committed \cup new
  OBVIOUS
<1>. HIDE DEF new
<1>9. DataType'
  BY <1>6, <1>8 DEF DataType
<1>10. \A s : InHead(s)' <=> InHead(s)
  BY DEF InHead
<1>11. BlockInv'
  <2>1. cpc = "reload" \/ cpc \in {"truncTime", "truncFlag", "waitReads", "storeMin"}
          => \A s \in new : ~(s[2] < cmaxt)
    BY <1>6, <1>7 DEF CompType, Samples, Time
  <2>2. \A s \in committed' : s \in blocks \/ InHead(s)
    BY <1>6, <1>8 DEF BlockInv
  <2>. QED  BY <1>8, <1>10, <2>1, <2>2 DEF BlockInv
<1>12. NothingLost'
  BY <1>6, <1>8 DEF NothingLost, InHead
<1>13. RaiseInv'
  BY <1>1 DEF RaiseInv
<1>14. ReadInv'
  BY ReadFrame DEF DataType
<1>. QED  BY <1>2, <1>3, <1>4, <1>5, <1>9, <1>11, <1>12, <1>13, <1>14, Zenon

\* Rollback forgets the batch.
LEMMA RollbackInv ==
    ASSUME HeadInv, NEW a \in Appenders, Rollback(a), OpensAtOnce, RaisesAlone
    PROVE  HeadInv'
<1>. USE HeadAssumption DEF HeadInv, StoreInv, Rollback, headVars, truncVars, dataVars, compVars
<1>1. cpc # "raise"
  BY DEF RaisesAlone
<1>2. AppType'
  BY DEF AppType
<1>3. AppenderInv'
  BY DEF AppenderInv, AppType
<1>4. WindowSealed'
  BY DEF WindowSealed, OpenAppends, AppType
<1>5. HeadType' /\ DataType' /\ CompType' /\ RangeInv' /\ BlockInv' /\ NothingLost' /\ RaiseInv'
  BY <1>1, AppenderFrame, Zenon
<1>6. ReadInv'
  BY ReadFrame DEF DataType
<1>. QED  BY <1>2, <1>3, <1>4, <1>5, <1>6, Zenon

-----------------------------------------------------------------------------
(* The compactor. *)

\* The head is one and a half chunk ranges long, so the range that starts at its
\* minimum ends half a chunk range below its maximum.
LEMMA StartCompactionInv ==
    ASSUME HeadInv, StartCompaction, OpensAtOnce, RaisesAlone, 0 <= MinT
    PROVE  HeadInv'
<1>. USE HeadAssumption DEF HeadInv, StoreInv, StartCompaction, At, GoTo, headVars, truncVars, dataVars, appVars
<1>. DEFINE end == rangeForTimestamp(minTime, ChunkRange)
<1>1. end \in Int /\ minTime < end /\ end <= minTime + ChunkRange
  <2>1. minTime \in Nat /\ ChunkRange \in Nat \ {0}
    BY DEF HeadType, RangeInv
  <2>. QED  BY <2>1, RangeEnd, Zenon
<1>2. maxTime - ChunkRange \div 2 >= end
  <2>1. maxTime - minTime > (ChunkRange \div 2) * 3
    BY DEF compactable
  <2>2. ChunkRange \div 2 \in Nat /\ ChunkRange <= (ChunkRange \div 2) * 2 + 1
    OBVIOUS
  <2>. QED  BY <1>1, <2>1, <2>2 DEF HeadType
<1>3. cmaxt' = end /\ cmint' = minTime
  OBVIOUS
<1>. HIDE DEF end
<1>4. \A a \in Appenders : apc[a] # "opening"
  BY DEF OpensAtOnce
<1>5. HeadType' /\ DataType' /\ AppType' /\ CompType'
  BY <1>1, <1>3 DEF HeadType, DataType, AppType, CompType
<1>6. RangeInv'
  BY <1>1, <1>2, <1>3 DEF RangeInv, HeadType
<1>7. AppenderInv'
  BY <1>4 DEF AppenderInv
<1>8. WindowSealed'
  BY SMTT(20) DEF WindowSealed
<1>9. BlockInv' /\ NothingLost'
  BY SMTT(20) DEF BlockInv, NothingLost, InHead
<1>10. RaiseInv'
  BY DEF RaiseInv
<1>11. ReadInv'
  BY ReadFrame DEF DataType, BeforeStore
<1>. QED  BY <1>5, <1>6, <1>7, <1>8, <1>9, <1>10, <1>11, Zenon

\* After the wait no open appender reaches into the range.
LEMMA WaitForAppendersInv ==
    ASSUME HeadInv, WaitForAppenders, OpensAtOnce, RaisesAlone
    PROVE  HeadInv'
<1>. USE HeadAssumption DEF HeadInv, StoreInv, WaitForAppenders, NoAppendOverlaps, At, GoTo, headVars, truncVars, dataVars, appVars
<1>1. HeadType' /\ DataType' /\ AppType' /\ CompType'
  BY DEF HeadType, DataType, AppType, CompType
<1>2. RangeInv'
  BY DEF RangeInv
<1>3. AppenderInv'
  BY DEF AppenderInv
<1>4. WindowSealed'
  BY DEF WindowSealed, OpenAppends, AppType, CompType
<1>5. BlockInv' /\ NothingLost'
  BY DEF BlockInv, NothingLost, InHead
<1>6. RaiseInv'
  BY DEF RaiseInv
<1>7. ReadInv'
  BY ReadFrame DEF DataType, BeforeStore
<1>. QED  BY <1>1, <1>2, <1>3, <1>4, <1>5, <1>6, <1>7, Zenon

\* The block holds every committed sample of the range that the block list has
\* not.
LEMMA WriteBlockInv ==
    ASSUME HeadInv, WriteBlock, OpensAtOnce, RaisesAlone
    PROVE  HeadInv'
<1>. USE HeadAssumption DEF HeadInv, StoreInv, WriteBlock, At, GoTo, headVars, truncVars, appVars
<1>1. cblock' = {s \in Samples : s[2] \in memory[s[1]] /\ minTime <= s[2] /\ s[2] <= cmaxt - 1}
  BY DEF RangeInv, InMemory, Larger, HeadType
<1>2. HeadType' /\ DataType' /\ AppType' /\ CompType'
  BY <1>1 DEF HeadType, DataType, AppType, CompType
<1>3. RangeInv'
  BY DEF RangeInv
<1>4. AppenderInv'
  BY DEF AppenderInv
<1>5. WindowSealed'
  BY DEF WindowSealed, OpenAppends
<1>6. BlockInv'
  <2>1. \A s \in cblock' : InHead(s)'
    BY <1>1 DEF InHead, HeadType, Samples, Time
  <2>2. \A s \in committed : s[2] < cmaxt => s \in disk'
    <3>1. SUFFICES ASSUME NEW s \in committed, s[2] < cmaxt PROVE s \in disk \/ s \in cblock'
      OBVIOUS
    <3>2. s \in disk \/ (s[2] \in memory[s[1]] /\ s[2] >= minTime)
      BY DEF NothingLost
    <3>3. s \in Samples /\ s[2] \in Int
      BY DEF DataType, Samples, Time
    <3>. QED  BY <1>1, <3>1, <3>2, <3>3 DEF HeadType, CompType
  <2>3. \A s \in committed : s \in blocks \/ InHead(s)'
    BY DEF BlockInv, InHead
  <2>. QED  BY <2>1, <2>2, <2>3 DEF BlockInv
<1>7. NothingLost'
  BY DEF NothingLost
<1>8. RaiseInv'
  BY DEF RaiseInv
<1>9. ReadInv'
  BY ReadFrame DEF DataType, BeforeStore
<1>. QED  BY <1>2, <1>3, <1>4, <1>5, <1>6, <1>7, <1>8, <1>9, Zenon

\* A block that could not be written has changed nothing.
LEMMA WriteBlockFailsInv ==
    ASSUME HeadInv, WriteBlockFails, OpensAtOnce, RaisesAlone
    PROVE  HeadInv'
<1>. USE HeadAssumption DEF HeadInv, StoreInv, WriteBlockFails, At, GoTo, headVars, truncVars, dataVars, appVars
<1>1. HeadType' /\ CompType'
  BY DEF HeadType, CompType
<1>2. RangeInv'
  BY DEF RangeInv
<1>3. DataType' /\ AppType' /\ AppenderInv' /\ WindowSealed' /\ BlockInv' /\ NothingLost' /\ RaiseInv'
  BY CompactorFrame DEF BeforeStore
<1>4. ReadInv'
  BY ReadFrame DEF DataType, BeforeStore
<1>. QED  BY <1>1, <1>2, <1>3, <1>4, Zenon

\* No query holds the lock when the block list is swapped, so none has missed
\* the new block.
LEMMA ReloadBlocksInv ==
    ASSUME HeadInv, ReloadBlocks, OpensAtOnce, RaisesAlone
    PROVE  HeadInv'
<1>. USE HeadAssumption DEF HeadInv, StoreInv, ReloadBlocks, At, GoTo, headVars, truncVars, appVars
<1>1. HeadType' /\ DataType' /\ AppType' /\ CompType'
  BY DEF HeadType, DataType, AppType, CompType
<1>2. RangeInv'
  BY DEF RangeInv
<1>3. AppenderInv'
  BY DEF AppenderInv
<1>4. WindowSealed'
  BY DEF WindowSealed, OpenAppends
<1>5. BlockInv'
  <2>1. \A s \in committed : s[2] < cmaxt => s \in disk
    BY DEF BlockInv
  <2>2. \A s \in committed : s \in disk \/ InHead(s)'
    BY DEF NothingLost, InHead
  <2>. QED  BY <2>1, <2>2 DEF BlockInv
<1>6. NothingLost'
  BY DEF NothingLost
<1>7. RaiseInv'
  BY DEF RaiseInv
<1>8. ReadInv'
  <2>1. QueryType' /\ QueryComplete'
    BY DEF ReadInv, QueryType, QueryComplete, queryVars
  <2>2. \A q \in Queries : qpc[q] \notin {"blocks", "registered", "again", "opened"}
    BY DEF RLocked
  <2>3. QueryInv'
    BY <2>2 DEF ReadInv, QueryInv, InHead, queryVars
  <2>. QED  BY <2>1, <2>3 DEF ReadInv
<1>. QED  BY <1>1, <1>2, <1>3, <1>4, <1>5, <1>6, <1>7, <1>8, Zenon

\* When the reload fails, what the new block held is still in the head.
LEMMA ReloadBlocksFailsInv ==
    ASSUME HeadInv, ReloadBlocksFails, OpensAtOnce, RaisesAlone
    PROVE  HeadInv'
<1>. USE HeadAssumption DEF HeadInv, StoreInv, ReloadBlocksFails, At, GoTo, headVars, truncVars, appVars
<1>1. HeadType' /\ DataType' /\ AppType' /\ CompType'
  BY DEF HeadType, DataType, AppType, CompType
<1>2. RangeInv'
  BY DEF RangeInv
<1>3. AppenderInv'
  BY DEF AppenderInv
<1>4. WindowSealed'
  BY DEF WindowSealed
<1>5. \A s : InHead(s)' <=> InHead(s)
  BY DEF InHead
<1>6. \A s \in committed : s \in disk \/ InHead(s)
  BY DEF NothingLost, InHead
<1>7. \A s \in cblock : InHead(s)
  BY DEF BlockInv
<1>8. BlockInv'
  BY <1>5, <1>6 DEF BlockInv
<1>9. NothingLost'
  <2>1. \A s \in committed : s \in disk' \/ InHead(s)
    BY <1>6, <1>7
  <2>. QED  BY <2>1 DEF NothingLost, InHead
<1>10. RaiseInv'
  BY DEF RaiseInv
<1>11. ReadInv'
  BY ReadFrame DEF DataType, BeforeStore
<1>. QED  BY <1>1, <1>2, <1>3, <1>4, <1>8, <1>9, <1>10, <1>11, Zenon

\* The truncation time is that of the range.
LEMMA StoreTruncationTimeInv ==
    ASSUME HeadInv, StoreTruncationTime, OpensAtOnce, RaisesAlone
    PROVE  HeadInv'
<1>. USE HeadAssumption DEF HeadInv, StoreInv, StoreTruncationTime, At, GoTo, headVars, dataVars, appVars
<1>1. HeadType' /\ CompType'
  BY DEF HeadType, CompType
<1>2. RangeInv'
  BY DEF RangeInv
<1>3. DataType' /\ AppType' /\ AppenderInv' /\ WindowSealed' /\ BlockInv' /\ NothingLost' /\ RaiseInv'
  BY CompactorFrame DEF BeforeStore
<1>4. ReadInv'
  BY ReadFrame DEF DataType, BeforeStore
<1>. QED  BY <1>1, <1>2, <1>3, <1>4, Zenon

\* The flag goes up only after the time is stored.
LEMMA SetTruncationInProcessInv ==
    ASSUME HeadInv, SetTruncationInProcess, OpensAtOnce, RaisesAlone
    PROVE  HeadInv'
<1>. USE HeadAssumption DEF HeadInv, StoreInv, SetTruncationInProcess, At, GoTo, headVars, dataVars, appVars
<1>1. HeadType' /\ CompType'
  BY DEF HeadType, CompType
<1>2. RangeInv'
  BY DEF RangeInv
<1>3. DataType' /\ AppType' /\ AppenderInv' /\ WindowSealed' /\ BlockInv' /\ NothingLost' /\ RaiseInv'
  BY CompactorFrame DEF BeforeStore
<1>4. ReadInv'
  BY ReadFrame DEF DataType, BeforeStore
<1>. QED  BY <1>1, <1>2, <1>3, <1>4, Zenon

\* No read that reaches into the range is open when the wait ends.
LEMMA WaitForReadersInv ==
    ASSUME HeadInv, WaitForReaders, OpensAtOnce, RaisesAlone
    PROVE  HeadInv'
<1>. USE HeadAssumption DEF HeadInv, StoreInv, WaitForReaders, NoReadOverlaps, At, GoTo, headVars, truncVars, dataVars, appVars
<1>1. HeadType' /\ CompType'
  BY DEF HeadType, CompType
<1>2. RangeInv'
  BY DEF RangeInv
<1>3. DataType' /\ AppType' /\ AppenderInv' /\ WindowSealed' /\ BlockInv' /\ NothingLost' /\ RaiseInv'
  BY CompactorFrame DEF BeforeStore
<1>4. ReadInv'
  <2>1. QueryType' /\ QueryComplete'
    BY SMTT(20) DEF ReadInv, QueryType, QueryComplete, queryVars
  <2>2. ASSUME NEW q \in Queries, qpc[q] = "head"
        PROVE  \A s \in qneed[q] : s \in qgot[q] \/ s[2] >= cmaxt
    <3>1. /\ qstate[q] \in Int \X Int \X Int
          /\ qstate[q][1] = qrange[q][1] /\ qstate[q][2] = qrange[q][2]
      BY <2>2 DEF ReadInv, QueryInv
    <3>2. ~(qrange[q][1] <= cmaxt - 1 /\ minTime <= qrange[q][2])
      <4>1. qstate[q] # NoRead
        BY <3>1 DEF NoRead
      <4>. QED  BY <3>1, <4>1 DEF OpenReads, RangeInv
    <3>3. SUFFICES ASSUME NEW s \in qneed[q], s \notin qgot[q] PROVE s[2] >= cmaxt
      OBVIOUS
    <3>4. s[2] <= qrange[q][2] /\ s[2] >= minTime /\ s[2] >= qrange[q][1]
      BY <2>2, <3>3 DEF ReadInv, QueryInv, InHead
    <3>5. s[2] \in Int /\ qrange[q][1] \in Int /\ qrange[q][2] \in Int
      BY <3>1, SMTT(20) DEF ReadInv, QueryType, Samples, Time
    <3>. QED  BY <3>2, <3>4, <3>5 DEF HeadType, CompType
  <2>3. QueryInv'
    BY <2>2 DEF ReadInv, QueryInv, InHead, queryVars
  <2>. QED  BY <2>1, <2>3 DEF ReadInv
<1>. QED  BY <1>1, <1>2, <1>3, <1>4, Zenon

\* Everything committed below the new minimum is in the block list, and every
\* query under way has it.
LEMMA StoreMinTimeInv ==
    ASSUME HeadInv, StoreMinTime, OpensAtOnce, RaisesAlone
    PROVE  HeadInv'
<1>. USE HeadAssumption DEF HeadInv, StoreInv, StoreMinTime, At, GoTo, truncVars, dataVars, appVars
<1>1. HeadType' /\ DataType' /\ AppType' /\ CompType'
  BY DEF HeadType, DataType, AppType, CompType
<1>2. minTime < cmaxt /\ minTime' = cmaxt
  BY DEF RangeInv
<1>3. RangeInv'
  BY <1>2 DEF RangeInv, HeadType, CompType
<1>4. \A a \in Appenders : apc[a] # "opening"
  BY DEF OpensAtOnce
<1>5. AppenderInv'
  <2>1. \A a \in Appenders : apc[a] # "idle" => a \in OpenAppends
    BY <1>4 DEF AppType, OpenAppends
  <2>2. \A a \in Appenders : apc[a] # "idle" => amint[a] >= cmaxt
    BY <2>1 DEF WindowSealed
  <2>. QED  BY <1>4, <2>2 DEF AppenderInv
<1>6. WindowSealed'
  BY DEF WindowSealed, OpenAppends
<1>7. \A s \in committed : (s \in disk /\ s \in blocks) \/ s[2] >= cmaxt
  BY DEF BlockInv, DataType, CompType, Samples, Time
<1>8. BlockInv'
  <2>1. \A s \in committed : s \in blocks \/ s[2] \in memory[s[1]]
    BY DEF BlockInv, InHead
  <2>2. \A s \in committed : s \in blocks \/ InHead(s)'
    BY <1>7, <2>1 DEF InHead
  <2>. QED  BY <2>2 DEF BlockInv
<1>9. NothingLost'
  BY <1>7 DEF NothingLost
<1>10. RaiseInv'
  BY DEF RaiseInv
<1>11. ReadInv'
  <2>1. QueryType' /\ QueryComplete'
    BY DEF ReadInv, QueryType, QueryComplete, queryVars
  <2>2. ASSUME NEW q \in Queries, qpc[q] \in {"blocks", "registered", "again", "opened", "head"}, NEW s \in qneed[q]
        PROVE  /\ s[2] <= qrange[q][2]
               /\ s \in qgot[q] \/ (InHead(s)' /\ s[2] >= qrange[q][1])
    <3>1. /\ s[2] <= qrange[q][2]
          /\ s \in qgot[q] \/ (InHead(s) /\ s[2] >= qrange[q][1])
          /\ s \in qgot[q] \/ s[2] >= cmaxt
      BY <2>2 DEF ReadInv, QueryInv
    <3>. QED  BY <3>1 DEF InHead
  <2>3. ASSUME NEW q \in Queries, qpc[q] \in {"registered", "opened", "head"}
        PROVE  qstate[q][3] <= Larger(qrange[q][1], minTime)'
    <3>1. qstate[q] \in Int \X Int \X Int /\ qstate[q][3] <= Larger(qrange[q][1], minTime)
      BY <2>3 DEF ReadInv, QueryInv
    <3>2. qstate[q][3] \in Int /\ qrange[q][1] \in Int
      BY <3>1, SMTT(20) DEF ReadInv, QueryType
    <3>. QED  BY <1>2, <3>1, <3>2, SMTT(20) DEF Larger, HeadType, CompType, queryVars
  <2>4. QueryInv'
    BY <2>2, <2>3 DEF ReadInv, QueryInv, queryVars
  <2>. QED  BY <2>1, <2>4 DEF ReadInv
<1>. QED  BY <1>1, <1>3, <1>5, <1>6, <1>8, <1>9, <1>10, <1>11, Zenon

\* The append window moves with the minimum.
LEMMA StoreMinValidTimeInv ==
    ASSUME HeadInv, StoreMinValidTime, OpensAtOnce, RaisesAlone
    PROVE  HeadInv'
<1>. USE HeadAssumption DEF HeadInv, StoreInv, StoreMinValidTime, At, GoTo, truncVars, dataVars, appVars
<1>1. maxTime' \in Int /\ maxTime' >= maxTime
  BY DEF Larger, HeadType, CompType
<1>2. HeadType' /\ DataType' /\ AppType' /\ CompType'
  BY <1>1 DEF HeadType, DataType, AppType, CompType
<1>3. RangeInv'
  <2>1. maxTime' - ChunkRange \div 2 >= cmaxt
    BY <1>1 DEF RangeInv, HeadType, CompType
  <2>. QED  BY <2>1 DEF RangeInv, HeadType, CompType
<1>4. \A a \in Appenders : apc[a] # "opening"
  BY DEF OpensAtOnce
<1>5. AppenderInv'
  BY <1>4, SMTT(20) DEF AppenderInv
<1>6. WindowSealed'
  BY DEF WindowSealed, OpenAppends
<1>7. BlockInv' /\ NothingLost'
  BY DEF BlockInv, NothingLost, InHead
<1>8. RaiseInv'
  BY DEF RaiseInv
<1>9. ReadInv'
  BY ReadFrame DEF DataType, BeforeStore
<1>. QED  BY <1>2, <1>3, <1>5, <1>6, <1>7, <1>8, <1>9, Zenon

\* gc drops nothing that the head still shows, and reports a time below all that
\* is left.
LEMMA GCInv ==
    ASSUME HeadInv, GC, OpensAtOnce, RaisesAlone
    PROVE  HeadInv'
<1>. USE HeadAssumption DEF HeadInv, StoreInv, GC, At, GoTo, headVars, truncVars, appVars
<1>1. \A a \in Appenders : memory'[a] = {t \in memory[a] : t >= minTime}
  BY DEF Kept
<1>2. ActualMint \in Int /\ (ActualMint > minTime => \A a \in Appenders : \A t \in memory'[a] : t >= ActualMint)
  <2>. DEFINE left == UNION {Kept(a) : a \in Appenders}
             S == IF left = {} THEN {minTime} ELSE left
  <2>1. S \in SUBSET Int /\ S # {} /\ \A x \in S : minTime <= x
    BY DEF Kept, DataType, HeadType, Time
  <2>2. \A a \in Appenders : memory'[a] \subseteq left
    BY <1>1 DEF Kept
  <2>3. \A a \in Appenders : \A t \in memory'[a] : t \in S
    BY <2>2
  <2>4. ActualMint = IF \E a \in Appenders : Kept(a) = {} /\ apc[a] = "open" /\ abatch[a] # <<>>
                     THEN MinT - 1 ELSE Least(S)
    BY Zenon DEF ActualMint
  <2>. HIDE DEF left, S
  <2>5. Least(S) \in S /\ \A y \in S : Least(S) <= y
    BY <2>1, LeastOfBounded, Zenon DEF HeadType
  <2>6. CASE ActualMint = MinT - 1
    BY <2>6 DEF RangeInv, HeadType
  <2>7. CASE ActualMint = Least(S)
    <3>1. ActualMint \in Int
      BY <2>1, <2>5, <2>7, Zenon
    <3>2. ASSUME NEW a \in Appenders, NEW t \in memory'[a] PROVE t >= ActualMint
      <4>1. t \in S /\ t \in Int /\ Least(S) <= t
        BY <2>1, <2>3, <2>5, Zenon
      <4>. QED  BY <2>7, <3>1, <4>1
    <3>. QED  BY <3>1, <3>2
  <2>. QED  BY <2>4, <2>6, <2>7, Zenon
<1>3. HeadType' /\ DataType' /\ AppType' /\ CompType'
  BY <1>1, <1>2 DEF HeadType, DataType, AppType, CompType, Kept
<1>4. RangeInv'
  BY DEF RangeInv
<1>5. \A a \in Appenders : apc[a] # "opening"
  BY DEF OpensAtOnce
<1>6. AppenderInv'
  <2>1. SUFFICES ASSUME NEW a \in Appenders, apc[a] \in {"written", "minUpdated", "maxUpdated"},
                        NEW t \in InOrder(abatch[a])
                 PROVE  t \in memory'[a]
    BY <1>5 DEF AppenderInv
  <2>2. PICK i \in DOMAIN abatch[a] : abatch[a][i] = t
    BY InOrderOfBatch DEF AppType
  <2>3. t \in memory[a] /\ t >= amint[a] /\ amint[a] >= minTime
    BY <2>1, <2>2 DEF AppenderInv
  <2>4. t \in Int /\ amint[a] \in Int
    BY <2>3 DEF DataType, AppType, Time
  <2>. QED  BY <1>1, <2>3, <2>4 DEF HeadType
<1>7. WindowSealed'
  BY DEF WindowSealed, OpenAppends
<1>8. \A s \in Samples : InHead(s) => InHead(s)'
  BY <1>1 DEF InHead, Samples
<1>9. BlockInv'
  BY <1>8 DEF BlockInv, DataType
<1>10. NothingLost'
  <2>1. \A s \in committed : s \in disk \/ InHead(s)
    BY DEF NothingLost, InHead
  <2>2. \A s \in committed : s \in disk \/ InHead(s)'
    BY <1>8, <2>1 DEF DataType
  <2>. QED  BY <2>2 DEF NothingLost, InHead
<1>11. RaiseInv'
  <2>1. cactual' > minTime => \A a \in OpenAppends : Least({cactual', appendableMinValidTime}) <= amint[a]
    BY DEF RaisesAlone
  <2>2. OpenAppends' = OpenAppends /\ appendableMinValidTime' = appendableMinValidTime
    BY DEF OpenAppends, appendableMinValidTime
  <2>. QED  BY <1>2, <2>1, <2>2, Zenon DEF RaiseInv
<1>12. ReadInv'
  <2>1. QueryType' /\ QueryComplete'
    BY DEF ReadInv, QueryType, QueryComplete, queryVars
  <2>2. \A q \in Queries : qneed[q] \subseteq Samples
    BY SMTT(20) DEF ReadInv, QueryType
  <2>3. QueryInv'
    BY <1>8, <2>2 DEF ReadInv, QueryInv, queryVars, Larger
  <2>. QED  BY <2>1, <2>3 DEF ReadInv
<1>. QED  BY <1>3, <1>4, <1>6, <1>7, <1>9, <1>10, <1>11, <1>12, Zenon

\* The minimum is raised to where the samples left begin, and not above an open
\* window.
LEMMA RaiseMinTimeInv ==
    ASSUME HeadInv, RaiseMinTime, OpensAtOnce, RaisesAlone
    PROVE  HeadInv'
<1>. USE HeadAssumption DEF HeadInv, StoreInv, RaiseMinTime, At, GoTo, truncVars, dataVars, appVars
<1>1. \A a \in Appenders : apc[a] # "opening"
  BY SMTT(20) DEF OpensAtOnce
<1>2. /\ minTime' \in Int /\ minTime' >= minTime /\ minValidTime' \in Int /\ minTime' <= minValidTime'
      /\ minTime' # minTime =>
            /\ \A a \in Appenders : \A t \in memory[a] : t >= minTime'
            /\ \A a \in OpenAppends : minTime' <= amint[a]
  <2>1. CASE cactual <= minTime /\ UNCHANGED <<minTime, minValidTime>>
    BY <2>1 DEF HeadType, RangeInv
  <2>2. CASE cactual > minTime /\ minTime' = Least({cactual, appendableMinValidTime}) /\ minValidTime' = minTime'
    <3>. DEFINE S == {cactual, appendableMinValidTime}
    <3>1. appendableMinValidTime \in Int /\ appendableMinValidTime >= minTime
      BY DEF appendableMinValidTime, Larger, HeadType, RangeInv
    <3>2. S \in SUBSET Int /\ S # {} /\ minTime \in Int /\ \A x \in S : minTime <= x
      BY <2>2, <3>1 DEF HeadType, CompType
    <3>3. minTime' = Least(S) /\ cactual \in S
      BY <2>2
    <3>. HIDE DEF S
    <3>4. Least(S) \in S /\ \A y \in S : Least(S) <= y
      BY <3>2, LeastOfBounded, Zenon
    <3>5. minTime' \in Int /\ minTime' >= minTime /\ minTime' <= cactual
      <4>1. minTime' \in Int /\ minTime <= minTime' /\ minTime' <= cactual
        BY <3>2, <3>3, <3>4, Zenon
      <4>. QED  BY <4>1 DEF HeadType
    <3>6. /\ \A a \in Appenders : \A t \in memory[a] : t >= cactual
          /\ \A a \in OpenAppends : minTime' <= amint[a]
      BY <2>2, Zenon DEF RaiseInv
    <3>7. \A a \in Appenders : \A t \in memory[a] : t \in Int
      BY DEF DataType, Time
    <3>8. \A a \in Appenders : \A t \in memory[a] : t >= minTime'
      BY <3>5, <3>6, <3>7 DEF CompType
    <3>. QED  BY <2>2, <3>5, <3>6, <3>8
  <2>. QED  BY <2>1, <2>2
<1>3. HeadType' /\ DataType' /\ AppType' /\ CompType'
  BY <1>2 DEF HeadType, DataType, AppType, CompType
<1>4. RangeInv'
  BY <1>2 DEF RangeInv, HeadType, CompType
<1>5. AppenderInv'
  <2>1. \A a \in Appenders : apc[a] # "idle" => a \in OpenAppends
    BY <1>1 DEF AppType, OpenAppends
  <2>2. \A a \in Appenders : apc[a] # "idle" => amint[a] >= minTime'
    BY <1>2, <2>1 DEF AppenderInv, AppType
  <2>. QED  BY <1>1, <2>2 DEF AppenderInv
<1>6. WindowSealed'
  BY DEF WindowSealed, OpenAppends
<1>7. \A s \in Samples : InHead(s) => InHead(s)'
  BY <1>2 DEF InHead, Samples
<1>8. BlockInv'
  BY <1>7, SMTT(20) DEF BlockInv, DataType
<1>9. NothingLost'
  <2>1. \A s \in committed : s \in disk \/ InHead(s)
    BY DEF NothingLost, InHead
  <2>2. \A s \in committed : s \in disk \/ InHead(s)'
    BY <1>7, <2>1, SMTT(20) DEF DataType
  <2>. QED  BY <2>2 DEF NothingLost, InHead
<1>10. RaiseInv'
  BY DEF RaiseInv
<1>11. ReadInv'
  <2>1. QueryType' /\ QueryComplete'
    BY DEF ReadInv, QueryType, QueryComplete, queryVars
  <2>2. \A q \in Queries : qneed[q] \subseteq Samples
    BY DEF ReadInv, QueryType
  <2>3. ASSUME NEW q \in Queries, qpc[q] \in {"registered", "opened", "head"}
        PROVE  qstate[q][3] <= Larger(qrange[q][1], minTime)'
    <3>1. qstate[q] \in Int \X Int \X Int /\ qstate[q][3] <= Larger(qrange[q][1], minTime)
      BY <2>3 DEF ReadInv, QueryInv
    <3>2. qstate[q][3] \in Int /\ qrange[q][1] \in Int
      BY <3>1, SMTT(20) DEF ReadInv, QueryType
    <3>. QED  BY <1>2, <3>1, <3>2, SMTT(20) DEF Larger, HeadType, queryVars
  <2>4. QueryInv'
    BY <1>7, <2>2, <2>3 DEF ReadInv, QueryInv, queryVars
  <2>. QED  BY <2>1, <2>4 DEF ReadInv
<1>. QED  BY <1>3, <1>4, <1>5, <1>6, <1>8, <1>9, <1>10, <1>11, Zenon

\* The flag goes down when the truncation is over.
LEMMA FinishTruncationInv ==
    ASSUME HeadInv, FinishTruncation, OpensAtOnce, RaisesAlone
    PROVE  HeadInv'
<1>. USE HeadAssumption DEF HeadInv, StoreInv, FinishTruncation, At, GoTo, headVars, dataVars, appVars
<1>1. HeadType' /\ CompType'
  BY Zenon DEF HeadType, CompType
<1>2. RangeInv'
  BY DEF RangeInv
<1>3. DataType' /\ AppType' /\ AppenderInv' /\ WindowSealed' /\ BlockInv' /\ NothingLost' /\ RaiseInv'
  BY CompactorFrame DEF BeforeStore
<1>4. ReadInv'
  BY ReadFrame DEF DataType, BeforeStore
<1>. QED  BY <1>1, <1>2, <1>3, <1>4, Zenon
=============================================================================
