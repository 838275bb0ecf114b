----------------------------- MODULE Isolation -----------------------------
(***************************************************************************)
(* Isolation of queries from appends in the TSDB head                      *)
(* (tsdb/isolation.go, with its users in head_append.go and head_read.go). *)
(*                                                                         *)
(* Every appender gets an append ID; every in-order sample it commits puts *)
(* that ID at the end of its series' transaction ring (txRing).  A read    *)
(* remembers which IDs were in flight when it began, and the chunk         *)
(* iterator of the series uses the ring to cut the chunk off before the    *)
(* first sample the read must not see.  Appenders throw away the front of  *)
(* the rings they touch, up to a low watermark handed out with their ID.   *)
(*                                                                         *)
(* A series is the history of the append IDs of its in-order samples, the  *)
(* number of leading samples that head truncation has dropped, and the     *)
(* set of positions at which its chunks start.  The ring is its logical    *)
(* contents, a sequence (TxQueueOps); module TxRing shows that the circular *)
(* array of the code behaves like one.                                     *)
(***************************************************************************)
EXTENDS TxQueueOps

CONSTANTS
    Series,         \* the memSeries of the head
    MaxAppendID,    \* bound on the number of appenders ever opened
    MaxReads,       \* bound on the number of reads ever opened
    MaxSamples      \* bound on the number of samples of one series

ASSUME BoundsAssumption ==
    MaxAppendID \in Nat /\ MaxReads \in Nat /\ MaxSamples \in Nat

VARIABLES
    lastAppendID,   \* appendsOpenList.appendID, the last ID handed out
    appendsOpen,    \* IDs in appendsOpen; the list holds them in ID order
    bound,          \* cleanupAppendIDsBelow of each appender
    lastRead,       \* number of reads opened so far
    readsOpen,      \* open reads; a smaller number sits nearer readsOpen.prev
    isoState,       \* the isolationState of each read
    history,        \* append IDs of all in-order samples of a series
    truncated,      \* how many leading samples truncation has dropped
    starts,         \* start positions of the chunks the series still has
    txs             \* contents of the transaction ring of the series

isoVars == <<lastAppendID, appendsOpen, bound, lastRead, readsOpen, isoState>>
seriesVars == <<history, truncated, starts, txs>>
vars == <<isoVars, seriesVars>>

AppendIDs == 1..MaxAppendID
Reads == 1..MaxReads
IsoState == [maxAppendID : 0..MaxAppendID, lowWatermark : 0..MaxAppendID,
             incompleteAppends : SUBSET AppendIDs]

Smallest(S) == CHOOSE x \in S : \A y \in S : x <= y

\* appendsOpenList.next.appendID: the list is circular, and its head element
\* carries the last ID handed out.
LowestAppendID == IF appendsOpen = {} THEN lastAppendID ELSE Smallest(appendsOpen)

-----------------------------------------------------------------------------
(* The chunk iterator. *)

\* One past the last sample of the chunk of s that starts at position c.
ChunkEnd(s, c) ==
    LET later == {d \in starts[s] : d > c}
    IN  IF later = {} THEN Len(history[s]) ELSE Smallest(later)

\* Whether the isolation state st lets the iterator pass a sample of append id.
Sees(st, id) == id <= st.maxAppendID /\ id \notin st.incompleteAppends

\* Faulty variant: the IDs of samples after this chunk are not discounted.
StopAfterCountsLaterIDs(s, c, st) ==
    LET numSamples == ChunkEnd(s, c) - c
        consider == Len(txs[s])
        hidden == {i \in 0..(consider - 1) : ~Sees(st, txs[s][i + 1])}
        stop == numSamples - (consider - Smallest(hidden))
    IN  IF hidden = {} THEN numSamples ELSE IF stop < 0 THEN 0 ELSE stop

\* How many samples of the chunk that starts at c the iterator returns
\* (memSeries.iterator): previousSamples, numSamples and totalSamples are the
\* sums of the code written with start positions.
StopAfter(s, c, st) ==
    LET numSamples == ChunkEnd(s, c) - c
        previousSamples == c - truncated[s]
        totalSamples == Len(history[s]) - truncated[s]
        consider == Len(txs[s]) - (totalSamples - (previousSamples + numSamples))
        hidden == {i \in 0..(consider - 1) : ~Sees(st, txs[s][i + 1])}
        stop == numSamples - (consider - Smallest(hidden))
    IN  IF hidden = {} THEN numSamples ELSE IF stop < 0 THEN 0 ELSE stop

\* Positions of the samples of s a read with isolation state st gets now.
Visible(s, st) ==
    UNION {(c + 1)..(c + StopAfter(s, c, st)) : c \in starts[s]}

-----------------------------------------------------------------------------
Init ==
    /\ lastAppendID = 0
    /\ appendsOpen = {}
    /\ bound = [a \in AppendIDs |-> 0]
    /\ lastRead = 0
    /\ readsOpen = {}
    /\ isoState = [r \in Reads |-> [maxAppendID |-> 0, lowWatermark |-> 0,
                                    incompleteAppends |-> {}]]
    /\ history = [s \in Series |-> << >>]
    /\ truncated = [s \in Series |-> 0]
    /\ starts = [s \in Series |-> {}]
    /\ txs = [s \in Series |-> << >>]

\* Faulty variant: open reads do not hold the watermark back.
LowWatermarkIgnoresReads(id) ==
    IF appendsOpen = {} THEN id ELSE Smallest(appendsOpen)

\* Faulty variant: the newest open read decides instead of the oldest.
LowWatermarkOfNewestRead(id) ==
    IF readsOpen # {}
    THEN isoState[CHOOSE r \in readsOpen : \A q \in readsOpen : q <= r].lowWatermark
    ELSE IF appendsOpen = {} THEN id ELSE Smallest(appendsOpen)

\* lowWatermarkLocked, evaluated by newAppendID after it has registered id: the
\* watermark of the oldest open read, else the lowest open append.
LowWatermark(id) ==
    IF readsOpen # {} THEN isoState[Smallest(readsOpen)].lowWatermark
    ELSE IF appendsOpen = {} THEN id ELSE Smallest(appendsOpen)

\* Faulty variant: the counter in the list head is not advanced.
NewAppendIDKeepsCounter ==
    /\ lastAppendID < MaxAppendID
    /\ appendsOpen' = appendsOpen \cup {lastAppendID + 1}
    /\ bound' = [bound EXCEPT ![lastAppendID + 1] = LowWatermark(lastAppendID + 1)]
    /\ UNCHANGED <<lastAppendID, lastRead, readsOpen, isoState, seriesVars>>

\* Head.appender: newAppendID hands out the next ID and the cleanup bound.
NewAppendID ==
    /\ lastAppendID < MaxAppendID
    /\ lastAppendID' = lastAppendID + 1
    /\ appendsOpen' = appendsOpen \cup {lastAppendID + 1}
    /\ bound' = [bound EXCEPT ![lastAppendID + 1] = LowWatermark(lastAppendID + 1)]
    /\ UNCHANGED <<lastRead, readsOpen, isoState, seriesVars>>

\* One in-order sample of headAppender.Commit, under the series lock: it goes
\* to the head chunk, or to a new one that append cuts, its ID to the ring,
\* and the ring is cleaned up.
CommitSample(a, s) ==
    /\ a \in appendsOpen
    /\ Len(history[s]) < MaxSamples
    /\ history' = [history EXCEPT ![s] = Append(@, a)]
    /\ \/ starts[s] # {} /\ UNCHANGED starts
       \/ starts' = [starts EXCEPT ![s] = @ \cup {Len(history[s])}]
    /\ txs' = [txs EXCEPT ![s] = CleanupBelow(Append(@, a), bound[a])]
    /\ UNCHANGED <<isoVars, truncated>>

\* A sample of Commit that is not appended in order (refused by appendable, or
\* inserted out of order), or a sample of Rollback: the ring is only cleaned.
CleanupOnly(a, s) ==
    /\ a \in appendsOpen
    /\ txs' = [txs EXCEPT ![s] = CleanupBelow(@, bound[a])]
    /\ UNCHANGED <<isoVars, history, truncated, starts>>

\* closeAppend, deferred by Commit and by Rollback.
CloseAppend(a) ==
    /\ a \in appendsOpen
    /\ appendsOpen' = appendsOpen \ {a}
    /\ UNCHANGED <<lastAppendID, bound, lastRead, readsOpen, isoState, seriesVars>>

\* Faulty variant: the watermark of a read is the last ID, whatever is open.
OpenReadAtLastID ==
    /\ lastRead < MaxReads
    /\ lastRead' = lastRead + 1
    /\ readsOpen' = readsOpen \cup {lastRead + 1}
    /\ isoState' = [isoState EXCEPT ![lastRead + 1] =
                       [maxAppendID |-> lastAppendID,
                        lowWatermark |-> lastAppendID,
                        incompleteAppends |-> appendsOpen]]
    /\ UNCHANGED <<lastAppendID, appendsOpen, bound, seriesVars>>

\* isolation.State: a read begins.
OpenRead ==
    /\ lastRead < MaxReads
    /\ lastRead' = lastRead + 1
    /\ readsOpen' = readsOpen \cup {lastRead + 1}
    /\ isoState' = [isoState EXCEPT ![lastRead + 1] =
                       [maxAppendID |-> lastAppendID,
                        lowWatermark |-> LowestAppendID,
                        incompleteAppends |-> appendsOpen]]
    /\ UNCHANGED <<lastAppendID, appendsOpen, bound, seriesVars>>

\* isolationState.Close: a read ends.
CloseRead(r) ==
    /\ r \in readsOpen
    /\ readsOpen' = readsOpen \ {r}
    /\ UNCHANGED <<lastAppendID, appendsOpen, bound, lastRead, isoState, seriesVars>>

\* truncateChunksBefore drops the oldest chunk; the ring keeps its IDs.
TruncateChunk(s) ==
    /\ starts[s] # {}
    /\ LET c == Smallest(starts[s])
       IN  /\ truncated' = [truncated EXCEPT ![s] = ChunkEnd(s, c)]
           /\ starts' = [starts EXCEPT ![s] = @ \ {c}]
    /\ UNCHANGED <<isoVars, history, txs>>

Next ==
    \/ NewAppendID
    \/ \E a \in AppendIDs, s \in Series : CommitSample(a, s)
    \/ \E a \in AppendIDs, s \in Series : CleanupOnly(a, s)
    \/ \E a \in AppendIDs : CloseAppend(a)
    \/ OpenRead
    \/ \E r \in Reads : CloseRead(r)
    \/ \E s \in Series : TruncateChunk(s)

Spec == Init /\ [][Next]_vars

-----------------------------------------------------------------------------
(* Properties. *)

\* The isolation state, the histories, the rings and the chunk starts have
\* their types; only IDs that were handed out are open or in a history.
TypeOK ==
    /\ lastAppendID \in 0..MaxAppendID
    /\ appendsOpen \in SUBSET (1..lastAppendID)
    /\ bound \in [AppendIDs -> 0..MaxAppendID]
    /\ lastRead \in 0..MaxReads
    /\ readsOpen \in SUBSET (1..lastRead)
    /\ isoState \in [Reads -> IsoState]
    /\ history \in [Series -> Seq(AppendIDs)]
    /\ txs \in [Series -> Seq(AppendIDs)]
    /\ truncated \in [Series -> 0..MaxSamples]
    /\ starts \in [Series -> SUBSET (0..MaxSamples)]
    /\ \A s \in Series : \A p \in 1..Len(history[s]) : history[s][p] <= lastAppendID

\* No dirty read: whatever has happened since a read began, the iterators of
\* all chunks return to it no sample of an append that was still open, or had
\* not begun, when isolation.State was called (memSeries.iterator).
NoDirtyRead ==
    \A r \in readsOpen, s \in Series : \A p \in Visible(s, isoState[r]) :
        Sees(isoState[r], history[s][p])

\* Positions a read is meant to get: the longest run of samples it may see,
\* counted from the first sample the series ever had, less what truncation
\* has dropped.
PrefixToSee(s, st) ==
    {p \in (truncated[s] + 1)..Len(history[s]) :
        \A q \in 1..p : Sees(st, history[s][q])}

\* The arithmetic of memSeries.iterator over ring, chunks and truncation
\* returns exactly that run: nothing more, nothing less, and no gap between
\* two chunks.
ReadsExactPrefix ==
    \A r \in readsOpen, s \in Series :
        Visible(s, isoState[r]) = PrefixToSee(s, isoState[r])

\* A read is repeatable: no commit, rollback, ring cleanup or chunk cut changes
\* what an open read gets from a series; truncation only removes from it the
\* samples it drops.
RepeatableRead ==
    [][\A r \in readsOpen \cap readsOpen', s \in Series :
          Visible(s, isoState[r])' = {p \in Visible(s, isoState[r]) : p > truncated'[s]}]_vars

\* A ring forgets an ID only when it is below the watermark of every open read
\* and of every open append (cleanupAppendIDsBelow with the bound that
\* newAppendID returned, possibly many appends and reads ago).
ForgottenIDsAreSettled ==
    \A s \in Series : \A p \in 1..(Len(history[s]) - Len(txs[s])) :
        /\ \A a \in appendsOpen : history[s][p] < a
        /\ \A r \in readsOpen : history[s][p] < isoState[r].lowWatermark

\* isolation.lowWatermark: what a new appender would be handed.
CurrentWatermark ==
    IF readsOpen # {} THEN isoState[Smallest(readsOpen)].lowWatermark ELSE LowestAppendID

\* The low watermark never goes back, whichever reads and appends open and
\* close in whatever order; otherwise an ID already forgotten would be needed
\* again (lowWatermarkLocked).
WatermarkMonotone == [][CurrentWatermark' >= CurrentWatermark]_vars

-----------------------------------------------------------------------------
(* The inductive invariant behind these properties. *)

\* A cleanup bound lies below every open append and below the watermark of
\* every open read; watermarks grow from the oldest read to the newest and lie
\* below every open append.
BoundsBelowWatermarks ==
    /\ \A a \in appendsOpen : bound[a] <= a
    /\ \A a, b \in appendsOpen : bound[a] <= b
    /\ \A a \in appendsOpen, r \in readsOpen : bound[a] <= isoState[r].lowWatermark
    /\ \A a \in appendsOpen, r \in readsOpen : isoState[r].lowWatermark <= a
    /\ \A q, r \in readsOpen : q <= r => isoState[q].lowWatermark <= isoState[r].lowWatermark

\* What a read recorded still describes the appends: one that is open and not
\* in its set began after it.
ReadStatesCurrent ==
    \A r \in readsOpen :
        /\ isoState[r].lowWatermark <= isoState[r].maxAppendID
        /\ isoState[r].maxAppendID <= lastAppendID
        /\ \A i \in isoState[r].incompleteAppends : isoState[r].lowWatermark <= i
        /\ \A a \in appendsOpen :
               a <= isoState[r].maxAppendID => a \in isoState[r].incompleteAppends

\* The ring holds the IDs of the newest samples, in order; what it has
\* forgotten is older than the last ID.
RingIsSuffix ==
    \A s \in Series :
        /\ Len(txs[s]) <= Len(history[s])
        /\ \A i \in 1..Len(txs[s]) :
               txs[s][i] = history[s][Len(history[s]) - Len(txs[s]) + i]
        /\ \A p \in 1..(Len(history[s]) - Len(txs[s])) : history[s][p] < lastAppendID

\* The chunks cover the samples that are left, without a gap.
ChunksCover ==
    \A s \in Series :
        /\ truncated[s] <= Len(history[s])
        /\ Len(history[s]) <= MaxSamples
        /\ \A c \in starts[s] : truncated[s] <= c /\ c < Len(history[s])
        /\ truncated[s] < Len(history[s]) => truncated[s] \in starts[s]

IsolationInv ==
    /\ TypeOK
    /\ BoundsBelowWatermarks
    /\ ReadStatesCurrent
    /\ RingIsSuffix
    /\ ChunksCover
    /\ ForgottenIDsAreSettled
=============================================================================
