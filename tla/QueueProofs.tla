----------------------------- MODULE QueueProofs -----------------------------
(***************************************************************************)
(* Proofs about module RemoteQueue, for any data, batch size, capacity and *)
(* numbers of shards.  Every datum in a shard has a place in its lane: in  *)
(* the batch its worker sends, in a batch of the channel, or in the        *)
(* partial batch.  QueueInv says that lanes are in order and hold the data *)
(* of their shard only, that what waits is newer than all of its series    *)
(* that was delivered, and that the gauges count what the lanes hold.  A   *)
(* step moves a lane on, adds at its end or takes the batch at its start;  *)
(* resharding starts from empty lanes.                                     *)
(***************************************************************************)
EXTENDS RemoteQueue, FiniteSetTheorems, TLAPS

-------------------------------------------------------------------------------
(* The invariant *)

\* The values of the variables.
Flushes == {"none", "try", "clear", "done"}
StopPcs == {"idle", "soft", "lock", "wait", "forced", "start", "stopped"}
QueueRecords == [batch : Seq(Nat), chan : Seq(Seq(Nat)), closed : BOOLEAN, flush : Flushes]
WorkerRecords == [pc : {"select", "sending", "exit"}, batch : Seq(Nat)]
QueueType ==
  /\ feed \in [next : Nat, accepted : SUBSET Nat, quit : BOOLEAN]
  /\ sh \in [n : Nat \ {0}, soft : BOOLEAN, hard : BOOLEAN]
  /\ queue \in [0 .. sh.n - 1 -> QueueRecords]
  /\ worker \in [0 .. sh.n - 1 -> WorkerRecords]
  /\ stopper \in [who : {"none", "reshard", "stop"}, pc : StopPcs, n : Nat \ {0}]
  /\ remote \in [got : Seq(Nat), acked : SUBSET Nat]
  /\ tally \in [pending : Int, enqueued : Int, failed : Int, reshards : Nat, lost : Nat]

\* How far shards.stop has come, and what the shards and queues do then.
NoData == << >>
ShardShut(x, y) ==
  /\ x.closed <=> x.flush = "done"
  /\ x.flush = "done" => x.batch = NoData
  /\ x.flush # "none" => stopper.pc \in {"wait", "forced", "start", "stopped"}
  /\ y.pc # "sending" => y.batch = NoData
  /\ y.pc = "exit" => sh.hard \/ (x.closed /\ x.chan = NoData)
ShutInv ==
  /\ sh.soft <=> stopper.pc \in {"lock", "wait", "forced", "start", "stopped"}
  /\ sh.hard => stopper.pc \in {"forced", "start", "stopped"}
  /\ \A i \in DOMAIN queue : ShardShut(queue[i], worker[i])

\* The lane of a shard: what its worker y sends, the full batches of its queue x,
\* and the partial one.
Rest(x) == IF x.flush = "clear" THEN NoData ELSE x.batch
Slot(x, y, k) ==
  IF k = 0 THEN y.batch ELSE IF k <= Len(x.chan) THEN x.chan[k]
  ELSE IF k = Len(x.chan) + 1 THEN Rest(x) ELSE NoData
Holds(x, y, k, a, d) == k \in Nat /\ a \in 1 .. Len(Slot(x, y, k)) /\ Slot(x, y, k)[a] = d
Has(i, k, a, d) == i \in DOMAIN queue /\ Holds(queue[i], worker[i], k, a, d)
ShardOf(d) == Data[d].ref % sh.n

\* A lane holds data of its shard in their order.
LaneInv ==
  /\ \A i, k, a, d : Has(i, k, a, d) => d \in DOMAIN Data /\ d < feed.next /\ ShardOf(d) = i
  /\ \A i, k, a, d, l, b, e : Has(i, k, a, d) /\ Has(i, l, b, e) /\ (k < l \/ (k = l /\ a < b)) => d < e

\* d was delivered; d is newer than all of its series that was delivered.
Got(d) == \E n \in 1 .. Len(remote.got) : remote.got[n] = d
Newest(d) == \A e : Got(e) /\ Data[e].ref = Data[d].ref => e < d
\* What waits is newer than what was delivered; what is being sent may have been
\* delivered without an answer.
SentInv ==
  /\ \A d : Got(d) => d \in DOMAIN Data /\ d < feed.next
  /\ \A i, k, a, d : Has(i, k, a, d) /\ k # 0 => Newest(d)
  /\ \A i, a, d : Has(i, 0, a, d) => (Newest(d) \/ Got(d)) /\ d \notin remote.acked
  /\ \A d \in remote.acked : Got(d)
  /\ DeliveredOldestFirst
QueueInv == QueueType /\ ShutInv /\ LaneInv /\ SentInv /\ PendingIsExact

-------------------------------------------------------------------------------
(* Lanes *)

\* An empty batch.
LEMMA NoDataFacts == Len(NoData) = 0 /\ NoData \in Seq(Nat) /\ NoData \in Seq(Seq(Nat)) /\ \A a : a \notin 1 .. Len(NoData)
BY DEF NoData

\* The fields of the queue of a shard, and of its worker.
LEMMA RecordFields ==
  /\ \A x \in QueueRecords : x.batch \in Seq(Nat) /\ x.chan \in Seq(Seq(Nat)) /\ x.closed \in BOOLEAN /\ x.flush \in Flushes
  /\ \A y \in WorkerRecords : y.pc \in {"select", "sending", "exit"} /\ y.batch \in Seq(Nat)
BY Zenon DEF QueueRecords, WorkerRecords

\* A slot is a sequence of data.
LEMMA SlotType ==
  ASSUME NEW x \in QueueRecords, NEW y \in WorkerRecords, NEW k \in Nat
  PROVE  Slot(x, y, k) \in Seq(Nat)
<1>1. x.batch \in Seq(Nat) /\ x.chan \in Seq(Seq(Nat)) /\ y.batch \in Seq(Nat) /\ NoData \in Seq(Nat)
  BY RecordFields, NoDataFacts, Zenon
<1>2. k # 0 /\ k <= Len(x.chan) => x.chan[k] \in Seq(Nat)
  BY <1>1
<1>3. Rest(x) \in Seq(Nat)
  BY <1>1, Zenon DEF Rest
<1> QED
  BY <1>1, <1>2, <1>3, Zenon DEF Slot

\* Places and data of a lane are numbers.
LEMMA HoldsType ==
  ASSUME NEW x \in QueueRecords, NEW y \in WorkerRecords, NEW k, NEW a, NEW d, Holds(x, y, k, a, d)
  PROVE  k \in Nat /\ a \in Nat /\ 1 <= a /\ d \in Nat
<1>1. k \in Nat /\ Slot(x, y, k) \in Seq(Nat) /\ a \in 1 .. Len(Slot(x, y, k)) /\ Slot(x, y, k)[a] = d
  BY SlotType, Zenon DEF Holds
<1> QED
  BY <1>1

\* What a lane holds, as a set.
InLane(x, y, d) == \E k, a : Holds(x, y, k, a, d)
LaneSet(x, y) ==
  ((IF x.flush = "clear" THEN {} ELSE Range(x.batch)) \cup UNION {Range(b) : b \in Range(x.chan)}) \cup Range(y.batch)

\* The lane of a shard as InFlight counts it: the batch that is sent, the channel
\* and the partial batch.
LEMMA LaneIsSet ==
  ASSUME NEW x \in QueueRecords, NEW y \in WorkerRecords
  PROVE  \A d : d \in LaneSet(x, y) <=> InLane(x, y, d)
<1>1. x.batch \in Seq(Nat) /\ x.chan \in Seq(Seq(Nat)) /\ y.batch \in Seq(Nat)
  BY RecordFields, Zenon
<1> DEFINE L == Len(x.chan)
<1>2. L \in Nat /\ L + 1 \in Nat /\ L + 1 # 0 /\ ~(L + 1 <= L)
  BY <1>1
<1>3. \A s \in Seq(Nat) : \A d : d \in Range(s) <=> \E a \in 1 .. Len(s) : s[a] = d
  BY DEF Range
<1>4. \A b : b \in Range(x.chan) <=> \E k \in 1 .. L : x.chan[k] = b
  BY <1>1 DEF Range
<1>5. \A k \in 1 .. L : k \in Nat /\ k # 0 /\ k <= L /\ x.chan[k] \in Seq(Nat)
  BY <1>1
<1>6. \A k \in Nat : k # 0 /\ k <= L => k \in 1 .. L
  BY <1>2
<1>7. 0 \in Nat
  OBVIOUS
<1>8. /\ Slot(x, y, 0) = y.batch /\ Slot(x, y, L + 1) = Rest(x)
      /\ \A k \in 1 .. L : Slot(x, y, k) = x.chan[k]
      /\ \A k \in Nat : k # 0 /\ k \notin 1 .. L /\ k # L + 1 => Slot(x, y, k) = NoData
  BY <1>2, <1>5, <1>6, Zenon DEF Slot
<1> HIDE DEF L
<1>9. ASSUME NEW d, d \in LaneSet(x, y)
      PROVE  InLane(x, y, d)
  <2>1. CASE d \in Range(y.batch)
    <3>1. PICK a \in 1 .. Len(y.batch) : y.batch[a] = d
      BY <1>1, <1>3, <2>1, Zenon
    <3>2. Holds(x, y, 0, a, d)
      BY <1>7, <1>8, <3>1, Zenon DEF Holds
    <3> QED
      BY <3>2, Zenon DEF InLane
  <2>2. CASE x.flush # "clear" /\ d \in Range(x.batch)
    <3>1. PICK a \in 1 .. Len(x.batch) : x.batch[a] = d
      BY <1>1, <1>3, <2>2, Zenon
    <3>2. Slot(x, y, L + 1) = x.batch
      BY <1>8, <2>2, Zenon DEF Rest
    <3>3. Holds(x, y, L + 1, a, d)
      BY <1>2, <3>1, <3>2, Zenon DEF Holds
    <3> QED
      BY <3>3, Zenon DEF InLane
  <2>3. CASE d \in UNION {Range(b) : b \in Range(x.chan)}
    <3>1. PICK b \in Range(x.chan) : d \in Range(b)
      BY <2>3, Zenon
    <3>2. PICK k \in 1 .. L : x.chan[k] = b
      BY <1>4, <3>1, Zenon
    <3>3. k \in Nat /\ Slot(x, y, k) = b /\ b \in Seq(Nat)
      BY <1>5, <1>8, <3>2, Zenon
    <3>4. PICK a \in 1 .. Len(b) : b[a] = d
      BY <1>3, <3>1, <3>3, Zenon
    <3>5. Holds(x, y, k, a, d)
      BY <3>3, <3>4, Zenon DEF Holds
    <3> QED
      BY <3>5, Zenon DEF InLane
  <2> QED
    BY <1>9, <2>1, <2>2, <2>3, Zenon DEF LaneSet
<1>10. ASSUME NEW d, NEW k, NEW a, Holds(x, y, k, a, d)
       PROVE  d \in LaneSet(x, y)
  <2>1. k \in Nat /\ a \in 1 .. Len(Slot(x, y, k)) /\ Slot(x, y, k)[a] = d
    BY <1>10, Zenon DEF Holds
  <2>2. CASE k = 0
    BY <1>1, <1>3, <1>8, <2>1, <2>2, Zenon DEF LaneSet
  <2>3. CASE k \in 1 .. L
    <3>1. x.chan[k] \in Range(x.chan) /\ d \in Range(x.chan[k])
      BY <1>3, <1>4, <1>5, <1>8, <2>1, <2>3, Zenon
    <3> QED
      BY <3>1, Zenon DEF LaneSet
  <2>4. CASE k = L + 1
    <3>1. a \in 1 .. Len(Rest(x)) /\ Rest(x)[a] = d
      BY <1>8, <2>1, <2>4, Zenon
    <3>2. x.flush # "clear"
      BY <3>1, NoDataFacts, Zenon DEF Rest
    <3>3. d \in Range(x.batch)
      BY <1>1, <1>3, <3>1, <3>2, Zenon DEF Rest
    <3> QED
      BY <3>2, <3>3, Zenon DEF LaneSet
  <2>5. CASE k # 0 /\ k \notin 1 .. L /\ k # L + 1
    BY <1>8, <2>1, <2>5, NoDataFacts, Zenon
  <2> QED
    BY <2>2, <2>3, <2>4, <2>5
<1> QED
  BY <1>9, <1>10, Zenon DEF InLane

\* How the lane of a shard changes: a slot is emptied or is the slot c further on.
Moved(x, y, xx, yy, c) == \A k \in Nat : Slot(xx, yy, k) = NoData \/ Slot(xx, yy, k) = Slot(x, y, k + c)
\* All slots move, and none that is not empty falls off.
AllMoved(x, y, xx, yy, c) ==
  /\ \A k \in Nat : Slot(xx, yy, k) = Slot(x, y, k + c)
  /\ c = 1 => y.batch = NoData

\* What a lane holds after a move it held before.
LEMMA HoldsMoved ==
  ASSUME NEW x, NEW y, NEW xx, NEW yy, NEW c \in {0, 1}, Moved(x, y, xx, yy, c)
  PROVE  \A k, a, d : Holds(xx, yy, k, a, d) => Holds(x, y, k + c, a, d)
<1>1. \A k \in Nat : k + c \in Nat
  OBVIOUS
<1>2. \A k \in Nat : \A a \in 1 .. Len(Slot(xx, yy, k)) : Slot(xx, yy, k) = Slot(x, y, k + c)
  BY NoDataFacts, Zenon DEF Moved
<1> QED
  BY <1>1, <1>2, Zenon DEF Holds

\* A lane that moves as a whole holds what it held.
LEMMA LaneMoved ==
  ASSUME NEW x, NEW y, NEW xx, NEW yy, NEW c \in {0, 1}, AllMoved(x, y, xx, yy, c)
  PROVE  Moved(x, y, xx, yy, c) /\ \A d : InLane(xx, yy, d) <=> InLane(x, y, d)
<1>1. Moved(x, y, xx, yy, c)
  BY Zenon DEF AllMoved, Moved
<1>2. ASSUME NEW d, InLane(xx, yy, d)
      PROVE  InLane(x, y, d)
  BY <1>1, <1>2, HoldsMoved, ZenonT(40) DEF InLane
<1>3. ASSUME NEW d, NEW k, NEW a, Holds(x, y, k, a, d)
      PROVE  InLane(xx, yy, d)
  <2>1. k \in Nat /\ a \in 1 .. Len(Slot(x, y, k)) /\ Slot(x, y, k)[a] = d
    BY <1>3, Zenon DEF Holds
  <2>2. CASE c = 0
    <3>1. k + 0 = k
      BY <2>1
    <3>2. Slot(xx, yy, k) = Slot(x, y, k)
      BY <2>1, <2>2, <3>1, Zenon DEF AllMoved
    <3>3. Holds(xx, yy, k, a, d)
      BY <2>1, <3>2, Zenon DEF Holds
    <3> QED
      BY <3>3, Zenon DEF InLane
  <2>3. CASE c = 1
    <3>1. k # 0
      <4>1. Slot(x, y, 0) = NoData
        BY <2>3, Zenon DEF AllMoved, Slot
      <4> QED
        BY <2>1, <4>1, NoDataFacts, Zenon
    <3>2. k - 1 \in Nat /\ (k - 1) + 1 = k
      BY <2>1, <3>1
    <3>3. Slot(xx, yy, k - 1) = Slot(x, y, k)
      BY <2>3, <3>2, Zenon DEF AllMoved
    <3>4. Holds(xx, yy, k - 1, a, d)
      BY <2>1, <3>2, <3>3, Zenon DEF Holds
    <3> QED
      BY <3>4, Zenon DEF InLane
  <2> QED
    BY <2>2, <2>3, Zenon
<1> QED
  BY <1>1, <1>2, <1>3, Zenon DEF InLane

\* The lane of a shard that takes the first full batch,
LEMMA TakesFull ==
  ASSUME NEW x \in QueueRecords, NEW y \in WorkerRecords, NEW xx, NEW yy,
         x.chan # << >>, y.batch = NoData,
         xx.chan = Tail(x.chan), xx.batch = x.batch, xx.flush = x.flush, yy.batch = Head(x.chan)
  PROVE  AllMoved(x, y, xx, yy, 1)
<1>1. x.chan \in Seq(Seq(Nat))
  BY RecordFields, Zenon
<1> DEFINE L == Len(x.chan)
<1>2. /\ L \in Nat /\ L >= 1 /\ Len(xx.chan) = L - 1
      /\ yy.batch = x.chan[1] /\ \A k \in 1 .. L - 1 : xx.chan[k] = x.chan[k + 1]
  BY <1>1
<1>3. Rest(xx) = Rest(x)
  BY Zenon DEF Rest
<1> HIDE DEF L
<1>4. ASSUME NEW k \in Nat
      PROVE  Slot(xx, yy, k) = Slot(x, y, k + 1)
  <2>1. CASE k = 0
    <3>1. Slot(xx, yy, k) = x.chan[1]
      BY <1>2, <2>1, Zenon DEF Slot
    <3>2. k + 1 = 1 /\ 1 # 0 /\ 1 <= L
      BY <1>2, <2>1
    <3> QED
      BY <3>1, <3>2, Zenon DEF Slot, L
  <2>2. CASE k \in 1 .. L - 1
    <3>1. k # 0 /\ k <= L - 1 /\ k + 1 # 0 /\ k + 1 <= L
      BY <1>2, <2>2
    <3>2. Slot(xx, yy, k) = x.chan[k + 1]
      BY <1>2, <2>2, <3>1, Zenon DEF Slot
    <3> QED
      BY <3>1, <3>2, Zenon DEF Slot, L
  <2>3. CASE k = L
    <3>1. k # 0 /\ ~(k <= L - 1) /\ k = L - 1 + 1 /\ k + 1 # 0 /\ ~(k + 1 <= L) /\ k + 1 = L + 1
      BY <1>2, <2>3
    <3>2. Slot(xx, yy, k) = Rest(x)
      BY <1>2, <1>3, <3>1, Zenon DEF Slot
    <3> QED
      BY <3>1, <3>2, Zenon DEF Slot, L
  <2>4. CASE k > L
    <3>1. k # 0 /\ ~(k <= L - 1) /\ k # L - 1 + 1 /\ k + 1 # 0 /\ ~(k + 1 <= L) /\ k + 1 # L + 1
      BY <1>2, <2>4
    <3>2. Slot(xx, yy, k) = NoData
      BY <1>2, <3>1, Zenon DEF Slot
    <3> QED
      BY <3>1, <3>2, Zenon DEF Slot, L
  <2> QED
    BY <1>2, <2>1, <2>2, <2>3, <2>4
<1> QED
  BY <1>4, Zenon DEF AllMoved

\* or the partial batch when there is no full one.
LEMMA TakesPartial ==
  ASSUME NEW x \in QueueRecords, NEW y \in WorkerRecords, NEW xx, NEW yy,
         x.chan = << >>, y.batch = NoData, x.flush # "clear",
         xx.chan = x.chan, xx.batch = NoData, yy.batch = x.batch
  PROVE  AllMoved(x, y, xx, yy, 1)
<1>1. Len(x.chan) = 0 /\ Len(xx.chan) = 0
  OBVIOUS
<1>2. Rest(xx) = NoData /\ Rest(x) = x.batch
  BY Zenon DEF Rest
<1>3. ASSUME NEW k \in Nat
      PROVE  Slot(xx, yy, k) = Slot(x, y, k + 1)
  <2>1. k + 1 # 0 /\ ~(k + 1 <= 0) /\ (k + 1 = 0 + 1 <=> k = 0) /\ (k # 0 => ~(k <= 0))
    OBVIOUS
  <2>2. k = 0 => Slot(xx, yy, k) = x.batch /\ Slot(x, y, k + 1) = x.batch
    BY <1>1, <1>2, <2>1, Zenon DEF Slot
  <2>3. k # 0 => Slot(xx, yy, k) = NoData /\ Slot(x, y, k + 1) = NoData
    BY <1>1, <1>2, <2>1, Zenon DEF Slot
  <2> QED
    BY <2>2, <2>3
<1> QED
  BY <1>3, Zenon DEF AllMoved

\* The batch moves to the channel, as in FlushAndShutdown.
MovesBatch(x, y, xx, yy, b) ==
  /\ x \in QueueRecords /\ y \in WorkerRecords /\ b \in Seq(Nat)
  /\ xx.chan = Append(x.chan, b) /\ Rest(xx) = NoData /\ yy.batch = y.batch

\* The batch is the last of the channel; the rest of the lane is where it was.
LEMMA BatchMoves ==
  ASSUME NEW x, NEW y, NEW xx, NEW yy, NEW b, MovesBatch(x, y, xx, yy, b)
  PROVE  /\ Len(x.chan) + 1 \in Nat \ {0} /\ Slot(xx, yy, Len(x.chan) + 1) = b
         /\ \A k \in Nat : k # Len(x.chan) + 1 => Slot(xx, yy, k) = Slot(x, y, k)
<1>0. /\ x \in QueueRecords /\ y \in WorkerRecords /\ b \in Seq(Nat)
      /\ xx.chan = Append(x.chan, b) /\ Rest(xx) = NoData /\ yy.batch = y.batch
  BY Zenon DEF MovesBatch
<1>1. x.chan \in Seq(Seq(Nat))
  BY <1>0, RecordFields, Zenon
<1> DEFINE L == Len(x.chan)
<1>2. L \in Nat /\ Len(xx.chan) = L + 1 /\ xx.chan[L + 1] = b /\ \A k \in 1 .. L : xx.chan[k] = x.chan[k]
  BY <1>0, <1>1
<1> HIDE DEF L
<1>3. ASSUME NEW k \in Nat
      PROVE  Slot(xx, yy, k) = IF k = L + 1 THEN b ELSE Slot(x, y, k)
  <2>1. CASE k = 0
    <3>1. k # L + 1
      BY <1>2, <2>1
    <3> QED
      BY <1>0, <2>1, <3>1, Zenon DEF Slot
  <2>2. CASE k \in 1 .. L
    <3>1. k # 0 /\ k <= L + 1 /\ k <= L /\ k # L + 1
      BY <1>2, <2>2
    <3> QED
      BY <1>0, <1>2, <2>2, <3>1, Zenon DEF Slot, L
  <2>3. CASE k = L + 1
    <3>1. k # 0 /\ k <= L + 1
      BY <1>2, <2>3
    <3> QED
      BY <1>0, <1>2, <2>3, <3>1, Zenon DEF Slot
  <2>4. CASE k > L + 1
    <3>1. k # 0 /\ ~(k <= L + 1) /\ ~(k <= L) /\ k # L + 1
      BY <1>2, <2>4
    <3> QED
      BY <1>0, <1>2, <3>1, Zenon DEF Slot, L
  <2> QED
    BY <1>2, <2>1, <2>2, <2>3, <2>4
<1>4. L + 1 \in Nat \ {0}
  BY <1>2
<1> QED
  BY <1>3, <1>4, Zenon DEF L

\* A worker that is done with its batch.
LEMMA BatchIsDone ==
  ASSUME NEW x, NEW y, NEW xx, NEW yy, xx.chan = x.chan, Rest(xx) = Rest(x), yy.batch = NoData
  PROVE  /\ Slot(xx, yy, 0) = NoData /\ \A k \in Nat \ {0} : Slot(xx, yy, k) = Slot(x, y, k)
         /\ Moved(x, y, xx, yy, 0)
<1>1. Slot(xx, yy, 0) = NoData /\ \A k \in Nat \ {0} : Slot(xx, yy, k) = Slot(x, y, k)
  BY Zenon DEF Slot
<1>2. \A k \in Nat : k + 0 = k
  OBVIOUS
<1> QED
  BY <1>1, <1>2, Zenon DEF Moved

\* A lane that stays.
LEMMA LaneStill ==
  ASSUME NEW x, NEW y, NEW xx, NEW yy, xx.chan = x.chan, Rest(xx) = Rest(x), yy.batch = y.batch
  PROVE  AllMoved(x, y, xx, yy, 0)
<1>1. \A k \in Nat : k + 0 = k
  OBVIOUS
<1>2. \A k : Slot(xx, yy, k) = Slot(x, y, k)
  BY Zenon DEF Slot
<1>3. 0 # 1
  OBVIOUS
<1> QED
  BY <1>1, <1>2, <1>3, Zenon DEF AllMoved

-------------------------------------------------------------------------------
(* All shards *)

\* The fields of the state.
LEMMA QueueFields ==
  ASSUME QueueType
  PROVE  /\ feed.next \in Nat /\ feed.accepted \in SUBSET Nat /\ feed.quit \in BOOLEAN
         /\ sh.n \in Nat \ {0} /\ sh.soft \in BOOLEAN /\ sh.hard \in BOOLEAN
         /\ DOMAIN queue = 0 .. sh.n - 1 /\ DOMAIN worker = DOMAIN queue
         /\ \A i \in DOMAIN queue : queue[i] \in QueueRecords /\ worker[i] \in WorkerRecords
         /\ stopper.who \in {"none", "reshard", "stop"} /\ stopper.pc \in StopPcs /\ stopper.n \in Nat \ {0}
         /\ remote.got \in Seq(Nat) /\ remote.acked \in SUBSET Nat
         /\ tally.pending \in Int /\ tally.enqueued \in Int /\ tally.failed \in Int
         /\ tally.reshards \in Nat /\ tally.lost \in Nat
<1>1. feed.next \in Nat /\ feed.accepted \in SUBSET Nat /\ feed.quit \in BOOLEAN
  BY Zenon DEF QueueType
<1>2. sh.n \in Nat \ {0} /\ sh.soft \in BOOLEAN /\ sh.hard \in BOOLEAN
  BY Zenon DEF QueueType
<1>3. DOMAIN queue = 0 .. sh.n - 1 /\ DOMAIN worker = DOMAIN queue
  BY Zenon DEF QueueType
<1>4. \A i \in DOMAIN queue : queue[i] \in QueueRecords /\ worker[i] \in WorkerRecords
  BY <1>3, Zenon DEF QueueType
<1>5. stopper.who \in {"none", "reshard", "stop"} /\ stopper.pc \in StopPcs /\ stopper.n \in Nat \ {0}
  BY Zenon DEF QueueType
<1>6. remote.got \in Seq(Nat) /\ remote.acked \in SUBSET Nat
  BY Zenon DEF QueueType
<1>7. /\ tally.pending \in Int /\ tally.enqueued \in Int /\ tally.failed \in Int
      /\ tally.reshards \in Nat /\ tally.lost \in Nat
  BY Zenon DEF QueueType
<1> QED
  BY <1>1, <1>2, <1>3, <1>4, <1>5, <1>6, <1>7, Zenon

\* A step of one shard.
LEMMA OneShard ==
  ASSUME QueueType, NEW i \in DOMAIN queue, NEW x \in QueueRecords, NEW y \in WorkerRecords,
         queue' = [queue EXCEPT ![i] = x], worker' = [worker EXCEPT ![i] = y], sh' = sh
  PROVE  /\ queue' \in [0 .. sh'.n - 1 -> QueueRecords] /\ worker' \in [0 .. sh'.n - 1 -> WorkerRecords]
         /\ DOMAIN queue' = DOMAIN queue /\ queue'[i] = x /\ worker'[i] = y
         /\ \A j \in DOMAIN queue : j # i => queue'[j] = queue[j] /\ worker'[j] = worker[j]
<1>1. queue \in [0 .. sh.n - 1 -> QueueRecords] /\ worker \in [0 .. sh.n - 1 -> WorkerRecords] /\ i \in 0 .. sh.n - 1
  BY Zenon DEF QueueType
<1> QED
  BY <1>1, Zenon

\* Data in different lanes are different.
LEMMA LanesApart ==
  ASSUME LaneInv, NEW i, NEW j, NEW k, NEW a, NEW l, NEW b, NEW d, NEW e, Has(i, k, a, d), Has(j, l, b, e),
         Data[d].ref = Data[e].ref
  PROVE  i = j
<1>1. ShardOf(d) = i /\ ShardOf(e) = j
  BY Zenon DEF LaneInv
<1> QED
  BY <1>1, Zenon DEF ShardOf

\* What was delivered in order stays so when the endpoint gets nothing.
LEMMA DeliveredStays ==
  ASSUME DeliveredOldestFirst, remote' = remote
  PROVE  DeliveredOldestFirst'
BY ZenonT(60) DEF DeliveredOldestFirst

\* Steps that only move lanes on.
LanesMoved == \A i \in DOMAIN queue : \E c \in {0, 1} : Moved(queue[i], worker[i], queue'[i], worker'[i], c)

\* Lanes that only move on stay in order, and so do the data delivered.
LEMMA LanesMove ==
  ASSUME QueueType, QueueType', LaneInv, SentInv, LanesMoved, DOMAIN queue' = DOMAIN queue, sh'.n = sh.n,
         feed'.next >= feed.next, remote' = remote
  PROVE  LaneInv' /\ SentInv'
<1>1. feed.next \in Nat /\ feed'.next \in Nat
  BY QueueFields, Zenon DEF QueueType
<1>2. ASSUME NEW i \in DOMAIN queue
      PROVE  \E c \in {0, 1} : \A k, a, d : Has(i, k, a, d)' => Has(i, k + c, a, d)
  <2>1. PICK c \in {0, 1} : Moved(queue[i], worker[i], queue'[i], worker'[i], c)
    BY Zenon DEF LanesMoved
  <2>2. \A k, a, d : Holds(queue'[i], worker'[i], k, a, d) => Holds(queue[i], worker[i], k + c, a, d)
    BY <2>1, HoldsMoved, Zenon
  <2> QED
    BY <2>2, Zenon DEF Has
<1>3. \A i, k, a, d : Has(i, k, a, d)' => i \in DOMAIN queue /\ k \in Nat /\ \E l : Has(i, l, a, d) /\ (k # 0 => l # 0)
  <2>1. SUFFICES ASSUME NEW i, NEW k, NEW a, NEW d, Has(i, k, a, d)'
                 PROVE  i \in DOMAIN queue /\ k \in Nat /\ \E l : Has(i, l, a, d) /\ (k # 0 => l # 0)
    BY Zenon
  <2>2. i \in DOMAIN queue /\ k \in Nat
    BY <2>1, Zenon DEF Has, Holds
  <2>3. PICK c \in {0, 1} : \A q, b, e : Has(i, q, b, e)' => Has(i, q + c, b, e)
    BY <1>2, <2>2, Zenon
  <2>4. k # 0 => k + c # 0
    BY <2>2
  <2> QED
    BY <2>1, <2>2, <2>3, <2>4, Zenon
<1>4. \A d : (Got(d)' <=> Got(d)) /\ (Newest(d)' <=> Newest(d)) /\ (ShardOf(d)' = ShardOf(d))
  BY Zenon DEF Got, Newest, ShardOf
<1>5. \A d \in Nat : d < feed.next => d < feed'.next
  BY <1>1
<1>6. ASSUME NEW i, NEW k, NEW a, NEW d, Has(i, k, a, d)'
      PROVE  d \in DOMAIN Data /\ d < feed'.next /\ ShardOf(d)' = i
  <2>1. d \in DOMAIN Data /\ d < feed.next /\ ShardOf(d) = i
    BY <1>3, <1>6, ZenonT(40) DEF LaneInv
  <2>2. d \in Nat
    BY <2>1, RemoteQueueAssumption
  <2> QED
    BY <1>4, <1>5, <2>1, <2>2, Zenon
<1>7. ASSUME NEW i, NEW k, NEW a, NEW d, NEW l, NEW b, NEW e, Has(i, k, a, d)', Has(i, l, b, e)', k < l \/ (k = l /\ a < b)
      PROVE  d < e
  <2>1. i \in DOMAIN queue /\ k \in Nat /\ l \in Nat
    BY <1>3, <1>7, Zenon
  <2>2. PICK c \in {0, 1} : \A q, z, f : Has(i, q, z, f)' => Has(i, q + c, z, f)
    BY <1>2, <2>1, Zenon
  <2>3. (k < l => k + c < l + c) /\ (k = l => k + c = l + c)
    BY <2>1
  <2> QED
    BY <1>7, <2>2, <2>3, ZenonT(40) DEF LaneInv
<1>8. LaneInv'
  BY <1>6, <1>7, Zenon DEF LaneInv
<1>9. \A d : Got(d)' => d \in DOMAIN Data /\ d < feed'.next
  <2>1. \A d : Got(d) => d \in DOMAIN Data /\ d < feed.next
    BY Zenon DEF SentInv
  <2>2. \A d \in DOMAIN Data : d \in Nat
    BY RemoteQueueAssumption
  <2> QED
    BY <1>4, <1>5, <2>1, <2>2, Zenon
<1>10. \A i, k, a, d : Has(i, k, a, d)' /\ k # 0 => Newest(d)'
  <2>1. \A i, k, a, d : Has(i, k, a, d) /\ k # 0 => Newest(d)
    BY Zenon DEF SentInv
  <2> QED
    BY <1>3, <1>4, <2>1, Zenon
<1>11. \A d \in remote.acked : Got(d)
  BY Zenon DEF SentInv
<1>12. ASSUME NEW i, NEW a, NEW d, Has(i, 0, a, d)'
       PROVE  (Newest(d)' \/ Got(d)') /\ d \notin remote'.acked
  <2>1. PICK l : Has(i, l, a, d)
    BY <1>3, <1>12, Zenon
  <2>2. CASE l = 0
    <3>1. (Newest(d) \/ Got(d)) /\ d \notin remote.acked
      BY <2>1, <2>2, Zenon DEF SentInv
    <3> QED
      BY <1>4, <3>1, Zenon
  <2>3. CASE l # 0
    <3>1. Newest(d)
      BY <2>1, <2>3, Zenon DEF SentInv
    <3>2. d \in Nat
      BY <1>6, <1>12, RemoteQueueAssumption
    <3>3. ~Got(d)
      <4>1. ~(d < d)
        BY <3>2
      <4> QED
        BY <3>1, <4>1, Zenon DEF Newest
    <3> QED
      BY <1>4, <1>11, <3>1, <3>3, Zenon
  <2> QED
    BY <2>2, <2>3, Zenon
<1>13. DeliveredOldestFirst'
  BY DeliveredStays, Zenon DEF SentInv
<1>14. \A d \in remote'.acked : Got(d)'
  BY <1>4, <1>11, Zenon
<1> QED
  BY <1>8, <1>9, <1>10, <1>12, <1>13, <1>14, Zenon DEF SentInv

\* What is in flight is in the lane of a shard that runs.
LEMMA FlightIs ==
  ASSUME QueueType
  PROVE  \A d : d \in InFlight <=> \E i \in DOMAIN queue : worker[i].pc # "exit" /\ InLane(queue[i], worker[i], d)
<1>1. \A i \in DOMAIN queue : \A d : d \in LaneSet(queue[i], worker[i]) <=> InLane(queue[i], worker[i], d)
  BY QueueFields, LaneIsSet, Zenon
<1>2. InFlight = UNION {LaneSet(queue[i], worker[i]) : i \in {k \in DOMAIN queue : worker[k].pc # "exit"}}
  BY Zenon DEF InFlight, Waiting, LaneSet
<1> QED
  BY <1>1, <1>2, Zenon

\* The same of the next state.
LEMMA FlightIsNext ==
  ASSUME QueueType'
  PROVE  \A d : d \in InFlight' <=> \E i \in DOMAIN queue' : worker'[i].pc # "exit" /\ InLane(queue'[i], worker'[i], d)
<1>1. \A i \in DOMAIN queue' : queue'[i] \in QueueRecords /\ worker'[i] \in WorkerRecords
  BY Zenon DEF QueueType
<1>2. \A i \in DOMAIN queue' : \A d : d \in LaneSet(queue'[i], worker'[i]) <=> InLane(queue'[i], worker'[i], d)
  BY <1>1, LaneIsSet, Zenon
<1>3. InFlight' = UNION {LaneSet(queue'[i], worker'[i]) : i \in {k \in DOMAIN queue' : worker'[k].pc # "exit"}}
  BY Zenon DEF InFlight, Waiting, LaneSet
<1> QED
  BY <1>2, <1>3, Zenon

\* Numbers below a bound.
LEMMA BelowIsFinite ==
  ASSUME NEW S, NEW n \in Nat, \A d \in S : d \in Nat /\ d < n
  PROVE  IsFiniteSet(S) /\ Cardinality(S) \in Nat
<1>1. S \in SUBSET Nat /\ \A d \in S : d <= n
  OBVIOUS
<1>2. IsFiniteSet(S)
  BY <1>1, FS_BoundedSetOfNaturals, Zenon
<1> QED
  BY <1>2, FS_CardinalityType, Zenon

\* What is in flight was fed.
LEMMA FlightIsFed ==
  ASSUME QueueType, LaneInv
  PROVE  \A d \in InFlight : d \in Nat /\ d < feed.next
<1>1. \A d \in InFlight : d \in DOMAIN Data /\ d < feed.next
  BY FlightIs, Zenon DEF InLane, LaneInv, Has
<1>2. \A d \in DOMAIN Data : d \in Nat
  BY RemoteQueueAssumption
<1> QED
  BY <1>1, <1>2, Zenon

\* A step that changes nothing in flight.
LEMMA FlightStays ==
  ASSUME QueueType, QueueType', DOMAIN queue' = DOMAIN queue,
         \A i \in DOMAIN queue : \A d :
           (worker'[i].pc # "exit" /\ InLane(queue'[i], worker'[i], d)) <=> (worker[i].pc # "exit" /\ InLane(queue[i], worker[i], d))
  PROVE  InFlight' = InFlight
<1>1. \A d : d \in InFlight <=> \E i \in DOMAIN queue : worker[i].pc # "exit" /\ InLane(queue[i], worker[i], d)
  BY FlightIs, Zenon
<1>2. \A d : d \in InFlight' <=> \E i \in DOMAIN queue' : worker'[i].pc # "exit" /\ InLane(queue'[i], worker'[i], d)
  BY FlightIsNext, Zenon
<1>3. \A d : d \in InFlight' <=> d \in InFlight
  BY <1>1, <1>2, Zenon
<1> QED
  BY <1>3, Zenon

\* The counters are right after it.
LEMMA CountStays ==
  ASSUME PendingIsExact, InFlight' = InFlight, sh'.hard = sh.hard \/ sh'.hard,
         tally'.pending = tally.pending, tally'.enqueued = tally.enqueued
  PROVE  PendingIsExact'
BY Zenon DEF PendingIsExact

\* A step of one shard that moves its lane on.
ShardStep(i, x, y) ==
  /\ i \in DOMAIN queue /\ x \in QueueRecords /\ y \in WorkerRecords
  /\ queue' = [queue EXCEPT ![i] = x] /\ worker' = [worker EXCEPT ![i] = y]
  /\ sh' = sh /\ stopper' = stopper /\ remote' = remote /\ feed' = feed
  /\ tally' \in [pending : Int, enqueued : Int, failed : Int, reshards : Nat, lost : Nat]
  /\ ShardShut(x, y)

\* Such a step keeps everything but the counts.
LEMMA ShardKeeps ==
  ASSUME QueueInv, NEW i, NEW x, NEW y, NEW c \in {0, 1}, ShardStep(i, x, y), Moved(queue[i], worker[i], x, y, c)
  PROVE  /\ QueueType' /\ ShutInv' /\ LaneInv' /\ SentInv'
         /\ DOMAIN queue' = DOMAIN queue /\ queue'[i] = x /\ worker'[i] = y
         /\ \A j \in DOMAIN queue : j # i => queue'[j] = queue[j] /\ worker'[j] = worker[j]
<1>0. /\ i \in DOMAIN queue /\ x \in QueueRecords /\ y \in WorkerRecords
      /\ queue' = [queue EXCEPT ![i] = x] /\ worker' = [worker EXCEPT ![i] = y]
      /\ sh' = sh /\ stopper' = stopper /\ remote' = remote /\ feed' = feed
      /\ tally' \in [pending : Int, enqueued : Int, failed : Int, reshards : Nat, lost : Nat]
      /\ ShardShut(x, y)
  BY Zenon DEF ShardStep
<1>1. QueueType /\ ShutInv /\ LaneInv /\ SentInv
  BY Zenon DEF QueueInv
<1>2. /\ queue' \in [0 .. sh'.n - 1 -> QueueRecords] /\ worker' \in [0 .. sh'.n - 1 -> WorkerRecords]
      /\ DOMAIN queue' = DOMAIN queue /\ queue'[i] = x /\ worker'[i] = y
      /\ \A j \in DOMAIN queue : j # i => queue'[j] = queue[j] /\ worker'[j] = worker[j]
  BY <1>0, <1>1, OneShard, Zenon
<1>3. QueueType'
  BY <1>0, <1>1, <1>2, Zenon DEF QueueType
<1>4. ShutInv'
  <2>1. ASSUME NEW j \in DOMAIN queue
        PROVE  ShardShut(queue[j], worker[j])' 
    <3>1. ShardShut(queue[j], worker[j])
      BY <1>1, Zenon DEF ShutInv
    <3>2. CASE j = i
      BY <1>0, <1>2, <3>2, Zenon DEF ShardShut
    <3>3. CASE j # i
      BY <1>0, <1>2, <3>1, <3>3, Zenon DEF ShardShut
    <3> QED
      BY <3>2, <3>3, Zenon
  <2> QED
    BY <1>0, <1>1, <1>2, <2>1, Zenon DEF ShutInv
<1>5. LanesMoved
  <2>1. ASSUME NEW j \in DOMAIN queue, j # i
        PROVE  \E e \in {0, 1} : Moved(queue[j], worker[j], queue'[j], worker'[j], e)
    <3>1. AllMoved(queue[j], worker[j], queue'[j], worker'[j], 0)
      BY <1>2, <2>1, LaneStill, Zenon
    <3>2. Moved(queue[j], worker[j], queue'[j], worker'[j], 0)
      BY <3>1, Zenon DEF AllMoved, Moved
    <3> QED
      BY <3>2, Zenon
  <2> QED
    BY <1>2, <2>1, Zenon DEF LanesMoved
<1>6. feed'.next >= feed.next
  <2>1. feed.next \in Nat /\ feed'.next = feed.next
    BY <1>0, <1>1, QueueFields, Zenon
  <2> QED
    BY <2>1
<1> QED
  BY <1>0, <1>1, <1>2, <1>3, <1>4, <1>5, <1>6, LanesMove, Zenon

\* The same when the lane moves as a whole: what is in flight stays, unless the
\* shard ends with an empty lane.
EndsEmpty(u, x, y) == (u.pc = "exit" <=> y.pc = "exit") \/ \A d : ~InLane(x, y, d)

\* It keeps the counts as well.
LEMMA ShardMoves ==
  ASSUME QueueInv, NEW i, NEW x, NEW y, NEW c \in {0, 1}, ShardStep(i, x, y), AllMoved(queue[i], worker[i], x, y, c),
         tally' = tally, EndsEmpty(worker[i], x, y)
  PROVE  QueueInv'
<1>1. QueueType /\ PendingIsExact
  BY Zenon DEF QueueInv
<1>2. Moved(queue[i], worker[i], x, y, c) /\ \A d : InLane(x, y, d) <=> InLane(queue[i], worker[i], d)
  BY LaneMoved, Zenon
<1>3. i \in DOMAIN queue /\ sh' = sh
  BY Zenon DEF ShardStep
<1>4. /\ QueueType' /\ ShutInv' /\ LaneInv' /\ SentInv'
      /\ DOMAIN queue' = DOMAIN queue /\ queue'[i] = x /\ worker'[i] = y
      /\ \A j \in DOMAIN queue : j # i => queue'[j] = queue[j] /\ worker'[j] = worker[j]
  BY <1>2, ShardKeeps, Zenon
<1>5. \A j \in DOMAIN queue : \A d :
        (worker'[j].pc # "exit" /\ InLane(queue'[j], worker'[j], d)) <=> (worker[j].pc # "exit" /\ InLane(queue[j], worker[j], d))
  BY <1>2, <1>4, Zenon DEF EndsEmpty
<1>6. InFlight' = InFlight
  BY <1>1, <1>4, <1>5, FlightStays, Zenon
<1>7. PendingIsExact'
  BY <1>1, <1>3, <1>6, CountStays, Zenon
<1> QED
  BY <1>4, <1>7, Zenon DEF QueueInv

-------------------------------------------------------------------------------
(* The shards *)

\* What is known of a shard at a step.
LEMMA ShardFacts ==
  ASSUME QueueInv, NEW i \in DOMAIN queue
  PROVE  /\ queue[i] \in QueueRecords /\ worker[i] \in WorkerRecords /\ ShardShut(queue[i], worker[i])
         /\ queue[i].batch \in Seq(Nat) /\ queue[i].chan \in Seq(Seq(Nat)) /\ worker[i].batch \in Seq(Nat)
         /\ tally \in [pending : Int, enqueued : Int, failed : Int, reshards : Nat, lost : Nat]
         /\ tally.pending \in Int /\ tally.enqueued \in Int /\ tally.failed \in Int
<1>1. QueueType /\ queue[i] \in QueueRecords /\ worker[i] \in WorkerRecords
  BY QueueFields, Zenon DEF QueueInv
<1>2. ShardShut(queue[i], worker[i]) /\ tally \in [pending : Int, enqueued : Int, failed : Int, reshards : Nat, lost : Nat]
  BY Zenon DEF QueueInv, ShutInv, QueueType
<1>3. queue[i].batch \in Seq(Nat) /\ queue[i].chan \in Seq(Seq(Nat)) /\ worker[i].batch \in Seq(Nat)
  BY <1>1, RecordFields, Zenon
<1>4. tally.pending \in Int /\ tally.enqueued \in Int /\ tally.failed \in Int
  BY <1>1, QueueFields, Zenon
<1> QED
  BY <1>1, <1>2, <1>3, <1>4, Zenon

\* A queue or a worker that a step leaves alone.
LEMMA SameShard ==
  ASSUME QueueInv, NEW i \in DOMAIN queue
  PROVE  queue = [queue EXCEPT ![i] = queue[i]] /\ worker = [worker EXCEPT ![i] = worker[i]]
<1>1. queue \in [0 .. sh.n - 1 -> QueueRecords] /\ worker \in [0 .. sh.n - 1 -> WorkerRecords]
  BY Zenon DEF QueueInv, QueueType
<1> QED
  BY <1>1, Zenon

\* runShard takes a full batch.
LEMMA TakeFullKeeps ==
  ASSUME QueueInv, NEW i \in DOMAIN queue, worker[i].pc = "select", queue[i].chan # << >>,
         worker' = [worker EXCEPT ![i] = [pc |-> "sending", batch |-> Head(queue[i].chan)]],
         queue' = [queue EXCEPT ![i] = [queue[i] EXCEPT !.chan = Tail(queue[i].chan)]],
         UNCHANGED <<feed, sh, stopper, remote, tally>>
  PROVE  QueueInv'
<1> DEFINE x == [queue[i] EXCEPT !.chan = Tail(queue[i].chan)]
           y == [pc |-> "sending", batch |-> Head(queue[i].chan)]
<1>1. /\ queue[i] \in QueueRecords /\ worker[i] \in WorkerRecords /\ ShardShut(queue[i], worker[i])
      /\ queue[i].chan \in Seq(Seq(Nat))
      /\ tally \in [pending : Int, enqueued : Int, failed : Int, reshards : Nat, lost : Nat]
  BY ShardFacts, Zenon
<1>2. Tail(queue[i].chan) \in Seq(Seq(Nat)) /\ Head(queue[i].chan) \in Seq(Nat)
  BY <1>1
<1>3. /\ x \in QueueRecords /\ x.chan = Tail(queue[i].chan) /\ x.batch = queue[i].batch
      /\ x.flush = queue[i].flush /\ x.closed = queue[i].closed
  BY <1>1, <1>2, Zenon DEF QueueRecords
<1>4. y \in WorkerRecords /\ y.pc = "sending" /\ y.batch = Head(queue[i].chan)
  BY <1>2, Zenon DEF WorkerRecords
<1>5. queue' = [queue EXCEPT ![i] = x] /\ worker' = [worker EXCEPT ![i] = y]
  BY Zenon
<1> HIDE DEF x, y
<1>6. worker[i].batch = NoData /\ ShardShut(x, y)
  BY <1>1, <1>3, <1>4, Zenon DEF ShardShut
<1>7. ShardStep(i, x, y)
  BY <1>1, <1>3, <1>4, <1>5, <1>6, Zenon DEF ShardStep
<1>8. AllMoved(queue[i], worker[i], x, y, 1)
  BY <1>1, <1>3, <1>4, <1>6, TakesFull, Zenon
<1>9. EndsEmpty(worker[i], x, y)
  BY <1>4, Zenon DEF EndsEmpty
<1>10. 1 \in {0, 1} /\ tally' = tally
  OBVIOUS
<1> QED
  BY <1>7, <1>8, <1>9, <1>10, ShardMoves, Zenon

\* The deadline takes the partial batch.
LEMMA TakePartialKeeps ==
  ASSUME QueueInv, NEW i \in DOMAIN queue, worker[i].pc = "select", queue[i].chan = << >>, queue[i].flush # "clear",
         worker' = [worker EXCEPT ![i] = [pc |-> "sending", batch |-> queue[i].batch]],
         queue' = [queue EXCEPT ![i] = [queue[i] EXCEPT !.batch = NoData]],
         UNCHANGED <<feed, sh, stopper, remote, tally>>
  PROVE  QueueInv'
<1> DEFINE x == [queue[i] EXCEPT !.batch = NoData]
           y == [pc |-> "sending", batch |-> queue[i].batch]
<1>1. /\ queue[i] \in QueueRecords /\ worker[i] \in WorkerRecords /\ ShardShut(queue[i], worker[i])
      /\ queue[i].batch \in Seq(Nat)
      /\ tally \in [pending : Int, enqueued : Int, failed : Int, reshards : Nat, lost : Nat]
  BY ShardFacts, Zenon
<1>2. NoData \in Seq(Nat)
  BY NoDataFacts, Zenon
<1>3. /\ x \in QueueRecords /\ x.chan = queue[i].chan /\ x.batch = NoData
      /\ x.flush = queue[i].flush /\ x.closed = queue[i].closed
  BY <1>1, <1>2, Zenon DEF QueueRecords
<1>4. y \in WorkerRecords /\ y.pc = "sending" /\ y.batch = queue[i].batch
  BY <1>1, Zenon DEF WorkerRecords
<1>5. queue' = [queue EXCEPT ![i] = x] /\ worker' = [worker EXCEPT ![i] = y]
  BY Zenon
<1> HIDE DEF x, y
<1>6. worker[i].batch = NoData /\ ShardShut(x, y)
  BY <1>1, <1>3, <1>4, Zenon DEF ShardShut
<1>7. ShardStep(i, x, y)
  BY <1>1, <1>3, <1>4, <1>5, <1>6, Zenon DEF ShardStep
<1>8. AllMoved(queue[i], worker[i], x, y, 1)
  BY <1>1, <1>3, <1>4, <1>6, TakesPartial, Zenon
<1>9. EndsEmpty(worker[i], x, y)
  BY <1>4, Zenon DEF EndsEmpty
<1>10. 1 \in {0, 1} /\ tally' = tally
  OBVIOUS
<1> QED
  BY <1>7, <1>8, <1>9, <1>10, ShardMoves, Zenon

\* runShard takes a batch, of the channel or at the deadline.
LEMMA TakeKeeps ==
  ASSUME QueueInv, NEW i \in DOMAIN queue, TakeBatch(i) \/ (queue[i].flush # "clear" /\ TimerFires(i))
  PROVE  QueueInv'
<1>1. CASE TakeBatch(i)
  <2>1. /\ worker[i].pc = "select" /\ queue[i].chan # << >>
        /\ worker' = [worker EXCEPT ![i] = [pc |-> "sending", batch |-> Head(queue[i].chan)]]
        /\ queue' = [queue EXCEPT ![i] = [queue[i] EXCEPT !.chan = Tail(queue[i].chan)]]
        /\ UNCHANGED <<feed, sh, stopper, remote, tally>>
    BY <1>1, Zenon DEF TakeBatch, Sends
  <2> QED
    BY <2>1, TakeFullKeeps, Zenon
<1>2. CASE queue[i].flush # "clear" /\ TimerFires(i) /\ queue[i].chan # << >>
  <2>1. /\ worker[i].pc = "select" /\ queue[i].chan # << >>
        /\ worker' = [worker EXCEPT ![i] = [pc |-> "sending", batch |-> Head(queue[i].chan)]]
        /\ queue' = [queue EXCEPT ![i] = [queue[i] EXCEPT !.chan = Tail(queue[i].chan)]]
        /\ UNCHANGED <<feed, sh, stopper, remote, tally>>
    <3>1. /\ worker[i].pc = "select"
          /\ worker' = [worker EXCEPT ![i] = [pc |-> "sending", batch |-> Head(queue[i].chan)]]
          /\ UNCHANGED <<feed, sh, stopper, remote, tally>>
      BY <1>2, Zenon DEF TimerFires, Sends
    <3>2. queue' = [queue EXCEPT ![i] = [queue[i] EXCEPT !.chan = Tail(queue[i].chan)]]
      BY <1>2, Zenon DEF TimerFires
    <3> QED
      BY <1>2, <3>1, <3>2, Zenon
  <2> QED
    BY <2>1, TakeFullKeeps, Zenon
<1>3. CASE queue[i].flush # "clear" /\ TimerFires(i) /\ queue[i].chan = << >>
  <2>1. /\ worker[i].pc = "select" /\ queue[i].chan = << >>
        /\ worker' = [worker EXCEPT ![i] = [pc |-> "sending", batch |-> queue[i].batch]]
        /\ queue' = [queue EXCEPT ![i] = [queue[i] EXCEPT !.batch = NoData]]
        /\ UNCHANGED <<feed, sh, stopper, remote, tally>>
    BY <1>3, Zenon DEF TimerFires, Sends, NoData
  <2> QED
    BY <1>3, <2>1, TakePartialKeeps, Zenon
<1> QED
  BY <1>1, <1>2, <1>3, Zenon

\* runShard ends when the channel is closed and empty: its lane is empty.
LEMMA ShardDoneKeeps ==
  ASSUME QueueInv, NEW i \in DOMAIN queue, ShardDone(i)
  PROVE  QueueInv'
<1> DEFINE x == queue[i]
           y == [worker[i] EXCEPT !.pc = "exit"]
<1>1. /\ worker[i].pc = "select" /\ queue[i].closed /\ queue[i].chan = << >>
      /\ worker' = [worker EXCEPT ![i].pc = "exit"] /\ queue' = queue
      /\ feed' = feed /\ sh' = sh /\ stopper' = stopper /\ remote' = remote /\ tally' = tally
  BY Zenon DEF ShardDone
<1>2. /\ queue[i] \in QueueRecords /\ worker[i] \in WorkerRecords /\ ShardShut(queue[i], worker[i])
      /\ tally \in [pending : Int, enqueued : Int, failed : Int, reshards : Nat, lost : Nat]
  BY ShardFacts, Zenon
<1>3. y \in WorkerRecords /\ y.pc = "exit" /\ y.batch = worker[i].batch
  BY <1>2, Zenon DEF WorkerRecords
<1>4. queue' = [queue EXCEPT ![i] = x] /\ worker' = [worker EXCEPT ![i] = y]
  BY <1>1, SameShard, Zenon
<1>5. x = queue[i] /\ queue[i].chan = NoData
  BY <1>1, Zenon DEF NoData
<1> HIDE DEF x, y
<1>6. worker[i].batch = NoData /\ ShardShut(x, y)
  BY <1>1, <1>2, <1>3, <1>5, Zenon DEF ShardShut
<1>7. ShardStep(i, x, y)
  BY <1>1, <1>2, <1>3, <1>4, <1>5, <1>6, Zenon DEF ShardStep
<1>8. AllMoved(queue[i], worker[i], x, y, 0)
  BY <1>3, <1>5, LaneStill, Zenon
<1>9. EndsEmpty(worker[i], x, y)
  <2>1. Rest(x) = NoData
    BY <1>1, <1>2, <1>5, Zenon DEF ShardShut, Rest
  <2>2. \A k \in Nat : k # 0 => ~(k <= 0)
    OBVIOUS
  <2>3. Len(x.chan) = 0
    BY <1>5, NoDataFacts, Zenon
  <2>4. \A k \in Nat : Slot(x, y, k) = NoData
    BY <1>3, <1>6, <2>1, <2>2, <2>3, Zenon DEF Slot
  <2> QED
    BY <2>4, NoDataFacts, Zenon DEF EndsEmpty, InLane, Holds
<1>10. 0 \in {0, 1}
  OBVIOUS
<1> QED
  BY <1>1, <1>7, <1>8, <1>9, <1>10, ShardMoves, Zenon

-------------------------------------------------------------------------------
(* The end of a batch *)

\* An ascending sequence has as many elements as places.
LEMMA AscendingCount ==
  ASSUME NEW s \in Seq(Nat), \A a, b \in 1 .. Len(s) : a < b => s[a] < s[b]
  PROVE  IsFiniteSet(Range(s)) /\ Cardinality(Range(s)) = Len(s)
<1> DEFINE D == 1 .. Len(s)
<1>1. Len(s) \in Nat /\ DOMAIN s = D /\ s \in [D -> Nat]
  OBVIOUS
<1>2. Range(s) = {s[a] : a \in D}
  BY <1>1, Zenon DEF Range
<1>3. \A a, b \in D : s[a] = s[b] => a = b
  <2>1. SUFFICES ASSUME NEW a \in D, NEW b \in D, a # b
                 PROVE  s[a] # s[b]
    BY Zenon
  <2>2. a < b \/ b < a
    BY <1>1, <2>1
  <2>3. s[a] < s[b] \/ s[b] < s[a]
    BY <2>2, Zenon
  <2>4. s[a] \in Nat /\ s[b] \in Nat
    BY <1>1, Zenon
  <2> QED
    BY <2>3, <2>4
<1>4. IsFiniteSet(D) /\ Cardinality(D) = Len(s)
  <2>1. 1 \in Int /\ Len(s) \in Int
    <3> HIDE DEF D
    <3> QED
      BY <1>1
  <2>2. IsFiniteSet(D) /\ Cardinality(D) = IF 1 > Len(s) THEN 0 ELSE Len(s) - 1 + 1
    BY <2>1, FS_Interval, Zenon
  <2> HIDE DEF D
  <2> QED
    BY <1>1, <2>2
<1> HIDE DEF D
<1>5. s \in [D -> Range(s)] /\ \A v \in Range(s) : \E a \in D : s[a] = v
  BY <1>1, <1>2, Zenon
<1>6. s \in Bijection(D, Range(s))
  BY <1>3, <1>5, Zenon DEF Bijection, Injection, Surjection, IsInjective
<1>7. ExistsBijection(D, Range(s))
  BY <1>6, Zenon DEF ExistsBijection
<1> QED
  BY <1>4, <1>7, FS_Bijection, Zenon

\* When a worker is done with its batch, that many data leave what is in flight.
LEMMA BatchLeaves ==
  ASSUME QueueInv, QueueType', NEW i \in DOMAIN queue, worker[i].pc = "sending", DOMAIN queue' = DOMAIN queue,
         queue'[i] = queue[i], worker'[i].pc = "select", worker'[i].batch = NoData,
         \A j \in DOMAIN queue : j # i => queue'[j] = queue[j] /\ worker'[j] = worker[j]
  PROVE  Cardinality(InFlight') = Cardinality(InFlight) - Len(worker[i].batch)
<1> DEFINE x == queue[i]
           y == worker[i]
           yy == worker'[i]
           B == Range(worker[i].batch)
<1>1. QueueType /\ LaneInv /\ y.batch \in Seq(Nat) /\ y.pc # "exit" /\ yy.pc # "exit" /\ yy.batch = NoData
  <2>1. QueueType /\ LaneInv /\ y.batch \in Seq(Nat)
    BY ShardFacts, Zenon DEF QueueInv
  <2> QED
    BY <2>1, Zenon
<1>2. \A d : d \in InFlight <=> \E j \in DOMAIN queue : worker[j].pc # "exit" /\ InLane(queue[j], worker[j], d)
  BY <1>1, FlightIs, Zenon
<1>3. \A d : d \in InFlight' <=> \E j \in DOMAIN queue' : worker'[j].pc # "exit" /\ InLane(queue'[j], worker'[j], d)
  BY FlightIsNext, Zenon
<1>4. Slot(x, yy, 0) = NoData /\ \A k \in Nat \ {0} : Slot(x, yy, k) = Slot(x, y, k)
  BY <1>1, Zenon DEF Slot
<1>5. Slot(x, y, 0) = y.batch /\ 0 \in Nat
  <2>1. 0 \in Nat
    OBVIOUS
  <2> QED
    BY <2>1, Zenon DEF Slot
<1>6. \A d : d \in B <=> \E a \in 1 .. Len(y.batch) : y.batch[a] = d
  BY <1>1 DEF Range
<1> HIDE DEF B
<1>7. \A d : d \in B <=> \E a : Holds(x, y, 0, a, d)
  BY <1>5, <1>6, Zenon DEF Holds
<1>8. \A k, a, d : Holds(x, yy, k, a, d) <=> Holds(x, y, k, a, d) /\ k # 0
  <2>1. \A k, a, d : Holds(x, yy, k, a, d) => k # 0
    BY <1>4, NoDataFacts, Zenon DEF Holds
  <2> QED
    BY <1>4, <2>1, Zenon DEF Holds
<1>9. ASSUME NEW d \in InFlight
      PROVE  d \in InFlight' \cup B
  <2>1. PICK j \in DOMAIN queue : worker[j].pc # "exit" /\ InLane(queue[j], worker[j], d)
    BY <1>2, Zenon
  <2>2. CASE j # i
    BY <1>3, <2>1, <2>2, Zenon
  <2>3. CASE j = i
    <3>1. PICK k, a : Holds(x, y, k, a, d)
      BY <2>1, <2>3, Zenon DEF InLane
    <3>2. CASE k = 0
      BY <1>7, <3>1, <3>2, Zenon
    <3>3. CASE k # 0
      <4>1. InLane(queue'[i], worker'[i], d)
        BY <1>8, <3>1, <3>3, Zenon DEF InLane
      <4> QED
        BY <1>1, <1>3, <4>1, Zenon
    <3> QED
      BY <3>2, <3>3, Zenon
  <2> QED
    BY <2>2, <2>3, Zenon
<1>10. ASSUME NEW d \in InFlight'
       PROVE  d \in InFlight /\ d \notin B
  <2>1. PICK j \in DOMAIN queue : worker'[j].pc # "exit" /\ InLane(queue'[j], worker'[j], d)
    BY <1>3, Zenon
  <2>2. CASE j # i
    <3>1. worker[j].pc # "exit" /\ InLane(queue[j], worker[j], d)
      BY <2>1, <2>2, Zenon
    <3>2. PICK k, a : Has(j, k, a, d)
      BY <3>1, Zenon DEF InLane, Has
    <3>3. ASSUME NEW b, Holds(x, y, 0, b, d)
          PROVE  FALSE
      <4>1. Has(i, 0, b, d)
        BY <3>3, Zenon DEF Has
      <4> QED
        BY <1>1, <2>2, <3>2, <4>1, LanesApart, Zenon
    <3> QED
      BY <1>2, <1>7, <3>1, <3>3, Zenon
  <2>3. CASE j = i
    <3>1. PICK k, a : Holds(x, y, k, a, d) /\ k # 0
      BY <1>8, <2>1, <2>3, Zenon DEF InLane
    <3>2. d \in InFlight
      BY <1>1, <1>2, <3>1, Zenon DEF InLane
    <3>3. ASSUME NEW b, Holds(x, y, 0, b, d)
          PROVE  FALSE
      <4>1. Has(i, 0, b, d) /\ Has(i, k, a, d) /\ k \in Nat
        BY <3>1, <3>3, Zenon DEF Has, Holds
      <4>2. 0 < k
        BY <3>1, <4>1
      <4>3. d < d /\ d \in DOMAIN Data
        BY <1>1, <4>1, <4>2, Zenon DEF LaneInv
      <4> QED
        BY <4>3, RemoteQueueAssumption
    <3> QED
      BY <1>7, <3>2, <3>3, Zenon
  <2> QED
    BY <2>2, <2>3, Zenon
<1>11. B \subseteq InFlight
  BY <1>1, <1>2, <1>7, Zenon DEF InLane
<1>12. InFlight = InFlight' \cup B /\ InFlight' \cap B = {}
  BY <1>9, <1>10, <1>11, Zenon
<1>13. IsFiniteSet(B) /\ Cardinality(B) = Len(y.batch) /\ Len(y.batch) \in Nat
  <2>1. \A a, b \in 1 .. Len(y.batch) : a < b => y.batch[a] < y.batch[b]
    <3>1. \A a \in 1 .. Len(y.batch) : Has(i, 0, a, y.batch[a])
      BY <1>5, Zenon DEF Has, Holds
    <3>2. SUFFICES ASSUME NEW a \in 1 .. Len(y.batch), NEW b \in 1 .. Len(y.batch), a < b
                   PROVE  y.batch[a] < y.batch[b]
      BY Zenon
    <3>3. Has(i, 0, a, y.batch[a]) /\ Has(i, 0, b, y.batch[b])
      BY <3>1, Zenon
    <3>4. \A d, e : Has(i, 0, a, d) /\ Has(i, 0, b, e) => d < e
      BY <1>1, <3>2, Zenon DEF LaneInv
    <3> QED
      BY <3>3, <3>4, Zenon
  <2>2. Len(y.batch) \in Nat
    BY <1>1
  <2> QED
    BY <1>1, <2>1, <2>2, AscendingCount, Zenon DEF B
<1>14. IsFiniteSet(InFlight') /\ Cardinality(InFlight') \in Nat
  <2>1. feed.next \in Nat /\ \A d \in InFlight : d \in Nat /\ d < feed.next
    BY <1>1, FlightIsFed, QueueFields, Zenon
  <2>2. \A d \in InFlight' : d \in Nat /\ d < feed.next
    BY <1>10, <2>1, Zenon
  <2> QED
    BY <2>1, <2>2, BelowIsFinite, Zenon
<1>15. Cardinality(InFlight) = Cardinality(InFlight') + Cardinality(B) - Cardinality({})
  <2>1. Cardinality(InFlight' \cup B) = Cardinality(InFlight') + Cardinality(B) - Cardinality(InFlight' \cap B)
    BY <1>13, <1>14, FS_Union, Zenon
  <2> QED
    BY <1>12, <2>1, Zenon
<1>16. Cardinality({}) = 0
  BY FS_EmptySet, Zenon
<1> QED
  <2>1. Cardinality(InFlight) = Cardinality(InFlight') + Len(y.batch) - 0
    BY <1>13, <1>15, <1>16, Zenon
  <2> HIDE DEF y
  <2>2. Cardinality(InFlight') = Cardinality(InFlight) - Len(y.batch)
    BY <1>13, <1>14, <2>1
  <2> QED
    BY <2>2, Zenon DEF y

\* A counter that changes by the size of a batch.
LEMMA CountType ==
  ASSUME NEW s \in Seq(Nat), NEW c \in Int
  PROVE  Len(s) \in Nat /\ c - Len(s) \in Int /\ c + Len(s) \in Int
OBVIOUS

\* sendSamples without an answer that the data were stored.
LEMMA GivenUpKeeps ==
  ASSUME QueueInv, NEW i \in DOMAIN queue, worker[i].pc = "sending", Settled(i, TRUE), remote' = remote
  PROVE  QueueInv'
<1> DEFINE n == Len(worker[i].batch)
           x == queue[i]
           y == [pc |-> "select", batch |-> NoData]
<1>1. /\ worker' = [worker EXCEPT ![i] = y] /\ queue' = queue
      /\ feed' = feed /\ sh' = sh /\ stopper' = stopper
      /\ tally' = [tally EXCEPT !.pending = @ - n, !.enqueued = @ - n, !.failed = @ + n]
  BY Zenon DEF Settled, NoData
<1>2. /\ QueueType /\ LaneInv /\ PendingIsExact
      /\ queue[i] \in QueueRecords /\ worker[i] \in WorkerRecords /\ ShardShut(queue[i], worker[i])
      /\ worker[i].batch \in Seq(Nat) /\ tally.pending \in Int /\ tally.enqueued \in Int /\ tally.failed \in Int
      /\ tally \in [pending : Int, enqueued : Int, failed : Int, reshards : Nat, lost : Nat]
  BY ShardFacts, Zenon DEF QueueInv
<1>3. n \in Nat /\ tally.pending - n \in Int /\ tally.enqueued - n \in Int /\ tally.failed + n \in Int
  BY <1>2, CountType, Zenon
<1>4. y \in WorkerRecords /\ y.pc = "select" /\ y.batch = NoData
  BY NoDataFacts, Zenon DEF WorkerRecords
<1>5. x = queue[i] /\ queue' = [queue EXCEPT ![i] = x]
  BY <1>1, SameShard, Zenon
<1> HIDE DEF n, x, y
<1>6. /\ tally' \in [pending : Int, enqueued : Int, failed : Int, reshards : Nat, lost : Nat]
      /\ tally'.pending = tally.pending - n /\ tally'.enqueued = tally.enqueued - n
  BY <1>1, <1>2, <1>3, Zenon
<1>7. ShardShut(x, y)
  BY <1>2, <1>4, <1>5, Zenon DEF ShardShut
<1>8. ShardStep(i, x, y)
  BY <1>1, <1>2, <1>4, <1>5, <1>6, <1>7, Zenon DEF ShardStep
<1>9. Moved(queue[i], worker[i], x, y, 0)
  BY <1>4, <1>5, BatchIsDone, Zenon
<1>10. 0 \in {0, 1}
  OBVIOUS
<1>11. /\ QueueType' /\ ShutInv' /\ LaneInv' /\ SentInv'
       /\ DOMAIN queue' = DOMAIN queue /\ queue'[i] = x /\ worker'[i] = y
       /\ \A j \in DOMAIN queue : j # i => queue'[j] = queue[j] /\ worker'[j] = worker[j]
  BY <1>8, <1>9, <1>10, ShardKeeps, Zenon
<1>12. Cardinality(InFlight') = Cardinality(InFlight) - n
  BY <1>4, <1>5, <1>11, BatchLeaves, Zenon DEF n
<1>13. PendingIsExact'
  BY <1>1, <1>2, <1>6, <1>12, Zenon DEF PendingIsExact
<1> QED
  BY <1>11, <1>13, Zenon DEF QueueInv

\* runShard ends because it is cancelled.
LEMMA ShardCancelledKeeps ==
  ASSUME QueueInv, NEW i \in DOMAIN queue, ShardCancelled(i)
  PROVE  QueueInv'
<1> DEFINE x == queue[i]
           y == [worker[i] EXCEPT !.pc = "exit"]
           n == tally.enqueued
<1>1. /\ worker[i].pc = "select" /\ sh.hard /\ queue' = queue
      /\ worker' = [worker EXCEPT ![i].pc = "exit"]
      /\ feed' = feed /\ sh' = sh /\ stopper' = stopper /\ remote' = remote
      /\ tally' = [tally EXCEPT !.pending = @ - n, !.failed = @ + n]
  BY Zenon DEF ShardCancelled
<1>2. /\ queue[i] \in QueueRecords /\ worker[i] \in WorkerRecords /\ ShardShut(queue[i], worker[i])
      /\ tally.pending \in Int /\ tally.enqueued \in Int /\ tally.failed \in Int
      /\ tally \in [pending : Int, enqueued : Int, failed : Int, reshards : Nat, lost : Nat]
  BY ShardFacts, Zenon
<1>3. tally.pending - n \in Int /\ tally.failed + n \in Int
  BY <1>2
<1>4. y \in WorkerRecords /\ y.pc = "exit" /\ y.batch = worker[i].batch
  BY <1>2, Zenon DEF WorkerRecords
<1>5. x = queue[i] /\ queue' = [queue EXCEPT ![i] = x] /\ worker' = [worker EXCEPT ![i] = y]
  BY <1>1, SameShard, Zenon
<1> HIDE DEF n, x, y
<1>6. tally' \in [pending : Int, enqueued : Int, failed : Int, reshards : Nat, lost : Nat]
  BY <1>1, <1>2, <1>3, Zenon
<1>7. ShardShut(x, y)
  BY <1>1, <1>2, <1>4, <1>5, Zenon DEF ShardShut
<1>8. ShardStep(i, x, y)
  BY <1>1, <1>2, <1>4, <1>5, <1>6, <1>7, Zenon DEF ShardStep
<1>9. 0 \in {0, 1}
  OBVIOUS
<1>10. Moved(queue[i], worker[i], x, y, 0)
  <2>1. AllMoved(queue[i], worker[i], x, y, 0)
    BY <1>4, <1>5, LaneStill, Zenon
  <2> QED
    BY <2>1, Zenon DEF AllMoved, Moved
<1>11. QueueType' /\ ShutInv' /\ LaneInv' /\ SentInv'
  BY <1>8, <1>9, <1>10, ShardKeeps, Zenon
<1>12. PendingIsExact'
  BY <1>1, Zenon DEF PendingIsExact
<1> QED
  BY <1>11, <1>12, Zenon DEF QueueInv

\* A channel with one batch more.
LEMMA LongerChannel ==
  ASSUME NEW c \in Seq(Seq(Nat)), NEW b \in Seq(Nat)
  PROVE  Append(c, b) \in Seq(Seq(Nat)) /\ Append(c, b) # NoData
<1>1. Append(c, b) \in Seq(Seq(Nat)) /\ Len(Append(c, b)) # 0
  OBVIOUS
<1> QED
  BY <1>1, NoDataFacts, Zenon

\* FlushAndShutdown puts the partial batch into the channel; when there is no room
\* for it all shards have ended.
LEMMA FlushTriesKeeps ==
  ASSUME QueueInv, NEW i \in DOMAIN queue, FlushTries(i)
  PROVE  QueueInv'
<1> DEFINE q == queue[i]
           moves == q.batch # << >> /\ Len(q.chan) < Batches
           ch == IF moves THEN Append(q.chan, q.batch) ELSE q.chan
           x == [queue[i] EXCEPT !.flush = "clear", !.chan = ch]
           y == worker[i]
<1>1. /\ q.flush = "try" /\ (q.batch = << >> \/ Len(q.chan) < Batches \/ AllExited)
      /\ queue' = [queue EXCEPT ![i] = x]
      /\ feed' = feed /\ sh' = sh /\ worker' = worker /\ stopper' = stopper /\ remote' = remote /\ tally' = tally
  BY Zenon DEF FlushTries
<1>2. /\ queue[i] \in QueueRecords /\ worker[i] \in WorkerRecords /\ ShardShut(queue[i], worker[i])
      /\ queue[i].batch \in Seq(Nat) /\ queue[i].chan \in Seq(Seq(Nat))
      /\ tally \in [pending : Int, enqueued : Int, failed : Int, reshards : Nat, lost : Nat]
  BY ShardFacts, Zenon
<1>3. ch \in Seq(Seq(Nat)) /\ (ch = NoData => q.chan = NoData)
  <2> QED
    BY <1>2, LongerChannel, Zenon
<1>4. x \in QueueRecords /\ x.flush = "clear" /\ x.chan = ch /\ x.batch = q.batch /\ x.closed = q.closed
  BY <1>2, <1>3, Zenon DEF QueueRecords, Flushes
<1>5. y = worker[i] /\ worker' = [worker EXCEPT ![i] = y]
  BY <1>1, SameShard, Zenon
<1>6. Rest(x) = NoData /\ Rest(q) = q.batch
  BY <1>1, <1>4, Zenon DEF Rest
<1>7. (moves => ch = Append(q.chan, q.batch)) /\ (~moves => ch = q.chan)
  BY Zenon
<1>8. ~moves => q.batch = NoData \/ AllExited
  BY <1>1, Zenon DEF NoData
<1> HIDE DEF moves, ch, x, y
<1>9. ShardShut(x, y)
  <2>1. q.closed = FALSE /\ x.closed = FALSE
    BY <1>1, <1>2, <1>4, RecordFields, Zenon DEF ShardShut
  <2>2. y.pc = "exit" => sh.hard
    BY <1>2, <1>5, <2>1, Zenon DEF ShardShut
  <2> QED
    BY <1>1, <1>2, <1>4, <1>5, <2>1, <2>2, Zenon DEF ShardShut
<1>10. ShardStep(i, x, y)
  BY <1>1, <1>2, <1>4, <1>5, <1>9, Zenon DEF ShardStep
<1>11. 0 \in {0, 1} /\ 0 # 1 /\ \A k \in Nat : k + 0 = k
  OBVIOUS
<1>12. EndsEmpty(worker[i], x, y)
  BY <1>5, Zenon DEF EndsEmpty
<1>13. CASE moves
  <2>1. /\ Slot(x, y, Len(q.chan) + 1) = q.batch
        /\ \A k \in Nat : k # Len(q.chan) + 1 => Slot(x, y, k) = Slot(q, y, k)
    <3>1. x.chan = Append(q.chan, q.batch) /\ q \in QueueRecords /\ y \in WorkerRecords /\ q.batch \in Seq(Nat)
      BY <1>2, <1>4, <1>5, <1>7, <1>13, Zenon
    <3>2. MovesBatch(q, y, x, y, q.batch)
      BY <1>6, <3>1, Zenon DEF MovesBatch
    <3> QED
      BY <3>2, BatchMoves, SMT
  <2>2. ~(Len(q.chan) + 1 <= Len(q.chan)) /\ Len(q.chan) + 1 # 0
    BY <1>2
  <2>3. Slot(q, y, Len(q.chan) + 1) = q.batch
    BY <1>6, <2>2, Zenon DEF Slot
  <2>4. \A k \in Nat : Slot(x, y, k) = Slot(q, y, k)
    BY <2>1, <2>3, Zenon
  <2>5. AllMoved(queue[i], worker[i], x, y, 0)
    BY <1>5, <1>11, <2>4, Zenon DEF AllMoved
  <2> QED
    BY <1>1, <1>10, <1>11, <1>12, <2>5, ShardMoves, Zenon
<1>14. CASE ~moves /\ q.batch = NoData
  <2>1. AllMoved(queue[i], worker[i], x, y, 0)
    BY <1>4, <1>5, <1>6, <1>7, <1>14, LaneStill, Zenon
  <2> QED
    BY <1>1, <1>10, <1>11, <1>12, <2>1, ShardMoves, Zenon
<1>15. CASE ~moves /\ AllExited
  <2>1. x.chan = q.chan
    BY <1>4, <1>7, <1>15, Zenon
  <2>2. \A k \in Nat : Slot(x, y, k) = NoData \/ Slot(x, y, k) = Slot(q, y, k)
    BY <1>6, <2>1, Zenon DEF Slot
  <2>3. Moved(queue[i], worker[i], x, y, 0)
    BY <1>5, <1>11, <2>2, Zenon DEF Moved
  <2>4. /\ QueueType' /\ ShutInv' /\ LaneInv' /\ SentInv'
        /\ DOMAIN queue' = DOMAIN queue /\ queue'[i] = x /\ worker'[i] = y
        /\ \A j \in DOMAIN queue : j # i => queue'[j] = queue[j] /\ worker'[j] = worker[j]
    BY <1>10, <1>11, <2>3, ShardKeeps, Zenon
  <2>5. QueueType /\ PendingIsExact /\ DOMAIN worker = DOMAIN queue
    BY QueueFields, Zenon DEF QueueInv
  <2>6. \A j \in DOMAIN queue : \A d :
          (worker'[j].pc # "exit" /\ InLane(queue'[j], worker'[j], d)) <=> (worker[j].pc # "exit" /\ InLane(queue[j], worker[j], d))
    BY <1>1, <1>15, <2>5, Zenon DEF AllExited
  <2>7. InFlight' = InFlight
    BY <2>4, <2>5, <2>6, FlightStays, Zenon
  <2>8. PendingIsExact'
    BY <1>1, <2>5, <2>7, CountStays, Zenon
  <2> QED
    BY <2>4, <2>8, Zenon DEF QueueInv
<1> QED
  BY <1>8, <1>13, <1>14, <1>15, Zenon

\* The batch is dropped and the channel closed.
LEMMA FlushClosesKeeps ==
  ASSUME QueueInv, NEW i \in DOMAIN queue, FlushCloses(i)
  PROVE  QueueInv'
<1> DEFINE x == [queue[i] EXCEPT !.flush = "done", !.batch = NoData, !.closed = TRUE]
           y == worker[i]
<1>1. /\ queue[i].flush = "clear" /\ queue' = [queue EXCEPT ![i] = x]
      /\ feed' = feed /\ sh' = sh /\ worker' = worker /\ stopper' = stopper /\ remote' = remote /\ tally' = tally
  BY Zenon DEF FlushCloses, NoData
<1>2. /\ queue[i] \in QueueRecords /\ worker[i] \in WorkerRecords /\ ShardShut(queue[i], worker[i])
      /\ tally \in [pending : Int, enqueued : Int, failed : Int, reshards : Nat, lost : Nat] /\ NoData \in Seq(Nat)
  BY ShardFacts, NoDataFacts, Zenon
<1>3. x \in QueueRecords /\ x.flush = "done" /\ x.chan = queue[i].chan /\ x.batch = NoData /\ x.closed = TRUE
  BY <1>2, Zenon DEF QueueRecords, Flushes
<1>4. y = worker[i] /\ worker' = [worker EXCEPT ![i] = y]
  BY <1>1, SameShard, Zenon
<1> HIDE DEF x, y
<1>5. Rest(x) = Rest(queue[i])
  BY <1>1, <1>3, Zenon DEF Rest
<1>6. ShardShut(x, y)
  BY <1>1, <1>2, <1>3, <1>4, Zenon DEF ShardShut
<1>7. ShardStep(i, x, y)
  BY <1>1, <1>2, <1>3, <1>4, <1>6, Zenon DEF ShardStep
<1>8. AllMoved(queue[i], worker[i], x, y, 0)
  BY <1>3, <1>4, <1>5, LaneStill, Zenon
<1>9. EndsEmpty(worker[i], x, y) /\ 0 \in {0, 1}
  BY <1>4, Zenon DEF EndsEmpty
<1> QED
  BY <1>1, <1>7, <1>8, <1>9, ShardMoves, Zenon

-------------------------------------------------------------------------------
(* Deliveries *)

\* A batch at the end of a sequence.
LEMMA ConcatFacts ==
  ASSUME NEW g \in Seq(Nat), NEW h \in Seq(Nat)
  PROVE  /\ Len(g) \in Nat /\ Len(h) \in Nat /\ g \o h \in Seq(Nat) /\ Len(g \o h) = Len(g) + Len(h)
         /\ \A n \in 1 .. Len(g) : (g \o h)[n] = g[n]
         /\ \A n \in 1 .. Len(h) : (g \o h)[Len(g) + n] = h[n]
OBVIOUS

\* The places of the two parts.
LEMMA ConcatPlaces ==
  ASSUME NEW p \in Nat, NEW q \in Nat, NEW n \in 1 .. p + q
  PROVE  n \in 1 .. p \/ \E a \in 1 .. q : n = p + a
<1>1. n \in 1 .. p \/ (n - p \in 1 .. q /\ n = p + (n - p))
  OBVIOUS
<1> QED
  BY <1>1, Zenon

\* What a sequence with a batch at its end holds.
GotIn(g, d) == \E n \in 1 .. Len(g) : g[n] = d

\* A batch the endpoint has received (sendSamples) is added to what it got before.
LEMMA ConcatHolds ==
  ASSUME NEW g \in Seq(Nat), NEW h \in Seq(Nat)
  PROVE  \A d : GotIn(g \o h, d) <=> GotIn(g, d) \/ GotIn(h, d)
<1> DEFINE s == g \o h
<1>1. /\ Len(g) \in Nat /\ Len(h) \in Nat /\ Len(s) = Len(g) + Len(h)
      /\ \A n \in 1 .. Len(g) : s[n] = g[n]
      /\ \A n \in 1 .. Len(h) : s[Len(g) + n] = h[n]
  BY ConcatFacts, Zenon
<1> HIDE DEF s
<1>2. ASSUME NEW n \in 1 .. Len(s)
      PROVE  n \in 1 .. Len(g) \/ \E a \in 1 .. Len(h) : n = Len(g) + a
  <2>1. n \in 1 .. Len(g) + Len(h)
    BY <1>1, Zenon
  <2> QED
    BY <1>1, <2>1, ConcatPlaces, Zenon
<1>3. \A n \in 1 .. Len(g) : n \in 1 .. Len(s)
  BY <1>1
<1>4. \A n \in 1 .. Len(h) : Len(g) + n \in 1 .. Len(s)
  BY <1>1
<1>5. ASSUME NEW d, GotIn(s, d)
      PROVE  GotIn(g, d) \/ GotIn(h, d)
  <2>1. PICK n \in 1 .. Len(s) : s[n] = d
    BY <1>5, Zenon DEF GotIn
  <2> QED
    BY <1>1, <1>2, <2>1, Zenon DEF GotIn
<1>6. \A d : GotIn(g, d) => GotIn(s, d)
  BY <1>1, <1>3, Zenon DEF GotIn
<1>7. \A d : GotIn(h, d) => GotIn(s, d)
  BY <1>1, <1>4, Zenon DEF GotIn
<1> QED
  BY <1>5, <1>6, <1>7, Zenon DEF s

\* An older datum of a series that comes after a newer one is a repetition; a batch
\* in ascending order, whose data are new or repeated, keeps that.
OldestFirst(g) ==
  \A m, n \in DOMAIN g :
    m < n /\ Data[g[m]].ref = Data[g[n]].ref /\ g[n] < g[m] => \E k \in 1 .. m - 1 : g[k] = g[n]
NewestIn(g, d) == \A e : GotIn(g, e) /\ Data[e].ref = Data[d].ref => e < d

\* The endpoint has the data of a series oldest first after such a batch.
LEMMA BatchInOrder ==
  ASSUME NEW g \in Seq(Nat), NEW h \in Seq(Nat), OldestFirst(g),
         \A a, b \in 1 .. Len(h) : a < b => h[a] < h[b],
         \A a \in 1 .. Len(h) : NewestIn(g, h[a]) \/ GotIn(g, h[a])
  PROVE  OldestFirst(g \o h)
<1> DEFINE s == g \o h
           p == Len(g)
<1>1. /\ p \in Nat /\ Len(h) \in Nat /\ Len(s) = p + Len(h)
      /\ \A n \in 1 .. p : s[n] = g[n]
      /\ \A n \in 1 .. Len(h) : s[p + n] = h[n]
  BY ConcatFacts, Zenon
<1>2. DOMAIN s = 1 .. Len(s) /\ DOMAIN g = 1 .. p /\ \A n \in 1 .. p : g[n] \in Nat
  <2>1. s \in Seq(Nat)
    BY ConcatFacts, Zenon
  <2> HIDE DEF s
  <2> QED
    BY <2>1
<1>3. \A n \in 1 .. Len(h) : h[n] \in Nat
  OBVIOUS
<1> HIDE DEF s, p
<1>4. SUFFICES ASSUME NEW m \in 1 .. p + Len(h), NEW n \in 1 .. p + Len(h), m < n,
                      Data[s[m]].ref = Data[s[n]].ref, s[n] < s[m]
               PROVE  \E k \in 1 .. m - 1 : s[k] = s[n]
  <2>1. OldestFirst(s)
    BY <1>1, <1>2, <1>4, Zenon DEF OldestFirst
  <2> QED
    BY <2>1, Zenon DEF s
<1>5. \A k \in 1 .. m - 1 : m \in 1 .. p => k \in 1 .. p
  BY <1>1
<1>6. ASSUME m \in 1 .. p, NEW l \in 1 .. p, m < l, g[l] = s[n]
      PROVE  \E k \in 1 .. m - 1 : s[k] = s[n]
  <2>1. s[m] = g[m]
    BY <1>1, <1>6, Zenon
  <2>2. PICK k \in 1 .. m - 1 : g[k] = g[l]
    BY <1>2, <1>4, <1>6, <2>1, Zenon DEF OldestFirst
  <2>3. s[k] = g[k]
    BY <1>1, <1>5, <1>6, Zenon
  <2> QED
    BY <1>6, <2>2, <2>3, Zenon
<1>7. CASE n \in 1 .. p
  <2>1. m \in 1 .. p
    BY <1>1, <1>4, <1>7
  <2>2. s[n] = g[n]
    BY <1>1, <1>7, Zenon
  <2> QED
    BY <1>4, <1>6, <1>7, <2>1, <2>2, Zenon
<1>8. CASE \E a \in 1 .. Len(h) : n = p + a
  <2>1. PICK a \in 1 .. Len(h) : n = p + a
    BY <1>8, Zenon
  <2>2. s[n] = h[a] /\ h[a] \in Nat
    BY <1>1, <1>3, <2>1, Zenon
  <2>3. m \in 1 .. p
    <3>1. ASSUME NEW b \in 1 .. Len(h), m = p + b
          PROVE  FALSE
      <4>1. b < a
        BY <1>1, <1>4, <2>1, <3>1
      <4>2. s[m] = h[b] /\ h[b] \in Nat /\ h[b] < h[a]
        BY <1>1, <1>3, <3>1, <4>1, Zenon
      <4>3. h[a] < h[b]
        BY <1>4, <2>2, <4>2, Zenon
      <4> QED
        BY <2>2, <4>2, <4>3
    <3> QED
      BY <1>1, <3>1, ConcatPlaces, Zenon
  <2>4. s[m] = g[m] /\ g[m] \in Nat /\ GotIn(g, g[m])
    BY <1>1, <1>2, <2>3, Zenon DEF GotIn, p
  <2>5. ~(g[m] < h[a]) /\ g[m] # h[a]
    <3>1. h[a] < g[m]
      BY <1>4, <2>2, <2>4, Zenon
    <3> QED
      BY <2>2, <2>4, <3>1
  <2>6. ~NewestIn(g, h[a])
    <3>1. Data[g[m]].ref = Data[h[a]].ref
      BY <1>4, <2>2, <2>4, Zenon
    <3> QED
      BY <2>4, <2>5, <3>1, Zenon DEF NewestIn
  <2>7. PICK l \in 1 .. p : g[l] = h[a]
    BY <2>6, Zenon DEF GotIn, p
  <2>8. CASE m < l
    BY <1>6, <2>2, <2>3, <2>7, <2>8, Zenon
  <2>9. CASE l \in 1 .. m - 1
    BY <1>1, <2>2, <2>7, <2>9, Zenon
  <2>10. l # m
    BY <2>5, <2>7, Zenon
  <2> QED
    BY <1>1, <2>3, <2>8, <2>9, <2>10
<1> QED
  BY <1>1, <1>7, <1>8, ConcatPlaces, Zenon

\* A worker delivers its batch.  What is delivered is in order; what waits in the
\* lanes stays newer, since the lanes share no series and each is in order.
LEMMA BatchDelivered ==
  ASSUME QueueInv, NEW i \in DOMAIN queue, remote'.got = remote.got \o worker[i].batch
  PROVE  /\ DeliveredOldestFirst'
         /\ \A d : Got(d)' <=> Got(d) \/ \E a : Has(i, 0, a, d)
         /\ \A j, k, a, d : Has(j, k, a, d) /\ k # 0 => Newest(d)'
         /\ \A j, a, d : Has(j, 0, a, d) => Newest(d)' \/ Got(d)'
<1> DEFINE g == remote.got
           h == worker[i].batch
<1>1. LaneInv /\ SentInv /\ g \in Seq(Nat) /\ h \in Seq(Nat)
  BY ShardFacts, QueueFields, Zenon DEF QueueInv
<1>2. \A d : (Got(d) <=> GotIn(g, d)) /\ (Got(d)' <=> GotIn(g \o h, d)) /\ (Newest(d) <=> NewestIn(g, d))
  BY Zenon DEF Got, GotIn, Newest, NewestIn
<1>3. Slot(queue[i], worker[i], 0) = h /\ 0 \in Nat
  <2>1. 0 \in Nat
    OBVIOUS
  <2> QED
    BY <2>1, Zenon DEF Slot
<1>4. \A a : a \in 1 .. Len(h) => Has(i, 0, a, h[a])
  BY <1>3, Zenon DEF Has, Holds
<1>5. \A d : GotIn(h, d) <=> \E a : Has(i, 0, a, d)
  BY <1>3, Zenon DEF Has, Holds, GotIn
<1>6. \A d : Got(d)' <=> Got(d) \/ \E a : Has(i, 0, a, d)
  <2>1. \A d : GotIn(g \o h, d) <=> GotIn(g, d) \/ GotIn(h, d)
    BY <1>1, ConcatHolds, Zenon
  <2> HIDE DEF g, h
  <2> QED
    BY <1>2, <1>5, <2>1, Zenon
<1>7. DeliveredOldestFirst'
  <2>1. OldestFirst(g)
    BY <1>1, Zenon DEF SentInv, DeliveredOldestFirst, OldestFirst
  <2>2. ASSUME NEW a \in 1 .. Len(h), NEW b \in 1 .. Len(h), a < b
        PROVE  h[a] < h[b]
    <3>1. Has(i, 0, a, h[a]) /\ Has(i, 0, b, h[b])
      BY <1>4, Zenon
    <3>2. \A d, e : Has(i, 0, a, d) /\ Has(i, 0, b, e) => d < e
      BY <1>1, <2>2, Zenon DEF LaneInv
    <3> HIDE DEF h
    <3> QED
      BY <3>1, <3>2, Zenon
  <2>3. ASSUME NEW a \in 1 .. Len(h)
        PROVE  NewestIn(g, h[a]) \/ GotIn(g, h[a])
    <3>1. Has(i, 0, a, h[a])
      BY <1>4, Zenon
    <3>2. \A d : Has(i, 0, a, d) => Newest(d) \/ Got(d)
      BY <1>1, Zenon DEF SentInv
    <3> HIDE DEF h, g
    <3> QED
      BY <1>2, <3>1, <3>2, Zenon
  <2>4. OldestFirst(g \o h)
    <3> HIDE DEF h, g
    <3> QED
      BY <1>1, <2>1, <2>2, <2>3, BatchInOrder, Zenon
  <2>5. OldestFirst(remote'.got)
    BY <2>4, Zenon
  <2> QED
    BY ONLY <2>5, Zenon DEF OldestFirst, DeliveredOldestFirst
<1>8. \A d : Newest(d)' <=> \A e : Got(e)' /\ Data[e].ref = Data[d].ref => e < d
  BY Zenon DEF Newest
<1>9. ASSUME NEW j, NEW k, NEW a, NEW d, Has(j, k, a, d), k # 0
      PROVE  Newest(d)'
  <2>1. Newest(d)
    BY <1>1, <1>9, Zenon DEF SentInv
  <2>2. ASSUME NEW e, NEW b, Has(i, 0, b, e), Data[e].ref = Data[d].ref
        PROVE  e < d
    <3>1. j = i /\ k \in Nat
      BY <1>1, <1>9, <2>2, LanesApart, Zenon DEF Has, Holds
    <3>2. 0 < k
      BY <1>9, <3>1
    <3> QED
      BY <1>1, <1>9, <2>2, <3>1, <3>2, Zenon DEF LaneInv
  <2> QED
    BY <1>6, <1>8, <2>1, <2>2, Zenon DEF Newest
<1>10. ASSUME NEW j, NEW a, NEW d, Has(j, 0, a, d)
       PROVE  Newest(d)' \/ Got(d)'
  <2>1. Newest(d) \/ Got(d)
    BY <1>1, <1>10, Zenon DEF SentInv
  <2>2. CASE Got(d) \/ j = i
    BY <1>6, <1>10, <2>2, Zenon
  <2>3. CASE Newest(d) /\ j # i
    <3>1. ASSUME NEW e, NEW b, Has(i, 0, b, e), Data[e].ref = Data[d].ref
          PROVE  FALSE
      BY <1>1, <1>10, <2>3, <3>1, LanesApart, Zenon
    <3> QED
      BY <1>6, <1>8, <2>3, <3>1, Zenon DEF Newest
  <2> QED
    BY <2>1, <2>2, <2>3
<1> QED
  BY <1>6, <1>7, <1>9, <1>10, Zenon

\* The endpoint stores a batch and the answer is lost.
LEMMA AnswerLostKeeps ==
  ASSUME QueueInv, NEW i \in DOMAIN queue, StoreAnswerLost(i)
  PROVE  QueueInv'
<1>1. /\ remote' = [remote EXCEPT !.got = @ \o worker[i].batch]
      /\ tally' = [tally EXCEPT !.lost = @ + 1]
      /\ feed' = feed /\ sh' = sh /\ queue' = queue /\ worker' = worker /\ stopper' = stopper
  BY Zenon DEF StoreAnswerLost
<1>2. /\ QueueType /\ ShutInv /\ LaneInv /\ SentInv /\ PendingIsExact
      /\ remote.got \in Seq(Nat) /\ worker[i].batch \in Seq(Nat) /\ tally.lost \in Nat
      /\ remote \in [got : Seq(Nat), acked : SUBSET Nat]
      /\ tally \in [pending : Int, enqueued : Int, failed : Int, reshards : Nat, lost : Nat]
  <2>1. QueueType /\ ShutInv /\ LaneInv /\ SentInv /\ PendingIsExact
    BY Zenon DEF QueueInv
  <2>2. tally.lost \in Nat
    BY <2>1, Zenon DEF QueueType
  <2> QED
    BY <2>1, <2>2, ShardFacts, QueueFields, Zenon DEF QueueType
<1>3. remote.got \o worker[i].batch \in Seq(Nat) /\ tally.lost + 1 \in Nat
  <2>1. \A n \in Nat : n + 1 \in Nat
    OBVIOUS
  <2> QED
    BY <1>2, <2>1, ConcatFacts, Zenon
<1>4. /\ remote' \in [got : Seq(Nat), acked : SUBSET Nat]
      /\ remote'.got = remote.got \o worker[i].batch /\ remote'.acked = remote.acked
  BY <1>1, <1>2, <1>3, Zenon
<1>5. /\ tally' \in [pending : Int, enqueued : Int, failed : Int, reshards : Nat, lost : Nat]
      /\ tally'.pending = tally.pending /\ tally'.enqueued = tally.enqueued
  BY <1>1, <1>2, <1>3, Zenon
<1>6. QueueType'
  BY <1>1, <1>2, <1>4, <1>5, Zenon DEF QueueType
<1>7. ShutInv'
  BY <1>1, <1>2, Zenon DEF ShutInv, ShardShut
<1>8. \A j, k, a, d : Has(j, k, a, d)' <=> Has(j, k, a, d)
  BY <1>1, Zenon DEF Has
<1>9. LaneInv'
  <2>1. \A d : ShardOf(d)' = ShardOf(d)
    BY <1>1, Zenon DEF ShardOf
  <2> QED
    BY <1>1, <1>2, <1>8, <2>1, Zenon DEF LaneInv
<1>10. /\ DeliveredOldestFirst'
       /\ \A d : Got(d)' <=> Got(d) \/ \E a : Has(i, 0, a, d)
       /\ \A j, k, a, d : Has(j, k, a, d) /\ k # 0 => Newest(d)'
       /\ \A j, a, d : Has(j, 0, a, d) => Newest(d)' \/ Got(d)'
  BY <1>4, BatchDelivered, Zenon
<1>11. SentInv'
  <2>1. \A d : Got(d)' => d \in DOMAIN Data /\ d < feed'.next
    BY <1>1, <1>2, <1>10, Zenon DEF SentInv, LaneInv
  <2>2. \A d \in remote'.acked : Got(d)'
    BY <1>2, <1>4, <1>10, Zenon DEF SentInv
  <2>3. \A j, a, d : Has(j, 0, a, d)' => (Newest(d)' \/ Got(d)') /\ d \notin remote'.acked
    BY <1>2, <1>4, <1>8, <1>10, Zenon DEF SentInv
  <2>4. \A j, k, a, d : Has(j, k, a, d)' /\ k # 0 => Newest(d)'
    BY <1>8, <1>10, Zenon
  <2> QED
    BY <1>10, <2>1, <2>2, <2>3, <2>4, Zenon DEF SentInv
<1>12. InFlight' = InFlight
  BY <1>1, Zenon DEF InFlight, Waiting
<1>13. PendingIsExact'
  BY <1>1, <1>2, <1>5, <1>12, CountStays, Zenon
<1> QED
  BY <1>6, <1>7, <1>9, <1>11, <1>13, Zenon DEF QueueInv

\* The endpoint stores a batch and says so.
LEMMA AcceptsKeeps ==
  ASSUME QueueInv, NEW i \in DOMAIN queue, StoreAccepts(i)
  PROVE  QueueInv'
<1> DEFINE n == Len(worker[i].batch)
           y == [pc |-> "select", batch |-> NoData]
           r == [got |-> remote.got \o worker[i].batch, acked |-> remote.acked \cup Range(worker[i].batch)]
<1>1. /\ worker[i].pc = "sending" /\ remote' = r
      /\ worker' = [worker EXCEPT ![i] = y] /\ queue' = queue
      /\ feed' = feed /\ sh' = sh /\ stopper' = stopper
      /\ tally' = [tally EXCEPT !.pending = @ - n, !.enqueued = @ - n]
  <2>1. /\ worker[i].pc = "sending" /\ remote' = r
        /\ worker' = [worker EXCEPT ![i] = y] /\ queue' = queue
        /\ feed' = feed /\ sh' = sh /\ stopper' = stopper
        /\ tally' = [tally EXCEPT !.pending = @ - n, !.enqueued = @ - n, !.failed = @]
    BY Zenon DEF StoreAccepts, Settled, NoData
  <2>2. tally \in [pending : Int, enqueued : Int, failed : Int, reshards : Nat, lost : Nat]
    BY ShardFacts, Zenon
  <2> HIDE DEF n
  <2>3. [tally EXCEPT !.pending = @ - n, !.enqueued = @ - n, !.failed = @] = [tally EXCEPT !.pending = @ - n, !.enqueued = @ - n]
    BY <2>2, Zenon
  <2> QED
    BY <2>1, <2>3, Zenon
<1>2. /\ QueueType /\ ShutInv /\ LaneInv /\ SentInv /\ PendingIsExact
      /\ worker[i].batch \in Seq(Nat) /\ tally.pending \in Int /\ tally.enqueued \in Int
      /\ worker[i] \in WorkerRecords /\ queue[i] \in QueueRecords /\ ShardShut(queue[i], worker[i])
      /\ tally \in [pending : Int, enqueued : Int, failed : Int, reshards : Nat, lost : Nat]
      /\ remote.got \in Seq(Nat) /\ remote.acked \in SUBSET Nat
  BY ShardFacts, QueueFields, Zenon DEF QueueInv
<1>3. n \in Nat /\ tally.pending - n \in Int /\ tally.enqueued - n \in Int
  BY <1>2, CountType, Zenon
<1>4. y \in WorkerRecords /\ y.pc = "select" /\ y.batch = NoData
  BY NoDataFacts, Zenon DEF WorkerRecords
<1>5. queue' = [queue EXCEPT ![i] = queue[i]]
  BY <1>1, SameShard, Zenon
<1>6. Slot(queue[i], worker[i], 0) = worker[i].batch /\ 0 \in Nat
  <2>1. 0 \in Nat
    OBVIOUS
  <2> QED
    BY <2>1, Zenon DEF Slot
<1>7. /\ remote' \in [got : Seq(Nat), acked : SUBSET Nat] /\ remote'.got = remote.got \o worker[i].batch
      /\ \A d : d \in remote'.acked <=> d \in remote.acked \/ \E a : Has(i, 0, a, d)
  <2>1. remote.got \o worker[i].batch \in Seq(Nat)
    BY <1>2, ConcatFacts, Zenon
  <2>2. Range(worker[i].batch) \subseteq Nat
    <3>1. worker[i].batch \in Seq(Nat)
      BY <1>2, Zenon
    <3> QED
      BY <3>1 DEF Range
  <2>3. r \in [got : Seq(Nat), acked : SUBSET Nat]
    BY <1>2, <2>1, <2>2, Zenon
  <2>4. r.got = remote.got \o worker[i].batch /\ r.acked = remote.acked \cup Range(worker[i].batch)
    BY Zenon
  <2>5. DOMAIN worker[i].batch = 1 .. Len(worker[i].batch)
    <3>1. worker[i].batch \in Seq(Nat)
      BY <1>2, Zenon
    <3> QED
      BY <3>1
  <2>6. \A d : d \in Range(worker[i].batch) <=> \E a : Has(i, 0, a, d)
    BY <1>6, <2>5, Zenon DEF Range, Has, Holds
  <2> HIDE DEF r
  <2> QED
    BY <1>1, <2>3, <2>4, <2>6, Zenon
<1> HIDE DEF n, y, r
<1>8. /\ tally' \in [pending : Int, enqueued : Int, failed : Int, reshards : Nat, lost : Nat]
      /\ tally'.pending = tally.pending - n /\ tally'.enqueued = tally.enqueued - n
  BY <1>1, <1>2, <1>3, Zenon
<1>9. /\ queue' \in [0 .. sh'.n - 1 -> QueueRecords] /\ worker' \in [0 .. sh'.n - 1 -> WorkerRecords]
      /\ DOMAIN queue' = DOMAIN queue /\ queue'[i] = queue[i] /\ worker'[i] = y
      /\ \A j \in DOMAIN queue : j # i => queue'[j] = queue[j] /\ worker'[j] = worker[j]
  BY <1>1, <1>2, <1>4, <1>5, OneShard, Zenon
<1>10. QueueType'
  BY <1>1, <1>2, <1>7, <1>8, <1>9, Zenon DEF QueueType
<1>11. ShutInv'
  <2>1. ASSUME NEW j \in DOMAIN queue
        PROVE  ShardShut(queue[j], worker[j])'
    <3>1. ShardShut(queue[j], worker[j])
      BY <1>2, Zenon DEF ShutInv
    <3>2. CASE j = i
      BY <1>1, <1>4, <1>9, <3>1, <3>2, Zenon DEF ShardShut
    <3>3. CASE j # i
      BY <1>1, <1>9, <3>1, <3>3, Zenon DEF ShardShut
    <3> QED
      BY <3>2, <3>3, Zenon
  <2> QED
    BY <1>1, <1>2, <1>9, <2>1, Zenon DEF ShutInv
<1>12. \A j, k, a, d : Has(j, k, a, d)' => Has(j, k, a, d) /\ ~(j = i /\ k = 0)
  <2>1. SUFFICES ASSUME NEW j, NEW k, NEW a, NEW d, Has(j, k, a, d)'
                 PROVE  Has(j, k, a, d) /\ ~(j = i /\ k = 0)
    BY Zenon
  <2>2. j \in DOMAIN queue /\ Holds(queue'[j], worker'[j], k, a, d)
    BY <1>9, <2>1, Zenon DEF Has
  <2>3. CASE j # i
    BY <1>9, <2>2, <2>3, Zenon DEF Has
  <2>4. CASE j = i
    <3>1. Holds(queue[i], y, k, a, d)
      BY <1>9, <2>2, <2>4, Zenon
    <3>2. k # 0
      <4>1. Slot(queue[i], y, 0) = NoData
        BY <1>4, Zenon DEF Slot
      <4> QED
        BY <3>1, <4>1, NoDataFacts, Zenon DEF Holds
    <3>3. Slot(queue[i], y, k) = Slot(queue[i], worker[i], k)
      BY <3>2, Zenon DEF Slot
    <3> QED
      BY <2>2, <2>4, <3>1, <3>2, <3>3, Zenon DEF Has, Holds
  <2> QED
    BY <2>3, <2>4, Zenon
<1>13. LaneInv'
  <2>1. \A d : ShardOf(d)' = ShardOf(d)
    BY <1>1, Zenon DEF ShardOf
  <2>2. \A j, k, a, d : Has(j, k, a, d) => d \in DOMAIN Data /\ d < feed.next /\ ShardOf(d) = j
    BY <1>2, Zenon DEF LaneInv
  <2>3. \A j, k, a, d, l, b, e : Has(j, k, a, d) /\ Has(j, l, b, e) /\ (k < l \/ (k = l /\ a < b)) => d < e
    BY <1>2, Zenon DEF LaneInv
  <2>4. \A j, k, a, d : Has(j, k, a, d)' => d \in DOMAIN Data /\ d < feed'.next /\ ShardOf(d)' = j
    BY <1>1, <1>12, <2>1, <2>2, Zenon
  <2>5. ASSUME NEW j, NEW k, NEW a, NEW d, NEW l, NEW b, NEW e, Has(j, k, a, d)', Has(j, l, b, e)', k < l \/ (k = l /\ a < b)
        PROVE  d < e
    <3>1. Has(j, k, a, d) /\ Has(j, l, b, e)
      BY <1>12, <2>5, Zenon
    <3> QED
      BY <2>3, <2>5, <3>1, Zenon
  <2> QED
    BY <2>4, <2>5, Zenon DEF LaneInv
<1>14. /\ DeliveredOldestFirst'
       /\ \A d : Got(d)' <=> Got(d) \/ \E a : Has(i, 0, a, d)
       /\ \A j, k, a, d : Has(j, k, a, d) /\ k # 0 => Newest(d)'
       /\ \A j, a, d : Has(j, 0, a, d) => Newest(d)' \/ Got(d)'
  BY <1>7, BatchDelivered, Zenon
<1>15. SentInv'
  <2>1. \A d : Got(d)' => d \in DOMAIN Data /\ d < feed'.next
    BY <1>1, <1>2, <1>14, Zenon DEF SentInv, LaneInv
  <2>2. \A d \in remote'.acked : Got(d)'
    BY <1>2, <1>7, <1>14, Zenon DEF SentInv
  <2>3. ASSUME NEW j, NEW a, NEW d, Has(j, 0, a, d)'
        PROVE  (Newest(d)' \/ Got(d)') /\ d \notin remote'.acked
    <3>1. Has(j, 0, a, d) /\ j # i
      BY <1>12, <2>3, Zenon
    <3>2. d \notin remote.acked
      BY <1>2, <3>1, Zenon DEF SentInv
    <3>3. ~ \E b : Has(i, 0, b, d)
      BY <1>2, <3>1, LanesApart, Zenon
    <3> QED
      BY <1>7, <1>14, <3>1, <3>2, <3>3, Zenon
  <2>4. \A j, k, a, d : Has(j, k, a, d)' /\ k # 0 => Newest(d)'
    BY <1>12, <1>14, Zenon
  <2> QED
    BY <1>14, <2>1, <2>2, <2>3, <2>4, Zenon DEF SentInv
<1>16. Cardinality(InFlight') = Cardinality(InFlight) - n
  <2>1. worker'[i].pc = "select" /\ worker'[i].batch = NoData
    BY <1>4, <1>9, Zenon
  <2> QED
    BY <1>1, <1>9, <1>10, <2>1, BatchLeaves, Zenon DEF n
<1>17. PendingIsExact'
  BY <1>1, <1>2, <1>8, <1>16, Zenon DEF PendingIsExact
<1> QED
  BY <1>10, <1>11, <1>13, <1>15, <1>17, Zenon DEF QueueInv

-------------------------------------------------------------------------------
(* The watcher's appends *)

\* The shard of a datum.
LEMMA ShardIsOne ==
  ASSUME NEW r \in Nat, NEW n \in Nat \ {0}
  PROVE  r % n \in 0 .. n - 1
OBVIOUS

\* The lane of a shard after QueueAppend: one datum more, at its end.
LaneGrows(x, y, xx, yy, d) ==
  /\ \A k, a, e : Holds(x, y, k, a, e) => \E l : Holds(xx, yy, l, a, e)
  /\ \E l, b : Holds(xx, yy, l, b, d)
  /\ \A k, a, e : Holds(xx, yy, k, a, e) => Holds(x, y, k, a, e) \/ e = d
  /\ \A k, a : Holds(xx, yy, k, a, d) => k # 0 /\ \A l, b, e : Holds(xx, yy, l, b, e) => ~(k < l \/ (k = l /\ a < b))

\* An append at the end of a batch.
LEMMA AppendFacts ==
  ASSUME NEW b \in Seq(Nat), NEW d \in Nat
  PROVE  /\ Append(b, d) \in Seq(Nat) /\ Len(b) \in Nat /\ Len(Append(b, d)) = Len(b) + 1 /\ Append(b, d)[Len(b) + 1] = d
         /\ \A a \in 1 .. Len(b) : Append(b, d)[a] = b[a]
OBVIOUS

\* The slots of such a lane: the last one that is not empty has the datum at its end.
LEMMA SlotGrows ==
  ASSUME NEW x \in QueueRecords, NEW y \in WorkerRecords, NEW xx, NEW yy, NEW d \in Nat, x.flush # "clear",
         \A k, a : ~Holds(x, y, k, a, d),
         Slot(xx, yy, Len(x.chan) + 1) = Append(x.batch, d),
         \A k \in Nat : k # Len(x.chan) + 1 => Slot(xx, yy, k) = Slot(x, y, k)
  PROVE  LaneGrows(x, y, xx, yy, d)
<1> DEFINE L == Len(x.chan) + 1
           B == Len(x.batch) + 1
<1>1. x.chan \in Seq(Seq(Nat)) /\ x.batch \in Seq(Nat)
  BY RecordFields, Zenon
<1>2. L \in Nat /\ L # 0 /\ ~(L <= Len(x.chan)) /\ Len(x.chan) \in Nat
  BY <1>1
<1>3. /\ Len(x.batch) \in Nat /\ Len(Append(x.batch, d)) = B /\ Append(x.batch, d)[B] = d
      /\ \A a \in 1 .. Len(x.batch) : Append(x.batch, d)[a] = x.batch[a]
  BY <1>1, AppendFacts, Zenon
<1>4. Slot(x, y, L) = x.batch
  BY <1>2, Zenon DEF Slot, Rest
<1>5. \A k \in Nat : k > L => Slot(x, y, k) = NoData
  <2>1. SUFFICES ASSUME NEW k \in Nat, k > L
                 PROVE  Slot(x, y, k) = NoData
    BY Zenon
  <2>2. k # 0 /\ ~(k <= Len(x.chan)) /\ k # Len(x.chan) + 1
    BY <1>2, <2>1
  <2> QED
    BY <2>2, Zenon DEF Slot
<1>6. /\ B \in 1 .. B /\ \A a \in 1 .. Len(x.batch) : a \in 1 .. B
      /\ \A a \in 1 .. B : a \in 1 .. Len(x.batch) \/ a = B
  BY <1>3
<1>7. Slot(xx, yy, L) = Append(x.batch, d) /\ \A k \in Nat : k # L => Slot(xx, yy, k) = Slot(x, y, k)
  OBVIOUS
<1> HIDE DEF L, B
<1>8. Holds(xx, yy, L, B, d)
  BY <1>2, <1>3, <1>6, <1>7, Zenon DEF Holds
<1>9. ASSUME NEW k, NEW a, NEW e, Holds(x, y, k, a, e)
      PROVE  Holds(xx, yy, k, a, e)
  <2>1. k \in Nat /\ a \in 1 .. Len(Slot(x, y, k)) /\ Slot(x, y, k)[a] = e
    BY <1>9, Zenon DEF Holds
  <2>2. CASE k = L
    <3>1. a \in 1 .. Len(x.batch) /\ x.batch[a] = e
      BY <1>4, <2>1, <2>2, Zenon
    <3>2. a \in 1 .. Len(Append(x.batch, d)) /\ Append(x.batch, d)[a] = e
      BY <1>3, <1>6, <3>1, Zenon
    <3> QED
      BY <1>7, <2>1, <2>2, <3>2, Zenon DEF Holds
  <2>3. CASE k # L
    BY <1>7, <2>1, <2>3, Zenon DEF Holds
  <2> QED
    BY <2>2, <2>3, Zenon
<1>10. ASSUME NEW k, NEW a, NEW e, Holds(xx, yy, k, a, e)
       PROVE  Holds(x, y, k, a, e) \/ (e = d /\ k = L /\ a = B)
  <2>1. k \in Nat /\ a \in 1 .. Len(Slot(xx, yy, k)) /\ Slot(xx, yy, k)[a] = e
    BY <1>10, Zenon DEF Holds
  <2>2. CASE k = L
    <3>1. a \in 1 .. B /\ Append(x.batch, d)[a] = e
      BY <1>3, <1>7, <2>1, <2>2, Zenon
    <3>2. CASE a = B
      BY <1>3, <2>2, <3>1, <3>2, Zenon
    <3>3. CASE a \in 1 .. Len(x.batch)
      <4>1. x.batch[a] = e
        BY <1>3, <3>1, <3>3, Zenon
      <4> QED
        BY <1>4, <2>1, <2>2, <3>3, <4>1, Zenon DEF Holds
    <3> QED
      BY <1>6, <3>1, <3>2, <3>3
  <2>3. CASE k # L
    BY <1>7, <2>1, <2>3, Zenon DEF Holds
  <2> QED
    BY <2>2, <2>3, Zenon
<1>11. ASSUME NEW k, NEW a, Holds(xx, yy, k, a, d)
       PROVE  k = L /\ a = B
  <2>1. Holds(x, y, k, a, d) \/ (d = d /\ k = L /\ a = B)
    BY <1>10, <1>11, Zenon
  <2>2. ~Holds(x, y, k, a, d)
    BY Zenon
  <2> QED
    BY <2>1, <2>2, Zenon
<1>12. ASSUME NEW l, NEW b, NEW e, Holds(xx, yy, l, b, e)
       PROVE  ~(L < l \/ (L = l /\ B < b))
  <2>1. l \in Nat /\ b \in 1 .. Len(Slot(xx, yy, l))
    BY <1>12, Zenon DEF Holds
  <2>2. ~(L < l)
    <3>1. ASSUME L < l
          PROVE  FALSE
      <4>1. l # L /\ l > L
        BY <1>2, <2>1, <3>1
      <4>2. Slot(xx, yy, l) = NoData
        BY <1>5, <1>7, <2>1, <4>1, Zenon
      <4> QED
        BY <2>1, <4>2, NoDataFacts, Zenon
    <3> QED
      BY <3>1
  <2>3. ASSUME L = l
        PROVE  ~(B < b)
    <3>1. b \in 1 .. B
      BY <1>3, <1>7, <2>1, <2>3, Zenon
    <3>2. B \in Nat
      BY <1>3 DEF B
    <3> QED
      BY <3>1, <3>2
  <2> QED
    BY <2>2, <2>3
<1> QED
  BY <1>2, <1>8, <1>9, <1>10, <1>11, <1>12, ZenonT(40) DEF LaneGrows


\* append leaves a lane that grew.
LEMMA AppendGrows ==
  ASSUME NEW x \in QueueRecords, NEW y \in WorkerRecords, NEW d \in Nat, x.flush # "clear",
         \A k, a : ~Holds(x, y, k, a, d), NEW xx \in QueueAppend(x, d)
  PROVE  xx \in QueueRecords /\ xx.flush = x.flush /\ xx.closed = x.closed /\ LaneGrows(x, y, xx, y, d)
<1> DEFINE b == Append(x.batch, d)
           small == [x EXCEPT !.batch = b]
           full == [x EXCEPT !.batch = NoData, !.chan = Append(x.chan, b)]
<1>1. x.chan \in Seq(Seq(Nat)) /\ x.batch \in Seq(Nat)
  BY RecordFields, Zenon
<1>2. b \in Seq(Nat)
  BY <1>1, AppendFacts, Zenon
<1>3. Append(x.chan, b) \in Seq(Seq(Nat))
  BY <1>1, <1>2, LongerChannel, Zenon
<1>4. Len(x.chan) + 1 \in Nat /\ Len(x.chan) + 1 # 0 /\ ~(Len(x.chan) + 1 <= Len(x.chan))
  BY <1>1
<1>5. xx = small \/ xx = full
  <2> HIDE DEF b
  <2>1. xx \in {small} \/ xx \in {full}
    <3>1. \/ xx \in {small}
          \/ xx \in {[x EXCEPT !.batch = << >>, !.chan = Append(@, b)]}
          \/ xx \in {}
      <4>1. QueueAppend(x, d) = CASE Len(b) < BatchSize -> {small}
                [] Len(b) >= BatchSize /\ Len(x.chan) < Batches -> {[x EXCEPT !.batch = << >>, !.chan = Append(@, b)]}
                [] OTHER -> {}
        BY Zenon DEF QueueAppend, b
      <4> QED
        BY <4>1, Zenon
    <3> QED
      BY <3>1, Zenon DEF NoData
  <2> QED
    BY <2>1, Zenon
<1> HIDE DEF b
<1>6. CASE xx = small
  <2>1. xx \in QueueRecords /\ xx.batch = b /\ xx.chan = x.chan /\ xx.flush = x.flush /\ xx.closed = x.closed
    BY <1>2, <1>6, Zenon DEF QueueRecords
  <2>2. Rest(xx) = b
    BY <2>1, Zenon DEF Rest
  <2>3. /\ Slot(xx, y, Len(x.chan) + 1) = Append(x.batch, d)
        /\ \A k \in Nat : k # Len(x.chan) + 1 => Slot(xx, y, k) = Slot(x, y, k)
    BY <1>4, <2>1, <2>2, Zenon DEF Slot, b
  <2>4. LaneGrows(x, y, xx, y, d)
    BY <2>3, SlotGrows, Zenon
  <2> QED
    BY <2>1, <2>4, Zenon
<1>7. CASE xx = full
  <2>1. xx \in QueueRecords /\ xx.batch = NoData /\ xx.chan = Append(x.chan, b) /\ xx.flush = x.flush /\ xx.closed = x.closed
    BY <1>3, <1>7, NoDataFacts, Zenon DEF QueueRecords
  <2>2. Rest(xx) = NoData
    BY <2>1, Zenon DEF Rest
  <2>3. MovesBatch(x, y, xx, y, b)
    BY <1>2, <2>1, <2>2, Zenon DEF MovesBatch
  <2>4. /\ Slot(xx, y, Len(x.chan) + 1) = b
        /\ \A k \in Nat : k # Len(x.chan) + 1 => Slot(xx, y, k) = Slot(x, y, k)
    BY <2>3, BatchMoves, SMTT(20)
  <2>5. LaneGrows(x, y, xx, y, d)
    <3>1. Slot(xx, y, Len(x.chan) + 1) = Append(x.batch, d)
      BY <2>4, Zenon DEF b
    <3> QED
      BY <2>4, <3>1, SlotGrows, Zenon
  <2> QED
    BY <2>1, <2>5, Zenon
<1> QED
  BY <1>5, <1>6, <1>7, Zenon

\* enqueue takes the next datum.
LEMMA EnqueueKeeps ==
  ASSUME QueueInv, NEW d, d = feed.next, d \in DOMAIN Data, Enqueue(d)
  PROVE  QueueInv'
<1>1. /\ ~sh.soft
      /\ feed' = [feed EXCEPT !.next = @ + 1, !.accepted = @ \cup {d}]
      /\ tally' = [tally EXCEPT !.pending = @ + 1, !.enqueued = @ + 1]
      /\ sh' = sh /\ worker' = worker /\ stopper' = stopper /\ remote' = remote
  BY Zenon DEF Enqueue
<1>2. QueueType /\ ShutInv /\ LaneInv /\ SentInv /\ PendingIsExact
  BY Zenon DEF QueueInv
<1>3. /\ feed.next \in Nat /\ feed.accepted \in SUBSET Nat /\ sh.n \in Nat \ {0} /\ DOMAIN queue = 0 .. sh.n - 1
      /\ DOMAIN worker = DOMAIN queue /\ tally.pending \in Int /\ tally.enqueued \in Int
      /\ feed \in [next : Nat, accepted : SUBSET Nat, quit : BOOLEAN]
      /\ tally \in [pending : Int, enqueued : Int, failed : Int, reshards : Nat, lost : Nat]
  BY <1>2, QueueFields, Zenon DEF QueueType
<1>4. Data[d].ref \in Nat
  <2> DEFINE S == [ref : Nat, kind : {"sample", "exemplar", "histogram", "floathistogram"}]
  <2>1. Data \in Seq(S)
    BY RemoteQueueAssumption, Zenon
  <2> HIDE DEF S
  <2>2. \A e \in DOMAIN Data : Data[e] \in S
    BY <2>1
  <2> QED
    BY <2>2, Zenon DEF S
<1>5. PICK i \in DOMAIN queue : i = Data[d].ref % sh.n
  BY <1>3, <1>4, ShardIsOne, Zenon
<1>6. PICK q \in QueueAppend(queue[i], d) : queue' = [queue EXCEPT ![i] = q]
  BY <1>5, Zenon DEF Enqueue
<1> DEFINE x == queue[i]
           y == worker[i]
<1>7. x \in QueueRecords /\ y \in WorkerRecords /\ ShardShut(x, y)
  BY <1>5, ShardFacts, Zenon
<1>8. ShardOf(d) = i
  BY <1>5, Zenon DEF ShardOf
<1>9. stopper.pc \notin {"lock", "wait", "forced", "start", "stopped"} /\ ~sh.hard
  BY <1>1, <1>2, Zenon DEF ShutInv
<1>10. x.flush = "none" /\ x.closed = FALSE /\ y.pc # "exit"
  <2>1. x.flush = "none"
    BY <1>7, <1>9, Zenon DEF ShardShut
  <2>2. x.closed \in BOOLEAN /\ ~x.closed
    BY <1>7, <2>1, RecordFields, Zenon DEF ShardShut
  <2>3. y.pc # "exit"
    BY <1>7, <1>9, <2>2, Zenon DEF ShardShut
  <2> QED
    BY <2>1, <2>2, <2>3, Zenon
<1> HIDE DEF x, y
<1>11. ~(d < d) /\ d \in Nat /\ d + 1 \in Nat /\ d < d + 1
  BY <1>3
<1>12. \A k, a : ~Holds(x, y, k, a, d)
  <2>1. \A k, a : Has(i, k, a, d) => d < feed.next
    BY <1>2, Zenon DEF LaneInv
  <2>2. \A k, a : ~Has(i, k, a, d)
    BY <1>11, <2>1, Zenon
  <2> QED
    BY <1>5, <2>2, Zenon DEF Has, x, y
<1>13. q \in QueueRecords /\ q.flush = "none" /\ q.closed = FALSE /\ LaneGrows(x, y, q, y, d)
  <2>1. q \in QueueAppend(x, d) /\ x.flush # "clear"
    BY <1>6, <1>10, Zenon DEF x
  <2> QED
    BY <1>7, <1>10, <1>11, <1>12, <2>1, AppendGrows, ZenonT(30)
<1>14. worker' = [worker EXCEPT ![i] = y] /\ queue' = [queue EXCEPT ![i] = q]
  BY <1>6, <1>1, <1>5, SameShard, Zenon DEF y
<1>15. /\ queue' \in [0 .. sh'.n - 1 -> QueueRecords] /\ worker' \in [0 .. sh'.n - 1 -> WorkerRecords]
       /\ DOMAIN queue' = DOMAIN queue /\ queue'[i] = q /\ worker'[i] = y
       /\ \A j \in DOMAIN queue : j # i => queue'[j] = queue[j] /\ worker'[j] = worker[j]
  BY <1>1, <1>2, <1>5, <1>7, <1>13, <1>14, OneShard, Zenon
<1>16. tally.pending + 1 \in Int /\ tally.enqueued + 1 \in Int /\ feed.next + 1 \in Nat
  <2>1. (\A c \in Int : c + 1 \in Int) /\ (\A n \in Nat : n + 1 \in Nat)
    OBVIOUS
  <2> QED
    BY <1>3, <2>1, Zenon
<1>17. /\ feed' \in [next : Nat, accepted : SUBSET Nat, quit : BOOLEAN] /\ feed'.next = d + 1
  BY <1>1, <1>3, <1>11, <1>16, Zenon
<1>18. /\ tally' \in [pending : Int, enqueued : Int, failed : Int, reshards : Nat, lost : Nat]
       /\ tally'.pending = tally.pending + 1 /\ tally'.enqueued = tally.enqueued + 1
  BY <1>1, <1>3, <1>16, Zenon
<1>19. QueueType'
  BY <1>1, <1>2, <1>15, <1>17, <1>18, Zenon DEF QueueType
<1>20. ShutInv'
  <2>1. ASSUME NEW j \in DOMAIN queue
        PROVE  ShardShut(queue[j], worker[j])'
    <3>1. ShardShut(queue[j], worker[j])
      BY <1>2, Zenon DEF ShutInv
    <3>2. CASE j = i
      BY <1>1, <1>7, <1>10, <1>13, <1>15, <3>2, Zenon DEF ShardShut
    <3>3. CASE j # i
      BY <1>1, <1>15, <3>1, <3>3, Zenon DEF ShardShut
    <3> QED
      BY <3>2, <3>3, Zenon
  <2> QED
    BY <1>1, <1>2, <1>15, <2>1, Zenon DEF ShutInv
<1>21. \A k, a, e : Holds(x, y, k, a, e) <=> Has(i, k, a, e)
  BY <1>5, Zenon DEF Has, x, y
<1>22. \A k, a, e : Has(i, k, a, e)' <=> Holds(q, y, k, a, e)
  BY <1>5, <1>15, Zenon DEF Has
<1>23. \A j, k, a, e : j # i => (Has(j, k, a, e)' <=> Has(j, k, a, e))
  BY <1>15, Zenon DEF Has
<1>24. \A k, a, e : Holds(q, y, k, a, e) => Holds(x, y, k, a, e) \/ e = d
  BY <1>13, Zenon DEF LaneGrows
<1>25. \A k, a : Holds(q, y, k, a, d) => k # 0 /\ \A l, b, e : Holds(q, y, l, b, e) => ~(k < l \/ (k = l /\ a < b))
  BY <1>13, Zenon DEF LaneGrows
<1>26. \A j, k, a, e : Has(j, k, a, e)' => Has(j, k, a, e) \/ (j = i /\ e = d /\ k # 0)
  BY <1>21, <1>22, <1>23, <1>24, <1>25, Zenon
<1>27. \A e \in DOMAIN Data : e < feed.next => e < feed'.next
  <2>1. \A e \in Nat : e < d => e < d + 1
    BY <1>11
  <2>2. \A e \in DOMAIN Data : e \in Nat
    BY RemoteQueueAssumption
  <2> QED
    BY <1>17, <2>1, <2>2, Zenon
<1>28. LaneInv'
  <2>1. \A e : ShardOf(e)' = ShardOf(e)
    BY <1>1, Zenon DEF ShardOf
  <2>2. \A j, k, a, e : Has(j, k, a, e) => e \in DOMAIN Data /\ e < feed.next /\ ShardOf(e) = j
    BY <1>2, Zenon DEF LaneInv
  <2>3. \A j, k, a, e, l, b, f : Has(j, k, a, e) /\ Has(j, l, b, f) /\ (k < l \/ (k = l /\ a < b)) => e < f
    BY <1>2, Zenon DEF LaneInv
  <2>4. ASSUME NEW j, NEW k, NEW a, NEW e, Has(j, k, a, e)'
        PROVE  e \in DOMAIN Data /\ e < feed'.next /\ ShardOf(e)' = j
    <3>1. CASE Has(j, k, a, e)
      BY <1>27, <2>1, <2>2, <3>1, Zenon
    <3>2. CASE j = i /\ e = d
      BY <1>8, <1>11, <1>17, <2>1, <3>2, Zenon
    <3>3. Has(j, k, a, e) \/ (j = i /\ e = d /\ k # 0)
      BY <1>26, <2>4, Zenon
    <3> QED
      BY <3>1, <3>2, <3>3, Zenon
  <2>5. ASSUME NEW j, NEW k, NEW a, NEW e, NEW l, NEW b, NEW f, Has(j, k, a, e)', Has(j, l, b, f)', k < l \/ (k = l /\ a < b)
        PROVE  e < f
    <3>1. CASE Has(j, k, a, e) /\ Has(j, l, b, f)
      BY <2>3, <2>5, <3>1, Zenon
    <3>2. CASE j = i /\ e = d
      BY <1>22, <1>25, <2>5, <3>2, Zenon
    <3>3. CASE Has(j, k, a, e) /\ f = d
      BY <2>2, <3>3, Zenon
    <3>4. Has(j, k, a, e) \/ (j = i /\ e = d /\ k # 0)
      BY <1>26, <2>5, Zenon
    <3>5. Has(j, l, b, f) \/ (j = i /\ f = d /\ l # 0)
      BY <1>26, <2>5, Zenon
    <3> QED
      BY <3>1, <3>2, <3>3, <3>4, <3>5, Zenon
  <2> QED
    BY <2>4, <2>5, Zenon DEF LaneInv
<1>29. SentInv'
  <2>1. \A e : (Got(e)' <=> Got(e)) /\ (Newest(e)' <=> Newest(e))
    BY <1>1, Zenon DEF Got, Newest
  <2>2. \A e : Got(e) => e \in DOMAIN Data /\ e < feed.next
    BY <1>2, Zenon DEF SentInv
  <2>3. \A e : Got(e)' => e \in DOMAIN Data /\ e < feed'.next
    BY <1>27, <2>1, <2>2, Zenon
  <2>4. Newest(d)
    BY <2>2, Zenon DEF Newest
  <2>5. \A j, k, a, e : Has(j, k, a, e) /\ k # 0 => Newest(e)
    BY <1>2, Zenon DEF SentInv
  <2>6. ASSUME NEW j, NEW k, NEW a, NEW e, Has(j, k, a, e)', k # 0
        PROVE  Newest(e)'
    <3>1. Has(j, k, a, e) \/ (j = i /\ e = d /\ k # 0)
      BY <1>26, <2>6, Zenon
    <3>2. Newest(e)
      BY <2>4, <2>5, <2>6, <3>1, Zenon
    <3> QED
      BY <2>1, <3>2, Zenon
  <2>7. \A j, a, e : Has(j, 0, a, e)' => (Newest(e)' \/ Got(e)') /\ e \notin remote'.acked
    <3>1. \A j, a, e : Has(j, 0, a, e) => (Newest(e) \/ Got(e)) /\ e \notin remote.acked
      BY <1>2, Zenon DEF SentInv
    <3> QED
      BY <1>1, <1>26, <2>1, <3>1, Zenon
  <2>8. \A e \in remote'.acked : Got(e)'
    BY <1>1, <1>2, <2>1, Zenon DEF SentInv
  <2>9. DeliveredOldestFirst'
    BY <1>1, <1>2, DeliveredStays, Zenon DEF SentInv
  <2> QED
    BY <2>3, <2>6, <2>7, <2>8, <2>9, Zenon DEF SentInv
<1>30. InFlight' = InFlight \cup {d} /\ d \notin InFlight
  <2>1. \A e : e \in InFlight <=> \E j \in DOMAIN queue : worker[j].pc # "exit" /\ InLane(queue[j], worker[j], e)
    BY <1>2, FlightIs, Zenon
  <2>2. \A e : e \in InFlight' <=> \E j \in DOMAIN queue' : worker'[j].pc # "exit" /\ InLane(queue'[j], worker'[j], e)
    BY <1>19, FlightIsNext, Zenon
  <2>3. \A e : InLane(q, y, e) <=> InLane(x, y, e) \/ e = d
    BY <1>13, Zenon DEF LaneGrows, InLane
  <2>4. queue[i] = x /\ worker[i] = y
    BY Zenon DEF x, y
  <2>5. ASSUME NEW e \in InFlight'
        PROVE  e \in InFlight \cup {d}
    <3>1. PICK j \in DOMAIN queue : worker'[j].pc # "exit" /\ InLane(queue'[j], worker'[j], e)
      BY <1>15, <2>2, Zenon
    <3>2. CASE j = i
      BY <1>15, <2>1, <2>3, <2>4, <3>1, <3>2, Zenon
    <3>3. CASE j # i
      BY <1>15, <2>1, <3>1, <3>3, Zenon
    <3> QED
      BY <3>2, <3>3, Zenon
  <2>6. ASSUME NEW e \in InFlight
        PROVE  e \in InFlight'
    <3>1. PICK j \in DOMAIN queue : worker[j].pc # "exit" /\ InLane(queue[j], worker[j], e)
      BY <2>1, Zenon
    <3>2. CASE j = i
      BY <1>15, <2>2, <2>3, <2>4, <3>1, <3>2, Zenon
    <3>3. CASE j # i
      BY <1>15, <2>2, <3>1, <3>3, Zenon
    <3> QED
      BY <3>2, <3>3, Zenon
  <2>7. d \in InFlight'
    BY <1>5, <1>10, <1>15, <2>2, <2>3, Zenon
  <2>8. d \notin InFlight
    BY <1>2, <1>11, FlightIsFed, Zenon
  <2> QED
    BY <2>5, <2>6, <2>7, <2>8, Zenon
<1>31. PendingIsExact'
  <2>1. IsFiniteSet(InFlight) /\ Cardinality(InFlight) \in Nat
    BY <1>2, <1>3, FlightIsFed, BelowIsFinite, Zenon
  <2>2. Cardinality(InFlight \cup {d}) = Cardinality(InFlight) + 1
    BY <1>30, <2>1, FS_AddElement, Zenon
  <2>3. tally.pending = Cardinality(InFlight) /\ tally.enqueued = tally.pending
    BY <1>2, <1>9, Zenon DEF PendingIsExact
  <2>4. tally'.pending = Cardinality(InFlight') /\ tally'.enqueued = tally'.pending
    BY <1>18, <1>30, <2>2, <2>3, Zenon
  <2> QED
    BY <2>4, Zenon DEF PendingIsExact
<1> QED
  BY <1>19, <1>20, <1>28, <1>29, <1>31, Zenon DEF QueueInv

-------------------------------------------------------------------------------
(* Steps that leave the lanes alone *)

\* feed, sh, stopper and the bounds change, the lanes and what was delivered do not.
LEMMA LanesStay ==
  ASSUME QueueInv, QueueType', ShutInv', queue' = queue, worker' = worker, remote' = remote,
         sh'.n = sh.n, sh'.hard = sh.hard \/ sh'.hard, feed'.next >= feed.next,
         tally'.pending = tally.pending, tally'.enqueued = tally.enqueued
  PROVE  QueueInv'
<1>1. QueueType /\ LaneInv /\ SentInv /\ PendingIsExact
  BY Zenon DEF QueueInv
<1>2. LanesMoved
  <2>1. ASSUME NEW j \in DOMAIN queue
        PROVE  Moved(queue[j], worker[j], queue'[j], worker'[j], 0)
    <3>1. AllMoved(queue[j], worker[j], queue'[j], worker'[j], 0)
      BY LaneStill, Zenon
    <3> QED
      BY <3>1, Zenon DEF AllMoved, Moved
  <2>2. 0 \in {0, 1}
    OBVIOUS
  <2> QED
    BY <2>1, <2>2, Zenon DEF LanesMoved
<1>3. DOMAIN queue' = DOMAIN queue
  BY Zenon
<1>4. LaneInv' /\ SentInv'
  BY <1>1, <1>2, <1>3, LanesMove, Zenon
<1>5. InFlight' = InFlight
  BY Zenon DEF InFlight, Waiting
<1>6. PendingIsExact'
  BY <1>1, <1>5, CountStays, Zenon
<1> QED
  BY <1>4, <1>6, Zenon DEF QueueInv

\* A datum is passed over, or Stop closes quit.
LEMMA FeedKeeps ==
  ASSUME QueueInv, Skip \/ Quit
  PROVE  QueueInv'
<1>1. /\ sh' = sh /\ queue' = queue /\ worker' = worker /\ stopper' = stopper /\ remote' = remote /\ tally' = tally
      /\ feed' = [feed EXCEPT !.next = @ + 1] \/ feed' = [feed EXCEPT !.quit = TRUE]
  BY Zenon DEF Skip, Quit
<1>2. QueueType /\ ShutInv /\ feed.next \in Nat /\ feed \in [next : Nat, accepted : SUBSET Nat, quit : BOOLEAN]
  BY QueueFields, Zenon DEF QueueInv, QueueType
<1>3. feed.next + 1 \in Nat /\ feed.next + 1 >= feed.next /\ feed.next >= feed.next
  BY <1>2
<1>4. feed' \in [next : Nat, accepted : SUBSET Nat, quit : BOOLEAN] /\ (feed'.next = feed.next + 1 \/ feed'.next = feed.next)
  BY <1>1, <1>2, <1>3, Zenon
<1>5. feed'.next >= feed.next
  BY <1>3, <1>4, Zenon
<1>6. QueueType'
  BY <1>1, <1>2, <1>4, Zenon DEF QueueType
<1>7. ShutInv'
  BY <1>1, <1>2, Zenon DEF ShutInv, ShardShut
<1> QED
  BY <1>1, <1>5, <1>6, <1>7, LanesStay, Zenon

\* Append and its siblings.
LEMMA AppendsKeep ==
  ASSUME QueueInv, AppendStep
  PROVE  QueueInv'
<1>1. ASSUME NEW kind, AppendKind(kind)
      PROVE  QueueInv'
  <2>1. Skip \/ (feed.next \in DOMAIN Data /\ Enqueue(feed.next))
    BY <1>1, Zenon DEF AppendKind
  <2>2. CASE feed.next \in DOMAIN Data /\ Enqueue(feed.next)
    <3>1. PICK d : d = feed.next
      BY Zenon
    <3>2. d \in DOMAIN Data /\ Enqueue(d)
      BY <2>2, <3>1, Zenon DEF Enqueue
    <3> QED
      BY <3>1, <3>2, EnqueueKeeps, Zenon
  <2>3. CASE Skip
    BY <2>3, FeedKeeps, Zenon
  <2> QED
    BY <2>1, <2>2, <2>3, Zenon
<1> QED
  BY <1>1, Zenon DEF AppendStep, AppendSample, AppendExemplar, AppendHistogram, AppendFloatHistogram

\* The steps of resharding and of Stop before the shards are started again.
LEMMA StopsKeep ==
  ASSUME QueueInv, Reshard \/ StopBegins \/ StopSoft \/ StopDeadline \/ StopDone
  PROVE  QueueInv'
<1>1. /\ QueueType /\ ShutInv /\ feed.next \in Nat /\ feed.next >= feed.next
      /\ sh \in [n : Nat \ {0}, soft : BOOLEAN, hard : BOOLEAN] /\ sh.soft \in BOOLEAN /\ sh.hard \in BOOLEAN
      /\ stopper \in [who : {"none", "reshard", "stop"}, pc : StopPcs, n : Nat \ {0}] /\ stopper.pc \in StopPcs
      /\ tally \in [pending : Int, enqueued : Int, failed : Int, reshards : Nat, lost : Nat]
  <2>1. feed.next \in Nat
    BY QueueFields, Zenon DEF QueueInv
  <2>2. feed.next >= feed.next
    BY <2>1
  <2> QED
    BY <2>1, <2>2, QueueFields, Zenon DEF QueueInv, QueueType
<1>2. \A j \in DOMAIN queue : ShardShut(queue[j], worker[j])
  BY <1>1, Zenon DEF ShutInv
<1>3. CASE Reshard
  <2>1. PICK n \in ShardCounts \ {sh.n} :
           /\ stopper.pc = "idle" /\ ~feed.quit /\ tally.reshards < MaxReshards
           /\ stopper' = [who |-> "reshard", pc |-> "soft", n |-> n]
           /\ tally' = [tally EXCEPT !.reshards = @ + 1]
           /\ UNCHANGED <<feed, sh, queue, worker, remote>>
    BY <1>3, Zenon DEF Reshard
  <2>2. feed' = feed /\ sh' = sh /\ queue' = queue /\ worker' = worker /\ remote' = remote
    BY <2>1, Zenon
  <2>3. n \in Nat \ {0} /\ tally.reshards \in Nat /\ tally.reshards + 1 \in Nat
    <3>1. \A m \in Nat : m + 1 \in Nat
      OBVIOUS
    <3> QED
      BY <1>1, <3>1, RemoteQueueAssumption, Zenon
  <2>4. stopper' \in [who : {"none", "reshard", "stop"}, pc : StopPcs, n : Nat \ {0}] /\ stopper'.pc = "soft"
    BY <2>1, <2>3, Zenon DEF StopPcs
  <2>5. /\ tally' \in [pending : Int, enqueued : Int, failed : Int, reshards : Nat, lost : Nat]
        /\ tally'.pending = tally.pending /\ tally'.enqueued = tally.enqueued
    BY <1>1, <2>1, <2>3, Zenon
  <2>6. QueueType'
    BY <1>1, <2>2, <2>4, <2>5, Zenon DEF QueueType
  <2>7. ShutInv'
    <3>1. \A j \in DOMAIN queue : ShardShut(queue[j], worker[j])'
      <4>1. \A j \in DOMAIN queue : queue[j].flush = "none"
        BY <1>2, <2>1, Zenon DEF ShardShut
      <4> QED
        BY <1>2, <2>2, <4>1, Zenon DEF ShardShut
    <3> QED
      BY <1>1, <2>1, <2>2, <2>4, <3>1, Zenon DEF ShutInv
  <2> QED
    BY <1>1, <2>2, <2>5, <2>6, <2>7, LanesStay, Zenon
<1>4. CASE StopBegins
  <2>1. /\ stopper.pc = "idle" /\ stopper' = [stopper EXCEPT !.who = "stop", !.pc = "soft"]
        /\ feed' = feed /\ sh' = sh /\ queue' = queue /\ worker' = worker /\ remote' = remote /\ tally' = tally
    BY <1>4, Zenon DEF StopBegins
  <2>2. stopper' \in [who : {"none", "reshard", "stop"}, pc : StopPcs, n : Nat \ {0}] /\ stopper'.pc = "soft"
    BY <1>1, <2>1, Zenon DEF StopPcs
  <2>3. QueueType'
    BY <1>1, <2>1, <2>2, Zenon DEF QueueType
  <2>4. ShutInv'
    <3>1. \A j \in DOMAIN queue : ShardShut(queue[j], worker[j])'
      <4>1. \A j \in DOMAIN queue : queue[j].flush = "none"
        BY <1>2, <2>1, Zenon DEF ShardShut
      <4> QED
        BY <1>2, <2>1, <4>1, Zenon DEF ShardShut
    <3> QED
      BY <1>1, <2>1, <2>2, <3>1, Zenon DEF ShutInv
  <2> QED
    BY <1>1, <2>1, <2>3, <2>4, LanesStay, Zenon
<1>5. CASE StopSoft
  <2>1. /\ stopper.pc = "soft" /\ stopper' = [stopper EXCEPT !.pc = "lock"] /\ sh' = [sh EXCEPT !.soft = TRUE]
        /\ feed' = feed /\ queue' = queue /\ worker' = worker /\ remote' = remote /\ tally' = tally
    BY <1>5, Zenon DEF StopSoft
  <2>2. stopper' \in [who : {"none", "reshard", "stop"}, pc : StopPcs, n : Nat \ {0}] /\ stopper'.pc = "lock"
    BY <1>1, <2>1, Zenon DEF StopPcs
  <2>3. sh' \in [n : Nat \ {0}, soft : BOOLEAN, hard : BOOLEAN] /\ sh'.soft = TRUE /\ sh'.hard = sh.hard /\ sh'.n = sh.n
    BY <1>1, <2>1, Zenon
  <2>4. QueueType'
    BY <1>1, <2>1, <2>2, <2>3, Zenon DEF QueueType
  <2>5. ShutInv'
    <3>1. \A j \in DOMAIN queue : ShardShut(queue[j], worker[j])'
      <4>1. \A j \in DOMAIN queue : queue[j].flush = "none"
        BY <1>2, <2>1, Zenon DEF ShardShut
      <4> QED
        BY <1>2, <2>1, <2>3, <4>1, Zenon DEF ShardShut
    <3> QED
      BY <1>1, <2>1, <2>2, <2>3, <3>1, Zenon DEF ShutInv
  <2> QED
    BY <1>1, <2>1, <2>3, <2>4, <2>5, LanesStay, Zenon
<1>6. CASE StopDeadline
  <2>1. /\ stopper.pc = "wait" /\ stopper' = [stopper EXCEPT !.pc = "forced"] /\ sh' = [sh EXCEPT !.hard = TRUE]
        /\ feed' = feed /\ queue' = queue /\ worker' = worker /\ remote' = remote /\ tally' = tally
    BY <1>6, Zenon DEF StopDeadline
  <2>2. stopper' \in [who : {"none", "reshard", "stop"}, pc : StopPcs, n : Nat \ {0}] /\ stopper'.pc = "forced"
    BY <1>1, <2>1, Zenon DEF StopPcs
  <2>3. sh' \in [n : Nat \ {0}, soft : BOOLEAN, hard : BOOLEAN] /\ sh'.soft = sh.soft /\ sh'.hard = TRUE /\ sh'.n = sh.n
    BY <1>1, <2>1, Zenon
  <2>4. QueueType'
    BY <1>1, <2>1, <2>2, <2>3, Zenon DEF QueueType
  <2>5. ShutInv'
    <3>1. \A j \in DOMAIN queue : ShardShut(queue[j], worker[j])'
      BY <1>2, <2>1, <2>2, <2>3, Zenon DEF ShardShut
    <3> QED
      BY <1>1, <2>1, <2>2, <2>3, <3>1, Zenon DEF ShutInv
  <2> QED
    BY <1>1, <2>1, <2>3, <2>4, <2>5, LanesStay, Zenon
<1>7. CASE StopDone
  <2>1. /\ stopper.pc \in {"wait", "forced"} /\ feed' = feed /\ sh' = sh
        /\ stopper' = [stopper EXCEPT !.pc = "stopped"] \/ stopper' = [stopper EXCEPT !.pc = "start"]
        /\ queue' = queue /\ worker' = worker /\ remote' = remote /\ tally' = tally
    BY <1>7, Zenon DEF StopDone, Locked
  <2>2. stopper' \in [who : {"none", "reshard", "stop"}, pc : StopPcs, n : Nat \ {0}] /\ stopper'.pc \in {"stopped", "start"}
    BY <1>1, <2>1, Zenon DEF StopPcs
  <2>3. QueueType'
    BY <1>1, <2>1, <2>2, Zenon DEF QueueType
  <2>4. ShutInv'
    <3>1. \A j \in DOMAIN queue : ShardShut(queue[j], worker[j])'
      BY <1>2, <2>1, <2>2, Zenon DEF ShardShut
    <3> QED
      BY <1>1, <2>1, <2>2, <3>1, Zenon DEF ShutInv
  <2> QED
    BY <1>1, <2>1, <2>3, <2>4, LanesStay, Zenon
<1> QED
  BY <1>3, <1>4, <1>5, <1>6, <1>7, Zenon

\* shards.stop flushes every queue; the lanes stay.
LEMMA FlushesKeep ==
  ASSUME QueueInv, StopFlushes
  PROVE  QueueInv'
<1>1. /\ stopper.pc = "lock" /\ queue' = [j \in DOMAIN queue |-> [queue[j] EXCEPT !.flush = "try"]]
      /\ stopper' = [stopper EXCEPT !.pc = "wait"]
      /\ feed' = feed /\ sh' = sh /\ worker' = worker /\ remote' = remote /\ tally' = tally
  BY Zenon DEF StopFlushes
<1>2. /\ QueueType /\ ShutInv /\ LaneInv /\ SentInv /\ PendingIsExact /\ feed.next \in Nat
      /\ DOMAIN queue = 0 .. sh.n - 1
      /\ \A j \in DOMAIN queue : queue[j] \in QueueRecords /\ worker[j] \in WorkerRecords /\ ShardShut(queue[j], worker[j])
      /\ stopper \in [who : {"none", "reshard", "stop"}, pc : StopPcs, n : Nat \ {0}]
  BY QueueFields, ShardFacts, Zenon DEF QueueInv, QueueType
<1>3. stopper' \in [who : {"none", "reshard", "stop"}, pc : StopPcs, n : Nat \ {0}] /\ stopper'.pc = "wait"
  BY <1>1, <1>2, Zenon DEF StopPcs
<1>4. ASSUME NEW j \in DOMAIN queue
      PROVE  /\ queue'[j] \in QueueRecords /\ queue'[j].flush = "try" /\ queue'[j].chan = queue[j].chan
             /\ queue'[j].batch = queue[j].batch /\ queue'[j].closed = queue[j].closed /\ queue[j].flush = "none"
  <2>1. queue'[j] = [queue[j] EXCEPT !.flush = "try"]
    BY <1>1, Zenon
  <2>2. queue[j] \in QueueRecords /\ queue[j].flush = "none"
    BY <1>1, <1>2, Zenon DEF ShardShut
  <2> QED
    BY <2>1, <2>2, Zenon DEF QueueRecords, Flushes
<1>5. DOMAIN queue' = DOMAIN queue /\ queue' \in [0 .. sh'.n - 1 -> QueueRecords]
  <2>1. DOMAIN queue' = DOMAIN queue
    BY <1>1, Zenon
  <2>2. queue' \in [DOMAIN queue -> QueueRecords]
    BY <1>1, <1>4, Zenon
  <2> QED
    BY <1>1, <1>2, <2>1, <2>2, Zenon
<1>6. QueueType'
  BY <1>1, <1>2, <1>3, <1>5, Zenon DEF QueueType
<1>7. ShutInv'
  <2>1. ASSUME NEW j \in DOMAIN queue
        PROVE  ShardShut(queue[j], worker[j])'
    <3>1. ShardShut(queue[j], worker[j])
      BY <1>2, Zenon
    <3> QED
      BY <1>1, <1>3, <1>4, <3>1, Zenon DEF ShardShut
  <2> QED
    BY <1>1, <1>2, <1>3, <1>5, <2>1, Zenon DEF ShutInv
<1>8. ASSUME NEW j \in DOMAIN queue
      PROVE  AllMoved(queue[j], worker[j], queue'[j], worker'[j], 0)
  <2>1. Rest(queue'[j]) = Rest(queue[j])
    BY <1>4, Zenon DEF Rest
  <2> QED
    BY <1>1, <1>4, <2>1, LaneStill, Zenon
<1>9. 0 \in {0, 1} /\ feed.next >= feed.next
  BY <1>2
<1>10. LanesMoved
  BY <1>8, <1>9, LaneMoved, Zenon DEF LanesMoved
<1>11. LaneInv' /\ SentInv'
  BY <1>1, <1>2, <1>5, <1>6, <1>9, <1>10, LanesMove, Zenon
<1>12. InFlight' = InFlight
  <2>1. \A j \in DOMAIN queue : \A d : InLane(queue'[j], worker'[j], d) <=> InLane(queue[j], worker[j], d)
    BY <1>8, <1>9, LaneMoved, Zenon
  <2> QED
    BY <1>1, <1>2, <1>5, <1>6, <2>1, FlightStays, Zenon
<1>13. PendingIsExact'
  BY <1>1, <1>2, <1>12, CountStays, Zenon
<1> QED
  BY <1>6, <1>7, <1>11, <1>13, Zenon DEF QueueInv

\* Shards that have just been started: nothing is in their lanes.
Fresh(x, y) ==
  /\ x.batch = NoData /\ x.chan = NoData /\ x.closed = FALSE /\ x.flush = "none"
  /\ y.pc = "select" /\ y.batch = NoData
  /\ \A k, a, d : ~Holds(x, y, k, a, d)

\* start makes empty queues and idle workers (shards.start).
LEMMA NewShards ==
  ASSUME NEW n \in Nat \ {0}
  PROVE  /\ Shards(n) \in [n : Nat \ {0}, soft : BOOLEAN, hard : BOOLEAN]
         /\ Shards(n).n = n /\ Shards(n).soft = FALSE /\ Shards(n).hard = FALSE
         /\ Queues(n) \in [0 .. n - 1 -> QueueRecords] /\ Workers(n) \in [0 .. n - 1 -> WorkerRecords]
         /\ DOMAIN Queues(n) = 0 .. n - 1
         /\ \A i \in DOMAIN Queues(n) : Fresh(Queues(n)[i], Workers(n)[i])
<1>1. /\ Shards(n) \in [n : Nat \ {0}, soft : BOOLEAN, hard : BOOLEAN]
      /\ Shards(n).n = n /\ Shards(n).soft = FALSE /\ Shards(n).hard = FALSE
  BY Zenon DEF Shards
<1>2. /\ NewQueue \in QueueRecords /\ NewQueue.batch = NoData /\ NewQueue.chan = NoData
      /\ NewQueue.closed = FALSE /\ NewQueue.flush = "none"
  <2>1. NewQueue = [batch |-> NoData, chan |-> NoData, closed |-> FALSE, flush |-> "none"]
    BY Zenon DEF NewQueue, NoData
  <2> QED
    BY <2>1, NoDataFacts, Zenon DEF QueueRecords, Flushes
<1> DEFINE w == [pc |-> "select", batch |-> NoData]
<1>3. w \in WorkerRecords /\ w.pc = "select" /\ w.batch = NoData
  BY NoDataFacts, Zenon DEF WorkerRecords
<1>4. Workers(n) = [i \in 0 .. n - 1 |-> w]
  BY Zenon DEF Workers, NoData
<1> HIDE DEF w
<1>5. Queues(n) \in [0 .. n - 1 -> QueueRecords] /\ DOMAIN Queues(n) = 0 .. n - 1 /\ \A i \in 0 .. n - 1 : Queues(n)[i] = NewQueue
  BY <1>2, Zenon DEF Queues
<1>6. Workers(n) \in [0 .. n - 1 -> WorkerRecords] /\ \A i \in 0 .. n - 1 : Workers(n)[i] = w
  BY <1>3, <1>4, Zenon
<1>7. \A k \in Nat : Slot(NewQueue, w, k) = NoData
  <2>1. ASSUME NEW k \in Nat
        PROVE  Slot(NewQueue, w, k) = NoData
    <3>1. k # 0 => ~(k <= Len(NoData))
      <4>1. Len(NoData) = 0
        BY NoDataFacts, Zenon
      <4> QED
        BY <4>1
    <3>2. Rest(NewQueue) = NoData
      BY <1>2, Zenon DEF Rest
    <3> QED
      BY <1>2, <1>3, <3>1, <3>2, Zenon DEF Slot
  <2> QED
    BY <2>1
<1>8. \A k, a, d : ~Holds(NewQueue, w, k, a, d)
  BY <1>7, NoDataFacts, Zenon DEF Holds
<1>9. Fresh(NewQueue, w)
  BY <1>2, <1>3, <1>8, Zenon DEF Fresh
<1>10. \A i \in DOMAIN Queues(n) : Fresh(Queues(n)[i], Workers(n)[i])
  BY <1>5, <1>6, <1>9, Zenon
<1> QED
  BY <1>1, <1>5, <1>6, <1>10, Zenon

\* The state with new shards.
LEMMA NewLanes ==
  ASSUME NEW n \in Nat \ {0}, sh' = Shards(n), queue' = Queues(n), worker' = Workers(n),
         feed' \in [next : Nat, accepted : SUBSET Nat, quit : BOOLEAN],
         stopper' \in [who : {"none", "reshard", "stop"}, pc : StopPcs, n : Nat \ {0}], stopper'.pc = "idle",
         remote' \in [got : Seq(Nat), acked : SUBSET Nat],
         tally' \in [pending : Int, enqueued : Int, failed : Int, reshards : Nat, lost : Nat],
         tally'.pending = 0, tally'.enqueued = 0
  PROVE  QueueType' /\ ShutInv' /\ LaneInv' /\ PendingIsExact' /\ \A i, k, a, d : ~Has(i, k, a, d)'
<1>1. QueueType'
  BY NewShards, Zenon DEF QueueType
<1>2. ShutInv'
  <2>1. sh'.soft = FALSE /\ sh'.hard = FALSE
    BY NewShards, Zenon
  <2>2. \A i \in DOMAIN queue' : Fresh(queue'[i], worker'[i])
    BY NewShards, Zenon
  <2>3. \A i \in DOMAIN queue' : ShardShut(queue[i], worker[i])'
    BY <2>2, Zenon DEF ShardShut, Fresh
  <2> QED
    BY <2>1, <2>3, Zenon DEF ShutInv
<1>3. \A i, k, a, d : ~Has(i, k, a, d)'
  <2>1. \A i \in DOMAIN queue' : Fresh(queue'[i], worker'[i])
    BY NewShards, Zenon
  <2> QED
    BY <2>1, Zenon DEF Has, Fresh
<1>4. LaneInv'
  BY <1>3, Zenon DEF LaneInv
<1>5. InFlight' = {}
  <2>1. \A d : d \in InFlight' <=> \E i \in DOMAIN queue' : worker'[i].pc # "exit" /\ InLane(queue'[i], worker'[i], d)
    BY <1>1, FlightIsNext, Zenon
  <2>2. \A d : d \notin InFlight'
    BY <1>3, <2>1, Zenon DEF InLane, Has
  <2> QED
    BY <2>2, Zenon
<1>6. PendingIsExact'
  <2>1. Cardinality({}) = 0
    BY FS_EmptySet, Zenon
  <2>2. Cardinality(InFlight') = 0
    BY <1>5, <2>1, Zenon
  <2> QED
    BY <2>2, Zenon DEF PendingIsExact
<1> QED
  BY <1>1, <1>2, <1>3, <1>4, <1>6, Zenon

\* shards.start.
LEMMA StartKeeps ==
  ASSUME QueueInv, Start
  PROVE  QueueInv'
<1>1. /\ sh' = Shards(stopper.n) /\ queue' = Queues(stopper.n) /\ worker' = Workers(stopper.n)
      /\ stopper' = [stopper EXCEPT !.who = "none", !.pc = "idle"]
      /\ tally' = [tally EXCEPT !.pending = 0, !.enqueued = 0]
      /\ feed' = feed /\ remote' = remote
  BY Zenon DEF Start
<1>2. /\ SentInv /\ stopper.n \in Nat \ {0}
      /\ feed \in [next : Nat, accepted : SUBSET Nat, quit : BOOLEAN]
      /\ stopper \in [who : {"none", "reshard", "stop"}, pc : StopPcs, n : Nat \ {0}]
      /\ remote \in [got : Seq(Nat), acked : SUBSET Nat]
      /\ tally \in [pending : Int, enqueued : Int, failed : Int, reshards : Nat, lost : Nat]
  BY QueueFields, Zenon DEF QueueInv, QueueType
<1>3. PICK n \in Nat \ {0} : n = stopper.n
  BY <1>2, Zenon
<1>4. stopper' \in [who : {"none", "reshard", "stop"}, pc : StopPcs, n : Nat \ {0}] /\ stopper'.pc = "idle"
  BY <1>1, <1>2, Zenon DEF StopPcs
<1>5. 0 \in Int
  OBVIOUS
<1>6. /\ tally' \in [pending : Int, enqueued : Int, failed : Int, reshards : Nat, lost : Nat]
      /\ tally'.pending = 0 /\ tally'.enqueued = 0
  BY <1>1, <1>2, <1>5, Zenon
<1>7. sh' = Shards(n) /\ queue' = Queues(n) /\ worker' = Workers(n)
  BY <1>1, <1>3, Zenon
<1>8. QueueType' /\ ShutInv' /\ LaneInv' /\ PendingIsExact' /\ \A i, k, a, d : ~Has(i, k, a, d)'
  BY <1>1, <1>2, <1>4, <1>6, <1>7, NewLanes, Zenon
<1>9. SentInv'
  <2>1. \A d : Got(d)' <=> Got(d)
    BY <1>1, Zenon DEF Got
  <2>2. \A d : Got(d)' => d \in DOMAIN Data /\ d < feed'.next
    BY <1>1, <1>2, <2>1, Zenon DEF SentInv
  <2>3. \A d \in remote'.acked : Got(d)'
    BY <1>1, <1>2, <2>1, Zenon DEF SentInv
  <2>4. DeliveredOldestFirst'
    <3>1. DeliveredOldestFirst /\ remote' = remote
      BY <1>1, <1>2, Zenon DEF SentInv
    <3> QED
      BY <3>1, DeliveredStays, Zenon
  <2> QED
    BY <1>8, <2>2, <2>3, <2>4, Zenon DEF SentInv
<1> QED
  BY <1>8, <1>9, Zenon DEF QueueInv

-------------------------------------------------------------------------------
(* All steps *)

\* The smallest number of shards.
LEMMA MinShardsIs == MinShards \in Nat \ {0}
<1>1. PICK n \in ShardCounts : \A m \in ShardCounts : <<m, n>> \notin OpToRel(<, Nat)
  <2>1. ShardCounts \subseteq Nat /\ ShardCounts # {}
    BY RemoteQueueAssumption, Zenon
  <2> QED
    BY <2>1, NatLessThanWellFounded, WFMin, Zenon
<1>2. n \in Nat /\ \A m \in ShardCounts : m \in Nat /\ n <= m
  <2>1. n \in Nat /\ \A m \in ShardCounts : m \in Nat
    BY RemoteQueueAssumption, Zenon
  <2>2. \A m \in ShardCounts : ~(m < n)
    BY <1>1, <2>1, Zenon DEF OpToRel
  <2> QED
    BY <2>1, <2>2
<1>3. MinShards \in ShardCounts
  BY <1>1, <1>2, Zenon DEF MinShards
<1> QED
  BY <1>3, RemoteQueueAssumption, Zenon

\* The queue manager starts with nothing to send.
LEMMA QueueStarts == RqInit => QueueInv
<1>1. SUFFICES ASSUME RqInit
               PROVE  QueueInv
  BY Zenon
<1>2. PICK n \in Nat \ {0} : n = MinShards
  BY MinShardsIs, Zenon
<1>3. /\ feed = [next |-> 1, accepted |-> {}, quit |-> FALSE]
      /\ sh = Shards(n) /\ queue = Queues(n) /\ worker = Workers(n)
      /\ stopper = [who |-> "none", pc |-> "idle", n |-> n]
      /\ remote = [got |-> NoData, acked |-> {}]
      /\ tally = [pending |-> 0, enqueued |-> 0, failed |-> 0, reshards |-> 0, lost |-> 0]
  BY <1>1, <1>2, Zenon DEF RqInit, RqStarted, NoData
<1>4. 0 \in Nat /\ 0 \in Int /\ 1 \in Nat
  OBVIOUS
<1>5. /\ feed \in [next : Nat, accepted : SUBSET Nat, quit : BOOLEAN]
      /\ stopper \in [who : {"none", "reshard", "stop"}, pc : StopPcs, n : Nat \ {0}] /\ stopper.pc = "idle"
      /\ remote \in [got : Seq(Nat), acked : SUBSET Nat] /\ remote.got = NoData /\ remote.acked = {}
      /\ tally \in [pending : Int, enqueued : Int, failed : Int, reshards : Nat, lost : Nat]
      /\ tally.pending = 0 /\ tally.enqueued = 0
  BY <1>3, <1>4, NoDataFacts, Zenon DEF StopPcs
<1>6. sh.soft = FALSE /\ sh.hard = FALSE /\ \A i \in DOMAIN queue : Fresh(queue[i], worker[i])
  <2>1. sh.soft = FALSE /\ sh.hard = FALSE
    BY <1>3, NewShards, Zenon
  <2>2. \A i \in DOMAIN queue : Fresh(queue[i], worker[i])
    BY <1>3, NewShards, Zenon
  <2> QED
    BY <2>1, <2>2, Zenon
<1>7. QueueType
  BY <1>3, <1>5, NewShards, Zenon DEF QueueType
<1>8. ShutInv
  BY <1>5, <1>6, Zenon DEF ShutInv, ShardShut, Fresh
<1>9. \A i, k, a, d : ~Has(i, k, a, d)
  BY <1>6, Zenon DEF Has, Fresh
<1>10. LaneInv
  BY <1>9, Zenon DEF LaneInv
<1>11. SentInv
  <2>1. \A d : ~Got(d)
    BY <1>5, NoDataFacts, Zenon DEF Got
  <2>2. DOMAIN remote.got = {}
    <3>1. DOMAIN NoData = {}
      BY DEF NoData
    <3> QED
      BY <1>5, <3>1, Zenon
  <2>3. DeliveredOldestFirst
    BY <2>2, Zenon DEF DeliveredOldestFirst
  <2> QED
    BY <1>5, <1>9, <2>1, <2>3, Zenon DEF SentInv
<1>12. PendingIsExact
  <2>1. \A d : d \notin InFlight
    BY <1>6, <1>7, FlightIs, Zenon DEF InLane, Fresh
  <2>2. InFlight = {}
    BY <2>1, Zenon
  <2>3. Cardinality({}) = 0
    BY FS_EmptySet, Zenon
  <2>4. Cardinality(InFlight) = 0
    BY <2>2, <2>3, Zenon
  <2> QED
    BY <1>5, <2>4, Zenon DEF PendingIsExact
<1> QED
  BY <1>7, <1>8, <1>10, <1>11, <1>12, Zenon DEF QueueInv

\* Nothing happens.
LEMMA QueueStutters ==
  ASSUME QueueInv, UNCHANGED rqVars
  PROVE  QueueInv'
<1>1. /\ feed' = feed /\ sh' = sh /\ queue' = queue /\ worker' = worker /\ stopper' = stopper
      /\ remote' = remote /\ tally' = tally
  BY Zenon DEF rqVars
<1>2. QueueType /\ ShutInv /\ feed.next \in Nat
  BY QueueFields, Zenon DEF QueueInv
<1>3. feed.next >= feed.next
  BY <1>2
<1>4. QueueType'
  BY <1>1, <1>2, Zenon DEF QueueType
<1>5. ShutInv'
  BY <1>1, <1>2, Zenon DEF ShutInv, ShardShut
<1> QED
  BY <1>1, <1>3, <1>4, <1>5, LanesStay, Zenon

\* Every step of the watcher, of a shard, of its flush and of shards.stop keeps the
\* invariant.
LEMMA QueueStep ==
  ASSUME QueueInv, [SendNext]_rqVars
  PROVE  QueueInv'
<1>1. CASE AppendStep
  BY <1>1, AppendsKeep, Zenon
<1>2. CASE Reshard
  BY <1>2, StopsKeep, Zenon
<1>3. CASE Quit
  BY <1>3, FeedKeeps, Zenon
<1>4. CASE StopStep
  <2>1. CASE StopFlushes
    BY <2>1, FlushesKeep, Zenon
  <2>2. CASE Start
    BY <2>2, StartKeeps, Zenon
  <2> QED
    BY <1>4, <2>1, <2>2, StopsKeep, Zenon DEF StopStep
<1>5. ASSUME NEW i \in DOMAIN queue,
             \/ TakeBatch(i) \/ ShardDone(i) \/ ShardCancelled(i) \/ StoreStep(i) \/ StoreAnswerLost(i) \/ FlushStep(i)
             \/ queue[i].flush # "clear" /\ TimerFires(i)
      PROVE  QueueInv'
  <2>1. CASE TakeBatch(i) \/ (queue[i].flush # "clear" /\ TimerFires(i))
    BY <2>1, TakeKeeps, Zenon
  <2>2. CASE ShardDone(i)
    BY <2>2, ShardDoneKeeps, Zenon
  <2>3. CASE ShardCancelled(i)
    BY <2>3, ShardCancelledKeeps, Zenon
  <2>4. CASE StoreStep(i)
    <3>1. CASE StoreAccepts(i)
      BY <3>1, AcceptsKeeps, Zenon
    <3>2. CASE StoreRefuses(i) \/ StoreCancelled(i)
      <4>1. worker[i].pc = "sending" /\ Settled(i, TRUE) /\ remote' = remote
        BY <3>2, Zenon DEF StoreRefuses, StoreCancelled
      <4> QED
        BY <4>1, GivenUpKeeps, Zenon
    <3> QED
      BY <2>4, <3>1, <3>2, Zenon DEF StoreStep
  <2>5. CASE StoreAnswerLost(i)
    BY <2>5, AnswerLostKeeps, Zenon
  <2>6. CASE FlushStep(i)
    <3>1. CASE FlushTries(i)
      BY <3>1, FlushTriesKeeps, Zenon
    <3>2. CASE FlushCloses(i)
      BY <3>2, FlushClosesKeeps, Zenon
    <3> QED
      BY <2>6, <3>1, <3>2, Zenon DEF FlushStep
  <2> QED
    BY <1>5, <2>1, <2>2, <2>3, <2>4, <2>5, <2>6, Zenon
<1>6. CASE UNCHANGED rqVars
  BY <1>6, QueueStutters, Zenon
<1>7. SendNext \/ UNCHANGED rqVars
  BY Zenon
<1> QED
  BY <1>1, <1>2, <1>3, <1>4, <1>5, <1>6, <1>7, Zenon DEF SendNext

\* What is in flight was not acknowledged.
LEMMA FlightIsUnanswered ==
  ASSUME QueueInv
  PROVE  SendsAreExact
<1>1. QueueType /\ LaneInv /\ SentInv /\ PendingIsExact
  BY Zenon DEF QueueInv
<1>2. ASSUME NEW d \in InFlight, d \in remote.acked
      PROVE  FALSE
  <2>1. PICK i \in DOMAIN queue : worker[i].pc # "exit" /\ InLane(queue[i], worker[i], d)
    BY <1>1, FlightIs, Zenon
  <2>2. PICK k, a : Has(i, k, a, d)
    BY <2>1, Zenon DEF InLane, Has
  <2>3. CASE k = 0
    BY <1>1, <1>2, <2>2, <2>3, Zenon DEF SentInv
  <2>4. CASE k # 0
    <3>1. Newest(d) /\ Got(d)
      BY <1>1, <1>2, <2>2, <2>4, Zenon DEF SentInv
    <3>2. d < d
      BY <3>1, Zenon DEF Newest
    <3>3. d \in DOMAIN Data
      BY <1>1, <2>2, Zenon DEF LaneInv
    <3> QED
      BY <3>2, <3>3, RemoteQueueAssumption
  <2> QED
    BY <2>3, <2>4, Zenon
<1>3. AcknowledgedIsGone
  BY <1>2, Zenon DEF AcknowledgedIsGone
<1>4. DeliveredOldestFirst
  BY <1>1, Zenon DEF SentInv
<1> QED
  BY <1>1, <1>3, <1>4, Zenon DEF SendsAreExact

\* The shards of an endpoint (queue_manager.go) deliver the data of every series in
\* the order of the log, across retries, partial batches and resharding; what was
\* acknowledged is in no buffer any more; and until a hard shutdown the gauge of
\* pending data is the number of data in the buffers.  For every sequence of data,
\* batch size, capacity, set of shard counts, and number of lost answers.
THEOREM SendsAreRight == SendSpec => []SendsAreExact
<1>1. QueueInv /\ [SendNext]_rqVars => QueueInv'
  BY QueueStep
<1>2. QueueInv => SendsAreExact
  BY FlightIsUnanswered
<1> QED
  BY <1>1, <1>2, QueueStarts, PTL DEF SendSpec
================================================================================
