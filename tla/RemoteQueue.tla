---------------------------- MODULE RemoteQueue ----------------------------
(***************************************************************************)
(* The queue of one remote-write endpoint (storage/remote/queue_manager.go):*)
(* the watcher appends data to the queue of a shard, a shard sends batches, *)
(* resharding stops all shards and starts others, and Stop ends the queue.  *)
(* A datum is named by its position in Data, the order of the write-ahead   *)
(* log.                                                                    *)
(***************************************************************************)
EXTENDS Integers, Sequences, FiniteSets, Functions

CONSTANTS Data,          \* sequence of [ref, kind]
          DroppedRefs,   \* series dropped by relabelling
          SendKinds,     \* kinds the endpoint is configured for
          BatchSize,     \* MaxSamplesPerSend
          Capacity,      \* of a shard, in data
          ShardCounts,   \* what calculateDesiredShards may return
          MaxReshards, MaxLostAnswers

ASSUME RemoteQueueAssumption ==
  /\ Data \in Seq([ref : Nat, kind : {"sample", "exemplar", "histogram", "floathistogram"}])
  /\ BatchSize \in Nat \ {0} /\ Capacity \in Nat
  /\ ShardCounts \subseteq Nat \ {0} /\ ShardCounts # {}

VARIABLES feed,     \* the watcher: next datum, those accepted, quit closed
          sh,       \* the shards: number, softShutdown and hardShutdown closed
          queue,    \* per shard: batch, batchQueue, closed, step of the flush
          worker,   \* per shard: runShard's step and the batch it sends
          stopper,  \* who runs shards.stop(), and its step
          remote,   \* deliveries in order, repeated ones too; what was acknowledged
          tally     \* gauge and counters of data, and the bounds' counters
rqVars == <<feed, sh, queue, worker, stopper, remote, tally>>

\* newQueue: room for at least one batch in the channel.
Batches == IF Capacity \div BatchSize = 0 THEN 1 ELSE Capacity \div BatchSize
NewQueue == [batch |-> <<>>, chan |-> <<>>, closed |-> FALSE, flush |-> "none"]

\* Faulty variant: the soft shutdown of the old shards holds for the new ones.
ShardsStayShut(n) == [n |-> n, soft |-> n # 1, hard |-> FALSE]
\* start of n shards.
Shards(n) == [n |-> n, soft |-> FALSE, hard |-> FALSE]
Queues(n) == [i \in 0 .. n - 1 |-> NewQueue]
Workers(n) == [i \in 0 .. n - 1 |-> [pc |-> "select", batch |-> <<>>]]

MinShards == CHOOSE n \in ShardCounts : \A m \in ShardCounts : n <= m
\* A queue manager that is started when the log is at datum n.
RqStarted(n) ==
  /\ feed = [next |-> n, accepted |-> {}, quit |-> FALSE]
  /\ sh = Shards(MinShards) /\ queue = Queues(MinShards) /\ worker = Workers(MinShards)
  /\ stopper = [who |-> "none", pc |-> "idle", n |-> MinShards]
  /\ remote = [got |-> <<>>, acked |-> {}]
  /\ tally = [pending |-> 0, enqueued |-> 0, failed |-> 0, reshards |-> 0, lost |-> 0]
RqInit == RqStarted(1)

-----------------------------------------------------------------------------
\* The append of one datum to a queue: a full batch goes to the channel, and if
\* the channel is full the datum is taken back and must be retried.
QueueAppend(q, d) ==
  LET b == Append(q.batch, d) IN
  CASE Len(b) < BatchSize -> {[q EXCEPT !.batch = b]}
    [] Len(b) >= BatchSize /\ Len(q.chan) < Batches -> {[q EXCEPT !.batch = <<>>, !.chan = Append(@, b)]}
    [] OTHER -> {}

\* stop holds the lock of the shards while it waits for them.
Locked == stopper.pc \in {"wait", "forced"}

\* enqueue, under the read lock; it fails, and is retried, while shutting down.
Enqueue(d) ==
  LET i == Data[d].ref % sh.n
  IN /\ ~Locked /\ ~sh.soft
     /\ \E q \in QueueAppend(queue[i], d) : queue' = [queue EXCEPT ![i] = q]
     /\ feed' = [feed EXCEPT !.next = @ + 1, !.accepted = @ \cup {d}]
     /\ tally' = [tally EXCEPT !.pending = @ + 1, !.enqueued = @ + 1]
     /\ UNCHANGED <<sh, worker, stopper, remote>>

Skip == feed' = [feed EXCEPT !.next = @ + 1] /\ UNCHANGED <<sh, queue, worker, stopper, remote, tally>>

\* Append and its three siblings: a kind that is not sent, a series dropped by
\* relabelling, and everything after quit is passed over; the rest is retried
\* until it is accepted.
AppendKind(kind) ==
  LET d == feed.next
      passed == kind \notin SendKinds \/ Data[d].ref \in DroppedRefs \/ feed.quit
  IN /\ d \in DOMAIN Data /\ Data[d].kind = kind
     /\ \/ passed /\ Skip
        \/ ~passed /\ Enqueue(d)
AppendSample == AppendKind("sample")
AppendExemplar == AppendKind("exemplar")
AppendHistogram == AppendKind("histogram")
AppendFloatHistogram == AppendKind("floathistogram")

-----------------------------------------------------------------------------
Sends(i, batch) == worker' = [worker EXCEPT ![i] = [pc |-> "sending", batch |-> batch]]

\* runShard takes a full batch ...
TakeBatch(i) ==
  /\ worker[i].pc = "select" /\ queue[i].chan # <<>>
  /\ Sends(i, Head(queue[i].chan))
  /\ queue' = [queue EXCEPT ![i].chan = Tail(@)]
  /\ UNCHANGED <<feed, sh, stopper, remote, tally>>

\* Faulty variants: the deadline takes the partial batch before the full ones,
\* leaves the partial batch in place, or takes full batches only.
TimerTakesPartial(i) ==
  LET partial == queue[i].batch # <<>> /\ ~queue[i].closed IN
  /\ worker[i].pc = "select" /\ (partial \/ queue[i].chan # <<>>)
  /\ Sends(i, IF partial THEN queue[i].batch ELSE Head(queue[i].chan))
  /\ queue' = [queue EXCEPT ![i] = IF partial THEN [@ EXCEPT !.batch = <<>>]
                                   ELSE [@ EXCEPT !.chan = Tail(@)]]
  /\ UNCHANGED <<feed, sh, stopper, remote, tally>>
TimerKeepsBatch(i) ==
  /\ worker[i].pc = "select" /\ queue[i].chan = <<>> /\ queue[i].batch # <<>>
  /\ Sends(i, queue[i].batch)
  /\ UNCHANGED <<feed, sh, queue, stopper, remote, tally>>
TimerTakesFull(i) == TakeBatch(i)
\* ... or, at the send deadline, what Batch() returns: a full batch if there is
\* one, else the partial batch.
TimerFires(i) ==
  LET full == queue[i].chan # <<>> IN
  /\ worker[i].pc = "select"
  /\ full \/ (queue[i].batch # <<>> /\ ~queue[i].closed)
  /\ Sends(i, IF full THEN Head(queue[i].chan) ELSE queue[i].batch)
  /\ queue' = [queue EXCEPT ![i] = IF full THEN [@ EXCEPT !.chan = Tail(queue[i].chan)]
                                   ELSE [@ EXCEPT !.batch = <<>>]]
  /\ UNCHANGED <<feed, sh, stopper, remote, tally>>

\* It ends when the channel is closed and empty ...
ShardDone(i) ==
  /\ worker[i].pc = "select" /\ queue[i].closed /\ queue[i].chan = <<>>
  /\ worker' = [worker EXCEPT ![i].pc = "exit"]
  /\ UNCHANGED <<feed, sh, queue, stopper, remote, tally>>
\* ... or when its context is cancelled: what is still enqueued, by all the
\* shards, is taken off the gauge and counted as failed.
ShardCancelled(i) ==
  /\ worker[i].pc = "select" /\ sh.hard
  /\ worker' = [worker EXCEPT ![i].pc = "exit"]
  /\ tally' = [tally EXCEPT !.pending = @ - tally.enqueued, !.failed = @ + tally.enqueued]
  /\ UNCHANGED <<feed, sh, queue, stopper, remote>>

\* Faulty variant: a batch that failed stays on the gauge.
SettledFailureKept(i, failed) ==
  LET n == Len(worker[i].batch) IN
  /\ worker' = [worker EXCEPT ![i] = [pc |-> "select", batch |-> <<>>]]
  /\ tally' = IF failed THEN [tally EXCEPT !.failed = @ + n]
              ELSE [tally EXCEPT !.pending = @ - n, !.enqueued = @ - n]
  /\ UNCHANGED <<feed, sh, queue, stopper>>
\* The end of sendSamples: the gauge and the counter go down whatever happened.
Settled(i, failed) ==
  LET n == Len(worker[i].batch) IN
  /\ worker' = [worker EXCEPT ![i] = [pc |-> "select", batch |-> <<>>]]
  /\ tally' = [tally EXCEPT !.pending = @ - n, !.enqueued = @ - n,
                            !.failed = IF failed THEN @ + n ELSE @]
  /\ UNCHANGED <<feed, sh, queue, stopper>>

\* sendSamplesWithBackoff.  The endpoint stores the batch and says so ...
StoreAccepts(i) ==
  /\ worker[i].pc = "sending"
  /\ remote' = [got |-> remote.got \o worker[i].batch, acked |-> remote.acked \cup Range(worker[i].batch)]
  /\ Settled(i, FALSE)
\* ... it stores the batch and the answer is lost: the batch is sent again ...
StoreAnswerLost(i) ==
  /\ worker[i].pc = "sending" /\ tally.lost < MaxLostAnswers
  /\ remote' = [remote EXCEPT !.got = @ \o worker[i].batch]
  /\ tally' = [tally EXCEPT !.lost = @ + 1]
  /\ UNCHANGED <<feed, sh, queue, worker, stopper>>
\* ... it refuses the batch, and the data are given up ...
StoreRefuses(i) ==
  /\ worker[i].pc = "sending" /\ Settled(i, TRUE) /\ UNCHANGED remote
\* ... or the context is cancelled while the batch is sent or retried.
StoreCancelled(i) ==
  /\ worker[i].pc = "sending" /\ sh.hard /\ Settled(i, TRUE) /\ UNCHANGED remote

-----------------------------------------------------------------------------
AllExited == \A i \in DOMAIN worker : worker[i].pc = "exit"

\* FlushAndShutdown, first step: tryEnqueueingBatch until the batch is in the
\* channel or the shards are done.
FlushTries(i) ==
  LET q == queue[i]
      room == Len(q.chan) < Batches
  IN /\ q.flush = "try" /\ (q.batch = <<>> \/ room \/ AllExited)
     /\ queue' = [queue EXCEPT ![i].flush = "clear",
                               ![i].chan = IF q.batch # <<>> /\ room THEN Append(@, q.batch) ELSE @]
     /\ UNCHANGED <<feed, sh, worker, stopper, remote, tally>>
\* Second step: the batch is dropped, without the lock, and the channel closed.
FlushCloses(i) ==
  /\ queue[i].flush = "clear"
  /\ queue' = [queue EXCEPT ![i].flush = "done", ![i].batch = <<>>, ![i].closed = TRUE]
  /\ UNCHANGED <<feed, sh, worker, stopper, remote, tally>>

\* updateShardsLoop asks for another number of shards, and reshardLoop takes it.
Reshard ==
  \E n \in ShardCounts \ {sh.n} :
    /\ stopper.pc = "idle" /\ ~feed.quit /\ tally.reshards < MaxReshards
    /\ stopper' = [who |-> "reshard", pc |-> "soft", n |-> n]
    /\ tally' = [tally EXCEPT !.reshards = @ + 1]
    /\ UNCHANGED <<feed, sh, queue, worker, remote>>
\* Stop closes quit, waits for the two loops, and stops the shards.
Quit ==
  /\ ~feed.quit /\ feed' = [feed EXCEPT !.quit = TRUE]
  /\ UNCHANGED <<sh, queue, worker, stopper, remote, tally>>
StopBegins ==
  /\ feed.quit /\ stopper.pc = "idle"
  /\ stopper' = [stopper EXCEPT !.who = "stop", !.pc = "soft"]
  /\ UNCHANGED <<feed, sh, queue, worker, remote, tally>>

\* shards.stop: no more data are enqueued, ...
StopSoft ==
  /\ stopper.pc = "soft"
  /\ sh' = [sh EXCEPT !.soft = TRUE] /\ stopper' = [stopper EXCEPT !.pc = "lock"]
  /\ UNCHANGED <<feed, queue, worker, remote, tally>>
\* ... with the lock every queue is flushed ...
StopFlushes ==
  /\ stopper.pc = "lock"
  /\ queue' = [i \in DOMAIN queue |-> [queue[i] EXCEPT !.flush = "try"]]
  /\ stopper' = [stopper EXCEPT !.pc = "wait"]
  /\ UNCHANGED <<feed, sh, worker, remote, tally>>
\* Faulty variant: the sends in progress are not cancelled at the deadline.
StopDeadlineQuiet ==
  /\ stopper.pc = "wait" /\ ~AllExited
  /\ stopper' = [stopper EXCEPT !.pc = "forced"]
  /\ UNCHANGED <<feed, sh, queue, worker, remote, tally>>
\* ... and if the shards are not done by the deadline, they are cancelled.
StopDeadline ==
  /\ stopper.pc = "wait" /\ ~AllExited
  /\ sh' = [sh EXCEPT !.hard = TRUE] /\ stopper' = [stopper EXCEPT !.pc = "forced"]
  /\ UNCHANGED <<feed, queue, worker, remote, tally>>
StopDone ==
  /\ Locked /\ AllExited
  /\ stopper' = [stopper EXCEPT !.pc = IF stopper.who = "stop" THEN "stopped" ELSE "start"]
  /\ UNCHANGED <<feed, sh, queue, worker, remote, tally>>
\* shards.start, by reshardLoop.
Start ==
  /\ stopper.pc = "start"
  /\ sh' = Shards(stopper.n) /\ queue' = Queues(stopper.n) /\ worker' = Workers(stopper.n)
  /\ stopper' = [stopper EXCEPT !.who = "none", !.pc = "idle"]
  /\ tally' = [tally EXCEPT !.pending = 0, !.enqueued = 0]
  /\ UNCHANGED <<feed, remote>>

-----------------------------------------------------------------------------
AppendStep == AppendSample \/ AppendExemplar \/ AppendHistogram \/ AppendFloatHistogram
TakeStep(i) == TakeBatch(i) \/ TimerFires(i) \/ ShardDone(i) \/ ShardCancelled(i)
StoreStep(i) == StoreAccepts(i) \/ StoreRefuses(i) \/ StoreCancelled(i)
FlushStep(i) == FlushTries(i) \/ FlushCloses(i)
StopStep == StopBegins \/ StopSoft \/ StopFlushes \/ StopDeadline \/ StopDone \/ Start
RqNext ==
  \/ AppendStep \/ Reshard \/ Quit \/ StopStep
  \/ \E i \in DOMAIN queue : TakeStep(i) \/ StoreStep(i) \/ StoreAnswerLost(i) \/ FlushStep(i)

\* What SendsAreExact needs: the deadline does not fire between the flush of a
\* partial batch and its reset.
SendNext ==
  \/ AppendStep \/ Reshard \/ Quit \/ StopStep
  \/ \E i \in DOMAIN queue :
       \/ TakeBatch(i) \/ ShardDone(i) \/ ShardCancelled(i) \/ StoreStep(i) \/ StoreAnswerLost(i) \/ FlushStep(i)
       \/ queue[i].flush # "clear" /\ TimerFires(i)
SendSpec == RqInit /\ [][SendNext]_rqVars

ShardIds == 0 .. (CHOOSE n \in ShardCounts : \A m \in ShardCounts : m <= n) - 1
\* Every goroutine runs; the endpoint need not answer before it is cancelled.
RqFairness ==
  /\ WF_rqVars(AppendStep) /\ WF_rqVars(StopStep)
  /\ \A i \in ShardIds : /\ WF_rqVars(i \in DOMAIN queue /\ TakeStep(i))
                         /\ WF_rqVars(i \in DOMAIN queue /\ StoreCancelled(i))
                         /\ WF_rqVars(i \in DOMAIN queue /\ FlushStep(i))
RqSpec == RqInit /\ [][RqNext]_rqVars /\ RqFairness

-----------------------------------------------------------------------------
Waiting(i) == (IF queue[i].flush = "clear" THEN {} ELSE Range(queue[i].batch))
              \cup UNION {Range(b) : b \in Range(queue[i].chan)}
InFlight == UNION {Waiting(i) \cup Range(worker[i].batch) : i \in {k \in DOMAIN queue : worker[k].pc # "exit"}}

\* Within a series the endpoint gets the data in their order, across retries, partial
\* batches and resharding (reshardLoop: "to guarantee we only every deliver samples
\* in order"): an older one that comes after a newer one is a repetition.
DeliveredOldestFirst ==
  \A m, n \in DOMAIN remote.got :
    /\ m < n /\ Data[remote.got[m]].ref = Data[remote.got[n]].ref
    /\ remote.got[n] < remote.got[m]
    => \E k \in 1 .. m - 1 : remote.got[k] = remote.got[n]

\* A datum the endpoint has acknowledged is not sent again: the partial batch of
\* a queue, its channel and its shard never share one.
AcknowledgedIsGone == InFlight \cap remote.acked = {}

\* Until the shards are cancelled the gauge of pending data, and the counter
\* used for what a cancellation drops, are the data that wait in some buffer.
PendingIsExact ==
  ~sh.hard => tally.pending = Cardinality(InFlight) /\ tally.enqueued = tally.pending

\* Every failure is counted once: no more data are counted as failed than were
\* accepted and not acknowledged.
FailuresCountedOnce == tally.failed <= Cardinality(feed.accepted \ remote.acked)

\* Stop returns, whatever the endpoint does.
StopReturns == feed.quit ~> stopper.pc = "stopped"

NeverAnswered == <>[](\E i \in DOMAIN worker : worker[i].pc = "sending")

\* What a shard has accepted leaves it, unless the endpoint never answers: a
\* partial batch does not wait for ever.
AcceptedIsSettled == []<>(InFlight = {}) \/ NeverAnswered

\* The watcher's calls return, through a full queue and through resharding.
AppendReturns == <>(feed.next > Len(Data)) \/ NeverAnswered

\* Shards, queues and timers share the data without sending any twice or late.
SendsAreExact == DeliveredOldestFirst /\ AcknowledgedIsGone /\ PendingIsExact
=============================================================================
