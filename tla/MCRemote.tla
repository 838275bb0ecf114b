------------------------------ MODULE MCRemote ------------------------------
(***************************************************************************)
(* The queues behind the head on small instances: remote write, the        *)
(* watcher that feeds it from the log, and the chunk files.  They are       *)
(* independent of each other: part says which of them runs.                *)
(***************************************************************************)
EXTENDS RemoteQueue, WalWatcher, ChunkDiskMapper

VARIABLE part
mcVars == <<part, rqVars, watchVars, cmVars>>

MCData == <<[ref |-> 1, kind |-> "sample"], [ref |-> 2, kind |-> "histogram"], [ref |-> 1, kind |-> "exemplar"],
            [ref |-> 1, kind |-> "floathistogram"]>>

MCInit ==
  /\ part \in {"queue", "watcher", "chunks"}
  /\ RqStarted(IF part = "queue" THEN 1 ELSE Len(Data) + 1)
  /\ WatchInit /\ CmInit
QueuePart == part = "queue" /\ SendNext /\ UNCHANGED <<part, watchVars, cmVars>>
WatcherPart == part = "watcher" /\ TailNext /\ UNCHANGED <<part, rqVars, cmVars>>
\* A truncation finds a current file, and no chunk was written to a file below its
\* bound since the bound was computed.
ChunksPart ==
  /\ part = "chunks"
  /\ ~cm.panicked
  /\ \/ AddJob \/ PushJob \/ Worker \/ Reader \/ Gc \/ Truncation \/ Restart
     \/ /\ cm.cur.seq # 0 /\ \A x \in cm.live : ~Below(x[1][1]) \/ x[1][1] = cm.cur.seq
        /\ TruncateList
  /\ UNCHANGED <<part, rqVars, watchVars>>
MCNext == QueuePart \/ WatcherPart \/ ChunksPart

Chunks == part = "chunks" /\ ~cm.panicked
MCFairness ==
  /\ WF_rqVars(part = "queue" /\ AppendStep)
  /\ WF_rqVars(part = "queue" /\ StopStep)
  /\ \A i \in ShardIds : /\ WF_rqVars(part = "queue" /\ i \in DOMAIN queue /\ TakeStep(i))
                         /\ WF_rqVars(part = "queue" /\ i \in DOMAIN queue /\ StoreCancelled(i))
                         /\ WF_rqVars(part = "queue" /\ i \in DOMAIN queue /\ FlushStep(i))
  /\ WF_watchVars(part = "watcher" /\ RunStep)
  /\ WF_watchVars(part = "watcher" /\ GcStep)
  /\ WF_watchVars(part = "watcher" /\ ReadRecord)
  /\ WF_watchVars(part = "watcher" /\ ReadEnds)
  /\ SF_watchVars(part = "watcher" /\ ReadStarts)
  /\ SF_watchVars(part = "watcher" /\ SegmentTick)
  /\ WF_cmVars(Chunks /\ PushJob)
  /\ WF_cmVars(Chunks /\ Worker)
  /\ WF_cmVars(Chunks /\ (ReadQueue \/ ReadBuffer \/ ReadFile))
MCSpec == MCInit /\ [][MCNext]_mcVars /\ MCFairness

\* Data move on: the queue takes what the watcher reads and gets rid of it, stop
\* returns, what is logged is sent, and queued chunks are written.
RemoteProgress ==
  AppendReturns /\ AcceptedIsSettled /\ StopReturns /\ TailedIsSent /\ EverythingIsWritten
=============================================================================
