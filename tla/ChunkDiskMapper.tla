-------------------------- MODULE ChunkDiskMapper --------------------------
(***************************************************************************)
(* The head's chunk files (tsdb/chunks/head_chunks.go) and the queue in      *)
(* front of them (chunk_write_queue.go, queue.go).  A chunk gets its         *)
(* reference, a file and an offset, when it is handed over; a worker writes  *)
(* it later, through a buffer.  Readers look in the queue, in the buffer and *)
(* in the file, in that order, while the chunk moves along, and truncation   *)
(* deletes files.  A chunk counts as one unit of a file's size, the header   *)
(* of a file too; a file is the sequence of the chunks flushed to it.        *)
(***************************************************************************)
EXTENDS Integers, Sequences, FiniteSets, FiniteSetsExt

CONSTANTS CmChunks,       \* the chunks that are written
          CmFileSize,     \* chunks in a file, MaxHeadChunkFileSize
          CmQueue,        \* writeJobQueue.maxSize
          CmTruncations,  \* bound on truncations
          CmCrashes       \* bound on restarts

ASSUME MapperAssumption == CmFileSize \in Nat \ {0} /\ CmQueue \in Nat \ {0}

VARIABLES cm,    \* evtl, cur, files, mapped, buf, the chunks known by reference, panicked
          cq,    \* the queue: jobs, refMap, what addJob is waiting to push, the worker's job
          rd,    \* a reader: pc, ref, result
          tr     \* a truncation: pc, the least file still used, the files to remove
cmVars == <<cm, cq, rd, tr>>

NoJob == [ref |-> <<0, 0>>, id |-> 0, cut |-> FALSE]
LastFile(S) == IF S = {} THEN 0 ELSE Max(S)
EmptyQueue == [jobs |-> <<>>, refMap |-> {}, push |-> NoJob, job |-> NoJob, written |-> FALSE]
IdleReader == [pc |-> "idle", ref |-> <<0, 0>>, got |-> 0]
NoTruncation == [pc |-> "idle", no |-> 0, seqs |-> {}, all |-> FALSE]
CmInit ==
  /\ cm = [evtl |-> [seq |-> 0, off |-> 0, cut |-> FALSE], cur |-> [seq |-> 0, off |-> 0],
           files |-> <<>>, mapped |-> {}, buf |-> {}, live |-> {}, left |-> CmChunks,
           panicked |-> FALSE, crashes |-> 0]
  /\ cq = EmptyQueue /\ rd = IdleReader /\ tr = NoTruncation

-----------------------------------------------------------------------------
\* chunkPos.getNextChunkRef.
ShouldCut(e) == e.cut \/ e.off = 0 \/ e.off + 1 > CmFileSize + 1
\* Faulty variant: a file that must be cut for truncation is expected to have room.
NextPosFull(e) == IF e.off = 0 \/ e.off + 1 > CmFileSize + 1
                  THEN [seq |-> e.seq + 1, off |-> 2, cut |-> FALSE] ELSE [e EXCEPT !.off = @ + 1, !.cut = FALSE]
NextPos(e) == IF ShouldCut(e) THEN [seq |-> e.seq + 1, off |-> 2, cut |-> FALSE] ELSE [e EXCEPT !.off = @ + 1]
RefAt(e) == <<NextPos(e).seq, NextPos(e).off - 1>>
\* WriteChunk, holding evtlPosMtx until the job is pushed: chunkWriteQueue.addJob
\* enters the chunk in the map, then waits for room in the queue.
AddJob ==
  LET job == [ref |-> RefAt(cm.evtl), id |-> Min(cm.left), cut |-> ShouldCut(cm.evtl)]
  IN /\ cm.left # {} /\ cq.push = NoJob
     /\ cm' = [cm EXCEPT !.evtl = NextPos(cm.evtl), !.left = @ \ {Min(@)}]
     /\ cq' = [cq EXCEPT !.refMap = @ \cup {job}, !.push = job]
     /\ UNCHANGED <<rd, tr>>
PushJob ==
  /\ cq.push # NoJob /\ Len(cq.jobs) < CmQueue
  /\ cq' = [cq EXCEPT !.jobs = Append(@, cq.push), !.push = NoJob]
  /\ cm' = [cm EXCEPT !.live = @ \cup {<<cq.push.ref, cq.push.id>>}]
  /\ UNCHANGED <<rd, tr>>

\* Faulty variant: the map forgets the chunk before it is written.
PopJobForgetting ==
  /\ cq.job = NoJob /\ cq.jobs # <<>>
  /\ cq' = [cq EXCEPT !.job = Head(cq.jobs), !.jobs = Tail(@), !.written = FALSE, !.refMap = @ \ {Head(cq.jobs)}]
  /\ UNCHANGED <<cm, rd, tr>>
PopJob ==
  /\ cq.job = NoJob /\ cq.jobs # <<>>
  /\ cq' = [cq EXCEPT !.job = Head(cq.jobs), !.jobs = Tail(@), !.written = FALSE]
  /\ UNCHANGED <<cm, rd, tr>>
\* flushBuffer: the buffered chunks follow the ones in the current file.
Flushed(c) == IF c.cur.seq = 0 THEN c
              ELSE [c EXCEPT !.files = [s \in DOMAIN @ |-> IF s = c.cur.seq THEN @[s] \cup c.buf ELSE @[s]],
                             !.buf = {}]
\* cut: the next file of the directory; its number must be the expected one.
CutFile(c) ==
  LET seq == LastFile(DOMAIN c.files) + 1
      f == Flushed(c)
  IN [f EXCEPT !.files = [s \in DOMAIN f.files \cup {seq} |-> IF s = seq THEN {} ELSE f.files[s]],
               !.mapped = @ \cup {seq}, !.cur = [seq |-> seq, off |-> 1]]
PutChunk(c, job) == [c EXCEPT !.buf = @ \cup {<<job.ref, job.id>>}, !.cur.off = @ + 1]
\* writeChunk, under writePathMtx; a cut also waits for the readers.  The buffer is
\* flushed before when it is full.
WriteJob ==
  /\ cq.job # NoJob /\ ~cq.written
  /\ cq.job.cut => rd.pc \in {"idle", "done"}
  /\ \E flush \in BOOLEAN :
       LET c == IF cq.job.cut THEN CutFile(cm) ELSE IF flush THEN Flushed(cm) ELSE cm
           bad == cq.job.cut /\ <<c.cur.seq, c.cur.off>> # cq.job.ref
       IN cm' = IF bad THEN [c EXCEPT !.panicked = TRUE] ELSE PutChunk(c, cq.job)
  /\ cq' = [cq EXCEPT !.written = TRUE]
  /\ UNCHANGED <<rd, tr>>
\* Faulty variant: a chunk that opened a file stays in the map.
JobDoneUnlessCut ==
  /\ cq.job # NoJob /\ cq.written
  /\ cq' = [cq EXCEPT !.refMap = IF cq.job.cut THEN @ ELSE @ \ {cq.job}, !.job = NoJob]
  /\ UNCHANGED <<cm, rd, tr>>
JobDone ==
  /\ cq.job # NoJob /\ cq.written
  /\ cq' = [cq EXCEPT !.refMap = @ \ {cq.job}, !.job = NoJob]
  /\ UNCHANGED <<cm, rd, tr>>

-----------------------------------------------------------------------------
\* ChunkDiskMapper.Chunk, holding readPathMtx for reading throughout; a writer that
\* waits for the mutex keeps new readers out.
FoundIn(S) == IF \E x \in S : x[1] = rd.ref THEN (CHOOSE x \in S : x[1] = rd.ref)[2] ELSE 0
ReadStart ==
  \E x \in cm.live :
    /\ rd.pc \in {"idle", "done"} /\ ~(cq.job.cut /\ ~cq.written)
    /\ rd' = [pc |-> "queue", ref |-> x[1], got |-> 0]
    /\ UNCHANGED <<cm, cq, tr>>
ReadQueue ==
  /\ rd.pc = "queue"
  /\ LET id == FoundIn({<<j.ref, j.id>> : j \in cq.refMap})
     IN rd' = [rd EXCEPT !.got = id, !.pc = IF id # 0 THEN "done" ELSE "buffer"]
  /\ UNCHANGED <<cm, cq, tr>>
ReadBuffer ==
  /\ rd.pc = "buffer"
  /\ LET id == IF rd.ref[1] = cm.cur.seq THEN FoundIn(cm.buf) ELSE 0
     IN rd' = [rd EXCEPT !.got = id, !.pc = IF id # 0 THEN "done" ELSE "file"]
  /\ UNCHANGED <<cm, cq, tr>>
ReadFile ==
  /\ rd.pc = "file"
  /\ rd' = [rd EXCEPT !.pc = "done", !.got = IF rd.ref[1] \in cm.mapped THEN FoundIn(cm.files[rd.ref[1]]) ELSE 0]
  /\ UNCHANGED <<cm, cq, tr>>

-----------------------------------------------------------------------------
\* Head.gc drops the references to old chunks and finds the least file still used.
Gc ==
  \E gone \in SUBSET cm.live :
    /\ tr.pc = "idle" /\ tr.no < CmTruncations /\ rd.pc \in {"idle", "done"}
    /\ cm' = [cm EXCEPT !.live = @ \ gone]
    /\ LET seqs == {x[1][1] : x \in cm.live \ gone}
       IN tr' = [tr EXCEPT !.pc = "list", !.no = @ + 1,
                           !.seqs = {s \in cm.mapped \cup {cm.evtl.seq} : seqs # {} => s < Min(seqs)}]
    /\ rd' = IdleReader
    /\ UNCHANGED cq
\* Truncate: the files below that, in order, up to the current one; a new file is
\* cut next if the current one has chunks; the files are unmapped, then deleted.
Below(s) == \E t \in tr.seqs : s <= t
Listed == {s \in cm.mapped : Below(s) /\ s # cm.cur.seq /\ (cm.cur.seq \in cm.mapped => s < cm.cur.seq)}
TruncateList ==
  /\ tr.pc = "list"
  /\ tr' = [tr EXCEPT !.pc = "unmap", !.seqs = Listed, !.all = Listed = cm.mapped]
  /\ cm' = IF cm.cur.off > 1 THEN [cm EXCEPT !.evtl.cut = TRUE] ELSE cm
  /\ cm.cur.off > 1 => cq.push = NoJob
  /\ UNCHANGED <<cq, rd>>
TruncateUnmap ==
  /\ tr.pc = "unmap" /\ rd.pc \in {"idle", "done"}
  /\ cm' = [cm EXCEPT !.mapped = @ \ tr.seqs]
  /\ tr' = [tr EXCEPT !.pc = "remove"]
  /\ UNCHANGED <<cq, rd>>
\* Faulty variant: the files are deleted in no particular order.
NextRemovedAny(s) == s \in tr.seqs
NextRemoved(s) == s \in tr.seqs /\ \A t \in tr.seqs : s <= t
TruncateRemove ==
  \E s \in tr.seqs :
    /\ tr.pc = "remove" /\ NextRemoved(s)
    /\ cm' = [cm EXCEPT !.files = [t \in DOMAIN @ \ {s} |-> @[t]]]
    /\ tr' = [tr EXCEPT !.seqs = @ \ {s}]
    /\ UNCHANGED <<cq, rd>>
TruncateReset ==
  /\ tr.pc = "remove" /\ tr.seqs = {}
  /\ tr.all => cq.push = NoJob
  /\ cm' = IF tr.all THEN [cm EXCEPT !.evtl.seq = 0] ELSE cm
  /\ tr' = [tr EXCEPT !.pc = "idle"]
  /\ UNCHANGED <<cq, rd>>

\* The process dies: the files stay.  The next one maps them, finds the chunks they
\* hold (IterateAllChunks), and goes on after the last; an empty last file is
\* removed when not even its header was written.
Restart ==
  /\ cm.crashes < CmCrashes
  /\ LET seqs == DOMAIN cm.files
     IN cm' = [cm EXCEPT !.mapped = seqs, !.buf = {}, !.cur = [seq |-> 0, off |-> 0],
                         !.evtl = [seq |-> LastFile(seqs), off |-> 0, cut |-> FALSE],
                         !.live = UNION {cm.files[s] : s \in seqs}, !.crashes = @ + 1]
  /\ cq' = EmptyQueue /\ rd' = IdleReader /\ tr' = [NoTruncation EXCEPT !.no = tr.no]

Worker == PopJob \/ WriteJob \/ JobDone
Reader == ReadStart \/ ReadQueue \/ ReadBuffer \/ ReadFile
Truncation == TruncateUnmap \/ TruncateRemove \/ TruncateReset
CmNext ==
  /\ ~cm.panicked
  /\ \/ AddJob \/ PushJob \/ Worker \/ Reader \/ Gc \/ TruncateList \/ Truncation \/ Restart
CmSpec == CmInit /\ [][CmNext]_cmVars
\* The writers, the worker and the readers run.
CmFair == /\ WF_cmVars(~cm.panicked /\ PushJob) /\ WF_cmVars(~cm.panicked /\ Worker)
          /\ WF_cmVars(~cm.panicked /\ (ReadQueue \/ ReadBuffer \/ ReadFile))

-----------------------------------------------------------------------------
\* A reader finds the chunk its reference was given out for, wherever the chunk is
\* on its way from the queue to the file.
ReadsFindChunks ==
  rd.pc = "done" /\ (\E x \in cm.live : x[1] = rd.ref) => <<rd.ref, rd.got>> \in cm.live

\* The reference given out when a chunk is handed over is where the chunk is
\* written: no new file has another number than was expected.
RefsMatchFiles == ~cm.panicked

\* The files that are left after a crash at any point are numbered without a gap,
\* or the next start would refuse them.
FilesAreSequential ==
  \A s \in DOMAIN cm.files : s + 1 \in DOMAIN cm.files \/ s = LastFile(DOMAIN cm.files)

\* chunkRefMap never grows beyond the size of the queue and one.
RefMapIsBounded == Cardinality(cq.refMap) <= CmQueue + 1

\* Every chunk that was handed over is written and leaves the map.
EverythingIsWritten == <>[](cq.refMap = {} \/ cm.panicked)

\* A chunk is where its reference says, through cuts, truncations and restarts.
ChunksAreFound == ReadsFindChunks /\ RefsMatchFiles /\ FilesAreSequential
=============================================================================
