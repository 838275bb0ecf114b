------------------------------- MODULE Blocks -------------------------------
(***************************************************************************)
(* The persistent blocks of the database (tsdb/db.go, compact.go,          *)
(* block.go): blocks written from the head and from its out-of-order part, *)
(* the plan of the leveled compactor and its compactions, the removal of   *)
(* tombstones, retention, and reloadBlocks, which puts a new set of blocks *)
(* in place and deletes those that were replaced, with I/O errors and      *)
(* crashes between the steps.                                              *)
(*                                                                         *)
(* There is one series.  A sample is <<time, 0>>, or <<time, 1>> when it   *)
(* came out of order; a block covers [mint, maxt) and its size is the      *)
(* number of its samples.  The head and its logs survive a crash.          *)
(***************************************************************************)
EXTENDS Integers, Sequences, FiniteSets, FiniteSetsExt, SequencesExt, Functions, TLC

CONSTANTS BlkTimes,      \* bound: the samples are appended at times 0 .. BlkTimes - 1
          BlkRanges,     \* the block ranges of the compactor, ascending
          BlkMaxBytes,   \* size retention, 0: none
          BlkRetention,  \* time retention, 0: none
          BlkLate, BlkDeletes, BlkFaults, BlkCrashes   \* bounds

BlocksAssumption == Len(BlkRanges) > 0 /\ \A i \in DOMAIN BlkRanges : BlkRanges[i] > 0
ASSUME BlocksAssumption

VARIABLES disk,    \* block directory -> meta.json, samples and deleted samples
          loaded,  \* db.blocks: directory -> the meta kept in memory
          bhead,   \* [next, late]: in-order and out-of-order samples of the head, next time
          job,     \* what the holder of cmtx does
          gone     \* samples deleted by requests and by retention; counters
bVars == <<disk, loaded, bhead, job, gone>>

Range0 == BlkRanges[1]
Idle == [pc |-> "idle", stage |-> "", new |-> {}, late |-> {}, del |-> {}, wrote |-> FALSE]
NewBlock(mint, maxt, data, parents) ==
  [mint |-> mint, maxt |-> maxt, data |-> data, tomb |-> {}, parents |-> parents,
   ooo |-> FALSE, deletable |-> FALSE, failed |-> FALSE]
Live(b) == b.data \ b.tomb
DataOf(f) == UNION {Live(f[b]) : b \in DOMAIN f}
NextID == 1 + Max(DOMAIN disk \cup {0} \cup gone.ids)

BlocksInit ==
  /\ disk = <<>> /\ loaded = <<>> /\ job = Idle
  /\ bhead = [next |-> 0, data |-> {}, late |-> {}]
  /\ gone = [samples |-> {}, accepted |-> {}, ids |-> {}, lates |-> 0, deletes |-> 0, faults |-> 0, crashes |-> 0]

-----------------------------------------------------------------------------
(* The plan of the compactor *)
Ranked(S, before(_, _)) ==
  [i \in 1 .. Cardinality(S) |-> CHOOSE b \in S : Cardinality({a \in S : before(a, b)}) = i - 1]
ByMinTime(f) == Ranked(DOMAIN f, LAMBDA a, b : f[a].mint < f[b].mint \/ (f[a].mint = f[b].mint /\ a < b))

\* selectOverlappingDirs: the first group of blocks that overlap.
\* Faulty variant: an overlap of one time unit is not seen.
SelectOverlappingByMore(f, ds) ==
  LET over == {i \in 2 .. Len(ds) : f[ds[i]].mint < Max({f[ds[j]].maxt : j \in 1 .. i - 1}) - 1}
  IN IF over = {} THEN {}
     ELSE LET last == Max({i \in over : \A j \in Min(over) .. i : j \in over})
          IN {ds[i] : i \in Min(over) - 1 .. last}
SelectOverlapping(f, ds) ==
  LET over == {i \in 2 .. Len(ds) : f[ds[i]].mint < Max({f[ds[j]].maxt : j \in 1 .. i - 1})}
  IN IF over = {} THEN {}
     ELSE LET last == Max({i \in over : \A j \in Min(over) .. i : j \in over})
          IN {ds[i] : i \in Min(over) - 1 .. last}

\* splitByRange: the blocks that fit in one aligned range of length tr.  The blocks
\* do not overlap, so that those of a range follow each other.
Aligned(t, tr) == tr * (t \div tr)
SplitByRange(f, ds, tr) ==
  {g \in {{b \in Range(ds) : f[b].mint >= t0 /\ f[b].maxt <= t0 + tr}
          : t0 \in {Aligned(f[b].mint, tr) : b \in Range(ds)}} : g # {}}

\* selectDirs: the first full range, or the first with no room for another block.
Fits(f, g, iv, high) ==
  LET mint == Min({f[b].mint : b \in g})
      maxt == Max({f[b].maxt : b \in g})
  IN (maxt - mint = iv \/ maxt <= high) /\ Cardinality(g) > 1 /\ \A b \in g : ~f[b].failed
SelectDirs(f, ds) ==
  IF ds = <<>> THEN {}
  ELSE LET high  == f[ds[Len(ds)]].mint
           at(i) == {g \in SplitByRange(f, ds, BlkRanges[i]) : Fits(f, g, BlkRanges[i], high)}
           is    == {i \in 2 .. Len(BlkRanges) : at(i) # {}}
       IN IF is = {} THEN {}
          ELSE CHOOSE g \in at(Min(is)) : \A h \in at(Min(is)) :
                 Min({f[b].mint : b \in g}) <= Min({f[b].mint : b \in h})

\* A block with tombstones that is big enough, or that is deleted entirely.
SelectDeleted(f, ds) ==
  LET Big(b)   == f[b].maxt - f[b].mint >= BlkRanges[(Len(BlkRanges) \div 2) + 1]
      Asked(i) == \A j \in i + 1 .. Len(ds) : Big(ds[j])
      is       == {i \in DOMAIN ds : Asked(i) /\ f[ds[i]].tomb # {} /\ (Big(ds[i]) \/ Live(f[ds[i]]) = {})}
  IN IF is = {} THEN {} ELSE {ds[Max(is)]}

\* Plan: overlapping blocks first; the newest block is left alone otherwise.
Plan(f) ==
  LET ds   == ByMinTime(f)
      over == SelectOverlapping(f, ds)
      rest == SubSeq(ds, 1, Len(ds) - 1)
      dirs == SelectDirs(f, rest)
  IN IF ds = <<>> THEN {} ELSE IF over # {} THEN over ELSE IF dirs # {} THEN dirs ELSE SelectDeleted(f, rest)

\* CompactBlockMetas: the new block covers all others and names them as parents.
CompactBlockMetas(f, plan) ==
  NewBlock(Min({f[b].mint : b \in plan}), Max({f[b].maxt : b \in plan}),
           UNION {Live(f[b]) : b \in plan}, plan)

-----------------------------------------------------------------------------
(* The head *)
Append1 ==
  /\ bhead.next < BlkTimes
  /\ bhead' = [bhead EXCEPT !.next = @ + 1, !.data = @ \cup {<<bhead.next, 0>>}]
  /\ gone' = [gone EXCEPT !.accepted = @ \cup {<<bhead.next, 0>>}]
  /\ UNCHANGED <<disk, loaded, job>>
AppendLate(t) ==
  /\ t < bhead.next - 1 /\ gone.lates < BlkLate
  /\ bhead' = [bhead EXCEPT !.late = @ \cup {<<t, 1>>}]
  /\ gone' = [gone EXCEPT !.accepted = @ \cup {<<t, 1>>}, !.lates = @ + 1]
  /\ UNCHANGED <<disk, loaded, job>>
HeadMinTime == Min({s[1] : s \in bhead.data})
Compactable == bhead.data # {} /\ 2 * (bhead.next - 1 - HeadMinTime) > 3 * Range0

\* DB.Delete, which takes cmtx: tombstones for the blocks and for the head.
DeleteSamples(t) ==
  /\ job.pc = "idle" /\ gone.deletes < BlkDeletes
  /\ LET hit(b) == {s \in b.data : s[1] = t}
         hole(f) == [i \in DOMAIN f |-> [f[i] EXCEPT !.tomb = @ \cup hit(f[i])]]
     IN /\ disk' = [i \in DOMAIN disk |-> IF i \in DOMAIN loaded
                      THEN [disk[i] EXCEPT !.tomb = @ \cup hit(disk[i])] ELSE disk[i]]
        /\ loaded' = hole(loaded)
  /\ bhead' = [bhead EXCEPT !.data = {s \in @ : s[1] # t}]
  /\ gone' = [gone EXCEPT !.deletes = @ + 1, !.samples = @ \cup {s \in gone.accepted \ bhead.late : s[1] = t}]
  /\ UNCHANGED job

-----------------------------------------------------------------------------
(* Jobs *)
Begin(stage) ==
  /\ job.pc = "idle"
  /\ job' = [Idle EXCEPT !.pc = "next", !.stage = stage]
  /\ UNCHANGED <<disk, loaded, bhead, gone>>

\* write: a block appears in the directory by a rename; no block without samples.
Put(id, b) == (id :> b) @@ disk
Written(b, stage) ==
  IF Live(b) = {}
  THEN /\ job' = [job EXCEPT !.pc = "reload", !.stage = stage, !.new = {}]
       /\ UNCHANGED <<disk, gone>>
  ELSE /\ disk' = Put(NextID, b)
       /\ gone' = [gone EXCEPT !.ids = @ \cup {NextID}]
       /\ job' = [job EXCEPT !.pc = "reload", !.stage = stage, !.new = {NextID}]

\* DB.Compact: the ranges of the head that are complete,
WriteHead ==
  /\ job.pc = "next" /\ job.stage = "head" /\ Compactable
  /\ LET maxt == Aligned(HeadMinTime, Range0) + Range0
     IN Written(NewBlock(HeadMinTime, maxt, {s \in bhead.data : s[1] < maxt}, {}), "head")
  /\ UNCHANGED <<loaded, bhead>>

\* then the out-of-order samples there are by now (compactOOO), a block for each
\* range; a block gets its hint after it was written,
HeadDone ==
  /\ job.pc = "next" /\ job.stage = "head" /\ ~Compactable
  /\ job' = IF job.wrote THEN [job EXCEPT !.pc = "write", !.stage = "late", !.late = bhead.late]
            ELSE [job EXCEPT !.stage = "blocks"]
  /\ UNCHANGED <<disk, loaded, bhead, gone>>
LateRange == LET t == Aligned(Min({s[1] : s \in job.late \ DataOf([b \in job.new |-> disk[b]])}), Range0)
             IN t .. t + Range0 - 1
WriteLate ==
  /\ job.pc = "write" /\ ~(job.late \subseteq DataOf([b \in job.new |-> disk[b]]))
  /\ disk' = Put(NextID, NewBlock(Min(LateRange), Max(LateRange) + 1, {s \in job.late : s[1] \in LateRange}, {}))
  /\ gone' = [gone EXCEPT !.ids = @ \cup {NextID}]
  /\ job' = [job EXCEPT !.pc = "mark", !.new = @ \cup {NextID}]
  /\ UNCHANGED <<loaded, bhead>>
SetOutOfOrder ==
  /\ job.pc = "mark"
  /\ disk' = [disk EXCEPT ![Max(job.new)].ooo = TRUE]
  /\ job' = [job EXCEPT !.pc = "write"]
  /\ UNCHANGED <<loaded, bhead, gone>>
\* Faulty variant: the blocks are not loaded before the head gives up its samples.
LateDoneWithoutReload ==
  /\ job.pc = "write" /\ job.late \subseteq DataOf([b \in job.new |-> disk[b]])
  /\ job' = [job EXCEPT !.pc = "delete"]
  /\ UNCHANGED <<disk, loaded, bhead, gone>>
LateDone ==
  /\ job.pc = "write" /\ job.late \subseteq DataOf([b \in job.new |-> disk[b]])
  /\ job' = [job EXCEPT !.pc = "reload"]
  /\ UNCHANGED <<disk, loaded, bhead, gone>>

\* then the blocks, until there is no plan.  The compactor reads the blocks that are
\* loaded; when nothing is left of them they are marked, when it fails too.
Marked(b) == [b EXCEPT !.deletable = TRUE]
CompactBlocks ==
  LET plan == Plan(disk)
      b    == CompactBlockMetas(disk, plan)
  IN /\ job.pc = "next" /\ job.stage = "blocks" /\ plan # {}
     /\ IF Live(b) = {}
        THEN /\ disk' = [i \in DOMAIN disk |-> IF i \in plan THEN Marked(disk[i]) ELSE disk[i]]
             /\ loaded' = [i \in DOMAIN loaded |-> IF i \in plan THEN Marked(loaded[i]) ELSE loaded[i]]
             /\ job' = [job EXCEPT !.pc = "reload", !.new = {}]
             /\ UNCHANGED gone
        ELSE Written(b, "blocks") /\ UNCHANGED loaded
     /\ UNCHANGED bhead
CompactFails ==
  LET plan == Plan(disk)
      fail(f) == [i \in DOMAIN f |-> IF i \in plan THEN [f[i] EXCEPT !.failed = TRUE] ELSE f[i]]
  IN /\ job.pc = "next" /\ job.stage = "blocks" /\ plan # {} /\ gone.faults < BlkFaults
     /\ disk' = fail(disk) /\ loaded' = fail(loaded)
     /\ job' = Idle /\ gone' = [gone EXCEPT !.faults = @ + 1]
     /\ UNCHANGED bhead
NothingToCompact ==
  /\ job.pc = "next" /\ job.stage = "blocks" /\ Plan(disk) = {}
  /\ job' = Idle /\ UNCHANGED <<disk, loaded, bhead, gone>>

\* DB.CleanTombstones: the first block that has some is written anew, and marked in
\* memory.
Tombed == {b \in DOMAIN loaded : loaded[b].tomb # {}}
CleanTombstones ==
  /\ job.pc = "next" /\ job.stage = "clean" /\ Tombed # {}
  /\ LET b == CHOOSE b \in Tombed : \A c \in Tombed : loaded[b].mint < loaded[c].mint \/ b <= c
         m == loaded[b]
     IN /\ Written(NewBlock(m.mint, m.maxt, Live(m), {b}), "clean")
        /\ loaded' = [loaded EXCEPT ![b].deletable = TRUE]
  /\ UNCHANGED bhead
CleanDone ==
  /\ job.pc = "next" /\ job.stage = "clean" /\ Tombed = {}
  /\ job' = Idle /\ UNCHANGED <<disk, loaded, bhead, gone>>
\* The reload of every minute.
Periodic ==
  /\ job.pc = "next" /\ job.stage = "periodic"
  /\ job' = [job EXCEPT !.pc = "reload"] /\ UNCHANGED <<disk, loaded, bhead, gone>>

-----------------------------------------------------------------------------
(* reloadBlocks *)
Size(b) == Cardinality(b.data)
HeadSize == Cardinality(bhead.data \cup bhead.late)
ByMaxTime(f) == Ranked(DOMAIN f, LAMBDA a, b : f[a].maxt > f[b].maxt \/ (f[a].maxt = f[b].maxt /\ a > b))
From(ds, is) == IF is = {} THEN {} ELSE {ds[i] : i \in Min(is) .. Len(ds)}
BeyondTimeRetention(f) ==
  LET ds == ByMaxTime(f)
  IN IF BlkRetention = 0 THEN {} ELSE From(ds, {i \in DOMAIN ds : f[ds[1]].maxt - f[ds[i]].maxt > BlkRetention})
\* Faulty variant: the block that crosses the limit is kept.
BeyondSizeAfterLimit(f) ==
  LET ds == ByMaxTime(f)
      upTo(i) == HeadSize + FoldSet(LAMBDA j, n : n + Size(f[ds[j]]), 0, 1 .. i)
  IN IF BlkMaxBytes = 0 THEN {} ELSE From(ds, {i \in 2 .. Len(ds) : upTo(i - 1) > BlkMaxBytes})
BeyondSizeRetention(f) ==
  LET ds == ByMaxTime(f)
      upTo(i) == HeadSize + FoldSet(LAMBDA j, n : n + Size(f[ds[j]]), 0, 1 .. i)
  IN IF BlkMaxBytes = 0 THEN {} ELSE From(ds, {i \in DOMAIN ds : upTo(i) > BlkMaxBytes})
\* Faulty variant: the parents of a block that is loaded are kept.
DeletableOwn(f) ==
  {b \in DOMAIN f : f[b].deletable} \cup BeyondTimeRetention(f) \cup BeyondSizeRetention(f)
\* deletableBlocks, and the parents of every block that can be loaded.
Deletable(f) ==
  {b \in DOMAIN f : f[b].deletable} \cup BeyondTimeRetention(f) \cup BeyondSizeRetention(f)
  \cup UNION {f[b].parents : b \in DOMAIN f}

\* openBlocks: blocks that are loaded keep the meta they have in memory.
Opened == [b \in DOMAIN disk |-> IF b \in DOMAIN loaded THEN loaded[b] ELSE disk[b]]
Reload ==
  LET f == Opened
      d == Deletable(f)
  IN /\ job.pc = "reload"
     /\ loaded' = [b \in DOMAIN f \ d |-> f[b]]
     /\ job' = [job EXCEPT !.pc = "delete", !.del = d]
     /\ gone' = [gone EXCEPT !.samples = @ \cup
          (UNION {f[b].data : b \in BeyondTimeRetention(f) \cup BeyondSizeRetention(f)} \ DataOf(loaded'))]
     /\ UNCHANGED <<disk, bhead>>
\* deleteBlocks, one directory after another.
DeleteBlock(b) ==
  /\ job.pc = "delete" /\ b \in job.del
  /\ disk' = [c \in DOMAIN disk \ {b} |-> disk[c]]
  /\ job' = [job EXCEPT !.del = @ \ {b}]
  /\ UNCHANGED <<loaded, bhead, gone>>

\* An error: reloadBlocks returns, and its caller removes the block it wrote
\* (at the start: the process ends, and is started again).
Fault == gone.faults < BlkFaults /\ gone' = [gone EXCEPT !.faults = @ + 1]
ReloadFails ==
  /\ job.pc = "reload" /\ Fault
  /\ job' = [job EXCEPT !.pc = "undo"] /\ UNCHANGED <<disk, loaded, bhead>>
DeleteFails ==
  /\ job.pc = "delete" /\ job.del \cap DOMAIN disk # {} /\ Fault
  /\ job' = [job EXCEPT !.pc = "undo"] /\ UNCHANGED <<disk, loaded, bhead>>
Undo ==
  /\ job.pc = "undo"
  /\ disk' = [c \in DOMAIN disk \ job.new |-> disk[c]]
  /\ job' = IF job.stage = "start" THEN [job EXCEPT !.pc = "reload"] ELSE Idle
  /\ UNCHANGED <<loaded, bhead, gone>>

\* What the job does after a reload: the head is truncated to the blocks, the
\* compaction goes on, the database is open.
\* Faulty variant: blocks made from out-of-order samples count.
MaxTimeOfAll == Max({loaded[c].maxt : c \in DOMAIN loaded} \cup {0})
InOrderMaxTime == LET b == {c \in DOMAIN loaded : ~loaded[c].ooo} IN Max({loaded[c].maxt : c \in b} \cup {0})
Reloaded ==
  /\ job.pc = "delete" /\ job.del = {}
  /\ bhead' = CASE job.stage = "head" ->
                    [bhead EXCEPT !.data = {s \in @ : s[1] >= Aligned(HeadMinTime, Range0) + Range0}]
                [] job.stage = "late" -> [bhead EXCEPT !.late = @ \ job.late]
                [] job.stage = "start" -> [bhead EXCEPT !.data = {s \in @ : s[1] >= InOrderMaxTime}]
                [] OTHER -> bhead
  /\ job' = CASE job.stage = "head" -> [Idle EXCEPT !.pc = "next", !.stage = "head", !.wrote = TRUE]
              [] job.stage = "late" -> [Idle EXCEPT !.pc = "next", !.stage = "blocks"]
              [] job.stage \in {"start", "periodic"} -> Idle
              [] OTHER -> [Idle EXCEPT !.pc = "next", !.stage = job.stage]
  /\ UNCHANGED <<disk, loaded, gone>>

\* The process ends and opens the database again.
Crash ==
  /\ gone.crashes < BlkCrashes
  /\ loaded' = <<>> /\ job' = [Idle EXCEPT !.pc = "reload", !.stage = "start"]
  /\ gone' = [gone EXCEPT !.crashes = @ + 1]
  /\ UNCHANGED <<disk, bhead>>

-----------------------------------------------------------------------------
JobStep ==
  \/ WriteHead \/ HeadDone \/ WriteLate \/ SetOutOfOrder \/ LateDone \/ CompactBlocks \/ NothingToCompact
  \/ CleanTombstones \/ CleanDone \/ Periodic \/ Reload \/ Undo \/ Reloaded
  \/ \E b \in job.del : DeleteBlock(b)
BlocksFaults == CompactFails \/ ReloadFails \/ DeleteFails \/ Crash
Requests ==
  \/ Append1 \/ \E t \in 0 .. BlkTimes : AppendLate(t) \/ DeleteSamples(t)
  \/ \E stage \in {"head", "clean", "periodic"} : Begin(stage)
BlocksNext == Requests \/ JobStep \/ BlocksFaults
BlocksSpec == BlocksInit /\ [][BlocksNext]_bVars
-----------------------------------------------------------------------------
\* Every sample that was accepted is in the head or in a block directory, unless a
\* request deleted it or retention passed over it: whatever is written, reloaded,
\* deleted, undone or cut off by a crash, in any order.
SamplesAreKept ==
  gone.accepted \ gone.samples \subseteq bhead.data \cup bhead.late \cup DataOf(disk)

\* "Swap new blocks first for subsequently created readers to be seen": the blocks
\* that are loaded and the head hold every sample, at any moment a query may come.
QueriesSeeAll ==
  job.stage # "start" => gone.accepted \ gone.samples \subseteq bhead.data \cup bhead.late \cup DataOf(loaded)

\* The blocks a reload leaves loaded exceed the size limit together with the head
\* only if there are none: "Add this and all following blocks for deletion".
SizeIsBounded ==
  [][job.pc = "reload" /\ job'.pc = "delete" /\ BlkMaxBytes > 0 /\ DOMAIN loaded' # {}
       => HeadSize + FoldSet(LAMBDA b, n : n + Size(loaded'[b]), 0, DOMAIN loaded') <= BlkMaxBytes]_bVars

\* A compaction that has nothing more to do leaves no blocks that overlap, as long as
\* there are no errors: none that were replaced, and no two of different origin for
\* the same time.
NoOverlapsLeft ==
  [][NothingToCompact /\ gone.faults = 0 => \A b, c \in DOMAIN loaded : b # c =>
       loaded[b].maxt <= loaded[c].mint \/ loaded[c].maxt <= loaded[b].mint]_bVars

\* The loops of Compact, compactBlocks and CleanTombstones come to an end: the head
\* gives one block for each range, which an error or a crash makes it write again; a
\* compaction of several blocks leaves fewer, and one of a single block removes the
\* tombstones of a deletion.
WritesAreBounded ==
  LET first == BlkTimes + BlkLate + BlkFaults + BlkCrashes
  IN Cardinality(gone.ids) <= 2 * first + BlkDeletes * first

\* "The maximum number of bytes of storage blocks to retain": no block is removed by
\* the size limit that could have stayed beside those that remain.
RetentionIsNeeded ==
  [][job.pc = "reload" /\ job'.pc = "delete" =>
       \A b \in BeyondSizeRetention(Opened) \ UNION {Opened[c].parents : c \in DOMAIN Opened} :
         HeadSize + Size(Opened[b]) + FoldSet(LAMBDA c, n : n + Size(loaded'[c]), 0, DOMAIN loaded') > BlkMaxBytes]_bVars

\* Samples stay in the head or in blocks, and queries find them there.
BlocksKeepSamples == SamplesAreKept /\ QueriesSeeAll /\ WritesAreBounded

\* What is left by a reload is within the limit, and by a compaction without overlaps.
BlocksAreTidy == SizeIsBounded /\ NoOverlapsLeft
=============================================================================
