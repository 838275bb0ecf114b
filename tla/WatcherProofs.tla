----------------------------- MODULE WatcherProofs -----------------------------
(***************************************************************************)
(* Proofs about module WalWatcher, for any series, samples, segments,      *)
(* checkpoints and restarts.  LogInv says what the log and its checkpoint  *)
(* hold together: a series record precedes the samples of its series, and  *)
(* a series that may have samples behind the checkpoint is in it or its    *)
(* record follows.  WatcherInv says that whatever the watcher will reach   *)
(* has a series it knows, and the collection will not drop, or a series    *)
(* record ahead, and that what it sent it has sent once, in order.         *)
(***************************************************************************)
EXTENDS WalWatcher, TLAPS

-------------------------------------------------------------------------------
(* The invariant *)

\* The values of the variables.
Records == [ref : Refs, t : Nat]
Maps == UNION {[S -> Nat] : S \in SUBSET Refs}
Ckpts == [idx : Nat, refs : SUBSET Refs]
WatchPcs == {"down", "checkpoint", "find", "select", "read"}

LogType ==
  log \in [seg : Seq(Seq(Records)), first : Nat, ckpt : Ckpts, live : SUBSET Refs,
           gone : Maps, t : Nat, ckpts : Nat]
WatcherType ==
  /\ w \in [pc : WatchPcs, seg : Nat, pos : Nat, tail : BOOLEAN, leave : BOOLEAN,
            last : Nat, lastCkpt : Nat, start : Nat, runs : Nat]
  /\ gc \subseteq [ckpt : Ckpts, sem : Nat \X Nat, pc : {"read", "reset"}]
  /\ qm \in [labels : SUBSET Refs, dropped : SUBSET Refs, idx : Maps]
  /\ out \in [sent : Seq(Nat), dropped : SUBSET Nat, unknown : SUBSET Nat]

\* The records of the log, by segment and position, and their order.
Place(n, i) == n \in 1 .. Len(log.seg) /\ i \in 1 .. Len(log.seg[n])
At(n, i) == log.seg[n][i]
Before(n, i, m, j) == n < m \/ (n = m /\ i < j)
Ever == log.live \cup DOMAIN log.gone

SizeInv ==
  /\ 1 <= log.first /\ log.first <= log.ckpt.idx + 1 /\ log.ckpt.idx < Len(log.seg)
  /\ log.live \cap DOMAIN log.gone = {} /\ log.ckpt.refs \subseteq Ever
\* Samples are logged in the order of their times.
OrderInv ==
  /\ \A n, i, m, j : Place(n, i) /\ Place(m, j) /\ Before(n, i, m, j) /\ At(n, i).t # 0 /\ At(m, j).t # 0
       => At(n, i).t < At(m, j).t
  /\ \A n, i : Place(n, i) => At(n, i).t <= log.t
\* A series has one series record, which comes before its samples.
SeriesInv ==
  \A n, i, m, j : Place(n, i) /\ Place(m, j) /\ At(n, i).t = 0 /\ At(m, j).ref = At(n, i).ref
    => (n = m /\ i = j) \/ Before(n, i, m, j)
\* A series is forgotten when its last record is in the log.
GoneInv ==
  \A n, i : Place(n, i) =>
    At(n, i).ref \in log.live \/ (At(n, i).ref \in DOMAIN log.gone /\ log.gone[At(n, i).ref] >= n)
\* The series record of r is in segment k or an earlier one.
SeriesBy(r, k) == \A n, i : Place(n, i) /\ At(n, i).t = 0 /\ At(n, i).ref = r => n <= k
\* A series that may have samples behind the checkpoint is in it, or its record
\* follows.
Recent(r) == r \in log.live \/ (r \in DOMAIN log.gone /\ log.gone[r] > log.ckpt.idx)
CkptInv ==
  /\ \A r : Recent(r) =>
       \/ r \in log.ckpt.refs
       \/ \E n, i : Place(n, i) /\ n > log.ckpt.idx /\ At(n, i).t = 0 /\ At(n, i).ref = r
  /\ \A r \in log.ckpt.refs : SeriesBy(r, log.ckpt.idx)
LogInv == LogType /\ SizeInv /\ OrderInv /\ SeriesInv /\ GoneInv /\ CkptInv

\* One collection at a time, with a checkpoint that was there when it began.
GcInv ==
  /\ \A g, h \in gc : g = h
  /\ \A g \in gc : /\ g.ckpt.idx <= log.ckpt.idx /\ g.ckpt.refs \subseteq Ever
                   /\ \A r \in g.ckpt.refs : SeriesBy(r, g.ckpt.idx)
Following == w.pc \in {"select", "read"}
Starting == w.pc \in {"checkpoint", "find"}
\* Where the watcher is: what was logged since it started is in the segments it
\* tails, and it leaves a segment when that is complete.
PlaceInv ==
  /\ w.last <= Len(log.seg) /\ w.start <= log.t
  /\ \A n, i : Place(n, i) /\ At(n, i).t > w.start => n >= w.last
  /\ Starting => log.ckpt.idx < w.last
  /\ w.pc = "find" => w.lastCkpt = log.ckpt.idx
  /\ Following => /\ w.seg \in 1 .. Len(log.seg) /\ w.pos >= 1 /\ (w.pos = 1 \/ Place(w.seg, w.pos - 1))
                  /\ w.tail => w.seg >= w.last
                  /\ ~w.tail \/ w.leave => w.seg < Len(log.seg)
                  /\ \A g \in gc : g.ckpt.idx <= w.seg
\* The segment kept for a series is not before that of its record.
IdxInv == \A r \in DOMAIN qm.idx : r \in Ever /\ SeriesBy(r, qm.idx[r])

\* A series whose labels are known and that the collection will not drop.
Safe(r, g) == r \in DOMAIN qm.idx => qm.idx[r] >= g.ckpt.idx \/ (g.pc = "read" /\ r \in g.ckpt.refs)
Known(r) == r \in qm.labels \cup qm.dropped /\ \A g \in gc : Safe(r, g)
\* What the watcher has not read yet.
Ahead(n, i) == n > w.seg \/ (n = w.seg /\ i >= w.pos)
SeriesAhead(r) == \E n, i : Place(n, i) /\ Ahead(n, i) /\ At(n, i).t = 0 /\ At(n, i).ref = r
Ready(r) == Known(r) \/ SeriesAhead(r)
\* Whatever the watcher will reach without starting again, it knows the series of
\* or will learn it before.
FoundInv == w.pc = "find" => \A r \in log.ckpt.refs : Known(r)
ReadyInv ==
  Following =>
    /\ \A n, i, r : /\ Place(n, i) /\ Ahead(n, i) /\ At(n, i).t > w.start /\ At(n, i).ref = r
                    /\ n = w.seg \/ log.first <= w.seg + 1
                    => Ready(r)
    /\ log.first <= w.seg + 1 => \A r \in log.live : Ready(r)
\* What was sent is older than what will be.
SentInv ==
  /\ SentOnceInOrder
  /\ \A k \in 1 .. Len(out.sent) : out.sent[k] <= log.t
  /\ Starting => \A k \in 1 .. Len(out.sent) : out.sent[k] <= w.start
  /\ Following => \A k \in 1 .. Len(out.sent) : \A n, i :
       Place(n, i) /\ Ahead(n, i) /\ At(n, i).t > w.start => out.sent[k] < At(n, i).t
WatcherInv == GcInv /\ PlaceInv /\ IdxInv /\ FoundInv /\ ReadyInv /\ SentInv
WatchInv ==
  LogInv /\ WatcherType /\ WatcherInv /\ SeriesStayKnown

-------------------------------------------------------------------------------
\* Maps from references to segments.
LEMMA MapFacts ==
  ASSUME NEW f \in Maps
  PROVE  DOMAIN f \subseteq Refs /\ \A r \in DOMAIN f : f[r] \in Nat
<1>1. PICK S \in SUBSET Refs : f \in [S -> Nat]
  BY Zenon DEF Maps
<1> QED
  BY <1>1

\* What a map of segments is.
LEMMA SubMap ==
  ASSUME NEW f, DOMAIN f \subseteq Refs, f = [r \in DOMAIN f |-> f[r]], \A r \in DOMAIN f : f[r] \in Nat
  PROVE  f \in Maps
<1>1. f \in [DOMAIN f -> Nat]
  BY Zenon
<1> QED
  BY <1>1, Zenon DEF Maps

\* Series are given the segment n, the others keep theirs.
LEMMA PutFacts ==
  ASSUME NEW f \in Maps, NEW S \in SUBSET Refs, NEW n \in Nat
  PROVE  /\ Put(f, S, n) \in Maps /\ DOMAIN Put(f, S, n) = S \cup DOMAIN f
         /\ \A r \in S : Put(f, S, n)[r] = n
         /\ \A r \in DOMAIN f \ S : Put(f, S, n)[r] = f[r]
<1>1. DOMAIN f \subseteq Refs /\ \A r \in DOMAIN f : f[r] \in Nat
  BY MapFacts, Zenon
<1>2. Put(f, S, n) \in [S \cup DOMAIN f -> Nat]
  BY <1>1 DEF Put
<1>3. S \cup DOMAIN f \in SUBSET Refs
  BY <1>1, Zenon
<1>4. Put(f, S, n) \in Maps
  BY <1>2, <1>3, Zenon DEF Maps
<1> QED
  BY <1>4 DEF Put

\* The records are records.
LEMMA PlaceFacts ==
  ASSUME LogType, NEW n, NEW i, Place(n, i)
  PROVE  n \in Nat /\ i \in Nat /\ At(n, i) \in Records /\ At(n, i).ref \in Refs /\ At(n, i).t \in Nat
<1>1. log.seg \in Seq(Seq(Records))
  BY Zenon DEF LogType
<1>2. log.seg[n] \in Seq(Records) /\ n \in Nat
  BY <1>1 DEF Place
<1>3. log.seg[n][i] \in Records /\ i \in Nat
  BY <1>2 DEF Place
<1> QED
  BY <1>2, <1>3, Zenon DEF At, Records

\* The parts of the log.
LEMMA LogFields ==
  ASSUME LogType
  PROVE  /\ log.seg \in Seq(Seq(Records)) /\ log.first \in Nat /\ log.ckpt \in Ckpts
         /\ log.live \in SUBSET Refs /\ log.gone \in Maps /\ log.t \in Nat /\ log.ckpts \in Nat
         /\ log.ckpt.idx \in Nat /\ log.ckpt.refs \in SUBSET Refs
<1>1. log.ckpt \in Ckpts
  BY Zenon DEF LogType
<1> QED
  BY <1>1, Zenon DEF LogType, Ckpts

-------------------------------------------------------------------------------
(* The log grows. *)

SamePlaces ==
  \A n, i : /\ Place(n, i)' <=> Place(n, i)
            /\ Place(n, i) => At(n, i)' = At(n, i)

\* A new segment is empty.
LEMMA PlacesStay ==
  ASSUME LogType, log'.seg = log.seg \/ log'.seg = Append(log.seg, << >>)
  PROVE  /\ SamePlaces /\ Len(log'.seg) \in Nat /\ Len(log.seg) \in Nat /\ Len(log'.seg) >= Len(log.seg)
         /\ \A n \in 1 .. Len(log.seg) : log'.seg[n] = log.seg[n]
<1>1. log.seg \in Seq(Seq(Records))
  BY LogFields, Zenon
<1>2. CASE log'.seg = log.seg
  <2>1. Len(log.seg) \in Nat
    BY <1>1
  <2> QED
    BY <1>2, <2>1 DEF SamePlaces, Place, At
<1>3. CASE log'.seg = Append(log.seg, << >>)
  <2> DEFINE e == << >>
  <2>1. e \in Seq(Records) /\ Len(e) = 0
    OBVIOUS
  <2>2. log'.seg = Append(log.seg, e)
    BY <1>3
  <2> HIDE DEF e
  <2>3. Len(log'.seg) = Len(log.seg) + 1 /\ Len(log.seg) \in Nat
    BY <1>1, <2>1, <2>2
  <2>4. \A n \in 1 .. Len(log.seg) : log'.seg[n] = log.seg[n]
    BY <1>1, <2>1, <2>2
  <2>5. log'.seg[Len(log.seg) + 1] = e
    BY <1>1, <2>1, <2>2
  <2>6. ASSUME NEW n, NEW i
        PROVE  /\ Place(n, i)' <=> Place(n, i)
               /\ Place(n, i) => At(n, i)' = At(n, i)
    <3>1. CASE n \in 1 .. Len(log.seg)
      BY <2>3, <2>4, <3>1 DEF Place, At
    <3>2. CASE n = Len(log.seg) + 1
      <4>1. ~(i \in 1 .. 0)
        OBVIOUS
      <4>2. ~Place(n, i)
        BY <2>3, <3>2 DEF Place
      <4>3. ~Place(n, i)'
        BY <2>1, <2>5, <3>2, <4>1 DEF Place
      <4> QED
        BY <4>2, <4>3
    <3>3. CASE n \notin 1 .. Len(log.seg) /\ n # Len(log.seg) + 1
      BY <2>3, <3>3 DEF Place
    <3> QED
      BY <3>1, <3>2, <3>3
  <2> QED
    <3>1. SamePlaces
      BY <2>6, Zenon DEF SamePlaces
    <3> QED
      BY <2>3, <2>4, <3>1
<1> QED
  BY <1>2, <1>3

\* What depends on the records only.
LEMMA RecordsStay ==
  ASSUME OrderInv, SeriesInv, SamePlaces, log'.t = log.t
  PROVE  OrderInv' /\ SeriesInv' /\ \A r, k : SeriesBy(r, k)' <=> SeriesBy(r, k)
<1>1. \A n, i : Place(n, i)' <=> Place(n, i)
  BY Zenon DEF SamePlaces
<1>2. \A n, i : Place(n, i)' => At(n, i)' = At(n, i)
  BY Zenon DEF SamePlaces
<1>3. SeriesInv'
  BY <1>1, <1>2, Zenon DEF SeriesInv, Before
<1>4. ASSUME NEW n, NEW i, NEW m, NEW j, Place(n, i)', Place(m, j)', Before(n, i, m, j), At(n, i)'.t # 0, At(m, j)'.t # 0
      PROVE  At(n, i)'.t < At(m, j)'.t
  <2>1. Place(n, i) /\ Place(m, j) /\ At(n, i)' = At(n, i) /\ At(m, j)' = At(m, j)
    BY <1>1, <1>2, <1>4, Zenon
  <2>2. At(n, i).t # 0 /\ At(m, j).t # 0
    BY <1>4, <2>1, Zenon
  <2>3. At(n, i).t < At(m, j).t
    BY <1>4, <2>1, <2>2, Zenon DEF OrderInv
  <2> QED
    BY <2>1, <2>3, Zenon
<1>5. ASSUME NEW n, NEW i, Place(n, i)'
      PROVE  (At(n, i).t <= log.t)'
  BY <1>1, <1>2, <1>5, Zenon DEF OrderInv
<1>6. OrderInv'
  BY <1>4, <1>5, Zenon DEF OrderInv, Before
<1>7. ASSUME NEW r, NEW k
      PROVE  SeriesBy(r, k)' <=> SeriesBy(r, k)
  BY <1>1, <1>2, Zenon DEF SeriesBy
<1> QED
  BY <1>3, <1>6, <1>7, Zenon

\* The two parts of CkptInv after a step.
LEMMA CkptIntro ==
  ASSUME \A q : Recent(q)' => \/ q \in log'.ckpt.refs
                               \/ \E n, i : Place(n, i)' /\ n > log'.ckpt.idx /\ At(n, i)'.t = 0 /\ At(n, i)'.ref = q,
         \A q \in log'.ckpt.refs : \A n, i : Place(n, i)' /\ At(n, i)'.t = 0 /\ At(n, i)'.ref = q => n <= log'.ckpt.idx
  PROVE  CkptInv'
BY Zenon DEF CkptInv, SeriesBy

\* The log without a new record.
LEMMA NextSegmentLog ==
  ASSUME LogInv, NextSegment
  PROVE  /\ LogInv' /\ log'.seg = Append(log.seg, << >>)
         /\ log'.first = log.first /\ log'.ckpt = log.ckpt /\ log'.live = log.live
         /\ log'.gone = log.gone /\ log'.t = log.t
<1> DEFINE s == Append(log.seg, << >>)
<1>1. log' = [log EXCEPT !.seg = s]
  BY Zenon DEF NextSegment
<1>2. s \in Seq(Seq(Records))
  <2>1. log.seg \in Seq(Seq(Records))
    BY LogFields, Zenon DEF LogInv
  <2>2. << >> \in Seq(Records)
    OBVIOUS
  <2> QED
    BY <2>1, <2>2
<1> HIDE DEF s
<1>3. /\ log'.seg = s /\ log'.first = log.first /\ log'.ckpt = log.ckpt /\ log'.live = log.live
      /\ log'.gone = log.gone /\ log'.t = log.t /\ LogType'
  BY <1>1, <1>2, Zenon DEF LogInv, LogType
<1>4. SamePlaces /\ Len(log'.seg) \in Nat /\ Len(log.seg) \in Nat /\ Len(log'.seg) >= Len(log.seg)
  BY <1>3, PlacesStay, Zenon DEF s, LogInv
<1>5. OrderInv' /\ SeriesInv' /\ \A r, k : SeriesBy(r, k)' <=> SeriesBy(r, k)
  BY <1>3, <1>4, RecordsStay, Zenon DEF LogInv
<1>6. SizeInv'
  <2>1. SizeInv /\ log.ckpt.idx \in Nat
    BY LogFields, Zenon DEF LogInv
  <2>2. log'.ckpt.idx < Len(log'.seg)
    BY <1>3, <1>4, <2>1 DEF SizeInv
  <2> QED
    BY <1>3, <2>1, <2>2, Zenon DEF SizeInv, Ever
<1>7. \A n, i : Place(n, i)' <=> Place(n, i)
  BY <1>4, Zenon DEF SamePlaces
<1>8. \A n, i : Place(n, i)' => At(n, i)' = At(n, i)
  BY <1>4, Zenon DEF SamePlaces
<1>9. GoneInv'
  BY <1>3, <1>7, <1>8, Zenon DEF LogInv, GoneInv
<1>10. \A r : Recent(r)' <=> Recent(r)
  BY <1>3, Zenon DEF Recent
<1>11. CkptInv'
  <2>1. ASSUME NEW q, Recent(q)'
        PROVE  \/ q \in log'.ckpt.refs
               \/ \E n, i : Place(n, i)' /\ n > log'.ckpt.idx /\ At(n, i)'.t = 0 /\ At(n, i)'.ref = q
    <3>1. \/ q \in log.ckpt.refs
          \/ \E n, i : Place(n, i) /\ n > log.ckpt.idx /\ At(n, i).t = 0 /\ At(n, i).ref = q
      BY <1>10, <2>1, Zenon DEF LogInv, CkptInv
    <3> QED
      BY <1>3, <1>7, <1>8, <3>1, Zenon
  <2>2. ASSUME NEW q \in log'.ckpt.refs, NEW n, NEW i, Place(n, i)', At(n, i)'.t = 0, At(n, i)'.ref = q
        PROVE  n <= log'.ckpt.idx
    <3>1. Place(n, i) /\ At(n, i)' = At(n, i)
      BY <1>7, <1>8, <2>2, Zenon
    <3>2. SeriesBy(q, log.ckpt.idx)
      BY <1>3, <2>2, Zenon DEF LogInv, CkptInv
    <3> QED
      BY <1>3, <2>2, <3>1, <3>2, Zenon DEF SeriesBy
  <2> QED
    BY <2>1, <2>2, CkptIntro, Zenon
<1> QED
  BY <1>3, <1>5, <1>6, <1>9, <1>11, Zenon DEF LogInv, s

\* The files behind the checkpoint go (wlog.Truncate).
LEMMA TruncateLog ==
  ASSUME LogInv, Truncate
  PROVE  /\ LogInv' /\ log'.seg = log.seg
         /\ log'.first = log.ckpt.idx + 1 /\ log.first <= log'.first
         /\ log'.ckpt = log.ckpt /\ log'.live = log.live /\ log'.gone = log.gone /\ log'.t = log.t
<1> DEFINE f == log.ckpt.idx + 1
<1>1. log' = [log EXCEPT !.first = f]
  BY Zenon DEF Truncate
<1>2. f \in Nat /\ log.first <= f /\ 1 <= f
  <2>1. log.ckpt.idx \in Nat
    BY LogFields, Zenon DEF LogInv
  <2> QED
    BY <2>1 DEF LogInv, SizeInv
<1> HIDE DEF f
<1>3. /\ log'.seg = log.seg /\ log'.first = f /\ log'.ckpt = log.ckpt /\ log'.live = log.live
      /\ log'.gone = log.gone /\ log'.t = log.t /\ LogType'
  BY <1>1, <1>2, Zenon DEF LogInv, LogType
<1>4. f <= f
  BY <1>2
<1>5. SizeInv'
  BY <1>2, <1>3, <1>4, Zenon DEF LogInv, SizeInv, Ever, f
<1>6. OrderInv' /\ SeriesInv'
  BY <1>3, ZenonT(40) DEF LogInv, OrderInv, SeriesInv, Place, At, Before
<1>7. \A n, i : (Place(n, i)' <=> Place(n, i)) /\ At(n, i)' = At(n, i)
  BY <1>3, Zenon DEF Place, At
<1>8. GoneInv'
  BY <1>3, <1>7, Zenon DEF LogInv, GoneInv
<1>9. \A r : Recent(r)' <=> Recent(r)
  BY <1>3, Zenon DEF Recent
<1>10. CkptInv'
  <2>1. ASSUME NEW q, Recent(q)'
        PROVE  \/ q \in log'.ckpt.refs
               \/ \E n, i : Place(n, i)' /\ n > log'.ckpt.idx /\ At(n, i)'.t = 0 /\ At(n, i)'.ref = q
    <3>1. \/ q \in log.ckpt.refs
          \/ \E n, i : Place(n, i) /\ n > log.ckpt.idx /\ At(n, i).t = 0 /\ At(n, i).ref = q
      BY <1>9, <2>1, Zenon DEF LogInv, CkptInv
    <3> QED
      BY <1>3, <1>7, <3>1, Zenon
  <2>2. ASSUME NEW q \in log'.ckpt.refs, NEW n, NEW i, Place(n, i)', At(n, i)'.t = 0, At(n, i)'.ref = q
        PROVE  n <= log'.ckpt.idx
    <3>1. Place(n, i) /\ At(n, i)' = At(n, i)
      BY <1>7, <2>2, Zenon
    <3>2. SeriesBy(q, log.ckpt.idx)
      BY <1>3, <2>2, Zenon DEF LogInv, CkptInv
    <3> QED
      BY <1>3, <2>2, <3>1, <3>2, Zenon DEF SeriesBy
  <2> QED
    BY <2>1, <2>2, CkptIntro, Zenon
<1> QED
  BY <1>2, <1>3, <1>5, <1>6, <1>8, <1>10, Zenon DEF LogInv, f

\* The head forgets a series and keeps the segment of its last record (Head.gc).
LEMMA HeadGCLog ==
  ASSUME LogInv, NEW r \in Refs, HeadGC(r)
  PROVE  /\ LogInv' /\ log'.seg = log.seg /\ log'.first = log.first /\ log'.ckpt = log.ckpt
         /\ log'.live = log.live \ {r} /\ log'.t = log.t /\ Ever' = Ever
<1> DEFINE g == Put(log.gone, {r}, Len(log.seg))
<1>1. log' = [log EXCEPT !.live = @ \ {r}, !.gone = g] /\ r \in log.live
  BY Zenon DEF HeadGC, LastSeg
<1>2. Len(log.seg) \in Nat /\ log.gone \in Maps /\ log.ckpt.idx \in Nat
  <2>1. log.seg \in Seq(Seq(Records)) /\ log.gone \in Maps /\ log.ckpt.idx \in Nat
    BY LogFields, Zenon DEF LogInv
  <2> QED
    BY <2>1
<1>3. /\ g \in Maps /\ DOMAIN g = {r} \cup DOMAIN log.gone
      /\ g[r] = Len(log.seg) /\ \A q \in DOMAIN log.gone \ {r} : g[q] = log.gone[q]
  <2> DEFINE S == {r}
  <2>1. S \in SUBSET Refs /\ r \in S
    BY Zenon
  <2> HIDE DEF S
  <2>2. /\ Put(log.gone, S, Len(log.seg)) \in Maps /\ DOMAIN Put(log.gone, S, Len(log.seg)) = S \cup DOMAIN log.gone
        /\ \A q \in S : Put(log.gone, S, Len(log.seg))[q] = Len(log.seg)
        /\ \A q \in DOMAIN log.gone \ S : Put(log.gone, S, Len(log.seg))[q] = log.gone[q]
    BY <1>2, <2>1, PutFacts, ZenonT(40)
  <2> QED
    BY <2>1, <2>2, Zenon DEF S
<1> HIDE DEF g
<1>4. /\ log'.seg = log.seg /\ log'.first = log.first /\ log'.ckpt = log.ckpt /\ log'.live = log.live \ {r}
      /\ log'.gone = g /\ log'.t = log.t /\ LogType'
  <2>1. log.live \ {r} \in SUBSET Refs
    BY LogFields, Zenon DEF LogInv
  <2> QED
    BY <1>1, <1>3, <2>1, Zenon DEF LogInv, LogType
<1>5. Ever' = Ever
  BY <1>1, <1>3, <1>4 DEF Ever
<1>6. log'.live \cap DOMAIN log'.gone = {}
  BY <1>3, <1>4 DEF LogInv, SizeInv
<1>7. SizeInv'
  BY <1>4, <1>5, <1>6, Zenon DEF LogInv, SizeInv
<1>8. OrderInv' /\ SeriesInv'
  BY <1>4, ZenonT(40) DEF LogInv, OrderInv, SeriesInv, Place, At, Before
<1>9. GoneInv'
  <2> SUFFICES ASSUME NEW n, NEW i, Place(n, i)
               PROVE  At(n, i).ref \in log'.live \/ (At(n, i).ref \in DOMAIN g /\ g[At(n, i).ref] >= n)
    BY <1>4, Zenon DEF GoneInv, Place, At
  <2>1. CASE At(n, i).ref = r
    <3>1. Len(log.seg) >= n
      BY <1>2 DEF Place
    <3> QED
      BY <1>3, <2>1, <3>1
  <2>2. CASE At(n, i).ref # r
    BY <1>3, <1>4, <2>2 DEF LogInv, GoneInv
  <2> QED
    BY <2>1, <2>2
<1>10. \A q : Recent(q)' => Recent(q)
  BY <1>1, <1>3, <1>4 DEF Recent
<1>11. \A n, i : (Place(n, i)' <=> Place(n, i)) /\ At(n, i)' = At(n, i)
  BY <1>4, Zenon DEF Place, At
<1>12. CkptInv'
  <2>1. ASSUME NEW q, Recent(q)'
        PROVE  \/ q \in log'.ckpt.refs
               \/ \E n, i : Place(n, i)' /\ n > log'.ckpt.idx /\ At(n, i)'.t = 0 /\ At(n, i)'.ref = q
    <3>1. \/ q \in log.ckpt.refs
          \/ \E n, i : Place(n, i) /\ n > log.ckpt.idx /\ At(n, i).t = 0 /\ At(n, i).ref = q
      BY <1>10, <2>1, Zenon DEF LogInv, CkptInv
    <3> QED
      BY <1>4, <1>11, <3>1, Zenon
  <2>2. ASSUME NEW q \in log'.ckpt.refs, NEW n, NEW i, Place(n, i)', At(n, i)'.t = 0, At(n, i)'.ref = q
        PROVE  n <= log'.ckpt.idx
    <3>1. Place(n, i) /\ At(n, i)' = At(n, i)
      BY <1>11, <2>2, Zenon
    <3>2. SeriesBy(q, log.ckpt.idx)
      BY <1>4, <2>2, Zenon DEF LogInv, CkptInv
    <3> QED
      BY <1>4, <2>2, <3>1, <3>2, Zenon DEF SeriesBy
  <2> QED
    BY <2>1, <2>2, CkptIntro, Zenon
<1> QED
  BY <1>4, <1>5, <1>7, <1>8, <1>9, <1>12, Zenon DEF LogInv

\* A checkpoint keeps the series that may still have samples.
LEMMA CheckpointLog ==
  ASSUME LogInv, NEW k, Checkpoint(k)
  PROVE  /\ LogInv' /\ log'.seg = log.seg /\ log'.first = log.first
         /\ log'.live = log.live /\ log'.t = log.t /\ Ever' = Ever /\ log.ckpt.idx <= log'.ckpt.idx
<1> DEFINE R == {r \in SeriesUpTo(k) : Kept(r, k)}
           c == [idx |-> k, refs |-> R]
<1>1. /\ k \in log.first .. LastSeg - 1 /\ log.ckpt.idx < k
      /\ log' = [log EXCEPT !.ckpt = c, !.ckpts = @ + 1]
  BY Zenon DEF Checkpoint
<1>2. log.first \in Nat /\ Len(log.seg) \in Nat /\ log.ckpt.idx \in Nat
  <2>1. log.seg \in Seq(Seq(Records)) /\ log.first \in Nat /\ log.ckpt.idx \in Nat
    BY LogFields, Zenon DEF LogInv
  <2> QED
    BY <2>1
<1>3. k \in Nat /\ log.first <= k + 1 /\ k < Len(log.seg) /\ log.ckpt.idx <= k /\ k + 1 \in Nat
  BY <1>1, <1>2 DEF LastSeg
<1>4. R \subseteq Ever /\ R \in SUBSET Refs
  <2>1. \A r \in R : r \in log.live \/ r \in DOMAIN log.gone
    BY Zenon DEF Kept
  <2>2. log.live \in SUBSET Refs /\ DOMAIN log.gone \subseteq Refs
    BY LogFields, MapFacts, Zenon DEF LogInv
  <2> QED
    BY <2>1, <2>2, Zenon DEF Ever
<1>5. c \in Ckpts /\ c.idx = k /\ c.refs = R
  BY <1>3, <1>4, Zenon DEF Ckpts
<1> HIDE DEF c
<1>6. /\ log'.seg = log.seg /\ log'.first = log.first /\ log'.ckpt = c /\ log'.live = log.live
      /\ log'.gone = log.gone /\ log'.t = log.t /\ LogType'
  <2>1. log.ckpts + 1 \in Nat
    BY DEF LogInv, LogType
  <2> QED
    BY <1>1, <1>5, <2>1, Zenon DEF LogInv, LogType
<1>7. Ever' = Ever /\ \A n, i : (Place(n, i)' <=> Place(n, i)) /\ At(n, i)' = At(n, i)
  BY <1>6, Zenon DEF Ever, Place, At
<1>8. SizeInv'
  BY <1>3, <1>4, <1>5, <1>6, <1>7, Zenon DEF LogInv, SizeInv
<1>9. OrderInv' /\ SeriesInv' /\ GoneInv'
  <2>1. OrderInv' /\ SeriesInv'
    <3>1. SamePlaces
      BY <1>7, Zenon DEF SamePlaces
    <3> QED
      BY <1>6, <3>1, RecordsStay, Zenon DEF LogInv
  <2>2. GoneInv'
    BY <1>6, <1>7, Zenon DEF LogInv, GoneInv
  <2> QED
    BY <2>1, <2>2
<1>10. ASSUME NEW r, Recent(r)'
       PROVE  r \in R \/ \E n, i : Place(n, i) /\ n > k /\ At(n, i).t = 0 /\ At(n, i).ref = r
  <2>1. r \in log.live \/ (r \in DOMAIN log.gone /\ log.gone[r] > k)
    BY <1>5, <1>6, <1>10, Zenon DEF Recent
  <2>2. Kept(r, k)
    BY <2>1, Zenon DEF Kept
  <2>3. Recent(r)
    <3>1. CASE r \in log.live
      BY <3>1, Zenon DEF Recent
    <3>2. CASE r \in DOMAIN log.gone /\ log.gone[r] > k
      <4>1. log.gone[r] \in Nat
        BY <3>2, LogFields, MapFacts, Zenon DEF LogInv
      <4>2. log.gone[r] > log.ckpt.idx
        BY <1>2, <1>3, <3>2, <4>1
      <4> QED
        BY <3>2, <4>2, Zenon DEF Recent
    <3> QED
      BY <2>1, <3>1, <3>2, Zenon
  <2>4. CASE r \in log.ckpt.refs
    BY <2>2, <2>4, Zenon DEF SeriesUpTo
  <2>5. ASSUME NEW n, NEW i, Place(n, i), n > log.ckpt.idx, At(n, i).t = 0, At(n, i).ref = r
        PROVE  r \in R \/ n > k
    <3>1. n \in Nat /\ i \in 1 .. Len(log.seg[n])
      BY <2>5, <1>2 DEF Place
    <3>2. CASE n <= k
      <4>1. n \in log.first .. k
        <5>1. log.first <= log.ckpt.idx + 1
          BY Zenon DEF LogInv, SizeInv
        <5> QED
          BY <1>2, <1>3, <2>5, <3>1, <3>2, <5>1
      <4>2. DOMAIN log.seg[n] = 1 .. Len(log.seg[n])
        <5>1. log.seg[n] \in Seq(Records)
          <6>1. log.seg \in Seq(Seq(Records))
            BY LogFields, Zenon DEF LogInv
          <6> QED
            BY <2>5, <6>1 DEF Place
        <5> QED
          BY <5>1
      <4> DEFINE F(x) == {log.seg[x][y].ref : y \in {j \in DOMAIN log.seg[x] : log.seg[x][j].t = 0}}
      <4>3. r \in F(n)
        BY <2>5, <3>1, <4>2, Zenon DEF At
      <4>4. r \in SeriesUpTo(k)
        <5>1. SeriesUpTo(k) = log.ckpt.refs \cup UNION {F(x) : x \in log.first .. k}
          BY Zenon DEF SeriesUpTo
        <5> HIDE DEF F
        <5> QED
          BY <4>1, <4>3, <5>1, Zenon
      <4> QED
        BY <2>2, <4>4, Zenon
    <3> QED
      BY <1>3, <3>1, <3>2
  <2> QED
    BY <2>3, <2>4, <2>5, Zenon DEF LogInv, CkptInv
<1>11. ASSUME NEW r \in R
       PROVE  SeriesBy(r, k)
  <2>1. CASE r \in log.ckpt.refs
    <3>1. SeriesBy(r, log.ckpt.idx)
      BY <2>1, Zenon DEF LogInv, CkptInv
    <3>2. \A n : n \in 1 .. Len(log.seg) /\ n <= log.ckpt.idx => n <= k
      BY <1>2, <1>3
    <3> QED
      BY <3>1, <3>2, Zenon DEF SeriesBy, Place
  <2>2. ASSUME NEW n \in log.first .. k,
               r \in {log.seg[n][i].ref : i \in {j \in DOMAIN log.seg[n] : log.seg[n][j].t = 0}}
        PROVE  SeriesBy(r, k)
    <3>1. PICK i \in DOMAIN log.seg[n] : At(n, i).t = 0 /\ At(n, i).ref = r
      BY <2>2, Zenon DEF At
    <3>2. n \in 1 .. Len(log.seg) /\ n <= k
      BY <1>2, <1>3 DEF LogInv, SizeInv
    <3>3. log.seg[n] \in Seq(Records)
      <4>1. log.seg \in Seq(Seq(Records))
        BY LogFields, Zenon DEF LogInv
      <4> QED
        BY <3>2, <4>1
    <3>4. Place(n, i)
      <4>1. DOMAIN log.seg[n] = 1 .. Len(log.seg[n])
        BY <3>3
      <4> QED
        BY <3>1, <3>2, <4>1, Zenon DEF Place
    <3>5. ASSUME NEW m, NEW j, Place(m, j), At(m, j).t = 0, At(m, j).ref = r
          PROVE  m <= k
      <4>1. (n = m /\ i = j) \/ Before(n, i, m, j)
        BY <3>1, <3>4, <3>5, Zenon DEF LogInv, SeriesInv
      <4>2. (n = m /\ i = j) \/ Before(m, j, n, i)
        BY <3>1, <3>4, <3>5, Zenon DEF LogInv, SeriesInv
      <4>3. n \in Nat /\ m \in Nat /\ i \in Nat /\ j \in Nat
        BY <3>4, <3>5, PlaceFacts, Zenon DEF LogInv
      <4>4. m = n
        BY <4>1, <4>2, <4>3 DEF Before
      <4> QED
        BY <3>2, <4>4
    <3> QED
      BY <3>5, Zenon DEF SeriesBy
  <2>3. r \in log.ckpt.refs \/ \E n \in log.first .. k : r \in {log.seg[n][i].ref : i \in {j \in DOMAIN log.seg[n] : log.seg[n][j].t = 0}}
    BY Zenon DEF SeriesUpTo
  <2> QED
    BY <2>1, <2>2, <2>3, Zenon
<1>12. CkptInv'
  <2>1. \A r \in R : \A n, i : Place(n, i)' /\ At(n, i)'.t = 0 /\ At(n, i)'.ref = r => n <= k
    BY <1>7, <1>11, Zenon DEF SeriesBy
  <2>2. \A r : Recent(r)' => r \in R \/ \E n, i : Place(n, i)' /\ n > k /\ At(n, i)'.t = 0 /\ At(n, i)'.ref = r
    BY <1>7, <1>10, Zenon
  <2> HIDE DEF R
  <2>3. log'.ckpt.idx = k /\ log'.ckpt.refs = R
    BY <1>5, <1>6, Zenon
  <2>4. /\ \A q : Recent(q)' => \/ q \in log'.ckpt.refs
                                \/ \E n, i : Place(n, i)' /\ n > log'.ckpt.idx /\ At(n, i)'.t = 0 /\ At(n, i)'.ref = q
        /\ \A q \in log'.ckpt.refs : \A n, i : Place(n, i)' /\ At(n, i)'.t = 0 /\ At(n, i)'.ref = q => n <= log'.ckpt.idx
    BY <2>1, <2>2, <2>3, Zenon
  <2> QED
    BY <2>4, CkptIntro, Zenon
<1> QED
  BY <1>3, <1>5, <1>6, <1>7, <1>8, <1>9, <1>12, Zenon DEF LogInv

\* A sample is added to the last segment, after the record of a new series.
LogEnd == Len(log.seg[LastSeg])

\* It is the newest record, and nothing that was there has moved.
LEMMA SampleIsLogged ==
  ASSUME LogInv, NEW r \in Refs, LogSample(r)
  PROVE  /\ LogType' /\ r \notin DOMAIN log.gone
         /\ log'.first = log.first /\ log'.ckpt = log.ckpt /\ log'.gone = log.gone
         /\ log'.live = log.live \cup {r} /\ log'.t = log.t + 1
         /\ LastSeg \in Nat /\ LogEnd \in Nat /\ LastSeg \in 1 .. LastSeg /\ Len(log'.seg) = LastSeg
         /\ \A n, i : Place(n, i) => Place(n, i)' /\ At(n, i)' = At(n, i)
         /\ \A i : Place(LastSeg, i) => i <= LogEnd
         /\ \A n, i : Place(n, i)' /\ ~Place(n, i) =>
              /\ n = LastSeg /\ i \in Nat /\ i > LogEnd /\ At(n, i)'.ref = r
              /\ \/ At(n, i)'.t = 0 /\ i = LogEnd + 1 /\ r \notin log.live
                 \/ At(n, i)'.t = log.t + 1 /\ i = (IF r \in log.live THEN LogEnd + 1 ELSE LogEnd + 2)
         /\ r \notin log.live => \E n, i : n = LastSeg /\ i = LogEnd + 1 /\ Place(n, i)' /\ At(n, i)'.t = 0 /\ At(n, i)'.ref = r
<1> DEFINE L == LastSeg
           k == LogEnd
<1>0. L = Len(log.seg) /\ k = Len(log.seg[L])
  BY Zenon DEF LastSeg, LogEnd
<1> HIDE DEF L, k
<1> DEFINE t == log.t + 1
           recs == IF r \in log.live THEN << Sample(r, t) >> ELSE << Sample(r, 0), Sample(r, t) >>
           s == [log.seg EXCEPT ![L] = @ \o recs]
<1>1. log.seg \in Seq(Seq(Records)) /\ log.t \in Nat /\ log.live \in SUBSET Refs
  BY LogFields, Zenon DEF LogInv
<1>2. L \in Nat /\ L \in 1 .. L /\ log.seg[L] \in Seq(Records) /\ k \in Nat
  <2>1. log.ckpt.idx \in Nat /\ log.ckpt.idx < L /\ L \in Nat
    <3>1. log.ckpt.idx \in Nat /\ log.ckpt.idx < L
      BY <1>0, LogFields, Zenon DEF LogInv, SizeInv
    <3> QED
      BY <1>0, <1>1, <3>1
  <2>2. L \in 1 .. L
    BY <2>1
  <2>3. log.seg[L] \in Seq(Records)
    BY <1>0, <1>1, <2>2
  <2> QED
    BY <1>0, <2>1, <2>2, <2>3
<1>3. Sample(r, t) \in Records /\ Sample(r, 0) \in Records
  BY <1>1 DEF Sample, Records
<1>4. recs \in Seq(Records)
  BY <1>3
<1>5. log' = [log EXCEPT !.seg = s, !.live = @ \cup {r}, !.t = t] /\ r \notin DOMAIN log.gone
  BY Zenon DEF LogSample, L
<1>6. s \in Seq(Seq(Records)) /\ Len(s) = L /\ s[L] = log.seg[L] \o recs /\ \A n \in 1 .. L : n # L => s[n] = log.seg[n]
  <2>1. log.seg[L] \o recs \in Seq(Records)
    BY <1>2, <1>4
  <2> HIDE DEF recs
  <2> QED
    BY <1>0, <1>1, <1>2, <2>1
<1>7. /\ \A i \in 1 .. k : s[L][i] = log.seg[L][i]
      /\ Len(s[L]) = (IF r \in log.live THEN k + 1 ELSE k + 2)
      /\ r \in log.live => s[L][k + 1] = Sample(r, t)
      /\ r \notin log.live => s[L][k + 1] = Sample(r, 0) /\ s[L][k + 2] = Sample(r, t)
  <2> HIDE DEF s
  <2>1. CASE r \in log.live
    <3>1. s[L] = log.seg[L] \o << Sample(r, t) >>
      BY <1>6, <2>1
    <3> HIDE DEF recs, t
    <3> QED
      BY <1>0, <1>2, <1>3, <2>1, <3>1
  <2>2. CASE r \notin log.live
    <3>1. s[L] = log.seg[L] \o << Sample(r, 0), Sample(r, t) >>
      BY <1>6, <2>2
    <3> HIDE DEF recs, t
    <3> QED
      BY <1>0, <1>2, <1>3, <2>2, <3>1, SMTT(20)
  <2> QED
    BY <2>1, <2>2
<1>8. Sample(r, t).ref = r /\ Sample(r, t).t = t /\ Sample(r, 0).ref = r /\ Sample(r, 0).t = 0
  BY DEF Sample
<1> HIDE DEF s, recs
<1>9. /\ log'.seg = s /\ log'.first = log.first /\ log'.ckpt = log.ckpt /\ log'.live = log.live \cup {r}
      /\ log'.gone = log.gone /\ log'.t = t /\ LogType'
  <2>1. t \in Nat /\ log.live \cup {r} \in SUBSET Refs
    BY <1>1
  <2> HIDE DEF t
  <2> QED
    BY <1>5, <1>6, <2>1, Zenon DEF LogInv, LogType
<1>10. ASSUME NEW n, NEW i, Place(n, i)
       PROVE  Place(n, i)' /\ At(n, i)' = At(n, i)
  <2>1. CASE n = L
    BY <1>0, <1>2, <1>6, <1>7, <1>9, <1>10, <2>1 DEF Place, At
  <2>2. CASE n # L
    BY <1>0, <1>2, <1>6, <1>9, <1>10, <2>2 DEF Place, At
  <2> QED
    BY <2>1, <2>2
<1>11. ASSUME NEW n, NEW i, Place(n, i)', ~Place(n, i)
       PROVE  /\ n = L /\ i \in Nat /\ i > k /\ At(n, i)'.ref = r
              /\ \/ At(n, i)'.t = 0 /\ i = k + 1 /\ r \notin log.live
                 \/ At(n, i)'.t = t /\ i = (IF r \in log.live THEN k + 1 ELSE k + 2)
  <2>1. n = L
    BY <1>0, <1>2, <1>6, <1>9, <1>11 DEF Place
  <2>2. i \in 1 .. Len(s[L]) /\ i \notin 1 .. k
    BY <1>0, <1>6, <1>9, <1>11, <2>1 DEF Place
  <2>3. At(n, i)' = s[L][i]
    BY <1>9, <2>1, Zenon DEF At
  <2>4. CASE r \in log.live
    <3>1. i = k + 1 /\ i \in Nat /\ i > k
      BY <1>2, <1>7, <2>2, <2>4
    <3> QED
      BY <1>7, <1>8, <2>1, <2>3, <2>4, <3>1, Zenon
  <2>5. CASE r \notin log.live
    <3>1. (i = k + 1 \/ i = k + 2) /\ i \in Nat /\ i > k
      BY <1>2, <1>7, <2>2, <2>5
    <3> QED
      BY <1>7, <1>8, <2>1, <2>3, <2>5, <3>1, Zenon
  <2> QED
    BY <2>4, <2>5
<1>12. ASSUME r \notin log.live
       PROVE  \E n, i : n = L /\ i = k + 1 /\ Place(n, i)' /\ At(n, i)'.t = 0 /\ At(n, i)'.ref = r
  <2>1. k + 1 \in 1 .. Len(s[L])
    BY <1>2, <1>7, <1>12
  <2>2. ASSUME NEW n, NEW i, n = L, i = k + 1
        PROVE  Place(n, i)' /\ At(n, i)' = Sample(r, 0)
    BY <1>2, <1>6, <1>7, <1>9, <1>12, <2>1, <2>2, Zenon DEF Place, At
  <2> QED
    BY <1>8, <2>2, Zenon
<1>13. \A i : Place(L, i) => i <= k
  BY <1>0, <1>2 DEF Place
<1> QED
  <2>1. /\ LogType' /\ r \notin DOMAIN log.gone
        /\ log'.first = log.first /\ log'.ckpt = log.ckpt /\ log'.gone = log.gone
        /\ log'.live = log.live \cup {r} /\ log'.t = t
        /\ L \in Nat /\ k \in Nat /\ L \in 1 .. L /\ Len(log'.seg) = L
    BY <1>2, <1>5, <1>6, <1>9, Zenon
  <2> QED
    BY <2>1, <1>10, <1>11, <1>12, <1>13, Zenon DEF L, k

\* The log stays in order when a sample is logged.
LEMMA LogSampleLog ==
  ASSUME LogInv, NEW r \in Refs, LogSample(r)
  PROVE  LogInv' /\ \A q \in Ever : \A c : SeriesBy(q, c) => SeriesBy(q, c)'
<1> DEFINE L == LastSeg
           k == LogEnd
<1>0. L = Len(log.seg)
  BY Zenon DEF LastSeg
<1>1. /\ LogType' /\ r \notin DOMAIN log.gone
      /\ log'.first = log.first /\ log'.ckpt = log.ckpt /\ log'.gone = log.gone
      /\ log'.live = log.live \cup {r} /\ log'.t = log.t + 1
      /\ L \in Nat /\ k \in Nat /\ L \in 1 .. L /\ Len(log'.seg) = L
  BY SampleIsLogged, Zenon
<1>2. \A n, i : Place(n, i) => Place(n, i)' /\ At(n, i)' = At(n, i)
  BY SampleIsLogged, Zenon
<1>3. \A i : Place(L, i) => i <= k
  BY SampleIsLogged, Zenon
<1>4. \A n, i : Place(n, i)' /\ ~Place(n, i) =>
        /\ n = L /\ i \in Nat /\ i > k /\ At(n, i)'.ref = r
        /\ \/ At(n, i)'.t = 0 /\ i = k + 1 /\ r \notin log.live
           \/ At(n, i)'.t = log.t + 1 /\ i = (IF r \in log.live THEN k + 1 ELSE k + 2)
  BY SampleIsLogged, Zenon
<1>5. r \notin log.live => \E n, i : n = L /\ i = k + 1 /\ Place(n, i)' /\ At(n, i)'.t = 0 /\ At(n, i)'.ref = r
  BY SampleIsLogged, Zenon
<1>6. \A n, i : Place(n, i) => n \in Nat /\ i \in Nat /\ At(n, i).t \in Nat /\ At(n, i).t <= log.t /\ n <= L
  <2> TAKE n, i
  <2> HAVE Place(n, i)
  <2>1. n \in Nat /\ i \in Nat /\ At(n, i).t \in Nat
    BY PlaceFacts, Zenon DEF LogInv
  <2>2. At(n, i).t <= log.t
    BY Zenon DEF LogInv, OrderInv
  <2>3. n <= L
    BY <1>0, <1>1 DEF Place
  <2> QED
    BY <2>1, <2>2, <2>3
<1>7. log.t \in Nat /\ log.ckpt.idx \in Nat /\ log.ckpt.idx < L
  BY <1>0, LogFields, Zenon DEF LogInv, SizeInv
<1> HIDE DEF L, k
\* An old record comes before a new one.
<1>8. ASSUME NEW n, NEW i, NEW m, NEW j, Place(n, i), Place(m, j)', ~Place(m, j)
      PROVE  Before(n, i, m, j) /\ ~Before(m, j, n, i)
  <2>1. m = L /\ j \in Nat /\ j > k
    BY <1>4, <1>8, Zenon
  <2>2. n \in Nat /\ i \in Nat /\ n <= L /\ (n = L => i <= k)
    BY <1>3, <1>6, <1>8, Zenon
  <2> QED
    BY <1>1, <2>1, <2>2 DEF Before
<1>9. OrderInv'
  <2>1. ASSUME NEW n, NEW i, NEW m, NEW j, Place(n, i)', Place(m, j)', Before(n, i, m, j),
               At(n, i)'.t # 0, At(m, j)'.t # 0
        PROVE  At(n, i)'.t < At(m, j)'.t
    <3>1. CASE Place(n, i) /\ Place(m, j)
      <4>1. At(n, i)' = At(n, i) /\ At(m, j)' = At(m, j)
        BY <1>2, <3>1, Zenon
      <4>2. At(n, i).t # 0 /\ At(m, j).t # 0
        BY <2>1, <4>1, Zenon
      <4>3. At(n, i).t < At(m, j).t
        BY <2>1, <3>1, <4>2, Zenon DEF LogInv, OrderInv
      <4> QED
        BY <4>1, <4>3, Zenon
    <3>2. CASE Place(n, i) /\ ~Place(m, j)
      <4>1. At(m, j)'.t = log.t + 1
        BY <1>4, <2>1, <3>2, Zenon
      <4>2. At(n, i)' = At(n, i) /\ At(n, i).t \in Nat /\ At(n, i).t <= log.t
        BY <1>2, <1>6, <3>2, Zenon
      <4> QED
        BY <1>7, <4>1, <4>2
    <3>3. CASE ~Place(n, i) /\ Place(m, j)
      BY <1>8, <2>1, <3>3, Zenon
    <3>4. CASE ~Place(n, i) /\ ~Place(m, j)
      <4>1. n = L /\ i \in Nat /\ i = (IF r \in log.live THEN k + 1 ELSE k + 2)
        BY <1>4, <2>1, <3>4, Zenon
      <4>2. m = L /\ j = (IF r \in log.live THEN k + 1 ELSE k + 2)
        BY <1>4, <2>1, <3>4, Zenon
      <4>3. n = m /\ i = j
        BY <4>1, <4>2, Zenon
      <4> QED
        BY <1>1, <2>1, <4>1, <4>3 DEF Before
    <3> QED
      BY <3>1, <3>2, <3>3, <3>4, Zenon
  <2>2. ASSUME NEW n, NEW i, Place(n, i)'
        PROVE  At(n, i)'.t <= log'.t
    <3>1. CASE Place(n, i)
      <4>1. At(n, i)' = At(n, i) /\ At(n, i).t \in Nat /\ At(n, i).t <= log.t
        BY <1>2, <1>6, <3>1, Zenon
      <4> QED
        BY <1>1, <1>7, <4>1
    <3>2. CASE ~Place(n, i)
      <4>1. At(n, i)'.t = 0 \/ At(n, i)'.t = log.t + 1
        BY <1>4, <2>2, <3>2, Zenon
      <4> QED
        BY <1>1, <1>7, <4>1
    <3> QED
      BY <3>1, <3>2
  <2> QED
    BY <2>1, <2>2, Zenon DEF OrderInv, Before
<1>10. ASSUME NEW n, NEW i, Place(n, i)
       PROVE  At(n, i).ref = r => r \in log.live
  <2>1. At(n, i).ref \in log.live \/ At(n, i).ref \in DOMAIN log.gone
    BY <1>10, Zenon DEF LogInv, GoneInv
  <2> QED
    BY <1>1, <2>1, Zenon
<1>11. SeriesInv'
  <2>1. ASSUME NEW n, NEW i, NEW m, NEW j, Place(n, i)', Place(m, j)', At(n, i)'.t = 0,
               At(m, j)'.ref = At(n, i)'.ref
        PROVE  (n = m /\ i = j) \/ Before(n, i, m, j)
    <3>1. CASE Place(n, i) /\ Place(m, j)
      BY <1>2, <2>1, <3>1, Zenon DEF LogInv, SeriesInv
    <3>2. CASE Place(n, i) /\ ~Place(m, j)
      BY <1>8, <2>1, <3>2, Zenon
    <3>3. CASE ~Place(n, i)
      <4>1. 0 # log.t + 1
        BY <1>7
      <4>2. n = L /\ i = k + 1 /\ r \notin log.live /\ At(n, i)'.ref = r
        BY <1>4, <2>1, <3>3, <4>1, Zenon
      <4>3. ~Place(m, j)
        BY <1>2, <1>10, <2>1, <4>2, Zenon
      <4>4. m = L /\ (j = k + 1 \/ j = k + 2)
        BY <1>4, <2>1, <4>2, <4>3, Zenon
      <4> QED
        BY <1>1, <4>2, <4>4 DEF Before
    <3> QED
      BY <3>1, <3>2, <3>3, Zenon
  <2> QED
    BY <2>1, Zenon DEF SeriesInv, Before
<1>12. GoneInv'
  <2>1. ASSUME NEW n, NEW i, Place(n, i)'
        PROVE  At(n, i)'.ref \in log'.live \/ (At(n, i)'.ref \in DOMAIN log'.gone /\ log'.gone[At(n, i)'.ref] >= n)
    <3>1. CASE Place(n, i)
      BY <1>1, <1>2, <3>1, Zenon DEF LogInv, GoneInv
    <3>2. CASE ~Place(n, i)
      BY <1>1, <1>4, <2>1, <3>2, Zenon
    <3> QED
      BY <3>1, <3>2
  <2> QED
    BY <2>1, Zenon DEF GoneInv
<1>13. SizeInv' /\ Ever' = Ever \cup {r}
  <2>1. Ever' = Ever \cup {r}
    BY <1>1, Zenon DEF Ever
  <2>2. log'.live \cap DOMAIN log'.gone = {}
    BY <1>1 DEF LogInv, SizeInv
  <2> QED
    BY <1>0, <1>1, <2>1, <2>2, Zenon DEF LogInv, SizeInv
<1>14. ASSUME NEW q \in Ever, NEW c, SeriesBy(q, c)
       PROVE  SeriesBy(q, c)'
  <2>1. ASSUME NEW n, NEW i, Place(n, i)', At(n, i)'.t = 0, At(n, i)'.ref = q
        PROVE  n <= c
    <3>1. CASE Place(n, i)
      BY <1>2, <1>14, <2>1, <3>1, Zenon DEF SeriesBy
    <3>2. CASE ~Place(n, i)
      <4>1. 0 # log.t + 1
        BY <1>7
      <4>2. r \notin log.live /\ q = r
        BY <1>4, <2>1, <3>2, <4>1, Zenon
      <4> QED
        BY <1>1, <4>2, Zenon DEF Ever
    <3> QED
      BY <3>1, <3>2
  <2> QED
    BY <2>1, Zenon DEF SeriesBy
<1>15. CkptInv'
  <2>1. ASSUME NEW q, Recent(q)'
        PROVE  \/ q \in log'.ckpt.refs
               \/ \E n, i : Place(n, i)' /\ n > log'.ckpt.idx /\ At(n, i)'.t = 0 /\ At(n, i)'.ref = q
    <3>1. CASE q = r /\ r \notin log.live
      <4>1. L > log.ckpt.idx
        BY <1>1, <1>7
      <4> QED
        BY <1>1, <1>5, <3>1, <4>1, Zenon
    <3>2. CASE q # r \/ r \in log.live
      <4>1. Recent(q)
        BY <1>1, <2>1, <3>2, Zenon DEF Recent
      <4>2. \/ q \in log.ckpt.refs
            \/ \E n, i : Place(n, i) /\ n > log.ckpt.idx /\ At(n, i).t = 0 /\ At(n, i).ref = q
        BY <4>1, Zenon DEF LogInv, CkptInv
      <4> QED
        BY <1>1, <1>2, <4>2, Zenon
    <3> QED
      BY <3>1, <3>2
  <2>2. ASSUME NEW q \in log.ckpt.refs, NEW n, NEW i, Place(n, i)', At(n, i)'.t = 0, At(n, i)'.ref = q
        PROVE  n <= log.ckpt.idx
    <3> DEFINE c == log.ckpt.idx
    <3>1. q \in Ever /\ SeriesBy(q, c)
      BY Zenon DEF LogInv, SizeInv, CkptInv
    <3> HIDE DEF c
    <3>2. n <= c
      <4>1. CASE Place(n, i)
        BY <1>2, <2>2, <3>1, <4>1, Zenon DEF SeriesBy
      <4>2. CASE ~Place(n, i)
        <5>1. 0 # log.t + 1
          BY <1>7
        <5>2. r \notin log.live /\ q = r
          BY <1>4, <2>2, <4>2, <5>1, Zenon
        <5> QED
          BY <1>1, <3>1, <5>2, Zenon DEF Ever
      <4> QED
        BY <4>1, <4>2
    <3> QED
      BY <3>2 DEF c
  <2> QED
    BY <1>1, <2>1, <2>2, CkptIntro, Zenon
<1> QED
  BY <1>1, <1>9, <1>11, <1>12, <1>13, <1>14, <1>15, Zenon DEF LogInv

-------------------------------------------------------------------------------
(* The log and the watcher *)

\* The parts of the watcher.
LEMMA WatcherFields ==
  ASSUME WatcherType
  PROVE  /\ w.pc \in WatchPcs /\ w.seg \in Nat /\ w.pos \in Nat /\ w.tail \in BOOLEAN /\ w.leave \in BOOLEAN
         /\ w.last \in Nat /\ w.lastCkpt \in Nat /\ w.start \in Nat /\ w.runs \in Nat
         /\ qm.labels \in SUBSET Refs /\ qm.dropped \in SUBSET Refs /\ qm.idx \in Maps
         /\ out.sent \in Seq(Nat) /\ out.dropped \in SUBSET Nat /\ out.unknown \in SUBSET Nat
         /\ \A g \in gc : g.ckpt \in Ckpts /\ g.ckpt.idx \in Nat /\ g.ckpt.refs \in SUBSET Refs /\ g.pc \in {"read", "reset"}
<1>1. \A g \in gc : g.ckpt \in Ckpts /\ g.pc \in {"read", "reset"}
  BY Zenon DEF WatcherType
<1>2. \A c \in Ckpts : c.idx \in Nat /\ c.refs \in SUBSET Refs
  BY Zenon DEF Ckpts
<1>3. /\ w.pc \in WatchPcs /\ w.seg \in Nat /\ w.pos \in Nat /\ w.tail \in BOOLEAN /\ w.leave \in BOOLEAN
      /\ w.last \in Nat /\ w.lastCkpt \in Nat /\ w.start \in Nat /\ w.runs \in Nat
  BY Zenon DEF WatcherType
<1>4. qm.labels \in SUBSET Refs /\ qm.dropped \in SUBSET Refs /\ qm.idx \in Maps
  BY Zenon DEF WatcherType
<1>5. out.sent \in Seq(Nat) /\ out.dropped \in SUBSET Nat /\ out.unknown \in SUBSET Nat
  BY Zenon DEF WatcherType
<1> QED
  BY <1>1, <1>2, <1>3, <1>4, <1>5, Zenon

\* Steps of the head that add no record.
LEMMA HeadQuiet ==
  ASSUME LogInv, LogInv', WatcherType, WatcherInv, UNCHANGED <<w, gc, qm, out>>,
         SamePlaces, log'.t = log.t, Len(log.seg) \in Nat, Len(log'.seg) \in Nat, Len(log'.seg) >= Len(log.seg),
         log'.live \subseteq log.live, Ever' = Ever, log.first <= log'.first,
         log.ckpt.idx <= log'.ckpt.idx, Starting => log'.ckpt = log.ckpt
  PROVE  WatcherInv'
<1>1. w' = w /\ gc' = gc /\ qm' = qm /\ out' = out
  OBVIOUS
<1>2. \A n, i : Place(n, i)' <=> Place(n, i)
  BY Zenon DEF SamePlaces
<1>3. \A n, i : Place(n, i)' => At(n, i)' = At(n, i)
  BY Zenon DEF SamePlaces
<1>4. \A r, k : SeriesBy(r, k)' <=> SeriesBy(r, k)
  BY <1>2, <1>3, Zenon DEF SeriesBy
<1>5. \A n, i : Ahead(n, i)' <=> Ahead(n, i)
  BY <1>1, Zenon DEF Ahead
<1>6. \A r : Known(r)' <=> Known(r)
  BY <1>1, Zenon DEF Known, Safe
<1>7. \A r : SeriesAhead(r)' <=> SeriesAhead(r)
  BY <1>2, <1>3, <1>5, Zenon DEF SeriesAhead
<1>8. \A r : Ready(r)' <=> Ready(r)
  BY <1>6, <1>7, Zenon DEF Ready
<1>9. (Following' <=> Following) /\ (Starting' <=> Starting)
  BY <1>1, Zenon DEF Following, Starting
<1>10. log.ckpt.idx \in Nat /\ log'.ckpt.idx \in Nat /\ log.first \in Nat /\ log'.first \in Nat /\ w.seg \in Nat /\ w.last \in Nat
       /\ \A g \in gc : g.ckpt.idx \in Nat
  <2>1. log.ckpt.idx \in Nat /\ log.first \in Nat
    BY LogFields, Zenon DEF LogInv
  <2>2. log'.ckpt.idx \in Nat /\ log'.first \in Nat
    <3>1. log'.ckpt \in Ckpts /\ log'.first \in Nat
      BY Zenon DEF LogInv, LogType
    <3> QED
      BY <3>1, Zenon DEF Ckpts
  <2> QED
    BY <2>1, <2>2, WatcherFields, Zenon
<1>11. GcInv'
  <2>1. \A g \in gc : g.ckpt.idx <= log'.ckpt.idx
    BY <1>10 DEF WatcherInv, GcInv
  <2>2. \A g \in gc : g.ckpt.refs \subseteq Ever' /\ \A r \in g.ckpt.refs : SeriesBy(r, g.ckpt.idx)'
    <3>1. \A g \in gc : g.ckpt.refs \subseteq Ever /\ \A r \in g.ckpt.refs : SeriesBy(r, g.ckpt.idx)
      BY Zenon DEF WatcherInv, GcInv
    <3> QED
      BY <1>1, <1>2, <1>3, <3>1, Zenon DEF SeriesBy
  <2>3. \A g, h \in gc : g = h
    BY Zenon DEF WatcherInv, GcInv
  <2> QED
    BY <1>1, <2>1, <2>2, <2>3, Zenon DEF GcInv
<1>12. PlaceInv'
  <2>1. w.last <= Len(log'.seg) /\ w.start <= log'.t
    BY <1>10 DEF WatcherInv, PlaceInv
  <2>2. \A n, i : Place(n, i)' /\ At(n, i)'.t > w.start => n >= w.last
    BY <1>2, <1>3, Zenon DEF WatcherInv, PlaceInv
  <2>3. (Starting => log'.ckpt.idx < w.last) /\ (w.pc = "find" => w.lastCkpt = log'.ckpt.idx)
    BY Zenon DEF WatcherInv, PlaceInv, Starting
  <2>4. ASSUME Following
        PROVE  /\ w.seg \in 1 .. Len(log'.seg) /\ w.pos >= 1 /\ (w.pos = 1 \/ Place(w.seg, w.pos - 1)')
               /\ w.tail => w.seg >= w.last
               /\ ~w.tail \/ w.leave => w.seg < Len(log'.seg)
               /\ \A g \in gc : g.ckpt.idx <= w.seg
    <3>1. /\ w.seg \in 1 .. Len(log.seg) /\ w.pos >= 1 /\ (w.pos = 1 \/ Place(w.seg, w.pos - 1))
          /\ w.tail => w.seg >= w.last
          /\ ~w.tail \/ w.leave => w.seg < Len(log.seg)
          /\ \A g \in gc : g.ckpt.idx <= w.seg
      BY <2>4, Zenon DEF WatcherInv, PlaceInv
    <3>2. Place(w.seg, w.pos - 1) => Place(w.seg, w.pos - 1)'
      <4>1. \A n, i : Place(n, i) => n \in 1 .. Len(log'.seg) /\ i \in 1 .. Len(log'.seg[n])
        BY <1>2, Zenon DEF Place
      <4> QED
        BY <1>1, <4>1, Zenon DEF Place
    <3>3. w.seg \in 1 .. Len(log'.seg) /\ (w.seg < Len(log.seg) => w.seg < Len(log'.seg))
      BY <3>1
    <3> QED
      BY <3>1, <3>2, <3>3, Zenon
  <2> QED
    BY <1>1, <2>1, <2>2, <2>3, <2>4, Zenon DEF PlaceInv, Following, Starting
<1>13. IdxInv'
  <2>1. \A r \in DOMAIN qm.idx : r \in Ever' /\ SeriesBy(r, qm.idx[r])
    BY Zenon DEF WatcherInv, IdxInv
  <2> QED
    BY <1>1, <1>2, <1>3, <2>1, Zenon DEF IdxInv, SeriesBy
<1>14. FoundInv'
  <2>1. ASSUME w.pc = "find", NEW r \in log'.ckpt.refs
        PROVE  Known(r)'
    <3>1. log'.ckpt = log.ckpt
      BY <2>1, Zenon DEF Starting
    <3> QED
      BY <1>6, <2>1, <3>1, Zenon DEF WatcherInv, FoundInv
  <2> QED
    BY <1>1, <2>1, Zenon DEF FoundInv
<1>15. ReadyInv'
  <2>1. \A n : n = w.seg \/ log'.first <= w.seg + 1 => n = w.seg \/ log.first <= w.seg + 1
    BY <1>10
  <2>2. ASSUME Following, NEW n, NEW i, NEW r, Place(n, i)', Ahead(n, i)', At(n, i)'.t > w.start, At(n, i)'.ref = r,
               n = w.seg \/ log'.first <= w.seg + 1
        PROVE  Ready(r)'
    <3>1. Place(n, i) /\ At(n, i)' = At(n, i) /\ Ahead(n, i)
      BY <1>2, <1>3, <1>5, <2>2, Zenon
    <3>2. At(n, i).t > w.start /\ At(n, i).ref = r
      BY <2>2, <3>1, Zenon
    <3>3. Ready(r)
      BY <2>1, <2>2, <3>1, <3>2, Zenon DEF WatcherInv, ReadyInv
    <3> QED
      BY <1>8, <3>3, Zenon
  <2>3. ASSUME Following, log'.first <= w.seg + 1, NEW r \in log'.live
        PROVE  Ready(r)'
    <3>1. log.first <= w.seg + 1
      BY <1>10, <2>3
    <3> QED
      BY <1>8, <2>3, <3>1, Zenon DEF WatcherInv, ReadyInv
  <2> QED
    BY <1>1, <2>2, <2>3, Zenon DEF ReadyInv, Following
<1>16. SentInv'
  <2>1. ASSUME Following, NEW k \in 1 .. Len(out.sent), NEW n, NEW i, Place(n, i)', Ahead(n, i)', At(n, i)'.t > w.start
        PROVE  out.sent[k] < At(n, i)'.t
    BY <1>2, <1>3, <1>5, <2>1, Zenon DEF WatcherInv, SentInv
  <2>2. SentOnceInOrder' /\ (\A k \in 1 .. Len(out.sent) : out.sent[k] <= log'.t)
        /\ (Starting => \A k \in 1 .. Len(out.sent) : out.sent[k] <= w.start)
    BY <1>1, Zenon DEF WatcherInv, SentInv, SentOnceInOrder
  <2> QED
    BY <1>1, <1>9, <2>1, <2>2, Zenon DEF SentInv
<1> QED
  BY <1>11, <1>12, <1>13, <1>14, <1>15, <1>16, Zenon DEF WatcherInv

\* The head logs a sample: a series that is alive is known or will be, and the
\* record of a new one comes first.
LEMMA LogSampleWatch ==
  ASSUME LogInv, WatcherType, WatcherInv, NEW r \in Refs, LogSample(r)
  PROVE  LogInv' /\ WatcherInv'
<1> DEFINE L == LastSeg
           k == LogEnd
<1>0. L = Len(log.seg)
  BY Zenon DEF LastSeg
<1>1. w' = w /\ gc' = gc /\ qm' = qm /\ out' = out
  BY Zenon DEF LogSample
<1>2. LogInv' /\ \A q \in Ever : \A c : SeriesBy(q, c) => SeriesBy(q, c)'
  BY LogSampleLog, Zenon
<1>3. /\ log'.first = log.first /\ log'.ckpt = log.ckpt /\ log'.gone = log.gone
      /\ log'.live = log.live \cup {r} /\ log'.t = log.t + 1
      /\ L \in Nat /\ k \in Nat /\ Len(log'.seg) = L
  BY SampleIsLogged, Zenon
<1>4. \A n, i : Place(n, i) => Place(n, i)' /\ At(n, i)' = At(n, i)
  BY SampleIsLogged, Zenon
<1>5. \A n, i : Place(n, i)' /\ ~Place(n, i) =>
        n = L /\ At(n, i)'.ref = r /\ (At(n, i)'.t = 0 \/ At(n, i)'.t = log.t + 1)
  <2>1. \A n, i : Place(n, i)' /\ ~Place(n, i) =>
          /\ n = L /\ i \in Nat /\ i > k /\ At(n, i)'.ref = r
          /\ \/ At(n, i)'.t = 0 /\ i = k + 1 /\ r \notin log.live
             \/ At(n, i)'.t = log.t + 1 /\ i = (IF r \in log.live THEN k + 1 ELSE k + 2)
    BY SampleIsLogged, Zenon
  <2> QED
    BY <2>1, Zenon
<1>6. r \notin log.live => \E n, i : n = L /\ i = k + 1 /\ Place(n, i)' /\ At(n, i)'.t = 0 /\ At(n, i)'.ref = r
  BY SampleIsLogged, Zenon
<1>7. \A i : Place(L, i) => i <= k
  BY SampleIsLogged, Zenon
<1>8. /\ log.ckpt.idx \in Nat /\ log.first \in Nat /\ log.t \in Nat /\ w.seg \in Nat /\ w.last \in Nat /\ w.start \in Nat
      /\ w.pos \in Nat /\ log.first <= log.ckpt.idx + 1 /\ log.ckpt.idx < L /\ w.last <= L /\ w.start <= log.t
  <2>1. log.ckpt.idx \in Nat /\ log.first \in Nat /\ log.t \in Nat
    BY LogFields, Zenon DEF LogInv
  <2> QED
    BY <1>0, <2>1, WatcherFields, Zenon DEF LogInv, SizeInv, WatcherInv, PlaceInv
<1>9. \A n, i : Ahead(n, i)' <=> Ahead(n, i)
  BY <1>1, Zenon DEF Ahead
<1>10. \A q : Known(q)' <=> Known(q)
  BY <1>1, Zenon DEF Known, Safe
<1>11. \A q : SeriesAhead(q) => SeriesAhead(q)'
  BY <1>4, <1>9, Zenon DEF SeriesAhead
<1>12. \A q : Ready(q) => Ready(q)'
  BY <1>10, <1>11, Zenon DEF Ready
<1>13. Ever \subseteq Ever'
  BY <1>3, Zenon DEF Ever
<1> HIDE DEF L, k
<1>14. GcInv'
  <2>1. \A g \in gc : /\ g.ckpt.idx <= log'.ckpt.idx /\ g.ckpt.refs \subseteq Ever'
                      /\ \A q \in g.ckpt.refs : SeriesBy(q, g.ckpt.idx)'
    <3>1. \A g \in gc : /\ g.ckpt.idx <= log.ckpt.idx /\ g.ckpt.refs \subseteq Ever
                        /\ \A q \in g.ckpt.refs : SeriesBy(q, g.ckpt.idx)
      BY Zenon DEF WatcherInv, GcInv
    <3> QED
      BY <1>2, <1>3, <1>13, <3>1, Zenon
  <2>2. \A g, h \in gc : g = h
    BY Zenon DEF WatcherInv, GcInv
  <2> QED
    BY <1>1, <2>1, <2>2, Zenon DEF GcInv, SeriesBy
<1>15. PlaceInv'
  <2>1. w.last <= Len(log'.seg) /\ w.start <= log'.t
    BY <1>3, <1>8
  <2>2. ASSUME NEW n, NEW i, Place(n, i)', At(n, i)'.t > w.start
        PROVE  n >= w.last
    <3>1. CASE Place(n, i)
      BY <1>4, <2>2, <3>1, Zenon DEF WatcherInv, PlaceInv
    <3>2. CASE ~Place(n, i)
      <4>1. n = L
        BY <1>5, <2>2, <3>2, Zenon
      <4> QED
        BY <1>3, <1>8, <4>1
    <3> QED
      BY <3>1, <3>2
  <2>3. (Starting => log'.ckpt.idx < w.last) /\ (w.pc = "find" => w.lastCkpt = log'.ckpt.idx)
    BY <1>3, Zenon DEF WatcherInv, PlaceInv, Starting
  <2>4. ASSUME Following
        PROVE  /\ w.seg \in 1 .. Len(log'.seg) /\ w.pos >= 1 /\ (w.pos = 1 \/ Place(w.seg, w.pos - 1)')
               /\ w.tail => w.seg >= w.last
               /\ ~w.tail \/ w.leave => w.seg < Len(log'.seg)
               /\ \A g \in gc : g.ckpt.idx <= w.seg
    <3>1. /\ w.seg \in 1 .. Len(log.seg) /\ w.pos >= 1 /\ (w.pos = 1 \/ Place(w.seg, w.pos - 1))
          /\ w.tail => w.seg >= w.last
          /\ ~w.tail \/ w.leave => w.seg < Len(log.seg)
          /\ \A g \in gc : g.ckpt.idx <= w.seg
      BY <2>4, Zenon DEF WatcherInv, PlaceInv
    <3>2. Place(w.seg, w.pos - 1) => Place(w.seg, w.pos - 1)'
      <4>1. \A n, i : Place(n, i) => n \in 1 .. Len(log'.seg) /\ i \in 1 .. Len(log'.seg[n])
        BY <1>4, Zenon DEF Place
      <4> QED
        BY <1>1, <4>1, Zenon DEF Place
    <3> QED
      BY <1>0, <1>3, <3>1, <3>2, Zenon
  <2> QED
    BY <1>1, <2>1, <2>2, <2>3, <2>4, Zenon DEF PlaceInv, Following, Starting
<1>16. IdxInv'
  <2>1. \A q \in DOMAIN qm.idx : q \in Ever' /\ SeriesBy(q, qm.idx[q])'
    <3>1. \A q \in DOMAIN qm.idx : q \in Ever /\ SeriesBy(q, qm.idx[q])
      BY Zenon DEF WatcherInv, IdxInv
    <3> QED
      BY <1>1, <1>2, <1>13, <3>1, Zenon DEF SeriesBy
  <2> QED
    BY <1>1, <2>1, Zenon DEF IdxInv, SeriesBy
<1>17. FoundInv'
  BY <1>1, <1>3, <1>10, Zenon DEF WatcherInv, FoundInv
\* The new sample and its series.
<1>18. ASSUME Following, log.first <= w.seg + 1
       PROVE  Ready(r)'
  <2>1. CASE r \in log.live
    BY <1>12, <1>18, <2>1, Zenon DEF WatcherInv, ReadyInv
  <2>2. CASE r \notin log.live
    <3>1. Ahead(L, k + 1)
      <4>1. w.seg \in 1 .. L /\ w.pos >= 1 /\ (w.pos = 1 \/ Place(w.seg, w.pos - 1))
        BY <1>0, <1>18, Zenon DEF WatcherInv, PlaceInv
      <4>2. w.seg = L => w.pos = 1 \/ w.pos - 1 <= k
        BY <1>7, <4>1, Zenon
      <4> QED
        BY <1>3, <1>8, <4>1, <4>2 DEF Ahead
    <3>2. \E n, i : Place(n, i)' /\ Ahead(n, i)' /\ At(n, i)'.t = 0 /\ At(n, i)'.ref = r
      BY <1>6, <1>9, <2>2, <3>1, Zenon
    <3> QED
      BY <3>2, Zenon DEF Ready, SeriesAhead
  <2> QED
    BY <2>1, <2>2
<1>19. ReadyInv'
  <2>1. ASSUME Following, NEW n, NEW i, NEW q, Place(n, i)', Ahead(n, i)', At(n, i)'.t > w.start, At(n, i)'.ref = q,
               n = w.seg \/ log'.first <= w.seg + 1
        PROVE  Ready(q)'
    <3>1. CASE Place(n, i)
      <4>1. At(n, i)' = At(n, i) /\ Ahead(n, i)
        BY <1>4, <1>9, <2>1, <3>1, Zenon
      <4>2. At(n, i).t > w.start /\ At(n, i).ref = q
        BY <2>1, <4>1, Zenon
      <4>3. Ready(q)
        BY <1>3, <2>1, <3>1, <4>1, <4>2, Zenon DEF WatcherInv, ReadyInv
      <4> QED
        BY <1>12, <4>3, Zenon
    <3>2. CASE ~Place(n, i)
      <4>1. n = L /\ q = r
        BY <1>5, <2>1, <3>2, Zenon
      <4>2. log.first <= w.seg + 1
        BY <1>3, <1>8, <2>1, <4>1
      <4> QED
        BY <1>18, <2>1, <4>1, <4>2, Zenon
    <3> QED
      BY <3>1, <3>2
  <2>2. ASSUME Following, log'.first <= w.seg + 1, NEW q \in log'.live
        PROVE  Ready(q)'
    <3>1. CASE q = r
      BY <1>3, <1>18, <2>2, <3>1, Zenon DEF Ready, Known, Safe, SeriesAhead
    <3>2. CASE q \in log.live
      BY <1>3, <1>12, <2>2, <3>2, Zenon DEF WatcherInv, ReadyInv
    <3> QED
      BY <1>3, <2>2, <3>1, <3>2, Zenon
  <2> QED
    BY <1>1, <2>1, <2>2, Zenon DEF ReadyInv, Following
<1>20. SentInv'
  <2>1. \A m \in 1 .. Len(out.sent) : out.sent[m] \in Nat /\ out.sent[m] <= log.t
    <3>1. out.sent \in Seq(Nat)
      BY WatcherFields, Zenon
    <3> QED
      BY <3>1 DEF WatcherInv, SentInv
  <2>2. \A m \in 1 .. Len(out.sent) : out.sent[m] <= log'.t /\ out.sent[m] < log.t + 1
    BY <1>3, <1>8, <2>1
  <2>3. ASSUME Following, NEW m \in 1 .. Len(out.sent), NEW n, NEW i, Place(n, i)', Ahead(n, i)', At(n, i)'.t > w.start
        PROVE  out.sent[m] < At(n, i)'.t
    <3>1. CASE Place(n, i)
      BY <1>4, <1>9, <2>3, <3>1, Zenon DEF WatcherInv, SentInv
    <3>2. CASE ~Place(n, i)
      <4>1. ~(0 > w.start)
        BY <1>8
      <4>2. At(n, i)'.t = log.t + 1
        BY <1>5, <2>3, <3>2, <4>1, Zenon
      <4> QED
        BY <2>2, <4>2
    <3> QED
      BY <3>1, <3>2
  <2>4. SentOnceInOrder' /\ (Starting => \A m \in 1 .. Len(out.sent) : out.sent[m] <= w.start)
    BY <1>1, Zenon DEF WatcherInv, SentInv, SentOnceInOrder
  <2> QED
    BY <1>1, <2>2, <2>3, <2>4, Zenon DEF SentInv, Following, Starting
<1> QED
  BY <1>2, <1>14, <1>15, <1>16, <1>17, <1>19, <1>20, Zenon DEF WatcherInv

-------------------------------------------------------------------------------
(* Steps of the watcher and of the collection *)

\* They leave the log alone.
LEMMA LogStill ==
  ASSUME LogInv, log' = log
  PROVE  /\ LogInv' /\ Ever' = Ever
         /\ \A n, i : (Place(n, i)' <=> Place(n, i)) /\ At(n, i)' = At(n, i)
         /\ \A r, k : SeriesBy(r, k)' <=> SeriesBy(r, k)
<1>1. Ever' = Ever /\ \A n, i : (Place(n, i)' <=> Place(n, i)) /\ At(n, i)' = At(n, i)
  BY Zenon DEF Ever, Place, At
<1>2. LogType' /\ SizeInv'
  BY <1>1, Zenon DEF LogInv, LogType, SizeInv
<1>3. SamePlaces
  BY <1>1, Zenon DEF SamePlaces
<1>4. OrderInv' /\ SeriesInv' /\ \A r, k : SeriesBy(r, k)' <=> SeriesBy(r, k)
  BY <1>3, RecordsStay, Zenon DEF LogInv
<1>5. GoneInv'
  BY <1>1, Zenon DEF LogInv, GoneInv
<1>6. CkptInv'
  <2>1. \A q : Recent(q)' => Recent(q)
    BY Zenon DEF Recent
  <2>2. \A q : Recent(q)' => \/ q \in log'.ckpt.refs
                             \/ \E n, i : Place(n, i)' /\ n > log'.ckpt.idx /\ At(n, i)'.t = 0 /\ At(n, i)'.ref = q
    BY <1>1, <2>1, Zenon DEF LogInv, CkptInv
  <2>3. \A q \in log'.ckpt.refs : \A n, i : Place(n, i)' /\ At(n, i)'.t = 0 /\ At(n, i)'.ref = q => n <= log'.ckpt.idx
    BY <1>1, Zenon DEF LogInv, CkptInv, SeriesBy
  <2> QED
    BY <2>2, <2>3, CkptIntro, Zenon
<1> QED
  BY <1>1, <1>2, <1>4, <1>5, <1>6, Zenon DEF LogInv

\* The series that must be ready.
Needed(r) ==
  \/ log.first <= w.seg + 1 /\ r \in log.live
  \/ \E n, i : /\ Place(n, i) /\ Ahead(n, i) /\ At(n, i).t > w.start /\ At(n, i).ref = r
               /\ n = w.seg \/ log.first <= w.seg + 1

\* Steps that read nothing.
LEMMA WatchStays ==
  ASSUME LogInv, WatcherInv, log' = log, out' = out,
         w'.seg = w.seg, w'.pos = w.pos, w'.tail = w.tail, w'.last = w.last, w'.start = w.start,
         Following' => Following, Starting' => Starting,
         w'.pc = "find" => w.pc = "find" /\ w'.lastCkpt = w.lastCkpt,
         Following' => (~w'.tail \/ w'.leave => w.seg < Len(log.seg)) /\ \A g \in gc' : g.ckpt.idx <= w.seg,
         GcInv', IdxInv', FoundInv',
         Following => \A r : Needed(r) /\ Ready(r) => Ready(r)'
  PROVE  WatcherInv'
<1>1. \A n, i : (Place(n, i)' <=> Place(n, i)) /\ At(n, i)' = At(n, i)
  BY LogStill, Zenon
<1>2. \A n, i : Ahead(n, i)' <=> Ahead(n, i)
  BY Zenon DEF Ahead
<1>3. PlaceInv'
  <2>1. w.last <= Len(log.seg) /\ w.start <= log.t /\ \A n, i : Place(n, i) /\ At(n, i).t > w.start => n >= w.last
    BY Zenon DEF WatcherInv, PlaceInv
  <2>2. \A n, i : Place(n, i)' /\ At(n, i)'.t > w'.start => n >= w'.last
    BY <1>1, <2>1, Zenon
  <2>3. (Starting' => log'.ckpt.idx < w'.last) /\ (w'.pc = "find" => w'.lastCkpt = log'.ckpt.idx)
    BY Zenon DEF WatcherInv, PlaceInv
  <2>4. ASSUME Following'
        PROVE  /\ w'.seg \in 1 .. Len(log'.seg) /\ w'.pos >= 1 /\ (w'.pos = 1 \/ Place(w.seg, w.pos - 1)')
               /\ w'.tail => w'.seg >= w'.last
    <3>1. /\ w.seg \in 1 .. Len(log.seg) /\ w.pos >= 1 /\ (w.pos = 1 \/ Place(w.seg, w.pos - 1))
          /\ w.tail => w.seg >= w.last
      BY <2>4, Zenon DEF WatcherInv, PlaceInv
    <3>2. Place(w.seg, w.pos - 1) => Place(w.seg, w.pos - 1)'
      BY Zenon DEF Place
    <3> QED
      BY <3>1, <3>2, Zenon
  <2> QED
    BY <2>1, <2>2, <2>3, <2>4, Zenon DEF PlaceInv
<1>4. ReadyInv'
  <2>1. ASSUME Following', NEW n, NEW i, NEW r, Place(n, i)', Ahead(n, i)', At(n, i)'.t > w'.start, At(n, i)'.ref = r,
               n = w'.seg \/ log'.first <= w'.seg + 1
        PROVE  Ready(r)'
    <3>1. Place(n, i) /\ Ahead(n, i) /\ At(n, i).t > w.start /\ At(n, i).ref = r /\ (n = w.seg \/ log.first <= w.seg + 1)
      BY <1>1, <1>2, <2>1, Zenon
    <3>2. Following /\ Ready(r)
      BY <2>1, <3>1, Zenon DEF WatcherInv, ReadyInv
    <3> QED
      BY <3>1, <3>2, Zenon DEF Needed
  <2>2. ASSUME Following', log'.first <= w'.seg + 1, NEW r \in log'.live
        PROVE  Ready(r)'
    <3>1. Following /\ log.first <= w.seg + 1 /\ r \in log.live
      BY <2>2, Zenon
    <3>2. Ready(r)
      BY <3>1, Zenon DEF WatcherInv, ReadyInv
    <3> QED
      BY <3>1, <3>2, Zenon DEF Needed
  <2> QED
    BY <2>1, <2>2, Zenon DEF ReadyInv
<1>5. SentInv'
  <2>1. ASSUME Following', NEW k \in 1 .. Len(out.sent), NEW n, NEW i, Place(n, i)', Ahead(n, i)', At(n, i)'.t > w'.start
        PROVE  out.sent[k] < At(n, i)'.t
    BY <1>1, <1>2, <2>1, Zenon DEF WatcherInv, SentInv
  <2>2. /\ SentOnceInOrder' /\ \A k \in 1 .. Len(out.sent) : out.sent[k] <= log'.t
        /\ Starting' => \A k \in 1 .. Len(out.sent) : out.sent[k] <= w'.start
    BY Zenon DEF WatcherInv, SentInv, SentOnceInOrder
  <2> QED
    BY <2>1, <2>2, Zenon DEF SentInv
<1> QED
  BY <1>3, <1>4, <1>5, Zenon DEF WatcherInv

\* The invariants that do not depend on where the watcher is.
LEMMA SeriesStay ==
  ASSUME LogInv, WatcherInv, log' = log, gc' = gc, qm' = qm
  PROVE  GcInv' /\ IdxInv' /\ \A r : Known(r)' <=> Known(r)
<1>1. Ever' = Ever /\ \A r, k : SeriesBy(r, k)' <=> SeriesBy(r, k)
  BY LogStill, Zenon
<1>2. GcInv'
  BY <1>1, Zenon DEF WatcherInv, GcInv
<1>3. IdxInv'
  <2>1. \A r \in DOMAIN qm.idx : r \in Ever /\ SeriesBy(r, qm.idx[r])
    BY Zenon DEF WatcherInv, IdxInv
  <2>2. \A n, i : (Place(n, i)' <=> Place(n, i)) /\ At(n, i)' = At(n, i)
    BY LogStill, Zenon
  <2> QED
    BY <1>1, <2>1, <2>2, Zenon DEF IdxInv, SeriesBy
<1> QED
  BY <1>2, <1>3, Zenon DEF Known, Safe

\* A segment that is not there: Run will start again.
LEMMA WatchDown ==
  ASSUME LogInv, WatcherInv, log' = log, gc' = gc, qm' = qm, out' = out,
         w'.pc = "down", w'.last = w.last, w'.start = w.start
  PROVE  WatcherInv'
<1>1. GcInv' /\ IdxInv'
  BY SeriesStay, Zenon
<1>2. ~Following' /\ ~Starting' /\ w'.pc # "find"
  BY Zenon DEF Following, Starting
<1>3. \A n, i : (Place(n, i)' <=> Place(n, i)) /\ At(n, i)' = At(n, i)
  BY LogStill, Zenon
<1>4. \A n, i : Place(n, i)' /\ At(n, i)'.t > w'.start => n >= w'.last
  BY <1>3, Zenon DEF WatcherInv, PlaceInv
<1>5. PlaceInv'
  BY <1>2, <1>4, Zenon DEF WatcherInv, PlaceInv
<1>6. SentInv'
  BY <1>2, Zenon DEF WatcherInv, SentInv, SentOnceInOrder
<1> QED
  BY <1>1, <1>2, <1>5, <1>6, Zenon DEF WatcherInv, FoundInv, ReadyInv

\* Run begins: it remembers the last segment and the time.
LEMMA RunStartsKeeps ==
  ASSUME WatchInv, RunStarts
  PROVE  WatchInv'
<1>1. /\ w' = [w EXCEPT !.pc = "checkpoint", !.last = LastSeg, !.start = log.t, !.runs = @ + 1]
      /\ log' = log /\ gc' = gc /\ qm' = qm /\ out' = out
  BY Zenon DEF RunStarts
<1>2. LastSeg = Len(log.seg) /\ LastSeg \in Nat /\ log.t \in Nat /\ w.runs + 1 \in Nat /\ log.ckpt.idx < LastSeg
  <2>1. log.seg \in Seq(Seq(Records)) /\ log.t \in Nat /\ w.runs \in Nat /\ log.ckpt.idx < Len(log.seg)
    BY LogFields, WatcherFields, Zenon DEF WatchInv, LogInv, SizeInv
  <2> QED
    BY <2>1 DEF LastSeg
<1>3. w'.pc = "checkpoint" /\ w'.last = LastSeg /\ w'.start = log.t /\ WatcherType'
  <2>1. "checkpoint" \in WatchPcs
    BY Zenon DEF WatchPcs
  <2> QED
    BY <1>1, <1>2, <2>1, Zenon DEF WatchInv, WatcherType
<1>4. LogInv' /\ \A n, i : (Place(n, i)' <=> Place(n, i)) /\ At(n, i)' = At(n, i)
  BY <1>1, LogStill, Zenon DEF WatchInv
<1>5. GcInv' /\ IdxInv'
  BY <1>1, SeriesStay, Zenon DEF WatchInv
<1>6. ~Following' /\ w'.pc # "find"
  BY <1>3, Zenon DEF Following
<1>7. PlaceInv'
  <2>1. ASSUME NEW n, NEW i, Place(n, i)', At(n, i)'.t > w'.start
        PROVE  n >= w'.last
    <3>1. At(n, i).t <= log.t /\ At(n, i).t > log.t /\ At(n, i).t \in Nat
      BY <1>3, <1>4, <2>1, PlaceFacts, Zenon DEF WatchInv, LogInv, OrderInv
    <3> QED
      BY <1>2, <3>1
  <2>2. LastSeg <= LastSeg /\ log.t <= log.t
    BY <1>2
  <2> QED
    BY <1>1, <1>2, <1>3, <1>6, <2>1, <2>2, Zenon DEF PlaceInv
<1>8. SentInv'
  BY <1>1, <1>3, <1>6, Zenon DEF WatchInv, WatcherInv, SentInv, SentOnceInOrder
<1> QED
  BY <1>1, <1>3, <1>4, <1>5, <1>6, <1>7, <1>8, Zenon DEF WatchInv, WatcherInv, FoundInv, ReadyInv, SeriesStayKnown

\* StoreSeries.
LEMMA StoreFacts ==
  ASSUME WatcherType, NEW R \in SUBSET Refs, NEW n \in Nat
  PROVE  /\ StoreSeries(R, n) \in [labels : SUBSET Refs, dropped : SUBSET Refs, idx : Maps]
         /\ StoreSeries(R, n).labels \cup StoreSeries(R, n).dropped = (qm.labels \cup qm.dropped) \cup R
         /\ DOMAIN StoreSeries(R, n).idx = R \cup DOMAIN qm.idx
         /\ \A r \in R : StoreSeries(R, n).idx[r] = n
         /\ \A r \in DOMAIN qm.idx \ R : StoreSeries(R, n).idx[r] = qm.idx[r]
<1>1. qm.labels \in SUBSET Refs /\ qm.dropped \in SUBSET Refs /\ qm.idx \in Maps
  BY WatcherFields, Zenon
<1> DEFINE p == Put(qm.idx, R, n)
           a == qm.labels \cup (R \ RelabelDropped)
           b == qm.dropped \cup (R \cap RelabelDropped)
<1>2. /\ p \in Maps /\ DOMAIN p = R \cup DOMAIN qm.idx /\ \A r \in R : p[r] = n
      /\ \A r \in DOMAIN qm.idx \ R : p[r] = qm.idx[r]
  <2>1. p \in Maps
    BY <1>1, PutFacts, Zenon
  <2> QED
    BY <2>1 DEF Put
<1>3. a \in SUBSET Refs /\ b \in SUBSET Refs /\ a \cup b = (qm.labels \cup qm.dropped) \cup R
  BY <1>1
<1>4. StoreSeries(R, n) = [labels |-> a, dropped |-> b, idx |-> p]
  BY Zenon DEF StoreSeries
<1> HIDE DEF p, a, b
<1> DEFINE q == [labels |-> a, dropped |-> b, idx |-> p]
<1>5. q.labels = a /\ q.dropped = b /\ q.idx = p /\ q \in [labels : SUBSET Refs, dropped : SUBSET Refs, idx : Maps]
  BY <1>2, <1>3
<1>6. StoreSeries(R, n) = q
  BY <1>4, Zenon
<1> HIDE DEF q
<1> QED
  BY <1>2, <1>3, <1>5, <1>6, Zenon

\* Run reads the checkpoint and stores its series.
LEMMA ReadCheckpointKeeps ==
  ASSUME WatchInv, ReadCheckpoint
  PROVE  WatchInv'
<1>1. /\ w.pc = "checkpoint" /\ w' = [w EXCEPT !.pc = "find", !.lastCkpt = log.ckpt.idx]
      /\ log' = log /\ gc' = gc /\ out' = out
      /\ qm' = IF log.ckpt = None THEN qm ELSE StoreSeries(log.ckpt.refs, log.ckpt.idx)
  BY Zenon DEF ReadCheckpoint
<1>2. LogInv /\ WatcherType /\ WatcherInv /\ log.ckpt.idx \in Nat /\ log.ckpt.refs \in SUBSET Refs
  BY LogFields, Zenon DEF WatchInv, LogInv
<1>3. w'.pc = "find" /\ w'.lastCkpt = log.ckpt.idx /\ w'.last = w.last /\ w'.start = w.start
      /\ w' \in [pc : WatchPcs, seg : Nat, pos : Nat, tail : BOOLEAN, leave : BOOLEAN,
                 last : Nat, lastCkpt : Nat, start : Nat, runs : Nat]
  <2>1. "find" \in WatchPcs
    BY Zenon DEF WatchPcs
  <2> QED
    BY <1>1, <1>2, <2>1, Zenon DEF WatcherType
<1>4. /\ LogInv' /\ Ever' = Ever /\ \A r, k : SeriesBy(r, k)' <=> SeriesBy(r, k)
      /\ \A n, i : (Place(n, i)' <=> Place(n, i)) /\ At(n, i)' = At(n, i)
  BY <1>1, <1>2, LogStill, Zenon
<1>5. GcInv'
  BY <1>1, <1>2, <1>4, Zenon DEF WatcherInv, GcInv
<1>6. PlaceInv'
  <2>1. \A n, i : Place(n, i)' /\ At(n, i)'.t > w'.start => n >= w'.last
    BY <1>2, <1>3, <1>4, Zenon DEF WatcherInv, PlaceInv
  <2>2. log.ckpt.idx < w.last
    BY <1>1, <1>2, Zenon DEF WatcherInv, PlaceInv, Starting
  <2>3. ~Following'
    BY <1>3, Zenon DEF Following
  <2> QED
    BY <1>1, <1>2, <1>3, <2>1, <2>2, <2>3, Zenon DEF WatcherInv, PlaceInv
<1>7. SentInv'
  <2>1. ~Following' /\ Starting
    BY <1>1, <1>3, Zenon DEF Following, Starting
  <2> QED
    BY <1>1, <1>2, <1>3, <2>1, Zenon DEF WatcherInv, SentInv, SentOnceInOrder
<1>8. /\ qm' \in [labels : SUBSET Refs, dropped : SUBSET Refs, idx : Maps]
      /\ \A r \in log.ckpt.refs : r \in qm'.labels \cup qm'.dropped /\ r \in DOMAIN qm'.idx /\ qm'.idx[r] = log.ckpt.idx
      /\ \A r \in DOMAIN qm'.idx : r \notin log.ckpt.refs => r \in DOMAIN qm.idx /\ qm'.idx[r] = qm.idx[r]
  <2>1. CASE log.ckpt = None
    <3>1. log.ckpt.refs = {}
      BY <2>1 DEF None
    <3> QED
      BY <1>1, <1>2, <2>1, <3>1, Zenon DEF WatcherType
  <2>2. CASE log.ckpt # None
    <3>1. qm' = StoreSeries(log.ckpt.refs, log.ckpt.idx)
      BY <1>1, <2>2, Zenon
    <3> QED
      <4> DEFINE R == log.ckpt.refs
                 c == log.ckpt.idx
      <4>1. R \in SUBSET Refs /\ c \in Nat /\ qm' = StoreSeries(R, c)
        BY <1>2, <3>1, Zenon
      <4> HIDE DEF R, c
      <4>2. /\ qm' \in [labels : SUBSET Refs, dropped : SUBSET Refs, idx : Maps]
            /\ qm'.labels \cup qm'.dropped = (qm.labels \cup qm.dropped) \cup R
            /\ DOMAIN qm'.idx = R \cup DOMAIN qm.idx
            /\ \A r \in R : qm'.idx[r] = c
            /\ \A r \in DOMAIN qm.idx \ R : qm'.idx[r] = qm.idx[r]
        <5>1. WatcherType /\ R \in SUBSET Refs /\ c \in Nat
          BY <1>2, <4>1
        <5>2. /\ StoreSeries(R, c) \in [labels : SUBSET Refs, dropped : SUBSET Refs, idx : Maps]
              /\ StoreSeries(R, c).labels \cup StoreSeries(R, c).dropped = (qm.labels \cup qm.dropped) \cup R
              /\ DOMAIN StoreSeries(R, c).idx = R \cup DOMAIN qm.idx
              /\ \A r \in R : StoreSeries(R, c).idx[r] = c
              /\ \A r \in DOMAIN qm.idx \ R : StoreSeries(R, c).idx[r] = qm.idx[r]
          BY ONLY <5>1, StoreFacts, ZenonT(40)
        <5> QED
          BY <4>1, <5>2, Zenon
      <4>3. /\ \A r \in R : r \in qm'.labels \cup qm'.dropped /\ r \in DOMAIN qm'.idx /\ qm'.idx[r] = c
            /\ \A r \in DOMAIN qm'.idx : r \notin R => r \in DOMAIN qm.idx /\ qm'.idx[r] = qm.idx[r]
        BY <4>2, Zenon
      <4> QED
        BY <4>2, <4>3, Zenon DEF R, c
  <2> QED
    BY <2>1, <2>2
<1>9. IdxInv'
  <2>1. ASSUME NEW r \in DOMAIN qm'.idx
        PROVE  r \in Ever /\ \A n, i : Place(n, i) /\ At(n, i).t = 0 /\ At(n, i).ref = r => n <= qm'.idx[r]
    <3>1. CASE r \in log.ckpt.refs
      <4>1. r \in Ever /\ SeriesBy(r, log.ckpt.idx)
        BY <1>2, <3>1, Zenon DEF LogInv, SizeInv, CkptInv
      <4> QED
        BY <1>8, <3>1, <4>1, Zenon DEF SeriesBy
    <3>2. CASE r \notin log.ckpt.refs
      <4>1. r \in DOMAIN qm.idx /\ qm'.idx[r] = qm.idx[r]
        BY <1>8, <3>2, Zenon
      <4> QED
        BY <1>2, <4>1, Zenon DEF WatcherInv, IdxInv, SeriesBy
    <3> QED
      BY <3>1, <3>2
  <2> QED
    BY <1>4, <2>1, Zenon DEF IdxInv, SeriesBy
<1>10. FoundInv'
  <2>1. ASSUME NEW r \in log.ckpt.refs
        PROVE  Known(r)'
    <3>1. \A g \in gc : log.ckpt.idx >= g.ckpt.idx
      <4>1. \A g \in gc : g.ckpt.idx <= log.ckpt.idx /\ g.ckpt.idx \in Nat
        BY <1>2, WatcherFields, Zenon DEF WatcherInv, GcInv
      <4> QED
        BY <1>2, <4>1
    <3> QED
      BY <1>1, <1>8, <3>1, Zenon DEF Known, Safe
  <2> QED
    BY <1>1, <2>1, Zenon DEF FoundInv
<1>11. ReadyInv'
  BY <1>3, Zenon DEF ReadyInv, Following
<1>12. WatcherType'
  BY <1>1, <1>2, <1>3, <1>8, Zenon DEF WatcherType
<1> QED
  BY <1>1, <1>4, <1>5, <1>6, <1>7, <1>9, <1>10, <1>11, <1>12, Zenon DEF WatchInv, WatcherInv, SeriesStayKnown

\* findSegmentForIndex: the first segment that is there, not before the checkpoint.
LEMMA FirstSegment ==
  ASSUME LogInv, w.lastCkpt = log.ckpt.idx
  PROVE  LET s == {n \in SegsOnDisk : n >= w.lastCkpt}
         IN s # {} /\ Min(s) \in s /\ \A n \in s : Min(s) <= n
<1> DEFINE s == {n \in SegsOnDisk : n >= w.lastCkpt}
           m == IF log.first <= log.ckpt.idx THEN log.ckpt.idx ELSE log.first
<1>1. log.first \in Nat /\ log.ckpt.idx \in Nat /\ Len(log.seg) \in Nat /\ log.first <= log.ckpt.idx + 1 /\ log.ckpt.idx < Len(log.seg)
  <2>1. log.seg \in Seq(Seq(Records)) /\ log.first \in Nat /\ log.ckpt.idx \in Nat
    BY LogFields, Zenon DEF LogInv
  <2> QED
    BY <2>1 DEF LogInv, SizeInv
<1>2. m \in s /\ \A n \in s : m <= n
  BY <1>1 DEF SegsOnDisk, LastSeg
<1> HIDE DEF s, m
<1>3. Min(s) = CHOOSE x \in s : \A y \in s : x <= y
  BY Zenon DEF Min
<1>4. Min(s) \in s /\ \A n \in s : Min(s) <= n
  BY <1>2, <1>3, Zenon
<1> QED
  BY <1>2, <1>4, Zenon DEF s

\* Run opens the first segment behind the checkpoint.
LEMMA FindSegmentKeeps ==
  ASSUME WatchInv, FindSegment
  PROVE  WatchInv'
<1> DEFINE s == {n \in SegsOnDisk : n >= w.lastCkpt}
           b == Min(s)
<1>1. w.pc = "find" /\ log' = log /\ gc' = gc /\ qm' = qm /\ out' = out /\ (s # {} => OpenSegment(b))
  BY Zenon DEF FindSegment
<1>2. LogInv /\ WatcherType /\ WatcherInv /\ w.lastCkpt = log.ckpt.idx /\ log.ckpt.idx < w.last /\ w.last <= Len(log.seg)
  BY <1>1, Zenon DEF WatchInv, WatcherInv, PlaceInv, Starting
<1>3. s # {} /\ b \in s /\ \A n \in s : b <= n
  BY <1>2, FirstSegment, Zenon
<1>4. log.first \in Nat /\ log.ckpt.idx \in Nat /\ w.last \in Nat /\ Len(log.seg) \in Nat /\ w.start \in Nat
  <2>1. log.first \in Nat /\ log.ckpt.idx \in Nat /\ w.last \in Nat /\ log.seg \in Seq(Seq(Records)) /\ w.start \in Nat
    BY <1>2, LogFields, WatcherFields, Zenon DEF LogInv
  <2> QED
    BY <2>1
<1>5. b \in SegsOnDisk /\ b \in 1 .. Len(log.seg) /\ b \in Nat /\ log.ckpt.idx <= b
  <2>1. b \in SegsOnDisk /\ b >= w.lastCkpt /\ 1 <= log.first
    BY <1>2, <1>3, Zenon DEF LogInv, SizeInv
  <2> HIDE DEF s, b
  <2> QED
    BY <1>2, <1>4, <2>1 DEF SegsOnDisk, LastSeg
<1>6. ASSUME NEW m \in 1 .. Len(log.seg), m > log.ckpt.idx
      PROVE  b <= m
  <2>1. m \in s
    BY <1>2, <1>4, <1>6 DEF SegsOnDisk, LastSeg, LogInv, SizeInv
  <2> QED
    BY <1>3, <2>1, Zenon
<1>7. w' = [w EXCEPT !.pc = "select", !.seg = b, !.pos = 1, !.tail = b >= w.last, !.leave = FALSE]
  BY <1>1, <1>3, <1>5, Zenon DEF OpenSegment
<1> HIDE DEF s, b
<1>8. /\ w'.pc = "select" /\ w'.seg = b /\ w'.pos = 1 /\ w'.tail = (b >= w.last) /\ w'.leave = FALSE
      /\ w'.last = w.last /\ w'.start = w.start /\ WatcherType'
  <2>1. "select" \in WatchPcs /\ 1 \in Nat /\ (b >= w.last) \in BOOLEAN /\ FALSE \in BOOLEAN
    BY DEF WatchPcs
  <2>2. /\ w'.pc = "select" /\ w'.seg = b /\ w'.pos = 1 /\ w'.tail = (b >= w.last) /\ w'.leave = FALSE
        /\ w'.last = w.last /\ w'.start = w.start
        /\ w' \in [pc : WatchPcs, seg : Nat, pos : Nat, tail : BOOLEAN, leave : BOOLEAN,
                   last : Nat, lastCkpt : Nat, start : Nat, runs : Nat]
    BY <1>2, <1>5, <1>7, <2>1, Zenon DEF WatcherType
  <2> QED
    BY <1>1, <1>2, <2>2, Zenon DEF WatcherType
<1>9. LogInv' /\ \A n, i : (Place(n, i)' <=> Place(n, i)) /\ At(n, i)' = At(n, i)
  BY <1>1, <1>2, LogStill, Zenon
<1>10. GcInv' /\ IdxInv' /\ \A r : Known(r)' <=> Known(r)
  BY <1>1, <1>2, SeriesStay, Zenon
<1>11. ASSUME NEW n, NEW i, Place(n, i), n > log.ckpt.idx
       PROVE  Ahead(n, i)'
  <2>1. b <= n
    BY <1>6, <1>11, Zenon DEF Place
  <2>2. n \in Nat /\ i \in Nat /\ i >= 1
    BY <1>4, <1>11, <1>2 DEF Place
  <2>3. n > b \/ (n = b /\ i >= 1)
    BY <1>5, <2>1, <2>2
  <2> QED
    BY <1>8, <2>3, Zenon DEF Ahead
<1>12. ASSUME NEW r, Recent(r)
       PROVE  Ready(r)'
  <2>1. CASE r \in log.ckpt.refs
    BY <1>1, <1>2, <1>10, <2>1, Zenon DEF WatcherInv, FoundInv, Ready
  <2>2. CASE \E n, i : Place(n, i) /\ n > log.ckpt.idx /\ At(n, i).t = 0 /\ At(n, i).ref = r
    <3>1. PICK n, i : Place(n, i) /\ n > log.ckpt.idx /\ At(n, i).t = 0 /\ At(n, i).ref = r
      BY <2>2, Zenon
    <3>2. Place(n, i)' /\ Ahead(n, i)' /\ At(n, i)'.t = 0 /\ At(n, i)'.ref = r
      BY <1>9, <1>11, <3>1, Zenon
    <3> QED
      BY <3>2, Zenon DEF Ready, SeriesAhead
  <2> QED
    BY <1>2, <1>12, <2>1, <2>2, Zenon DEF LogInv, CkptInv
<1>13. ReadyInv'
  <2>1. ASSUME NEW n, NEW i, NEW r, Place(n, i)', At(n, i)'.t > w'.start, At(n, i)'.ref = r
        PROVE  Ready(r)'
    <3>1. Place(n, i) /\ At(n, i).t > w.start /\ At(n, i).ref = r
      BY <1>8, <1>9, <2>1, Zenon
    <3>2. n >= w.last /\ n \in Nat
      BY <1>2, <3>1, PlaceFacts, Zenon DEF WatcherInv, PlaceInv, LogInv
    <3>3. r \in log.live \/ (r \in DOMAIN log.gone /\ log.gone[r] >= n)
      BY <1>2, <3>1, Zenon DEF LogInv, GoneInv
    <3>4. r \in DOMAIN log.gone => log.gone[r] \in Nat
      BY <1>2, LogFields, MapFacts, Zenon DEF LogInv
    <3>5. Recent(r)
      BY <1>2, <1>4, <3>2, <3>3, <3>4 DEF Recent
    <3> QED
      BY <1>12, <3>5, Zenon
  <2>2. \A r \in log'.live : Ready(r)'
    BY <1>1, <1>12, Zenon DEF Recent
  <2> QED
    BY <2>1, <2>2, Zenon DEF ReadyInv
<1>14. PlaceInv'
  <2>1. \A n, i : Place(n, i)' /\ At(n, i)'.t > w'.start => n >= w'.last
    BY <1>2, <1>8, <1>9, Zenon DEF WatcherInv, PlaceInv
  <2>2. ~Starting' /\ w'.pc # "find"
    BY <1>8, Zenon DEF Starting
  <2>3. \A g \in gc : g.ckpt.idx <= b
    <3>1. \A g \in gc : g.ckpt.idx <= log.ckpt.idx /\ g.ckpt.idx \in Nat
      BY <1>2, WatcherFields, Zenon DEF WatcherInv, GcInv
    <3> QED
      BY <1>4, <1>5, <3>1
  <2>4. ~(b >= w.last) => b < Len(log.seg)
    BY <1>2, <1>4, <1>5
  <2>5. 1 >= 1
    OBVIOUS
  <2> QED
    BY <1>1, <1>2, <1>5, <1>8, <2>1, <2>2, <2>3, <2>4, <2>5, Zenon DEF WatcherInv, PlaceInv
<1>15. SentInv'
  <2>1. Starting /\ ~Starting'
    BY <1>1, <1>8, Zenon DEF Starting
  <2>2. ASSUME NEW k \in 1 .. Len(out.sent), NEW n, NEW i, Place(n, i)', At(n, i)'.t > w'.start
        PROVE  out.sent[k] < At(n, i)'.t
    <3>1. At(n, i).t > w.start /\ At(n, i)' = At(n, i) /\ At(n, i).t \in Nat
      BY <1>2, <1>8, <1>9, <2>2, PlaceFacts, Zenon DEF LogInv
    <3>2. out.sent[k] <= w.start
      BY <1>2, <2>1, <2>2, Zenon DEF WatcherInv, SentInv
    <3>3. out.sent[k] \in Nat
      <4>1. out.sent \in Seq(Nat)
        BY <1>2, WatcherFields, Zenon
      <4> QED
        BY <2>2, <4>1
    <3> QED
      BY <1>4, <3>1, <3>2, <3>3
  <2>3. SentOnceInOrder' /\ \A k \in 1 .. Len(out.sent) : out.sent[k] <= log'.t
    BY <1>1, <1>2, Zenon DEF WatcherInv, SentInv, SentOnceInOrder
  <2> QED
    BY <1>1, <2>1, <2>2, <2>3, Zenon DEF SentInv
<1>16. FoundInv'
  BY <1>8, Zenon DEF FoundInv
<1> QED
  BY <1>1, <1>8, <1>9, <1>10, <1>13, <1>14, <1>15, <1>16, Zenon DEF WatchInv, WatcherInv, SeriesStayKnown

\* Steps of the watcher that neither move it nor touch the series.
LEMMA SelectKeeps ==
  ASSUME WatchInv, log' = log, gc' = gc, qm' = qm, out' = out, WatcherType', Following, Following',
         w'.seg = w.seg, w'.pos = w.pos, w'.tail = w.tail, w'.last = w.last, w'.start = w.start,
         ~w'.tail \/ w'.leave => w.seg < Len(log.seg)
  PROVE  WatchInv'
<1>1. LogInv /\ WatcherInv
  BY Zenon DEF WatchInv
<1>2. LogInv' /\ GcInv' /\ IdxInv' /\ \A r : Known(r)' <=> Known(r)
  BY <1>1, LogStill, SeriesStay, Zenon
<1>3. ~Starting' /\ w'.pc # "find"
  BY Zenon DEF Starting, Following
<1>4. FoundInv'
  BY <1>3, Zenon DEF FoundInv
<1>5. \A r : SeriesAhead(r) => SeriesAhead(r)'
  <2>1. \A n, i : (Place(n, i)' <=> Place(n, i)) /\ At(n, i)' = At(n, i)
    BY <1>1, LogStill, Zenon
  <2> QED
    BY <2>1, Zenon DEF SeriesAhead, Ahead
<1>6. \A r : Ready(r) => Ready(r)'
  BY <1>2, <1>5, Zenon DEF Ready
<1>7. \A g \in gc' : g.ckpt.idx <= w.seg
  BY <1>1, Zenon DEF WatcherInv, PlaceInv
<1>8. WatcherInv'
  BY <1>1, <1>2, <1>3, <1>4, <1>6, <1>7, WatchStays, Zenon
<1> QED
  BY <1>2, <1>8, Zenon DEF WatchInv, SeriesStayKnown

\* watch begins to read, on a notification or a tick.
LEMMA ReadStartsKeeps ==
  ASSUME WatchInv, ReadStarts \/ SegmentTick
  PROVE  WatchInv'
<1>1. w.pc = "select" /\ log' = log /\ gc' = gc /\ qm' = qm /\ out' = out
  BY Zenon DEF ReadStarts, SegmentTick
<1>2. WatcherType /\ "read" \in WatchPcs
  BY Zenon DEF WatchInv, WatchPcs
<1>3. Following
  BY <1>1, Zenon DEF Following
<1>4. CASE ReadStarts
  <2>1. w' = [w EXCEPT !.pc = "read"]
    BY <1>4, Zenon DEF ReadStarts
  <2>2. /\ w'.pc = "read" /\ w'.seg = w.seg /\ w'.pos = w.pos /\ w'.tail = w.tail /\ w'.leave = w.leave
        /\ w'.last = w.last /\ w'.start = w.start /\ WatcherType'
    BY <1>1, <1>2, <2>1, Zenon DEF WatcherType
  <2>3. ~w'.tail \/ w'.leave => w.seg < Len(log.seg)
    BY <1>3, <2>2, Zenon DEF WatchInv, WatcherInv, PlaceInv
  <2>4. Following'
    BY <2>2, Zenon DEF Following
  <2> QED
    BY <1>1, <1>3, <2>2, <2>3, <2>4, SelectKeeps, Zenon
<1>5. CASE SegmentTick
  <2>1. w' = [w EXCEPT !.pc = "read", !.leave = TRUE] /\ LastSeg > w.seg
    BY <1>5, Zenon DEF SegmentTick
  <2>2. /\ w'.pc = "read" /\ w'.seg = w.seg /\ w'.pos = w.pos /\ w'.tail = w.tail
        /\ w'.last = w.last /\ w'.start = w.start /\ WatcherType'
    BY <1>1, <1>2, <2>1, Zenon DEF WatcherType
  <2>3. w.seg < Len(log.seg)
    <3>1. w.seg \in Nat /\ log.seg \in Seq(Seq(Records))
      BY <1>2, WatcherFields, LogFields, Zenon DEF WatchInv, LogInv
    <3> QED
      BY <2>1, <3>1 DEF LastSeg
  <2>4. Following'
    BY <2>2, Zenon DEF Following
  <2> QED
    BY <1>1, <1>3, <2>2, <2>3, <2>4, SelectKeeps, Zenon
<1> QED
  BY <1>4, <1>5

\* At the end of a segment the watcher waits, or goes to the next one.
LEMMA ReadEndsKeeps ==
  ASSUME WatchInv, ReadEnds
  PROVE  WatchInv'
<1> DEFINE b == w.seg + 1
<1>1. /\ w.pc = "read" /\ w.pos > Len(log.seg[w.seg]) /\ log' = log /\ gc' = gc /\ qm' = qm /\ out' = out
      /\ IF w.tail /\ ~w.leave THEN w' = [w EXCEPT !.pc = "select"] ELSE OpenSegment(b)
  BY Zenon DEF ReadEnds
<1>2. WatcherType /\ WatcherInv /\ LogInv /\ "select" \in WatchPcs /\ "down" \in WatchPcs /\ Following
  BY <1>1, Zenon DEF WatchInv, WatchPcs, Following
<1>3. CASE w.tail /\ ~w.leave
  <2>1. w' = [w EXCEPT !.pc = "select"]
    BY <1>1, <1>3, Zenon
  <2>2. /\ w'.pc = "select" /\ w'.seg = w.seg /\ w'.pos = w.pos /\ w'.tail = w.tail /\ w'.leave = w.leave
        /\ w'.last = w.last /\ w'.start = w.start /\ WatcherType'
    BY <1>1, <1>2, <2>1, Zenon DEF WatcherType
  <2>3. ~w'.tail \/ w'.leave => w.seg < Len(log.seg)
    BY <1>3, <2>2, Zenon
  <2>4. Following'
    BY <2>2, Zenon DEF Following
  <2> QED
    BY <1>1, <1>2, <2>2, <2>3, <2>4, SelectKeeps, Zenon
<1>4. CASE ~(w.tail /\ ~w.leave) /\ b \notin SegsOnDisk
  <2>1. w' = [w EXCEPT !.pc = "down"]
    BY <1>1, <1>4, Zenon DEF OpenSegment
  <2>2. w'.pc = "down" /\ w'.last = w.last /\ w'.start = w.start /\ WatcherType'
    BY <1>1, <1>2, <2>1, Zenon DEF WatcherType
  <2>3. WatcherInv' /\ LogInv'
    BY <1>1, <1>2, <2>2, WatchDown, LogStill, Zenon
  <2> QED
    BY <1>1, <2>2, <2>3, Zenon DEF WatchInv, SeriesStayKnown
<1>5. CASE ~(w.tail /\ ~w.leave) /\ b \in SegsOnDisk
  <2>1. w' = [w EXCEPT !.pc = "select", !.seg = b, !.pos = 1, !.tail = b >= w.last, !.leave = FALSE]
    BY <1>1, <1>5, Zenon DEF OpenSegment
  <2>2. w.seg \in Nat /\ w.last \in Nat /\ log.first \in Nat /\ Len(log.seg) \in Nat /\ w.pos \in Nat
    <3>1. w.seg \in Nat /\ w.last \in Nat /\ log.first \in Nat /\ log.seg \in Seq(Seq(Records)) /\ w.pos \in Nat
      BY <1>2, WatcherFields, LogFields, Zenon DEF LogInv
    <3> QED
      BY <3>1
  <2>3. b \in 1 .. Len(log.seg) /\ b \in Nat /\ log.first <= w.seg + 1 /\ w.last <= Len(log.seg)
    <3>1. w.last <= Len(log.seg)
      BY <1>2, Zenon DEF WatcherInv, PlaceInv
    <3> QED
      BY <1>5, <2>2, <3>1 DEF SegsOnDisk, LastSeg
  <2>4. \A n, i : Place(n, i) => n \in Nat /\ i \in Nat /\ i >= 1 /\ ~(n = w.seg /\ i >= w.pos)
    <3>1. w.seg \in 1 .. Len(log.seg)
      BY <1>2, Zenon DEF WatcherInv, PlaceInv
    <3>2. Len(log.seg[w.seg]) \in Nat
      <4>1. log.seg \in Seq(Seq(Records))
        BY <1>2, LogFields, Zenon DEF LogInv
      <4> QED
        BY <3>1, <4>1
    <3>3. \A n, i : Place(n, i) => n \in Nat /\ i \in Nat
      BY <1>2, PlaceFacts, Zenon DEF LogInv
    <3> QED
      BY <1>1, <2>2, <3>1, <3>2, <3>3 DEF Place
  <2>5. \A n \in Nat : n > w.seg <=> n > b \/ n = b
    BY <2>2
  <2> HIDE DEF b
  <2>6. /\ w'.pc = "select" /\ w'.seg = b /\ w'.pos = 1 /\ w'.tail = (b >= w.last) /\ w'.leave = FALSE
        /\ w'.last = w.last /\ w'.start = w.start /\ WatcherType'
    <3>1. 1 \in Nat /\ (b >= w.last) \in BOOLEAN /\ FALSE \in BOOLEAN
      OBVIOUS
    <3>2. /\ w'.pc = "select" /\ w'.seg = b /\ w'.pos = 1 /\ w'.tail = (b >= w.last) /\ w'.leave = FALSE
          /\ w'.last = w.last /\ w'.start = w.start
          /\ w' \in [pc : WatchPcs, seg : Nat, pos : Nat, tail : BOOLEAN, leave : BOOLEAN,
                     last : Nat, lastCkpt : Nat, start : Nat, runs : Nat]
      BY <1>2, <2>1, <2>3, <3>1, Zenon DEF WatcherType
    <3> QED
      BY <1>1, <1>2, <3>2, Zenon DEF WatcherType
  <2>7. LogInv' /\ \A n, i : (Place(n, i)' <=> Place(n, i)) /\ At(n, i)' = At(n, i)
    BY <1>1, <1>2, LogStill, Zenon
  <2>8. GcInv' /\ IdxInv' /\ \A r : Known(r)' <=> Known(r)
    BY <1>1, <1>2, SeriesStay, Zenon
  <2>9. ASSUME NEW n, NEW i, Place(n, i)
        PROVE  Ahead(n, i)' <=> Ahead(n, i)
    <3>1. n \in Nat /\ i >= 1 /\ ~(n = w.seg /\ i >= w.pos)
      BY <2>4, <2>9, Zenon
    <3>2. Ahead(n, i) <=> n > w.seg
      BY <3>1, Zenon DEF Ahead
    <3>3. Ahead(n, i)' <=> n > b \/ n = b
      BY <2>6, <3>1, Zenon DEF Ahead
    <3> QED
      BY <2>5, <3>1, <3>2, <3>3, Zenon
  <2>10. \A r : Ready(r) => Ready(r)'
    <3>1. \A r : SeriesAhead(r) => SeriesAhead(r)'
      BY <2>7, <2>9, Zenon DEF SeriesAhead
    <3> QED
      BY <2>8, <3>1, Zenon DEF Ready
  <2>11. ReadyInv'
    <3>1. ASSUME NEW n, NEW i, NEW r, Place(n, i)', Ahead(n, i)', At(n, i)'.t > w'.start, At(n, i)'.ref = r
          PROVE  Ready(r)'
      <4>1. Place(n, i) /\ Ahead(n, i) /\ At(n, i).t > w.start /\ At(n, i).ref = r
        BY <2>6, <2>7, <2>9, <3>1, Zenon
      <4> QED
        BY <1>2, <2>3, <2>10, <4>1, Zenon DEF WatcherInv, ReadyInv
    <3>2. ASSUME NEW r \in log'.live
          PROVE  Ready(r)'
      BY <1>1, <1>2, <2>3, <2>10, <3>2, Zenon DEF WatcherInv, ReadyInv
    <3> QED
      BY <3>1, <3>2, Zenon DEF ReadyInv
  <2>12. PlaceInv'
    <3>1. \A n, i : Place(n, i)' /\ At(n, i)'.t > w'.start => n >= w'.last
      BY <1>2, <2>6, <2>7, Zenon DEF WatcherInv, PlaceInv
    <3>2. ~Starting' /\ w'.pc # "find"
      BY <2>6, Zenon DEF Starting
    <3>3. \A g \in gc : g.ckpt.idx <= b
      <4>1. \A g \in gc : g.ckpt.idx <= w.seg /\ g.ckpt.idx \in Nat
        BY <1>2, WatcherFields, Zenon DEF WatcherInv, PlaceInv
      <4> QED
        BY <2>2, <4>1 DEF b
    <3>4. ~(b >= w.last) => b < Len(log.seg)
      BY <2>2, <2>3
    <3>5. 1 >= 1
      OBVIOUS
    <3> QED
      BY <1>1, <1>2, <2>3, <2>6, <3>1, <3>2, <3>3, <3>4, <3>5, Zenon DEF WatcherInv, PlaceInv
  <2>13. SentInv'
    <3>1. ASSUME NEW k \in 1 .. Len(out.sent), NEW n, NEW i, Place(n, i)', Ahead(n, i)', At(n, i)'.t > w'.start
          PROVE  out.sent[k] < At(n, i)'.t
      <4>1. Place(n, i) /\ Ahead(n, i) /\ At(n, i).t > w.start /\ At(n, i)' = At(n, i)
        BY <2>6, <2>7, <2>9, <3>1, Zenon
      <4>2. out.sent[k] < At(n, i).t
        BY <1>2, <3>1, <4>1, Zenon DEF WatcherInv, SentInv
      <4> QED
        BY <4>1, <4>2, Zenon
    <3>2. SentOnceInOrder' /\ \A k \in 1 .. Len(out.sent) : out.sent[k] <= log'.t
      BY <1>1, <1>2, Zenon DEF WatcherInv, SentInv, SentOnceInOrder
    <3>3. ~Starting'
      BY <2>6, Zenon DEF Starting
    <3> QED
      BY <1>1, <3>1, <3>2, <3>3, Zenon DEF SentInv
  <2>14. FoundInv'
    BY <2>6, Zenon DEF FoundInv
  <2> QED
    BY <1>1, <2>6, <2>7, <2>8, <2>11, <2>12, <2>13, <2>14, Zenon DEF WatchInv, WatcherInv, SeriesStayKnown
<1> QED
  BY <1>3, <1>4, <1>5, Zenon

\* Reading one record: its series is known, so a sample is sent or dropped by
\* relabelling, and it is newer than what was sent before.
LEMMA ReadRecordKeeps ==
  ASSUME WatchInv, ReadRecord
  PROVE  WatchInv'
<1> DEFINE rec == log.seg[w.seg][w.pos]
           sends == w.tail /\ rec.t > w.start
<1>1. /\ w.pc = "read" /\ w.pos <= Len(log.seg[w.seg]) /\ log' = log /\ gc' = gc
      /\ w' = [w EXCEPT !.pos = @ + 1]
      /\ qm' = IF rec.t = 0 THEN StoreSeries({rec.ref}, w.seg) ELSE qm
      /\ out' = CASE ~sends -> out
                  [] sends /\ rec.ref \in qm.labels -> [out EXCEPT !.sent = Append(@, rec.t)]
                  [] sends /\ rec.ref \in qm.dropped \ qm.labels -> [out EXCEPT !.dropped = @ \cup {rec.t}]
                  [] OTHER -> [out EXCEPT !.unknown = @ \cup {rec.t}]
  BY ZenonT(30) DEF ReadRecord
<1>2. WatcherType /\ WatcherInv /\ LogInv /\ Following
  BY <1>1, Zenon DEF WatchInv, Following
<1>3. w.seg \in Nat /\ w.pos \in Nat /\ w.start \in Nat /\ w.last \in Nat
  BY <1>2, WatcherFields, Zenon
<1>4. Place(w.seg, w.pos) /\ w.seg \in 1 .. Len(log.seg) /\ w.pos >= 1
  <2>1. w.seg \in 1 .. Len(log.seg) /\ w.pos >= 1
    BY <1>2, Zenon DEF WatcherInv, PlaceInv
  <2>2. Len(log.seg[w.seg]) \in Nat
    <3>1. log.seg \in Seq(Seq(Records))
      BY <1>2, LogFields, Zenon DEF LogInv
    <3> QED
      BY <2>1, <3>1
  <2>3. w.pos \in 1 .. Len(log.seg[w.seg])
    <3>1. w.pos <= Len(log.seg[w.seg])
      BY <1>1, Zenon
    <3> QED
      BY <1>3, <2>1, <2>2, <3>1
  <2> QED
    BY <2>1, <2>3, Zenon DEF Place
<1>5. At(w.seg, w.pos) = rec /\ rec.ref \in Refs /\ rec.t \in Nat
  BY <1>2, <1>4, PlaceFacts, Zenon DEF At, LogInv
<1>6. /\ w'.pc = "read" /\ w'.seg = w.seg /\ w'.pos = w.pos + 1 /\ w'.tail = w.tail /\ w'.leave = w.leave
      /\ w'.last = w.last /\ w'.start = w.start
      /\ w' \in [pc : WatchPcs, seg : Nat, pos : Nat, tail : BOOLEAN, leave : BOOLEAN,
                 last : Nat, lastCkpt : Nat, start : Nat, runs : Nat]
  <2>1. w.pos + 1 \in Nat
    BY <1>3
  <2> QED
    BY <1>1, <1>2, <2>1, Zenon DEF WatcherType
<1> HIDE DEF rec
<1>7. /\ LogInv' /\ Ever' = Ever /\ \A r, k : SeriesBy(r, k)' <=> SeriesBy(r, k)
      /\ \A n, i : (Place(n, i)' <=> Place(n, i)) /\ At(n, i)' = At(n, i)
  BY <1>1, <1>2, LogStill, Zenon
\* What was ahead still is, but for this record.
<1>8. ASSUME NEW n, NEW i, Place(n, i)
      PROVE  /\ Ahead(n, i)' => Ahead(n, i) /\ Before(w.seg, w.pos, n, i)
             /\ Ahead(n, i) => Ahead(n, i)' \/ (n = w.seg /\ i = w.pos)
  <2>1. n \in Nat /\ i \in Nat
    BY <1>2, <1>8, PlaceFacts, Zenon DEF LogInv
  <2>2. Ahead(n, i)' <=> n > w.seg \/ (n = w.seg /\ i >= w.pos + 1)
    BY <1>6, Zenon DEF Ahead
  <2> QED
    BY <1>3, <2>1, <2>2 DEF Ahead, Before
\* The series of a sample to be sent is known.
<1>9. ASSUME rec.t > w.start
      PROVE  Known(rec.ref)
  <2>1. Ahead(w.seg, w.pos)
    BY <1>3 DEF Ahead
  <2>2. Ready(rec.ref)
    BY <1>2, <1>4, <1>5, <1>9, <2>1, Zenon DEF WatcherInv, ReadyInv
  <2>3. ASSUME NEW n, NEW i, Place(n, i), Ahead(n, i), At(n, i).t = 0, At(n, i).ref = rec.ref
        PROVE  FALSE
    <3>1. (n = w.seg /\ i = w.pos) \/ Before(n, i, w.seg, w.pos)
      BY <1>2, <1>4, <1>5, <2>3, Zenon DEF LogInv, SeriesInv
    <3>2. n \in Nat /\ i \in Nat
      BY <1>2, <2>3, PlaceFacts, Zenon DEF LogInv
    <3>3. n = w.seg /\ i = w.pos
      BY <1>3, <2>3, <3>1, <3>2 DEF Before, Ahead
    <3>4. rec.t = 0
      BY <1>5, <2>3, <3>3, Zenon
    <3> QED
      BY <1>3, <1>9, <3>4
  <2> QED
    BY <2>2, <2>3, Zenon DEF Ready, SeriesAhead
<1>10. /\ qm' \in [labels : SUBSET Refs, dropped : SUBSET Refs, idx : Maps]
       /\ IdxInv' /\ \A r : Known(r) => Known(r)'
       /\ rec.t = 0 => \A r : r = rec.ref => Known(r)'
  <2>1. CASE rec.t # 0
    <3>1. qm' = qm
      BY <1>1, <2>1, Zenon
    <3> QED
      BY <1>1, <1>2, <2>1, <3>1, SeriesStay, Zenon DEF WatcherType
  <2>2. CASE rec.t = 0
    <3> DEFINE R == {rec.ref}
               c == w.seg
    <3>1. R \in SUBSET Refs /\ c \in Nat /\ qm' = StoreSeries(R, c) /\ rec.ref \in R
      BY <1>1, <1>3, <1>5, <2>2, Zenon
    <3> HIDE DEF R, c
    <3>2. /\ qm' \in [labels : SUBSET Refs, dropped : SUBSET Refs, idx : Maps]
          /\ qm'.labels \cup qm'.dropped = (qm.labels \cup qm.dropped) \cup R
          /\ DOMAIN qm'.idx = R \cup DOMAIN qm.idx
          /\ \A r \in R : qm'.idx[r] = c
          /\ \A r \in DOMAIN qm.idx \ R : qm'.idx[r] = qm.idx[r]
      <4>1. WatcherType /\ R \in SUBSET Refs /\ c \in Nat
        BY <1>2, <3>1
      <4>2. /\ StoreSeries(R, c) \in [labels : SUBSET Refs, dropped : SUBSET Refs, idx : Maps]
            /\ StoreSeries(R, c).labels \cup StoreSeries(R, c).dropped = (qm.labels \cup qm.dropped) \cup R
            /\ DOMAIN StoreSeries(R, c).idx = R \cup DOMAIN qm.idx
            /\ \A r \in R : StoreSeries(R, c).idx[r] = c
            /\ \A r \in DOMAIN qm.idx \ R : StoreSeries(R, c).idx[r] = qm.idx[r]
        BY ONLY <4>1, StoreFacts, Zenon
      <4> QED
        BY <3>1, <4>2, Zenon
    <3>3. \A g \in gc : c >= g.ckpt.idx
      <4>1. \A g \in gc : g.ckpt.idx <= w.seg /\ g.ckpt.idx \in Nat
        BY <1>2, WatcherFields, Zenon DEF WatcherInv, PlaceInv
      <4> QED
        BY <1>3, <4>1 DEF c
    <3>4. ASSUME NEW r \in R
          PROVE  Known(r)'
      <4>1. r \in qm'.labels \cup qm'.dropped /\ qm'.idx[r] = c
        BY <3>2, Zenon
      <4>2. \A g \in gc' : Safe(r, g)'
        BY <1>1, <3>3, <4>1, Zenon DEF Safe
      <4> QED
        BY <4>1, <4>2, Zenon DEF Known
    <3>5. \A r : r \notin R /\ Known(r) => Known(r)'
      BY <1>1, <3>2, Zenon DEF Known, Safe
    <3>6. ASSUME NEW r \in DOMAIN qm'.idx
          PROVE  r \in Ever /\ \A n, i : Place(n, i) /\ At(n, i).t = 0 /\ At(n, i).ref = r => n <= qm'.idx[r]
      <4>1. CASE r \in R
        <5>1. r = rec.ref
          BY <4>1, Zenon DEF R
        <5>2. r \in Ever
          BY <1>2, <1>4, <1>5, <5>1, Zenon DEF LogInv, GoneInv, Ever
        <5>3. ASSUME NEW n, NEW i, Place(n, i), At(n, i).t = 0, At(n, i).ref = r
              PROVE  n <= c
          <6>1. (n = w.seg /\ i = w.pos) \/ Before(n, i, w.seg, w.pos)
            BY <1>2, <1>4, <1>5, <5>1, <5>3, Zenon DEF LogInv, SeriesInv
          <6>2. n \in Nat /\ i \in Nat
            BY <1>2, <5>3, PlaceFacts, Zenon DEF LogInv
          <6> QED
            BY <1>3, <6>1, <6>2 DEF Before, c
        <5> QED
          BY <3>2, <4>1, <5>2, <5>3, Zenon
      <4>2. CASE r \notin R
        <5>1. r \in DOMAIN qm.idx /\ qm'.idx[r] = qm.idx[r]
          BY <3>2, <4>2, Zenon
        <5> QED
          BY <1>2, <5>1, Zenon DEF WatcherInv, IdxInv, SeriesBy
      <4> QED
        BY <4>1, <4>2
    <3>7. IdxInv'
      BY <1>7, <3>6, Zenon DEF IdxInv, SeriesBy
    <3>8. \A r : r = rec.ref => Known(r)'
      BY <3>1, <3>4, Zenon
    <3>9. \A r : Known(r) => Known(r)'
      BY <3>4, <3>5, Zenon
    <3> QED
      BY <3>2, <3>7, <3>8, <3>9, Zenon
  <2> QED
    BY <2>1, <2>2, Zenon
<1>11. \A r : Ready(r) => Ready(r)'
  <2>1. ASSUME NEW r, SeriesAhead(r)
        PROVE  Ready(r)'
    <3>1. PICK n, i : Place(n, i) /\ Ahead(n, i) /\ At(n, i).t = 0 /\ At(n, i).ref = r
      BY <2>1, Zenon DEF SeriesAhead
    <3>2. CASE n = w.seg /\ i = w.pos
      <4>1. rec.t = 0 /\ rec.ref = r
        BY <1>5, <3>1, <3>2, Zenon
      <4> QED
        BY <1>10, <4>1, Zenon DEF Ready
    <3>3. CASE ~(n = w.seg /\ i = w.pos)
      <4>1. Place(n, i)' /\ Ahead(n, i)' /\ At(n, i)'.t = 0 /\ At(n, i)'.ref = r
        BY <1>7, <1>8, <3>1, <3>3, Zenon
      <4> QED
        BY <4>1, Zenon DEF Ready, SeriesAhead
    <3> QED
      BY <3>2, <3>3
  <2> QED
    BY <1>10, <2>1, Zenon DEF Ready
<1>12. GcInv'
  BY <1>1, <1>2, <1>7, Zenon DEF WatcherInv, GcInv
<1>13. PlaceInv'
  <2>1. \A n, i : Place(n, i)' /\ At(n, i)'.t > w'.start => n >= w'.last
    BY <1>2, <1>6, <1>7, Zenon DEF WatcherInv, PlaceInv
  <2>2. ~Starting' /\ w'.pc # "find"
    BY <1>6, Zenon DEF Starting
  <2>3. w'.pos >= 1 /\ w'.pos - 1 = w.pos
    BY <1>3, <1>6
  <2>4. Place(w.seg, w.pos - 1)'
    BY <1>1, <1>4, <1>6, <2>3, Zenon DEF Place
  <2> QED
    BY <1>1, <1>2, <1>6, <2>1, <2>2, <2>3, <2>4, Zenon DEF WatcherInv, PlaceInv
<1>14. ReadyInv'
  <2>1. ASSUME NEW n, NEW i, NEW r, Place(n, i)', Ahead(n, i)', At(n, i)'.t > w'.start, At(n, i)'.ref = r,
               n = w'.seg \/ log'.first <= w'.seg + 1
        PROVE  Ready(r)'
    <3>1. /\ Place(n, i) /\ Ahead(n, i) /\ At(n, i).t > w.start /\ At(n, i).ref = r
          /\ n = w.seg \/ log.first <= w.seg + 1
      BY <1>1, <1>6, <1>7, <1>8, <2>1, Zenon
    <3> QED
      BY <1>2, <1>11, <3>1, Zenon DEF WatcherInv, ReadyInv
  <2>2. ASSUME log'.first <= w'.seg + 1, NEW r \in log'.live
        PROVE  Ready(r)'
    <3>1. log.first <= w.seg + 1 /\ r \in log.live
      BY <1>1, <1>6, <2>2, Zenon
    <3> QED
      BY <1>2, <1>11, <3>1, Zenon DEF WatcherInv, ReadyInv
  <2> QED
    BY <2>1, <2>2, Zenon DEF ReadyInv
<1>15. /\ out' \in [sent : Seq(Nat), dropped : SUBSET Nat, unknown : SUBSET Nat] /\ out'.unknown = out.unknown
       /\ \/ out'.sent = out.sent
          \/ rec.t > w.start /\ out'.sent = Append(out.sent, rec.t)
  <2>1. out \in [sent : Seq(Nat), dropped : SUBSET Nat, unknown : SUBSET Nat] /\ out.sent \in Seq(Nat) /\ out.dropped \in SUBSET Nat
    BY <1>2, Zenon DEF WatcherType
  <2>2. rec.t > w.start => rec.ref \in qm.labels \cup qm.dropped
    BY <1>9, Zenon DEF Known
  <2>3. \/ out' = out
        \/ rec.t > w.start /\ out' = [out EXCEPT !.sent = Append(@, rec.t)]
        \/ out' = [out EXCEPT !.dropped = @ \cup {rec.t}]
    <3>1. CASE ~sends
      BY <1>1, <3>1
    <3>2. CASE sends /\ rec.ref \in qm.labels
      BY <1>1, <3>2
    <3>3. CASE sends /\ rec.ref \in qm.dropped \ qm.labels
      BY <1>1, <3>3
    <3> QED
      BY <2>2, <3>1, <3>2, <3>3, Zenon
  <2>4. Append(out.sent, rec.t) \in Seq(Nat) /\ out.dropped \cup {rec.t} \in SUBSET Nat
    BY <1>5, <2>1
  <2>5. CASE out' = out
    BY <2>1, <2>5, Zenon
  <2>6. CASE rec.t > w.start /\ out' = [out EXCEPT !.sent = Append(@, rec.t)]
    BY <2>1, <2>4, <2>6, Zenon
  <2>7. CASE out' = [out EXCEPT !.dropped = @ \cup {rec.t}]
    BY <2>1, <2>4, <2>7, Zenon
  <2> QED
    BY <2>3, <2>5, <2>6, <2>7, Zenon
<1>16. SentInv'
  <2>1. ~Starting' /\ Following'
    BY <1>6, Zenon DEF Starting, Following
  <2>2. out.sent \in Seq(Nat) /\ log.t \in Nat
    BY <1>2, WatcherFields, LogFields, Zenon DEF LogInv
  <2>3. ASSUME NEW k \in 1 .. Len(out.sent), NEW n, NEW i, Place(n, i), Ahead(n, i), At(n, i).t > w.start
        PROVE  out.sent[k] < At(n, i).t
    BY <1>2, <2>3, Zenon DEF WatcherInv, SentInv
  <2>4. CASE out'.sent = out.sent
    <3>1. \A k \in 1 .. Len(out.sent) : \A n, i : Place(n, i)' /\ Ahead(n, i)' /\ At(n, i)'.t > w'.start => out.sent[k] < At(n, i)'.t
      BY <1>6, <1>7, <1>8, <2>3, Zenon
    <3>2. SentOnceInOrder' /\ \A k \in 1 .. Len(out.sent) : out.sent[k] <= log'.t
      BY <1>1, <1>2, <2>4, Zenon DEF WatcherInv, SentInv, SentOnceInOrder
    <3> QED
      BY <2>1, <2>4, <3>1, <3>2, Zenon DEF SentInv
  <2>5. CASE rec.t > w.start /\ out'.sent = Append(out.sent, rec.t)
    <3> DEFINE m == Len(out.sent)
    <3>1. /\ m \in Nat /\ Len(out'.sent) = m + 1 /\ out'.sent[m + 1] = rec.t /\ DOMAIN out'.sent = 1 .. m + 1
          /\ \A k \in 1 .. m : out'.sent[k] = out.sent[k] /\ out.sent[k] \in Nat
      BY <1>5, <2>2, <2>5, SMTT(20)
    <3>2. \A k \in 1 .. m : out.sent[k] < rec.t
      <4>1. Ahead(w.seg, w.pos)
        BY <1>3 DEF Ahead
      <4> QED
        BY <1>4, <1>5, <2>3, <2>5, <4>1, Zenon
    <3>3. rec.t <= log.t
      BY <1>2, <1>4, <1>5, Zenon DEF LogInv, OrderInv
    <3>4. \A j, k \in 1 .. m : j < k => out.sent[j] < out.sent[k]
      <4>1. DOMAIN out.sent = 1 .. m
        BY <2>2
      <4> QED
        BY <1>2, <4>1, Zenon DEF WatcherInv, SentInv, SentOnceInOrder
    <3>5. \A k \in 1 .. m : out.sent[k] <= log.t
      BY <1>2, Zenon DEF WatcherInv, SentInv
    <3> HIDE DEF m
    <3>6. SentOnceInOrder'
      <4>1. ASSUME NEW j \in 1 .. m + 1, NEW k \in 1 .. m + 1, j < k
            PROVE  out'.sent[j] < out'.sent[k]
        <5>1. j \in 1 .. m /\ (k \in 1 .. m \/ k = m + 1)
          BY <3>1, <4>1
        <5> QED
          BY <3>1, <3>2, <3>4, <4>1, <5>1, Zenon
      <4> QED
        BY <3>1, <4>1, Zenon DEF SentOnceInOrder
    <3>7. ASSUME NEW k \in 1 .. m + 1
          PROVE  /\ out'.sent[k] <= log.t
                 /\ k \in 1 .. m \/ k = m + 1
      <4>1. k \in 1 .. m \/ k = m + 1
        BY <3>1
      <4> QED
        BY <3>1, <3>3, <3>5, <4>1, Zenon
    <3>8. ASSUME NEW k \in 1 .. m + 1, NEW n, NEW i, Place(n, i)', Ahead(n, i)', At(n, i)'.t > w'.start
          PROVE  out'.sent[k] < At(n, i)'.t
      <4>1. Place(n, i) /\ Ahead(n, i) /\ Before(w.seg, w.pos, n, i) /\ At(n, i).t > w.start /\ At(n, i)' = At(n, i)
        BY <1>6, <1>7, <1>8, <3>8, Zenon
      <4>2. CASE k \in 1 .. m
        BY <2>3, <3>1, <4>1, <4>2, Zenon DEF m
      <4>3. CASE k = m + 1
        <5>1. rec.t # 0 /\ At(n, i).t # 0
          <6>1. At(n, i).t \in Nat
            BY <1>2, <4>1, PlaceFacts, Zenon DEF LogInv
          <6> QED
            BY <1>3, <1>5, <2>5, <4>1, <6>1
        <5>2. rec.t < At(n, i).t
          BY <1>2, <1>4, <1>5, <4>1, <5>1, Zenon DEF LogInv, OrderInv
        <5> QED
          BY <3>1, <4>1, <4>3, <5>2, Zenon
      <4> QED
        BY <3>7, <4>2, <4>3, Zenon
    <3> QED
      BY <1>1, <2>1, <3>1, <3>6, <3>7, <3>8, Zenon DEF SentInv
  <2> QED
    BY <1>15, <2>4, <2>5, Zenon
<1>17. FoundInv'
  BY <1>6, Zenon DEF FoundInv
<1>18. WatcherType'
  BY <1>1, <1>2, <1>6, <1>10, <1>15, Zenon DEF WatcherType
<1>19. SeriesStayKnown'
  BY <1>15, Zenon DEF WatchInv, SeriesStayKnown
<1> QED
  BY <1>7, <1>10, <1>12, <1>13, <1>14, <1>16, <1>17, <1>18, <1>19, Zenon DEF WatchInv, WatcherInv

\* garbageCollectSeries begins: what is still needed is in the checkpoint, or its
\* record was read after the checkpoint and it is kept with a later segment.
LEMMA GcStartsKeeps ==
  ASSUME WatchInv, GcStarts, gc = {}
  PROVE  WatchInv'
<1> DEFINE g == [ckpt |-> log.ckpt, sem |-> GcSem, pc |-> "read"]
<1>1. /\ w.pc = "select" /\ w' = [w EXCEPT !.lastCkpt = log.ckpt.idx] /\ log' = log /\ qm' = qm /\ out' = out
      /\ gc' = IF log.ckpt.idx >= w.seg THEN gc ELSE gc \cup {g}
  BY Zenon DEF GcStarts
<1>2. WatcherType /\ WatcherInv /\ LogInv /\ Following /\ log.ckpt \in Ckpts /\ log.ckpt.idx \in Nat
  BY <1>1, LogFields, Zenon DEF WatchInv, Following, LogInv
<1>3. /\ w'.pc = "select" /\ w'.seg = w.seg /\ w'.pos = w.pos /\ w'.tail = w.tail /\ w'.leave = w.leave
      /\ w'.last = w.last /\ w'.start = w.start /\ w.seg \in Nat /\ w.runs \in Nat
      /\ w' \in [pc : WatchPcs, seg : Nat, pos : Nat, tail : BOOLEAN, leave : BOOLEAN,
                 last : Nat, lastCkpt : Nat, start : Nat, runs : Nat]
  BY <1>1, <1>2, Zenon DEF WatcherType
<1>4. Following' /\ ~Starting' /\ w'.pc # "find" /\ (~w'.tail \/ w'.leave => w.seg < Len(log.seg))
  BY <1>2, <1>3, Zenon DEF Following, Starting, WatcherInv, PlaceInv
<1>5. CASE log.ckpt.idx >= w.seg
  <2>1. gc' = gc
    BY <1>1, <1>5, Zenon
  <2>2. WatcherType'
    BY <1>1, <1>2, <1>3, <2>1, Zenon DEF WatcherType
  <2> QED
    BY <1>1, <1>2, <1>3, <1>4, <2>1, <2>2, SelectKeeps, Zenon
<1>6. CASE ~(log.ckpt.idx >= w.seg)
  <2>1. gc' = {g} /\ log.ckpt.idx < w.seg /\ log.ckpt.idx <= w.seg
    BY <1>1, <1>2, <1>3, <1>6
  <2>2. g.ckpt = log.ckpt /\ g.pc = "read" /\ g \in [ckpt : Ckpts, sem : Nat \X Nat, pc : {"read", "reset"}]
    <3>1. GcSem \in Nat \X Nat
      BY <1>3 DEF GcSem
    <3> QED
      BY <1>2, <3>1, Zenon
  <2> HIDE DEF g
  <2>3. WatcherType'
    BY <1>1, <1>2, <1>3, <2>1, <2>2, Zenon DEF WatcherType
  <2>4. /\ LogInv' /\ Ever' = Ever /\ \A r, k : SeriesBy(r, k)' <=> SeriesBy(r, k)
        /\ \A n, i : (Place(n, i)' <=> Place(n, i)) /\ At(n, i)' = At(n, i)
    BY <1>1, <1>2, LogStill, Zenon
  <2>5. GcInv'
    <3>1. log.ckpt.idx <= log.ckpt.idx
      BY <1>2
    <3>2. log.ckpt.refs \subseteq Ever /\ \A r \in log.ckpt.refs : \A n, i : Place(n, i) /\ At(n, i).t = 0 /\ At(n, i).ref = r => n <= log.ckpt.idx
      BY <1>2, Zenon DEF LogInv, SizeInv, CkptInv, SeriesBy
    <3>3. \A h \in gc' : h = g
      BY <2>1, Zenon
    <3>4. ASSUME NEW h \in gc'
          PROVE  /\ h.ckpt.idx <= log'.ckpt.idx /\ h.ckpt.refs \subseteq Ever'
                 /\ \A r \in h.ckpt.refs : \A n, i : Place(n, i)' /\ At(n, i)'.t = 0 /\ At(n, i)'.ref = r => n <= h.ckpt.idx
      BY <1>1, <2>2, <2>4, <3>1, <3>2, <3>3, Zenon
    <3> QED
      BY <3>3, <3>4, Zenon DEF GcInv, SeriesBy
  <2>6. IdxInv'
    <3>1. \A r \in DOMAIN qm.idx : r \in Ever /\ \A n, i : Place(n, i) /\ At(n, i).t = 0 /\ At(n, i).ref = r => n <= qm.idx[r]
      BY <1>2, Zenon DEF WatcherInv, IdxInv, SeriesBy
    <3> QED
      BY <1>1, <2>4, <3>1, Zenon DEF IdxInv, SeriesBy
  <2>7. ASSUME NEW r, Needed(r)
        PROVE  Recent(r)
    <3>1. CASE r \in log.live
      BY <3>1, Zenon DEF Recent
    <3>2. CASE r \notin log.live
      <4>1. PICK n, i : Place(n, i) /\ Ahead(n, i) /\ At(n, i).ref = r
        BY <2>7, <3>2, Zenon DEF Needed
      <4>2. r \in DOMAIN log.gone /\ log.gone[r] >= n
        BY <1>2, <3>2, <4>1, Zenon DEF LogInv, GoneInv
      <4>3. n \in Nat /\ log.gone[r] \in Nat
        BY <1>2, <4>1, <4>2, PlaceFacts, LogFields, MapFacts, Zenon DEF LogInv
      <4>4. log.gone[r] > log.ckpt.idx
        BY <1>2, <1>3, <2>1, <4>1, <4>2, <4>3 DEF Ahead
      <4> QED
        BY <4>2, <4>4, Zenon DEF Recent
    <3> QED
      BY <3>1, <3>2
  <2>8. ASSUME NEW r
        PROVE  SeriesAhead(r) => SeriesAhead(r)'
    <3>1. \A n, i : Ahead(n, i)' <=> Ahead(n, i)
      BY <1>3, Zenon DEF Ahead
    <3> QED
      BY <2>4, <3>1, Zenon DEF SeriesAhead
  <2>9. ASSUME NEW r, Needed(r), Known(r)
        PROVE  Ready(r)'
    <3>1. r \in log.ckpt.refs \/ \E n, i : Place(n, i) /\ n > log.ckpt.idx /\ At(n, i).t = 0 /\ At(n, i).ref = r
      BY <1>2, <2>7, <2>9, Zenon DEF LogInv, CkptInv
    <3>2. CASE r \in log.ckpt.refs
      BY <1>1, <2>1, <2>2, <2>9, <3>2, Zenon DEF Ready, Known, Safe
    <3>3. CASE \E n, i : Place(n, i) /\ n > log.ckpt.idx /\ At(n, i).t = 0 /\ At(n, i).ref = r
      <4>1. PICK n, i : Place(n, i) /\ n > log.ckpt.idx /\ At(n, i).t = 0 /\ At(n, i).ref = r
        BY <3>3, Zenon
      <4>2. ASSUME r \in DOMAIN qm.idx
            PROVE  qm.idx[r] >= log.ckpt.idx
        <5>1. n <= qm.idx[r]
          BY <1>2, <4>1, <4>2, Zenon DEF WatcherInv, IdxInv, SeriesBy
        <5>2. n \in Nat /\ qm.idx[r] \in Nat
          BY <1>2, <4>1, <4>2, PlaceFacts, WatcherFields, MapFacts, Zenon DEF LogInv
        <5> QED
          BY <1>2, <4>1, <5>1, <5>2
      <4> QED
        BY <1>1, <2>1, <2>2, <2>9, <4>2, Zenon DEF Ready, Known, Safe
    <3> QED
      BY <3>1, <3>2, <3>3
  <2>10. \A r : Needed(r) /\ Ready(r) => Ready(r)'
    BY <2>8, <2>9, Zenon DEF Ready
  <2>11. FoundInv' /\ \A h \in gc' : h.ckpt.idx <= w.seg
    BY <1>4, <2>1, <2>2, Zenon DEF FoundInv
  <2>12. WatcherInv'
    BY <1>1, <1>2, <1>3, <1>4, <2>5, <2>6, <2>10, <2>11, WatchStays, Zenon
  <2> QED
    BY <1>1, <2>3, <2>4, <2>12, Zenon DEF WatchInv, SeriesStayKnown
<1> QED
  BY <1>5, <1>6

\* A step of the collection that keeps what is known.
LEMMA GcStays ==
  ASSUME WatchInv, NEW g \in gc, log' = log, w' = w, out' = out,
         qm' \in [labels : SUBSET Refs, dropped : SUBSET Refs, idx : Maps],
         gc' \subseteq [ckpt : Ckpts, sem : Nat \X Nat, pc : {"read", "reset"}],
         \A h, d \in gc' : h = d, \A h \in gc' : h.ckpt = g.ckpt,
         \A r \in DOMAIN qm'.idx : r \in Ever /\ \A n, i : Place(n, i) /\ At(n, i).t = 0 /\ At(n, i).ref = r => n <= qm'.idx[r],
         \A r : Known(r) => Known(r)'
  PROVE  WatchInv'
<1>1. log' = log /\ w' = w /\ out' = out
  OBVIOUS
<1>2. WatcherType /\ WatcherInv /\ LogInv
  BY Zenon DEF WatchInv
<1>3. /\ g.ckpt.idx <= log.ckpt.idx /\ g.ckpt.refs \subseteq Ever
      /\ \A h \in gc : h = g
      /\ \A r \in g.ckpt.refs : \A n, i : Place(n, i) /\ At(n, i).t = 0 /\ At(n, i).ref = r => n <= g.ckpt.idx
  BY <1>2, WatcherFields, Zenon DEF WatcherInv, GcInv, SeriesBy
<1>4. /\ LogInv' /\ Ever' = Ever /\ \A r, k : SeriesBy(r, k)' <=> SeriesBy(r, k)
      /\ \A n, i : (Place(n, i)' <=> Place(n, i)) /\ At(n, i)' = At(n, i)
  BY <1>1, <1>2, LogStill, Zenon
<1>6. GcInv'
  <2>1. ASSUME NEW h \in gc'
        PROVE  /\ h.ckpt.idx <= log'.ckpt.idx /\ h.ckpt.refs \subseteq Ever'
               /\ \A r \in h.ckpt.refs : \A n, i : Place(n, i)' /\ At(n, i)'.t = 0 /\ At(n, i)'.ref = r => n <= h.ckpt.idx
    BY <1>1, <1>3, <1>4, Zenon
  <2> QED
    BY <2>1, Zenon DEF GcInv, SeriesBy
<1>7. IdxInv'
  BY <1>4, Zenon DEF IdxInv, SeriesBy
<1>8. FoundInv'
  BY <1>1, <1>2, Zenon DEF WatcherInv, FoundInv
<1>9. \A r : SeriesAhead(r) => SeriesAhead(r)'
  BY <1>1, <1>4, Zenon DEF SeriesAhead, Ahead
<1>10. \A r : Ready(r) => Ready(r)'
  BY <1>9, Zenon DEF Ready
<1>11. Following => (~w'.tail \/ w'.leave => w.seg < Len(log.seg)) /\ \A h \in gc' : h.ckpt.idx <= w.seg
  <2>1. Following => (~w.tail \/ w.leave => w.seg < Len(log.seg)) /\ g.ckpt.idx <= w.seg
    BY <1>2, Zenon DEF WatcherInv, PlaceInv
  <2> QED
    BY <1>1, <2>1, Zenon
<1>12. (Following' <=> Following) /\ (Starting' <=> Starting)
  BY <1>1, Zenon DEF Following, Starting
<1>13. WatcherInv'
  BY <1>1, <1>2, <1>6, <1>7, <1>8, <1>10, <1>11, <1>12, WatchStays, Zenon
<1>14. WatcherType'
  BY <1>1, <1>2, Zenon DEF WatcherType
<1> QED
  BY <1>1, <1>4, <1>13, <1>14, Zenon DEF WatchInv, SeriesStayKnown

\* readCheckpoint with UpdateSeriesSegment.
LEMMA GcReadsKeeps ==
  ASSUME WatchInv, NEW g \in gc, GcReads(g)
  PROVE  WatchInv'
<1>1. g.pc = "read" /\ log' = log /\ w' = w /\ out' = out
  BY Zenon DEF GcReads
<1>2. WatcherType /\ WatcherInv /\ LogInv
  BY Zenon DEF WatchInv
<1>3. /\ g.ckpt.idx \in Nat /\ g.ckpt.refs \in SUBSET Refs /\ g.ckpt.idx <= log.ckpt.idx /\ g.ckpt.refs \subseteq Ever
      /\ \A h \in gc : h = g
      /\ \A r \in g.ckpt.refs : \A n, i : Place(n, i) /\ At(n, i).t = 0 /\ At(n, i).ref = r => n <= g.ckpt.idx
  BY <1>2, WatcherFields, Zenon DEF WatcherInv, GcInv, SeriesBy
<1>5. \A r \in DOMAIN qm.idx : r \in Ever /\ \A n, i : Place(n, i) /\ At(n, i).t = 0 /\ At(n, i).ref = r => n <= qm.idx[r]
  BY <1>2, Zenon DEF WatcherInv, IdxInv, SeriesBy
<1>7. CASE gc' = gc \ {g} /\ qm' = qm
  <2>1. gc' = {}
    BY <1>3, <1>7, Zenon
  <2>2. \A r : Known(r) => Known(r)'
    BY <1>7, <2>1, Zenon DEF Known
  <2>3. qm' \in [labels : SUBSET Refs, dropped : SUBSET Refs, idx : Maps]
    BY <1>2, <1>7, Zenon DEF WatcherType
  <2> QED
    BY <1>1, <1>5, <1>7, <2>1, <2>2, <2>3, GcStays, Zenon
<1>8. CASE qm' = UpdateSeriesSegment(g.ckpt.refs, g.ckpt.idx) /\ gc' = (gc \ {g}) \cup {[g EXCEPT !.pc = "reset"]}
  <2> DEFINE h == [g EXCEPT !.pc = "reset"]
             R == g.ckpt.refs
             c == g.ckpt.idx
             p == Put(qm.idx, R, c)
  <2>1. gc' = {h} /\ g \in [ckpt : Ckpts, sem : Nat \X Nat, pc : {"read", "reset"}]
    BY <1>2, <1>3, <1>8, Zenon DEF WatcherType
  <2>2. h.ckpt = g.ckpt /\ h.pc = "reset" /\ h \in [ckpt : Ckpts, sem : Nat \X Nat, pc : {"read", "reset"}]
    BY <2>1, Zenon
  <2>3. R \in SUBSET Refs /\ c \in Nat /\ qm.idx \in Maps /\ qm \in [labels : SUBSET Refs, dropped : SUBSET Refs, idx : Maps]
    BY <1>2, <1>3, WatcherFields, Zenon DEF WatcherType
  <2> HIDE DEF h, R, c
  <2>4. p \in Maps
    BY ONLY <2>3, PutFacts, Zenon
  <2>5. /\ DOMAIN p = R \cup DOMAIN qm.idx /\ \A r \in R : p[r] = c
        /\ \A r \in DOMAIN qm.idx \ R : p[r] = qm.idx[r]
    BY DEF Put
  <2>6. qm' = [qm EXCEPT !.idx = p]
    BY <1>8, Zenon DEF UpdateSeriesSegment, R, c
  <2> HIDE DEF p
  <2>7. /\ qm' \in [labels : SUBSET Refs, dropped : SUBSET Refs, idx : Maps]
        /\ qm'.labels = qm.labels /\ qm'.dropped = qm.dropped /\ qm'.idx = p
    BY <2>3, <2>4, <2>6, Zenon
  <2>8. ASSUME NEW r \in DOMAIN qm'.idx
        PROVE  r \in Ever /\ \A n, i : Place(n, i) /\ At(n, i).t = 0 /\ At(n, i).ref = r => n <= qm'.idx[r]
    <3>1. CASE r \in R
      <4>1. r \in g.ckpt.refs /\ qm'.idx[r] = g.ckpt.idx
        BY <2>5, <2>7, <3>1, Zenon DEF R, c
      <4> QED
        BY <1>3, <4>1, Zenon
    <3>2. CASE r \notin R
      BY <1>5, <2>5, <2>7, <3>2, Zenon
    <3> QED
      BY <3>1, <3>2
  <2>9. ASSUME NEW r, Known(r)
        PROVE  Known(r)'
    <3>1. r \in qm'.labels \cup qm'.dropped
      BY <2>7, <2>9, Zenon DEF Known
    <3>2. r \in DOMAIN qm'.idx => qm'.idx[r] >= c
      <4>1. CASE r \in R
        <5>1. c >= c
          BY <2>3
        <5> QED
          BY <2>5, <2>7, <4>1, <5>1, Zenon
      <4>2. CASE r \notin R
        <5>1. r \in DOMAIN qm.idx => qm.idx[r] >= g.ckpt.idx \/ r \in g.ckpt.refs
          BY <2>9, Zenon DEF Known, Safe
        <5>2. r \in DOMAIN qm.idx => qm.idx[r] >= c
          BY <4>2, <5>1, Zenon DEF R, c
        <5> QED
          BY <2>5, <2>7, <4>2, <5>2, Zenon
      <4> QED
        BY <4>1, <4>2
    <3>3. h.ckpt.idx = c
      BY <2>2, Zenon DEF c
    <3>4. \A d \in gc' : Safe(r, d)'
      BY <2>1, <3>2, <3>3, Zenon DEF Safe
    <3> QED
      BY <3>1, <3>4, Zenon DEF Known
  <2>10. /\ gc' \subseteq [ckpt : Ckpts, sem : Nat \X Nat, pc : {"read", "reset"}]
         /\ \A d, e \in gc' : d = e
         /\ \A d \in gc' : d.ckpt = g.ckpt
    BY <2>1, <2>2, Zenon
  <2> QED
    BY <1>1, <2>7, <2>8, <2>9, <2>10, GcStays, Zenon
<1> QED
  BY <1>7, <1>8, Zenon DEF GcReads

\* SeriesReset drops the series of older segments, and none that is known safely.
LEMMA GcResetsKeeps ==
  ASSUME WatchInv, NEW g \in gc, GcResets(g)
  PROVE  WatchInv'
<1> DEFINE old == {r \in DOMAIN qm.idx : qm.idx[r] < g.ckpt.idx}
           f == [r \in DOMAIN qm.idx \ old |-> qm.idx[r]]
<1>1. /\ g.pc = "reset" /\ log' = log /\ w' = w /\ out' = out /\ gc' = gc \ {g}
      /\ qm' = [labels |-> qm.labels \ old, dropped |-> qm.dropped \ old, idx |-> f]
  BY Zenon DEF GcResets, SeriesReset
<1>2. /\ qm.idx \in Maps /\ qm.labels \in SUBSET Refs /\ qm.dropped \in SUBSET Refs
      /\ g.ckpt.idx \in Nat /\ \A h \in gc : h = g
  BY WatcherFields, Zenon DEF WatchInv, WatcherInv, GcInv
<1>3. \A r \in DOMAIN qm.idx : qm.idx[r] \in Nat
  BY <1>2, MapFacts, Zenon
<1>4. f \in Maps /\ DOMAIN f = DOMAIN qm.idx \ old /\ \A r \in DOMAIN f : f[r] = qm.idx[r]
  <2>1. DOMAIN f = DOMAIN qm.idx \ old /\ f = [r \in DOMAIN f |-> f[r]] /\ \A r \in DOMAIN f : f[r] = qm.idx[r]
    BY Zenon
  <2>2. DOMAIN qm.idx \subseteq Refs
    BY <1>2, MapFacts, Zenon
  <2> HIDE DEF f
  <2>3. \A r \in DOMAIN f : r \in Refs /\ f[r] \in Nat
    BY <1>3, <2>1, <2>2, Zenon
  <2> QED
    BY <2>1, <2>3, SubMap, Zenon
<1>5. gc' = {}
  BY <1>1, <1>2, Zenon
<1>6. \A r : r \in old => r \in DOMAIN qm.idx /\ ~(qm.idx[r] >= g.ckpt.idx)
  BY <1>2, <1>3
<1> HIDE DEF old, f
<1>7. /\ qm' \in [labels : SUBSET Refs, dropped : SUBSET Refs, idx : Maps]
      /\ qm'.labels = qm.labels \ old /\ qm'.dropped = qm.dropped \ old /\ qm'.idx = f
  BY <1>1, <1>2, <1>4, Zenon
<1>8. \A r : Known(r) => Known(r)'
  <2>1. \A r : Known(r) => r \in qm.labels \cup qm.dropped /\ r \notin old
    BY <1>1, <1>6, Zenon DEF Known, Safe
  <2> QED
    BY <1>5, <1>7, <2>1, Zenon DEF Known
<1>9. \A r \in DOMAIN qm'.idx : r \in Ever /\ \A n, i : Place(n, i) /\ At(n, i).t = 0 /\ At(n, i).ref = r => n <= qm'.idx[r]
  <2>1. \A r \in DOMAIN qm.idx : r \in Ever /\ \A n, i : Place(n, i) /\ At(n, i).t = 0 /\ At(n, i).ref = r => n <= qm.idx[r]
    BY Zenon DEF WatchInv, WatcherInv, IdxInv, SeriesBy
  <2> QED
    BY <1>4, <1>7, <2>1, Zenon
<1> QED
  BY <1>1, <1>5, <1>7, <1>8, <1>9, GcStays, Zenon

-------------------------------------------------------------------------------
(* The invariant *)

\* The head's steps.
LEMMA HeadKeeps ==
  ASSUME WatchInv,
         \/ \E r \in Refs : LogSample(r) \/ HeadGC(r)
         \/ w.pc \notin {"checkpoint", "find"} /\ \E k \in 1 .. MaxSegment : Checkpoint(k)
         \/ NextSegment \/ Truncate
  PROVE  WatchInv'
<1>1. WatcherType /\ WatcherInv /\ LogInv /\ SeriesStayKnown
  BY Zenon DEF WatchInv
<1>2. w' = w /\ gc' = gc /\ qm' = qm /\ out' = out
  BY Zenon DEF LogSample, HeadGC, Checkpoint, NextSegment, Truncate
<1>3. SUFFICES LogInv' /\ WatcherInv'
  BY <1>1, <1>2, Zenon DEF WatchInv, WatcherType, SeriesStayKnown
<1>4. LogType /\ log.first \in Nat /\ log.ckpt.idx \in Nat
  BY <1>1, LogFields, Zenon DEF LogInv
<1>5. CASE \E r \in Refs : LogSample(r)
  BY <1>1, <1>5, LogSampleWatch, Zenon
<1>6. log.first <= log.first /\ log.ckpt.idx <= log.ckpt.idx
  BY <1>4
<1>7. CASE \E r \in Refs : HeadGC(r)
  <2>1. PICK r \in Refs : HeadGC(r)
    BY <1>7, Zenon
  <2>2. /\ LogInv' /\ log'.seg = log.seg /\ log'.first = log.first /\ log'.ckpt = log.ckpt
        /\ log'.live = log.live \ {r} /\ log'.t = log.t /\ Ever' = Ever
    BY <1>1, <2>1, HeadGCLog, Zenon
  <2>3. SamePlaces /\ Len(log'.seg) \in Nat /\ Len(log.seg) \in Nat /\ Len(log'.seg) >= Len(log.seg)
    BY <1>4, <2>2, PlacesStay, Zenon
  <2>4. log'.live \subseteq log.live
    BY <2>2, Zenon
  <2> QED
    BY <1>1, <1>2, <1>6, <2>2, <2>3, <2>4, HeadQuiet, Zenon
<1>8. CASE w.pc \notin {"checkpoint", "find"} /\ \E k \in 1 .. MaxSegment : Checkpoint(k)
  <2>1. PICK k : Checkpoint(k)
    BY <1>8, Zenon
  <2>2. /\ LogInv' /\ log'.seg = log.seg /\ log'.first = log.first
        /\ log'.live = log.live /\ log'.t = log.t /\ Ever' = Ever /\ log.ckpt.idx <= log'.ckpt.idx
    BY <1>1, <2>1, CheckpointLog, Zenon
  <2>3. SamePlaces /\ Len(log'.seg) \in Nat /\ Len(log.seg) \in Nat /\ Len(log'.seg) >= Len(log.seg)
    BY <1>4, <2>2, PlacesStay, Zenon
  <2>4. log'.live \subseteq log.live /\ ~Starting
    BY <1>8, <2>2, Zenon DEF Starting
  <2> QED
    BY <1>1, <1>2, <1>6, <2>2, <2>3, <2>4, HeadQuiet, Zenon
<1>9. CASE NextSegment
  <2>1. /\ LogInv' /\ log'.seg = Append(log.seg, << >>)
        /\ log'.first = log.first /\ log'.ckpt = log.ckpt /\ log'.live = log.live
        /\ log'.gone = log.gone /\ log'.t = log.t
    BY <1>1, <1>9, NextSegmentLog, Zenon
  <2>2. SamePlaces /\ Len(log'.seg) \in Nat /\ Len(log.seg) \in Nat /\ Len(log'.seg) >= Len(log.seg)
    BY <1>4, <2>1, PlacesStay, Zenon
  <2>3. log'.live \subseteq log.live /\ Ever' = Ever
    BY <2>1, Zenon DEF Ever
  <2> QED
    BY <1>1, <1>2, <1>6, <2>1, <2>2, <2>3, HeadQuiet, Zenon
<1>10. CASE Truncate
  <2>1. /\ LogInv' /\ log'.seg = log.seg
        /\ log.first <= log'.first
        /\ log'.ckpt = log.ckpt /\ log'.live = log.live /\ log'.gone = log.gone /\ log'.t = log.t
    BY <1>1, <1>10, TruncateLog, Zenon
  <2>2. SamePlaces /\ Len(log'.seg) \in Nat /\ Len(log.seg) \in Nat /\ Len(log'.seg) >= Len(log.seg)
    BY <1>4, <2>1, PlacesStay, Zenon
  <2>3. log'.live \subseteq log.live /\ Ever' = Ever
    BY <2>1, Zenon DEF Ever
  <2> QED
    BY <1>1, <1>2, <1>6, <2>1, <2>2, <2>3, HeadQuiet, Zenon
<1> QED
  BY <1>5, <1>7, <1>8, <1>9, <1>10

\* At the start nothing is logged and the watcher has not run.
LEMMA WatchStart ==
  ASSUME WatchInit
  PROVE  WatchInv
<1>1. /\ log = [seg |-> << << >> >>, first |-> 1, ckpt |-> None, live |-> {}, gone |-> Nothing, t |-> 0, ckpts |-> 0]
      /\ w = [pc |-> "down", seg |-> 0, pos |-> 1, tail |-> FALSE, leave |-> FALSE,
              last |-> 0, lastCkpt |-> 0, start |-> 0, runs |-> 0]
      /\ gc = {} /\ qm = [labels |-> {}, dropped |-> {}, idx |-> Nothing]
      /\ out = [sent |-> << >>, dropped |-> {}, unknown |-> {}]
  BY Zenon DEF WatchInit
<1>2. Nothing \in Maps /\ DOMAIN Nothing = {}
  <2>1. Nothing \in [{} -> Nat] /\ DOMAIN Nothing = {}
    BY DEF Nothing
  <2> QED
    BY <2>1, Zenon DEF Maps
<1>3. None \in Ckpts /\ None.idx = 0 /\ None.refs = {}
  BY DEF None, Ckpts
<1>4. << << >> >> \in Seq(Seq(Records)) /\ Len(<< << >> >>) = 1 /\ << << >> >>[1] = << >> /\ Len(<< >>) = 0 /\ << >> \in Seq(Nat)
  OBVIOUS
<1>5. /\ log.seg = << << >> >> /\ log.first = 1 /\ log.ckpt = None /\ log.live = {} /\ log.gone = Nothing /\ log.t = 0
      /\ w.pc = "down" /\ w.last = 0 /\ w.start = 0 /\ qm.idx = Nothing /\ out.sent = << >> /\ out.unknown = {}
  BY <1>1, Zenon
<1>6. 0 \in Nat /\ 1 \in Nat
  OBVIOUS
<1>7. LogType
  BY <1>1, <1>2, <1>3, <1>4, <1>6, Zenon DEF LogType
<1>8. WatcherType
  BY <1>1, <1>2, <1>4, <1>6, Zenon DEF WatcherType, WatchPcs
<1>9. \A n, i : ~Place(n, i)
  <2>1. \A n \in 1 .. 1 : n = 1
    OBVIOUS
  <2>2. \A i : i \notin 1 .. 0
    OBVIOUS
  <2> QED
    BY <1>4, <1>5, <2>1, <2>2, Zenon DEF Place
<1>10. LogInv
  <2>1. 1 <= 1 /\ 1 <= 0 + 1 /\ 0 < 1
    OBVIOUS
  <2>2. SizeInv
    BY <1>2, <1>3, <1>4, <1>5, <2>1, Zenon DEF SizeInv, Ever
  <2>3. OrderInv /\ SeriesInv /\ GoneInv
    BY <1>9, Zenon DEF OrderInv, SeriesInv, GoneInv
  <2>4. CkptInv
    BY <1>2, <1>3, <1>5, Zenon DEF CkptInv, Recent
  <2> QED
    BY <1>7, <2>2, <2>3, <2>4, Zenon DEF LogInv
<1>11. WatcherInv
  <2>1. 0 <= 1 /\ 0 <= 0
    OBVIOUS
  <2>2. GcInv /\ IdxInv
    BY <1>1, <1>2, <1>5, Zenon DEF GcInv, IdxInv
  <2>3. ~Following /\ ~Starting /\ w.pc # "find"
    BY <1>5, Zenon DEF Following, Starting
  <2>4. PlaceInv
    BY <1>4, <1>5, <1>9, <2>1, <2>3, Zenon DEF PlaceInv
  <2>5. FoundInv /\ ReadyInv
    BY <2>3, Zenon DEF FoundInv, ReadyInv
  <2>6. DOMAIN out.sent = {} /\ 1 .. Len(out.sent) = {}
    BY <1>5
  <2>7. SentInv
    BY <2>3, <2>6, Zenon DEF SentInv, SentOnceInOrder
  <2> QED
    BY <2>2, <2>4, <2>5, <2>7, Zenon DEF WatcherInv
<1> QED
  BY <1>5, <1>8, <1>10, <1>11, Zenon DEF WatchInv, SeriesStayKnown

\* Every step keeps the invariant.
LEMMA WatchKeeps ==
  ASSUME WatchInv, [TailNext]_watchVars
  PROVE  WatchInv'
<1>1. CASE UNCHANGED watchVars
  <2>1. log' = log /\ w' = w /\ gc' = gc /\ qm' = qm /\ out' = out
    BY <1>1, Zenon DEF watchVars
  <2>2. WatcherType /\ WatcherInv /\ LogInv /\ SeriesStayKnown /\ LogType /\ log.first \in Nat /\ log.ckpt.idx \in Nat
    BY LogFields, Zenon DEF WatchInv, LogInv
  <2>3. LogInv' /\ Ever' = Ever
    BY <2>1, <2>2, LogStill, Zenon
  <2>4. SamePlaces /\ Len(log'.seg) \in Nat /\ Len(log.seg) \in Nat /\ Len(log'.seg) >= Len(log.seg)
    BY <2>1, <2>2, PlacesStay, Zenon
  <2>5. log.first <= log.first /\ log.ckpt.idx <= log.ckpt.idx
    BY <2>2
  <2>6. WatcherInv'
    BY <2>1, <2>2, <2>3, <2>4, <2>5, HeadQuiet, Zenon
  <2> QED
    BY <2>1, <2>2, <2>3, <2>6, Zenon DEF WatchInv, WatcherType, SeriesStayKnown
<1>2. CASE \/ \E r \in Refs : LogSample(r) \/ HeadGC(r)
           \/ w.pc \notin {"checkpoint", "find"} /\ \E k \in 1 .. MaxSegment : Checkpoint(k)
           \/ NextSegment \/ Truncate
  BY <1>2, HeadKeeps, Zenon
<1>3. CASE RunStep
  BY <1>3, RunStartsKeeps, ReadCheckpointKeeps, FindSegmentKeeps, Zenon DEF RunStep
<1>4. CASE ReadStep \/ SegmentTick
  BY <1>4, ReadStartsKeeps, ReadRecordKeeps, ReadEndsKeeps, Zenon DEF ReadStep
<1>5. CASE gc = {} /\ GcStarts
  BY <1>5, GcStartsKeeps, Zenon
<1>6. CASE GcStep
  BY <1>6, GcReadsKeeps, GcResetsKeeps, Zenon DEF GcStep
<1> QED
  BY <1>1, <1>2, <1>3, <1>4, <1>5, <1>6, Zenon DEF TailNext

\* The watcher passes the samples of the log on once and in their order, and none
\* of them is thrown away because its series was collected too early
\* (garbageCollectSeries, readSegment), for any number of series, samples,
\* segments, checkpoints and restarts.
THEOREM TailIsRight == TailSpec => []TailIsExact
<1>1. WatchInit => WatchInv
  BY WatchStart
<1>2. WatchInv /\ [TailNext]_watchVars => WatchInv'
  BY WatchKeeps
<1>3. WatchInv => TailIsExact
  BY Zenon DEF WatchInv, WatcherInv, SentInv, TailIsExact
<1> QED
  BY <1>1, <1>2, <1>3, PTL DEF TailSpec
================================================================================
