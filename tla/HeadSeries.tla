----------------------------- MODULE HeadSeries -----------------------------
(***************************************************************************)
(* The life of a series of the head (tsdb/head.go, tsdb/head_append.go): an *)
(* appender finds it by reference or by its labels or creates it, marks it  *)
(* as having samples to commit, and commits or rolls back; the collection   *)
(* removes series that have nothing left, from the hash map, from the map   *)
(* by reference, and from the postings.  Each lock region is one action.    *)
(* Labels are model values; a series' chunks are the set of the times of    *)
(* its samples.                                                             *)
(***************************************************************************)
EXTENDS Integers, Sequences, FiniteSets

CONSTANTS HsLabels,       \* label sets
          HsKinds,        \* kinds of samples: "float", "histogram", "floathistogram"
          HsAppenders,    \* goroutines that append
          HsTimes,        \* sample times
          HsMaxSeries,    \* bound on series created
          HsMaxGc         \* bound on collections

ASSUME SeriesAssumption == HsMaxSeries \in Nat \ {0} /\ HsMaxGc \in Nat /\ HsTimes \subseteq Nat

VARIABLES hs,    \* series objects by reference; byHash; byID; post; lastID
          ap,    \* what each appender does: pc, lset, ref, t, its batch, refs it has cached
          gc     \* the collection: the labels still to visit, the deleted references, runs, mint
hsVars == <<hs, ap, gc>>

NewSeries(l) == [lset |-> l, times |-> {}, pending |-> FALSE]

HsInit ==
  /\ hs = [objs |-> <<>>, byHash |-> [l \in HsLabels |-> 0], byID |-> {}, post |-> {}, acked |-> {}, nilSeries |-> FALSE]
  /\ ap = [a \in HsAppenders |-> [pc |-> "idle", lset |-> CHOOSE l \in HsLabels : TRUE, ref |-> 0,
                                  t |-> 0, batch |-> {}, exs |-> {}]]
  /\ gc = [todo |-> {}, deleted |-> {}, runs |-> 0, mint |-> 0, on |-> FALSE]

-----------------------------------------------------------------------------
\* headAppender.Append: the reference the caller gives may be one returned before
\* for these labels; getByID, then getByHash, then a new reference.
BeginAppend(a, l, t) ==
  \E r \in {0} \cup {s \in DOMAIN hs.objs : hs.objs[s].lset = l} :
    /\ ap[a].pc = "idle"
    /\ ap' = [ap EXCEPT ![a] = [@ EXCEPT !.lset = l, !.t = t, !.ref = r,
                                         !.pc = IF r \in hs.byID THEN "mark" ELSE "hash"]]
    /\ UNCHANGED <<hs, gc>>
LookupHash(a) ==
  /\ ap[a].pc = "hash"
  /\ LET s == hs.byHash[ap[a].lset]
     IN /\ s # 0 \/ Len(hs.objs) < HsMaxSeries
        /\ hs' = IF s # 0 THEN hs ELSE [hs EXCEPT !.objs = Append(@, NewSeries(ap[a].lset))]
        /\ ap' = [ap EXCEPT ![a].ref = IF s # 0 THEN s ELSE Len(hs'.objs),
                            ![a].pc = IF s # 0 THEN "mark" ELSE "set"]
  /\ UNCHANGED gc

\* stripeSeries.getOrSet: first the hash map, then the map by reference.
\* Faulty variant: the labels are not looked up again under the lock.
SetHashBlind(a) ==
  /\ ap[a].pc = "set"
  /\ hs' = [hs EXCEPT !.byHash[ap[a].lset] = ap[a].ref]
  /\ ap' = [ap EXCEPT ![a].pc = "byid"]
  /\ UNCHANGED gc
SetHash(a) ==
  /\ ap[a].pc = "set"
  /\ LET prev == hs.byHash[ap[a].lset]
     IN IF prev # 0
        THEN ap' = [ap EXCEPT ![a].ref = prev, ![a].pc = "mark"] /\ UNCHANGED hs
        ELSE /\ hs' = [hs EXCEPT !.byHash[ap[a].lset] = ap[a].ref]
             /\ ap' = [ap EXCEPT ![a].pc = "byid"]
  /\ UNCHANGED gc
SetID(a) ==
  /\ ap[a].pc = "byid"
  /\ hs' = [hs EXCEPT !.byID = @ \cup {ap[a].ref}]
  /\ ap' = [ap EXCEPT ![a].pc = "post"]
  /\ UNCHANGED gc
AddPostings(a) ==
  /\ ap[a].pc = "post"
  /\ hs' = [hs EXCEPT !.post = @ \cup {ap[a].ref}]
  /\ ap' = [ap EXCEPT ![a].pc = "mark"]
  /\ UNCHANGED gc

\* The sample is accepted, and the series marked, or it is out of order.
Mark(a) ==
  \E k \in HsKinds :
    /\ ap[a].pc = "mark"
    /\ LET s == ap[a].ref
           ok == \A t \in hs.objs[s].times : t < ap[a].t
       IN /\ hs' = IF ok THEN [hs EXCEPT !.objs[s].pending = TRUE] ELSE hs
          /\ ap' = [ap EXCEPT ![a].pc = "idle", ![a].batch = IF ok THEN @ \cup {<<s, ap[a].t, k>>} ELSE @]
    /\ UNCHANGED gc
\* headAppender.AppendExemplar, of the series found by reference or by labels.
AppendExemplar(a, l) ==
  \E s \in {r \in hs.byID \cup {hs.byHash[l]} : r # 0 /\ hs.objs[r].lset = l} :
    /\ ap[a].pc = "idle"
    /\ ap' = [ap EXCEPT ![a].exs = @ \cup {s}]
    /\ UNCHANGED <<hs, gc>>

\* headAppender.Commit: the exemplars, whose series are looked up again, then the
\* samples one series at a time; a sample that is out of order by now is not added.
Rest(a, batch, exs, pc) ==
  [ap EXCEPT ![a].batch = batch, ![a].exs = exs, ![a].pc = IF batch = {} /\ exs = {} THEN "idle" ELSE pc]
CommitExemplar(a) ==
  \E s \in ap[a].exs :
    /\ ap[a].pc \in {"idle", "commit"}
    /\ hs' = [hs EXCEPT !.nilSeries = @ \/ s \notin hs.byID]
    /\ ap' = Rest(a, ap[a].batch, ap[a].exs \ {s}, "commit")
    /\ UNCHANGED gc
\* Faulty variant: samples are committed first.
ExemplarsAnyTime(a) == TRUE
ExemplarsFirst(a) == ap[a].exs = {}
CommitSample(a) ==
  \E b \in ap[a].batch :
    /\ ap[a].pc \in {"idle", "commit"} /\ ExemplarsFirst(a)
    /\ LET s == b[1]
           ok == \A t \in hs.objs[s].times : t < b[2]
       IN hs' = [hs EXCEPT !.objs[s].pending = FALSE,
                           !.objs[s].times = IF ok THEN @ \cup {b[2]} ELSE @,
                           !.acked = IF ok THEN @ \cup {<<hs.objs[s].lset, b[2]>>} ELSE @]
    /\ ap' = Rest(a, ap[a].batch \ {b}, ap[a].exs, "commit")
    /\ UNCHANGED gc
\* headAppender.Rollback, which passes over the float histograms.
\* Faulty variant: the flag of histograms is left as it is, too.
ResetFloats == {"float"}
ResetKinds == {"float", "histogram"}
RollbackSample(a) ==
  \E b \in ap[a].batch :
    /\ ap[a].pc \in {"idle", "rollback"}
    /\ hs' = IF b[3] \in ResetKinds THEN [hs EXCEPT !.objs[b[1]].pending = FALSE] ELSE hs
    /\ ap' = Rest(a, ap[a].batch \ {b}, {}, "rollback")
    /\ UNCHANGED gc

-----------------------------------------------------------------------------
\* Head.gc: a new minimum time, then each entry of the hash map under its locks,
\* then the postings.
GcStart(mint) ==
  /\ ~gc.on /\ gc.runs < HsMaxGc /\ mint >= gc.mint
  /\ gc' = [gc EXCEPT !.on = TRUE, !.todo = HsLabels, !.deleted = {}, !.runs = @ + 1, !.mint = mint]
  /\ UNCHANGED <<hs, ap>>
\* Faulty variant: samples that wait for their commit do not keep a series.
NothingLeftButPending(s) == \A t \in hs.objs[s].times : t < gc.mint
NothingLeft(s) == (\A t \in hs.objs[s].times : t < gc.mint) /\ ~hs.objs[s].pending
GcSeries(l) ==
  LET s == hs.byHash[l]
  IN /\ gc.on /\ l \in gc.todo
     /\ IF s = 0 THEN hs' = hs /\ gc' = [gc EXCEPT !.todo = @ \ {l}]
        ELSE IF NothingLeft(s)
        THEN /\ hs' = [hs EXCEPT !.objs[s].times = {}, !.byHash[l] = 0, !.byID = @ \ {s}]
             /\ gc' = [gc EXCEPT !.todo = @ \ {l}, !.deleted = @ \cup {s}]
        ELSE /\ hs' = [hs EXCEPT !.objs[s].times = {t \in @ : t >= gc.mint}]
             /\ gc' = [gc EXCEPT !.todo = @ \ {l}]
     /\ UNCHANGED ap
GcPostings ==
  /\ gc.on /\ gc.todo = {}
  /\ hs' = [hs EXCEPT !.post = @ \ gc.deleted]
  /\ gc' = [gc EXCEPT !.on = FALSE, !.deleted = {}]
  /\ UNCHANGED ap

AppenderStep(a) ==
  \/ \E l \in HsLabels, t \in HsTimes : BeginAppend(a, l, t)
  \/ LookupHash(a) \/ SetHash(a) \/ SetID(a) \/ AddPostings(a) \/ Mark(a)
  \/ \E l \in HsLabels : AppendExemplar(a, l)
  \/ CommitExemplar(a) \/ CommitSample(a) \/ RollbackSample(a)

HsNext ==
  \/ \E a \in HsAppenders : AppenderStep(a)
  \/ \E mint \in HsTimes : GcStart(mint)
  \/ \E l \in HsLabels : GcSeries(l)
  \/ GcPostings
HsSpec == HsInit /\ [][HsNext]_hsVars

-----------------------------------------------------------------------------
\* What a query finds: the postings give references, the map gives the series.
Found(l) == {s \in hs.post \cap hs.byID : hs.objs[s].lset = l}
\* What its creator has yet to enter in the maps.
Entering(l) == {ap[a].ref : a \in {b \in HsAppenders : ap[b].pc \in {"byid", "post"} /\ ap[b].lset = l}}

\* A sample that was committed and is not older than what collections removed is
\* found by a query, at the latest once the creation of its series is finished: it
\* was not added to a series that is in no map any more.
CommittedIsFound ==
  \A x \in hs.acked : x[2] >= gc.mint => \E s \in Found(x[1]) \cup Entering(x[1]) : x[2] \in hs.objs[s].times

\* A query never meets two series with the same labels.
NoTwins == \A l \in HsLabels : Cardinality(Found(l)) <= 1

\* pendingCommit says whether there are samples waiting to be committed to a series:
\* a series with samples waiting has it,
PendingIsMarked ==
  \A a \in HsAppenders : \A b \in ap[a].batch : hs.objs[b[1]].pending
\* and one that has it has samples waiting, so that it does not stay for ever.
MarkedIsPending ==
  \A s \in DOMAIN hs.objs : hs.objs[s].pending => \E a \in HsAppenders : \E b \in ap[a].batch : b[1] = s

\* Commit finds the series of every exemplar: it dereferences what it looked up
\* without asking.
ExemplarSeriesExist == ~hs.nilSeries

\* The two maps, the postings and the flags of series agree with what is committed.
SeriesAreFound == CommittedIsFound /\ NoTwins /\ MarkedIsPending /\ ExemplarSeriesExist
=============================================================================
