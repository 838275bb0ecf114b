---------------------------- MODULE MemPostings ----------------------------
(***************************************************************************)
(* The head's index of series by label (tsdb/index/postings.go) and the     *)
(* evaluation of matchers over it (PostingsForMatchers, tsdb/querier.go),   *)
(* while series are added and deleted.  A list of postings is a Go slice:   *)
(* adding to it writes to the array it shares with the slices readers hold, *)
(* until the array is full and a larger one takes its place.  A label       *)
(* value is a number, 0 the empty one; a series' labels are its value for   *)
(* each name.  A regular expression is the set of the values it matches.    *)
(***************************************************************************)
EXTENDS Integers, Sequences, FiniteSets, SequencesExt, FiniteSetsExt

CONSTANTS PLabels,     \* the labels of each series: <<name -> value>> by reference
          PNames,      \* label names
          PValues,     \* label values, 0 among them
          PQueries,    \* the sequences of matchers a query may have
          POld         \* the series that are in the index at first

ASSUME PostingsAssumption == 0 \in PValues /\ POld \subseteq DOMAIN PLabels

VARIABLES pidx,    \* the lists by <<name, value>>, added and deleted series, the deletion under way
          pqry     \* the query: matchers, step, the postings fetched, the result
pVars == <<pidx, pqry>>

PRefs == DOMAIN PLabels
AllKey == <<0, 0>>
KeysOf(s) == {AllKey} \cup {<<n, PLabels[s][n]>> : n \in {m \in PNames : PLabels[s][m] # 0}}
Keys == {AllKey} \cup PNames \X (PValues \ {0})

\* The capacity append gives a slice that is full.
Grow(cap) == IF cap = 0 THEN 1 ELSE 2 * cap
RECURSIVE CapFor(_, _)
CapFor(cap, n) == IF cap >= n THEN cap ELSE CapFor(Grow(cap), n)
ListOf(S) == [ids |-> SetToSortSeq(S, <), cap |-> CapFor(0, Cardinality(S))]

-----------------------------------------------------------------------------
\* What a reader that holds the slice r sees: the array as it is now, or as it was
\* when another took its place.
Sees(r) == IF r.live THEN SubSeq(pidx.lists[r.key].ids, 1, r.n) ELSE r.ids
Frozen(r, K) == IF r.live /\ r.key \in K THEN [r EXCEPT !.live = FALSE, !.ids = Sees(r)] ELSE r
\* The readers of the query, when the arrays of the lists K are replaced.
Detach(q, K) == [q EXCEPT !.got = [i \in DOMAIN q.got |-> [q.got[i] EXCEPT !.from = {Frozen(r, K) : r \in @}]]]

\* MemPostings.Add, under the lock: addFor each label and the key of all series;
\* append, then the new reference is moved to its place.
\* Faulty variant: the new reference stays at the end.
InsertLast(ids, s) == Append(ids, s)
Insert(ids, s) == SetToSortSeq(ToSet(ids) \cup {s}, <)
PAdd(s) ==
  /\ s \in PRefs \ (pidx.added \cup pidx.deleted)
  /\ LET full == {k \in KeysOf(s) : Len(pidx.lists[k].ids) = pidx.lists[k].cap}
     IN /\ pidx' = [pidx EXCEPT !.added = @ \cup {s},
                      !.lists = [k \in Keys |-> IF k \notin KeysOf(s) THEN @[k]
                                  ELSE [ids |-> Insert(@[k].ids, s),
                                        cap |-> IF k \in full THEN Grow(@[k].cap) ELSE @[k].cap]]]
        /\ pqry' = Detach(pqry, full)

\* MemPostings.Delete: the names, then for each name its values, then each list
\* under the lock.
Present(n) == {k \in Keys : k[1] = n /\ pidx.lists[k].ids # <<>>}
PDelete(D) ==
  /\ pidx.del.names = {} /\ pidx.del.todo = {} /\ pidx.del.ids = {} /\ D # {} /\ D \subseteq pidx.added
  /\ pidx' = [pidx EXCEPT !.del = [ids |-> D, names |-> {n \in {0} \cup PNames : Present(n) # {}}, todo |-> {}],
                          !.deleted = @ \cup D]
  /\ UNCHANGED pqry
DeleteName(n) ==
  /\ n \in pidx.del.names /\ pidx.del.todo = {}
  /\ pidx' = [pidx EXCEPT !.del.names = @ \ {n}, !.del.todo = Present(n)]
  /\ UNCHANGED pqry
DeleteList(k) ==
  LET list == pidx.lists[k]
      rest == SelectSeq(list.ids, LAMBDA s : s \notin pidx.del.ids)
  IN /\ k \in pidx.del.todo
     /\ pidx' = [pidx EXCEPT !.del.todo = @ \ {k},
                   !.lists[k] = IF rest = list.ids THEN @
                                ELSE [ids |-> rest, cap |-> IF rest = <<>> THEN 0 ELSE Len(list.ids)]]
     /\ pqry' = IF rest = list.ids THEN pqry ELSE Detach(pqry, {k})
DeleteDone ==
  /\ pidx.del.ids # {} /\ pidx.del.names = {} /\ pidx.del.todo = {}
  /\ pidx' = [pidx EXCEPT !.del.ids = {}, !.added = @ \ pidx.del.ids]
  /\ UNCHANGED pqry

-----------------------------------------------------------------------------
\* Matchers: a name, a kind, the value for = and != and the values for =~ and !~,
\* and whether the expression is an alternation of literals.
IsNot(m) == m.kind \in {"ne", "nre"}
MatchesValue(m, v) == IF IsNot(m) THEN v \notin m.vals ELSE v \in m.vals
InverseOf(m) == [m EXCEPT !.kind = CASE @ = "eq" -> "ne" [] @ = "ne" -> "eq" [] @ = "re" -> "nre" [] OTHER -> "re"]
SetMatches(m) == IF m.set THEN m.vals \ {0} ELSE {}
SeriesMatches(s, ms) == \A i \in DOMAIN ms : MatchesValue(ms[i], PLabels[s][ms[i].name])

\* The plan of PostingsForMatchers: the order of the matchers, and for each whether
\* its postings are intersected or subtracted and which values' lists they are:
\* fixed ones, or those of the label values present that (do not) match.
MustBeSet(ms, n) == \E i \in DOMAIN ms : ms[i].name = n /\ ~MatchesValue(ms[i], 0)
IsSubtracting(ms, m) == ~MustBeSet(ms, m.name) \/ (IsNot(m) /\ MatchesValue(m, 0))
Lookup(use, m, vals, like) == [use |-> use, name |-> m.name, fixed |-> vals, like |-> like]
\* postingsForMatcher and inversePostingsForMatcher.
Direct(use, m) ==
  IF m.kind = "eq" THEN Lookup(use, m, m.vals, "fixed")
  ELSE IF m.kind = "re" /\ SetMatches(m) # {} THEN Lookup(use, m, SetMatches(m), "fixed")
  ELSE Lookup(use, m, {v \in PValues : MatchesValue(m, v)}, "present")
Inversed(use, m) ==
  IF m.kind = "nre" /\ SetMatches(m) # {} THEN Lookup(use, m, SetMatches(m), "fixed")
  ELSE IF m.kind = "ne" THEN Lookup(use, m, m.vals, "fixed")
  ELSE IF m.kind = "eq" /\ m.vals = {0} THEN Lookup(use, m, PValues, "present")
  ELSE Lookup(use, m, {v \in PValues : ~MatchesValue(m, v)}, "present")
\* Faulty variant: a matcher of an empty value is looked up like any other.
PlanOfEmptyToo(ms, m) ==
  IF IsNot(m) /\ MatchesValue(m, 0) THEN Direct("not", InverseOf(m)) ELSE Direct("its", m)
PlanOf(ms, m) ==
  IF ~MustBeSet(ms, m.name) THEN Inversed("not", m)
  ELSE IF IsNot(m) /\ MatchesValue(m, 0) THEN Direct("not", InverseOf(m))
  ELSE IF IsNot(m) THEN Inversed("its", InverseOf(m))
  ELSE Direct("its", m)
All == [use |-> "its", name |-> 0, fixed |-> {0}, like |-> "fixed"]
\* Faulty variant: what is subtracted may be looked up before what it is subtracted from.
PlanInGivenOrder(ms) ==
  LET plan == [i \in DOMAIN ms |-> PlanOf(ms, ms[i])]
  IN IF \A i \in DOMAIN ms : IsSubtracting(ms, ms[i]) THEN plan \o <<All>> ELSE plan
Plan(ms) ==
  LET adds == SelectSeq(ms, LAMBDA m : ~IsSubtracting(ms, m))
      subs == SelectSeq(ms, LAMBDA m : IsSubtracting(ms, m))
      plan == [i \in DOMAIN (adds \o subs) |-> PlanOf(ms, (adds \o subs)[i])]
  IN IF adds = <<>> THEN <<All>> \o plan ELSE plan

-----------------------------------------------------------------------------
NoQuery == [ms |-> <<>>, got |-> <<>>, keys |-> {}, res |-> {}, base |-> {}, pc |-> "idle"]
QueryStart ==
  \E ms \in PQueries :
    /\ pqry.pc = "idle"
    /\ pqry' = [NoQuery EXCEPT !.ms = ms, !.pc = "plan",
                               !.base = {s \in pidx.added \ pidx.deleted : SeriesMatches(s, ms)}]
    /\ UNCHANGED pidx
\* LabelValues, or the values the matcher names.
QueryValues ==
  /\ pqry.pc = "plan" /\ Len(pqry.got) < Len(Plan(pqry.ms))
  /\ LET p == Plan(pqry.ms)[Len(pqry.got) + 1]
         keys == {<<p.name, v>> : v \in p.fixed} \cap Keys
     IN pqry' = [pqry EXCEPT !.pc = "fetch", !.got = Append(@, [use |-> p.use, from |-> {}]),
                   !.keys = IF p.like = "fixed" THEN keys ELSE keys \cap Present(p.name)]
  /\ UNCHANGED pidx
\* headIndexReader.Postings: the list of one value at a time.
QueryFetch ==
  /\ pqry.pc = "fetch"
  /\ \/ /\ pqry.keys = {}
        /\ pqry' = [pqry EXCEPT !.pc = "plan"]
     \/ \E k \in pqry.keys :
          pqry' = [pqry EXCEPT !.keys = @ \ {k},
                     !.got[Len(pqry.got)].from =
                        @ \cup {[key |-> k, n |-> Len(pidx.lists[k].ids), live |-> TRUE, ids |-> <<>>]}]
  /\ UNCHANGED pidx
\* Intersect and Without, read when all is fetched.
Union(g) == UNION {ToSet(Sees(r)) : r \in g.from}
QueryRead ==
  /\ pqry.pc = "plan" /\ Len(pqry.got) = Len(Plan(pqry.ms))
  /\ LET its == {i \in DOMAIN pqry.got : pqry.got[i].use = "its"}
     IN pqry' = [pqry EXCEPT !.pc = "done", !.got = <<>>,
                   !.res = {s \in PRefs : /\ \A i \in its : s \in Union(pqry.got[i])
                                          /\ \A i \in DOMAIN pqry.got \ its : s \notin Union(pqry.got[i])}]
  /\ UNCHANGED pidx

PInit ==
  /\ pidx = [lists |-> [k \in Keys |-> ListOf({s \in POld : k \in KeysOf(s)})],
             added |-> POld, deleted |-> {}, del |-> [ids |-> {}, names |-> {}, todo |-> {}]]
  /\ pqry = NoQuery
PNext ==
  \/ \E s \in PRefs : PAdd(s)
  \/ \E D \in SUBSET pidx.added : PDelete(D)
  \/ \E n \in {0} \cup PNames : DeleteName(n)
  \/ \E k \in Keys : DeleteList(k)
  \/ DeleteDone
  \/ QueryStart \/ QueryValues \/ QueryFetch \/ QueryRead
PSpec == PInit /\ [][PNext]_pVars

-----------------------------------------------------------------------------
\* When no deletion is under way the index holds each series under each of its
\* labels, in order, and nothing of the series that were deleted, although Delete
\* gives up the lock between any two lists.
PostingsAreExact ==
  pidx.del.ids = {} =>
    \A k \in Keys : pidx.lists[k].ids = SetToSortSeq({s \in pidx.added : k \in KeysOf(s)}, <)

\* A query finds every series that matches and is in the index from its beginning
\* to its end, whatever else is added and deleted meanwhile.
MatchingIsFound == pqry.pc = "done" => pqry.base \ pidx.deleted \subseteq pqry.res

\* A query finds no series that does not match, but for ones that are being
\* deleted and that it will not find by their reference: the set it subtracts from never
\* contains series that did not exist when the set it subtracts was constructed.
FoundIsMatching == pqry.pc = "done" => \A s \in pqry.res \ pidx.deleted : SeriesMatches(s, pqry.ms)

\* Queries find the series that match, while series are added and deleted.
SelectionIsExact == PostingsAreExact /\ MatchingIsFound /\ FoundIsMatching
=============================================================================
