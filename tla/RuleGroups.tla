------------------------------ MODULE RuleGroups ------------------------------
(***************************************************************************)
(* The rule manager (rules/manager.go): groups are loaded, replaced and    *)
(* removed by Update while their goroutines (Group.run) evaluate rules,    *)
(* and the series a rule no longer returns, or that belonged to a rule or  *)
(* a group that is gone, get a staleness marker.                           *)
(*                                                                         *)
(* A group instance is a number; a rule is its name (with its labels). The *)
(* storage is external: it keeps the newest sample of each series, live or *)
(* a staleness marker, and refuses samples that are not newer.             *)
(***************************************************************************)
EXTENDS Integers, Sequences, FiniteSets, Functions

CONSTANTS
    RuleConfigs,    \* what may be configured: group key -> sequence of rules
    RuleSeries,     \* rule -> the series it may return
    MaxInstances, MaxClock, MaxCommitErrors   \* bounds

ASSUME GroupsAssumption ==
    /\ \A cfg \in RuleConfigs :
          IsFiniteSet(DOMAIN cfg) /\ \A k \in DOMAIN cfg : cfg[k] \in Seq(DOMAIN RuleSeries)
    /\ MaxInstances \in Nat /\ MaxClock \in Nat /\ MaxCommitErrors \in Nat

VARIABLES
    instances,      \* the Group objects, by number
    groups,         \* Manager.groups: key -> number
    update,         \* the Update in progress: key -> number, or NoUpdate
    blockClosed,    \* Manager.block is closed: start was called
    managerDone,    \* Manager.done is closed: Stop has finished
    stopping,       \* Stop holds the lock and waits for the groups
    lastSample,     \* series -> newest sample in storage
    clock,
    givenUp,        \* series whose staleness marker could not be committed
    commitErrors

groupVars == <<instances, groups, update, blockClosed, managerDone, stopping,
               lastSample, clock, givenUp, commitErrors>>

NoUpdate == [k \in {"none"} |-> 0]
RuleSeriesAll == UNION Range(RuleSeries)
Terminated == {"cleanup", "term"}

GroupsInit ==
    /\ instances = <<>>
    /\ groups = <<>>
    /\ update = NoUpdate
    /\ blockClosed = FALSE
    /\ managerDone = FALSE
    /\ stopping = FALSE
    /\ lastSample = [s \in RuleSeriesAll |-> [t |-> 0, live |-> FALSE]]
    /\ clock = 1
    /\ givenUp = {}
    /\ commitErrors = 0

-------------------------------------------------------------------------------
(* Appending to storage *)
Store(last, series, ts, isLive) ==
    [s \in RuleSeriesAll |->
        IF s \in series /\ ts > last[s].t THEN [t |-> ts, live |-> isLive]
        ELSE last[s]]
Accepted(last, series, ts) == {s \in series : ts > last[s].t}

-------------------------------------------------------------------------------
(* Manager.Update *)

\* NewGroup; from is the old group whose state will be copied, 0 for none.
NewGroup(rules, from) ==
    [rules |-> rules, prev |-> [i \in 1..Len(rules) |-> {}], stale |-> {},
     pc |-> "new", from |-> from, done |-> FALSE, markStale |-> FALSE,
     ts |-> 0, rule |-> 0]

\* Group.stop closes done; the caller then waits for terminated.
Stopped(g) == [g EXCEPT !.done = TRUE]

\* Group.Equals: only an unchanged group goes on running.
Unchanged(cfg, k) == k \in DOMAIN groups /\ instances[groups[k]].rules = cfg[k]

Fresh(cfg) == {k \in DOMAIN cfg : ~Unchanged(cfg, k)}
Removed(cfg) == {groups[k] : k \in (DOMAIN groups) \ DOMAIN cfg}
Changed(cfg) == {groups[k] : k \in Fresh(cfg) \cap DOMAIN groups}
OldGroup(k) == IF k \in DOMAIN groups THEN groups[k] ELSE 0
Reloaded(cfg, n) ==
    CASE n \in Removed(cfg) -> [Stopped(instances[n]) EXCEPT !.markStale = TRUE]
      [] n \in Changed(cfg) \ Removed(cfg) -> Stopped(instances[n])
      [] OTHER -> instances[n]

\* The fresh groups are made in any order, that of a Go map.
UpdateStart ==
    /\ update = NoUpdate /\ ~stopping /\ ~managerDone
    /\ \E cfg \in RuleConfigs :
        LET old   == Len(instances)
            total == old + Cardinality(Fresh(cfg))
        IN  /\ Fresh(cfg) # {} \/ Removed(cfg) # {}
            /\ total <= MaxInstances
            /\ \E number \in Bijection(Fresh(cfg), (old + 1)..total) :
                /\ instances' = [n \in 1..total |->
                       IF n <= old THEN Reloaded(cfg, n)
                       ELSE LET k == CHOOSE k \in Fresh(cfg) : number[k] = n
                            IN  NewGroup(cfg[k], OldGroup(k))]
                /\ update' = [k \in DOMAIN cfg |->
                       IF k \in Fresh(cfg) THEN number[k] ELSE groups[k]]
    /\ UNCHANGED <<groups, blockClosed, managerDone, stopping, lastSample,
                   clock, givenUp, commitErrors>>

\* Group.CopyState: rules are matched by name and labels, the first with the
\* first, the second with the second.
Positions(rules, r, upTo) == {i \in 1..upTo : rules[i] = r}
Occurrence(rules, i) == Cardinality(Positions(rules, rules[i], i))
MatchOf(g, from, i) ==
    LET same == {j \in 1..Len(from.rules) :
                    /\ from.rules[j] = g.rules[i]
                    /\ Occurrence(from.rules, j) = Occurrence(g.rules, i)}
    IN  IF same = {} THEN 0 ELSE CHOOSE j \in same : TRUE
\* A name of which the old group has more rules than the new one: the series of
\* all old rules of that name are taken for stale.
Unmatched(g, from) ==
    {j \in 1..Len(from.rules) :
        Cardinality(Positions(from.rules, from.rules[j], Len(from.rules)))
            > Cardinality(Positions(g.rules, from.rules[j], Len(g.rules)))}
\* Faulty variant: the series of deleted rules are not taken over.
CopyStateForgets(g, from) ==
    [g EXCEPT !.prev = [i \in 1..Len(g.rules) |->
                  IF MatchOf(g, from, i) = 0 THEN {} ELSE from.prev[MatchOf(g, from, i)]],
              !.stale = from.stale]
CopyState(g, from) ==
    [g EXCEPT !.prev = [i \in 1..Len(g.rules) |->
                  IF MatchOf(g, from, i) = 0 THEN {} ELSE from.prev[MatchOf(g, from, i)]],
              !.stale = from.stale
                  \cup UNION {from.prev[j] : j \in Unmatched(g, from)}]

\* The goroutine of a new group: wait for the old one, copy, wait for start.
StartGroup(n) ==
    LET g == instances[n] IN
    /\ g.pc = "new"
    /\ g.from # 0 => instances[g.from].pc \in Terminated
    /\ instances' = [instances EXCEPT
          ![n] = [(IF g.from = 0 THEN g ELSE CopyState(g, instances[g.from]))
                     EXCEPT !.pc = "blocked"]]
    /\ UNCHANGED <<groups, update, blockClosed, managerDone, stopping,
                   lastSample, clock, givenUp, commitErrors>>

\* wg.Wait: all copies are made and all removed groups have terminated.
UpdateEnd ==
    /\ update # NoUpdate
    /\ \A k \in DOMAIN update : instances[update[k]].pc # "new"
    /\ \A n \in Range(groups) \ Range(update) : instances[n].pc \in Terminated
    /\ groups' = update
    /\ update' = NoUpdate
    /\ UNCHANGED <<instances, blockClosed, managerDone, stopping, lastSample,
                   clock, givenUp, commitErrors>>

StartManager ==
    /\ ~blockClosed
    /\ blockClosed' = TRUE
    /\ UNCHANGED <<instances, groups, update, managerDone, stopping,
                   lastSample, clock, givenUp, commitErrors>>

\* Stop takes the lock that Update holds.
StopStart ==
    /\ update = NoUpdate /\ ~stopping /\ ~managerDone
    /\ stopping' = TRUE
    /\ instances' = [n \in 1..Len(instances) |->
          IF n \in Range(groups) THEN Stopped(instances[n]) ELSE instances[n]]
    /\ UNCHANGED <<groups, update, blockClosed, managerDone, lastSample, clock,
                   givenUp, commitErrors>>

StopEnd ==
    /\ stopping
    /\ \A n \in Range(groups) : instances[n].pc \in Terminated
    /\ stopping' = FALSE
    /\ managerDone' = TRUE
    /\ UNCHANGED <<instances, groups, update, blockClosed, lastSample, clock,
                   givenUp, commitErrors>>

-------------------------------------------------------------------------------
(* Group.run *)
SetGroup(n, g) == instances' = [instances EXCEPT ![n] = g]

RunGroup(n) ==
    /\ instances[n].pc = "blocked"
    /\ blockClosed
    /\ SetGroup(n, [instances[n] EXCEPT !.pc = "wait"])
    /\ UNCHANGED <<groups, update, blockClosed, managerDone, stopping,
                   lastSample, clock, givenUp, commitErrors>>

\* The slot of the group has come (first after the wait, then by the ticker).
EvalStart(n) ==
    /\ instances[n].pc \in {"wait", "idle"}
    /\ clock < MaxClock
    /\ clock' = clock + 1
    /\ SetGroup(n, [instances[n] EXCEPT !.pc = "eval", !.ts = clock + 1, !.rule = 1])
    /\ UNCHANGED <<groups, update, blockClosed, managerDone, stopping,
                   lastSample, givenUp, commitErrors>>

\* Group.Eval checks done before every rule.
EvalAborted(n) ==
    LET g == instances[n] IN
    /\ g.pc = "eval" /\ g.rule <= Len(g.rules) /\ g.done
    /\ SetGroup(n, [g EXCEPT !.pc = "idle"])
    /\ UNCHANGED <<groups, update, blockClosed, managerDone, stopping,
                   lastSample, clock, givenUp, commitErrors>>

\* One rule: the query fails; or its samples and the staleness markers of the
\* series it returned before are appended and committed; or the commit fails.
EvalRule(n) ==
    LET g == instances[n]
        r == g.rules[g.rule] IN
    /\ g.pc = "eval" /\ g.rule <= Len(g.rules) /\ ~g.done
    /\ \/ /\ SetGroup(n, [g EXCEPT !.rule = @ + 1])
          /\ UNCHANGED <<lastSample, commitErrors>>
       \/ \E res \in SUBSET RuleSeries[r] :
             LET returned == Accepted(lastSample, res, g.ts)
                 gone     == g.prev[g.rule] \ returned
             IN  /\ lastSample' = Store(Store(lastSample, res, g.ts, TRUE),
                                        gone, g.ts, FALSE)
                 /\ SetGroup(n, [g EXCEPT !.rule = @ + 1, !.prev[g.rule] = returned])
                 /\ UNCHANGED commitErrors
       \/ /\ commitErrors < MaxCommitErrors
          /\ commitErrors' = commitErrors + 1
          /\ SetGroup(n, [g EXCEPT !.rule = @ + 1])
          /\ UNCHANGED lastSample
    /\ UNCHANGED <<groups, update, blockClosed, managerDone, stopping, clock, givenUp>>

\* cleanupStaleSeries at the end of Eval.
EvalEnd(n) ==
    LET g == instances[n] IN
    /\ g.pc = "eval" /\ g.rule > Len(g.rules)
    /\ \/ /\ lastSample' = Store(lastSample, g.stale, g.ts, FALSE)
          /\ SetGroup(n, [g EXCEPT !.pc = "idle", !.stale = {}])
          /\ UNCHANGED commitErrors
       \/ /\ commitErrors < MaxCommitErrors /\ g.stale # {}
          /\ commitErrors' = commitErrors + 1
          /\ SetGroup(n, [g EXCEPT !.pc = "idle"])
          /\ UNCHANGED lastSample
    /\ UNCHANGED <<groups, update, blockClosed, managerDone, stopping, clock, givenUp>>

\* Faulty variant: the wait for the first slot does not listen to done.
RunGroupEndsLate(n) ==
    LET g == instances[n] IN
    /\ g.pc = "idle" /\ g.done
    /\ SetGroup(n, IF g.markStale
                   THEN [g EXCEPT !.pc = "cleanup", !.ts = clock + 1,
                                  !.stale = @ \cup UNION Range(g.prev), !.prev = <<>>]
                   ELSE [g EXCEPT !.pc = "term"])
    /\ clock' = clock + 1
    /\ UNCHANGED <<groups, update, blockClosed, managerDone, stopping,
                   lastSample, givenUp, commitErrors>>
\* run returns. The deferred function that hands the series to the cleanup
\* goroutine is only there after the wait for the first slot.
RunGroupEnds(n) ==
    LET g == instances[n] IN
    /\ g.pc \in {"wait", "idle"} /\ g.done
    /\ SetGroup(n, IF g.pc = "idle" /\ g.markStale
                   THEN [g EXCEPT !.pc = "cleanup", !.ts = clock + 1,
                                  !.stale = @ \cup UNION Range(g.prev),
                                  !.prev = <<>>]
                   ELSE [g EXCEPT !.pc = "term"])
    /\ clock' = clock + 1
    /\ UNCHANGED <<groups, update, blockClosed, managerDone, stopping,
                   lastSample, givenUp, commitErrors>>

\* Two intervals after a removed group ended: the markers get the time at
\* which it ended.
\* Faulty variant: the markers get the current time.
CleanupTsNow(g) == clock + 1
CleanupTs(g) == g.ts
CleanupRemoved(n) ==
    LET g == instances[n] IN
    /\ g.pc = "cleanup"
    /\ \/ /\ ~managerDone
          /\ lastSample' = Store(lastSample, g.stale, CleanupTs(g), FALSE)
          /\ UNCHANGED <<givenUp, commitErrors>>
       \/ /\ ~managerDone /\ commitErrors < MaxCommitErrors
          /\ commitErrors' = commitErrors + 1
          /\ givenUp' = givenUp \cup g.stale
          /\ UNCHANGED lastSample
       \/ managerDone /\ UNCHANGED <<lastSample, givenUp, commitErrors>>
    /\ SetGroup(n, [g EXCEPT !.pc = "term"])
    /\ UNCHANGED <<groups, update, blockClosed, managerDone, stopping, clock>>

RunGroupStep(n) ==
    \/ RunGroup(n) \/ EvalAborted(n) \/ EvalRule(n) \/ EvalEnd(n)
    \/ RunGroupEnds(n) \/ CleanupRemoved(n)

GroupsNext ==
    \/ UpdateStart \/ UpdateEnd \/ StartManager \/ StopStart \/ StopEnd
    \/ \E n \in 1..Len(instances) :
          StartGroup(n) \/ EvalStart(n) \/ RunGroupStep(n)

\* Every goroutine is scheduled; the process calls Run once it is ready.
GroupsFairness ==
    /\ WF_groupVars(StartManager) /\ WF_groupVars(UpdateEnd) /\ WF_groupVars(StopEnd)
    /\ \A n \in 1..MaxInstances :
          WF_groupVars(n <= Len(instances) /\ (StartGroup(n) \/ RunGroupStep(n)))

GroupsSpec == GroupsInit /\ [][GroupsNext]_groupVars /\ GroupsFairness

\* The same where a reload comes only when every group has been evaluated once:
\* run's deferred function is not there before the first evaluation, so a group
\* that is removed while it waits for its slot leaves no markers.
SettledUpdateStart ==
    (\A n \in 1..Len(instances) : instances[n].pc \notin {"blocked", "wait"}) /\ UpdateStart
SettledNext ==
    \/ SettledUpdateStart \/ UpdateEnd \/ StartManager \/ StopStart \/ StopEnd
    \/ \E n \in 1..Len(instances) :
          StartGroup(n) \/ EvalStart(n) \/ RunGroupStep(n)
SettledSpec == GroupsInit /\ [][SettledNext]_groupVars
-------------------------------------------------------------------------------
Tracked(s) ==
    \E n \in 1..Len(instances) :
        /\ instances[n].pc # "term" \/ \E m \in 1..Len(instances) :
              instances[m].pc = "new" /\ instances[m].from = n
        /\ s \in instances[n].stale \cup UNION Range(instances[n].prev)

\* A series whose newest sample is live is remembered by a group that will
\* mark it stale when its rule stops returning it: no evaluation, reload or
\* removal of a group leaves a live series behind (Group.Eval, CopyState,
\* run's deferred cleanup), until the manager is stopped.
LiveSeriesTracked ==
    ~managerDone /\ ~stopping =>
        \A s \in RuleSeriesAll : lastSample[s].live => Tracked(s) \/ s \in givenUp

\* "Wait for 2 intervals to give the opportunity to renamed rules to insert new
\* series": a removed group's cleanup leaves a series alone that another group
\* has written since.
RenamedRulesStayLive ==
    [][\A n \in 1..Len(instances) : CleanupRemoved(n) =>
          \A s \in RuleSeriesAll : lastSample[s].live /\ lastSample[s].t > instances[n].ts
              => lastSample'[s].live]_groupVars

\* Update and Stop wait for group goroutines and for start, and both return.
ManagerCallsReturn == (update # NoUpdate \/ stopping) ~> (update = NoUpdate /\ ~stopping)
===============================================================================
