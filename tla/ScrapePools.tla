---------------------------- MODULE ScrapePools ----------------------------
(***************************************************************************)
(* The scrape manager and its pools (scrape/manager.go, scrapePool and the *)
(* run method of scrapeLoop in scrape/scrape.go).  The manager's Run       *)
(* receives target sets and triggers the reloader goroutine, whose reload  *)
(* creates missing pools and starts a Sync goroutine for each; ApplyConfig *)
(* stops or reloads the pools whose job changed; Stop stops them all.      *)
(* Sync, reload and stop of one pool exclude each other through its mtx,   *)
(* which each holds until the loops it stops have terminated.  A loop that *)
(* reload starts is started by a goroutine that outlives the reload.       *)
(***************************************************************************)
EXTENDS Integers, FiniteSets, Functions

CONSTANTS
  Jobs, ScrapeTargets,
  JobConfigs,     \* the configurations of a job: [limit, bad]: its target_limit (0: none)
                  \* and whether no HTTP client can be made from it
  MaxPools, MaxLoops, MaxTsets, MaxJobConfigs

VARIABLES
  mgr,      \* [configs: job -> config or <<>>, tsets: job -> targets, trigger,
            \*  mtx: holder of mtxScrape ("", "apply" or "stop"), todo: pools still to visit,
            \*  grace: graceShut is closed, stopped: Stop has been called,
            \*  current: the last target sets came after the last configuration]
  poolOf,   \* job -> id of its pool, 0 when it has none
  pool,     \* id -> [job, config, loops: target -> loop, op: holder of mtx, wait, ctx]
  syncs,    \* the Sync goroutines of the reload under way: [pool, targets, pc]
  loop,     \* id -> [pool, target, pc, cancelled, forced, after, then]
  sbudget   \* [pools, tsets, configs] that have been made

scrapeVars == <<mgr, poolOf, pool, syncs, loop, sbudget>>

PoolIDs == 1 .. MaxPools
LoopIDs == 1 .. MaxLoops
NoConfig == [limit |-> 0, bad |-> FALSE]
NoPool == [job |-> CHOOSE j \in Jobs : TRUE, config |-> NoConfig, loops |-> <<>>,
           op |-> "", wait |-> {}, ctx |-> FALSE]
NoLoop == [pool |-> 0, target |-> CHOOSE t \in ScrapeTargets : TRUE, pc |-> "none",
           cancelled |-> FALSE, forced |-> FALSE, after |-> 0, then |-> FALSE]

ScrapeAssumption ==
  /\ IsFiniteSet(Jobs) /\ Jobs # {} /\ IsFiniteSet(ScrapeTargets) /\ ScrapeTargets # {}
  /\ \A c \in JobConfigs : c.limit \in Nat /\ c.bad \in BOOLEAN
  /\ MaxPools \in Nat /\ MaxLoops \in Nat
ASSUME ScrapeAssumption

ScrapeInit ==
  /\ mgr = [configs |-> [j \in Jobs |-> <<>>], tsets |-> <<>>, trigger |-> FALSE, mtx |-> "",
            todo |-> {}, grace |-> FALSE, stopped |-> FALSE, current |-> FALSE]
  /\ poolOf = [j \in Jobs |-> 0]
  /\ pool = [p \in PoolIDs |-> NoPool]
  /\ syncs = {} /\ loop = [l \in LoopIDs |-> NoLoop]
  /\ sbudget = [pools |-> 0, tsets |-> 0, configs |-> 0]

LoopsOf(p) == {pool[p].loops[t] : t \in DOMAIN pool[p].loops}
Exceeds(p, n) == pool[p].config.limit # 0 /\ n > pool[p].config.limit
Stopped(ls) == \A l \in ls : loop[l].pc = "stopped"
FreeLoops == {l \in LoopIDs : loop[l].pc = "none"}
\* Ids for the loops of ts, one each.
NewLoops(ts) == CHOOSE f \in [ts -> FreeLoops] : \A t, u \in ts : f[t] = f[u] => t = u
\* The loops that were stopped and waited for are forgotten, their ids free again.
Forget(ls) == [l \in LoopIDs |-> IF l \in ls THEN NoLoop
                                 ELSE IF loop[l].after \in ls THEN [loop[l] EXCEPT !.after = 0]
                                 ELSE loop[l]]

\* Faulty variant: new target sets do not trigger a reload.
UpdateTsetsQuietly ==
  /\ ~mgr.grace /\ mgr.mtx = "" /\ sbudget.tsets < MaxTsets
  /\ \E ts \in UNION {[js -> SUBSET ScrapeTargets] : js \in SUBSET Jobs} :
       mgr' = [mgr EXCEPT !.tsets = ts, !.current = TRUE]
  /\ sbudget' = [sbudget EXCEPT !.tsets = @ + 1]
  /\ UNCHANGED <<poolOf, pool, syncs, loop>>
\* Run: a new map of target sets is stored and a reload triggered.
UpdateTsets ==
  /\ ~mgr.grace /\ mgr.mtx = "" /\ sbudget.tsets < MaxTsets
  /\ \E ts \in UNION {[js -> SUBSET ScrapeTargets] : js \in SUBSET Jobs} :
       mgr' = [mgr EXCEPT !.tsets = ts, !.trigger = TRUE, !.current = TRUE]
  /\ sbudget' = [sbudget EXCEPT !.tsets = @ + 1]
  /\ UNCHANGED <<poolOf, pool, syncs, loop>>

\* reloader and reload: every configured set without a pool gets one, and the
\* pools are synced in parallel.
Reload ==
  LET usable == {j \in DOMAIN mgr.tsets : mgr.configs[j] # <<>>}
      new    == {j \in usable : poolOf[j] = 0 /\ ~mgr.configs[j][1].bad}
      ids    == sbudget.pools + 1 .. sbudget.pools + Cardinality(new)
  IN /\ mgr.trigger /\ syncs = {} /\ mgr.mtx = "" /\ sbudget.pools + Cardinality(new) <= MaxPools
     /\ mgr' = [mgr EXCEPT !.trigger = FALSE]
     /\ \E f \in [new -> ids] :
          /\ \A i, j \in new : f[i] = f[j] => i = j
          /\ poolOf' = [j \in Jobs |-> IF j \in new THEN f[j] ELSE poolOf[j]]
          /\ pool' = [p \in PoolIDs |->
               IF p \in ids
               THEN LET j == CHOOSE j \in new : f[j] = p
                    IN [NoPool EXCEPT !.job = j, !.config = mgr.configs[j][1], !.ctx = TRUE]
               ELSE pool[p]]
     /\ syncs' = {[pool |-> poolOf'[j], targets |-> mgr.tsets[j], pc |-> "start"] :
                  j \in {j \in DOMAIN mgr.tsets : poolOf'[j] # 0}}
     /\ sbudget' = [sbudget EXCEPT !.pools = @ + Cardinality(new)]
     /\ UNCHANGED loop

\* Sync and sync: the targets that are new get a loop, the loops of those that
\* are gone are stopped; all loops get the target limit error of this sync.
SyncStarts ==
  \E s \in syncs :
    LET p     == s.pool
        fresh == s.targets \ DOMAIN pool[p].loops
        gone  == {pool[p].loops[t] : t \in DOMAIN pool[p].loops \ s.targets}
        err   == Exceeds(p, Cardinality(s.targets))
    IN /\ s.pc = "start" /\ pool[p].op = "" /\ Cardinality(fresh) <= Cardinality(FreeLoops)
       /\ LET f == NewLoops(fresh) IN
            /\ pool' = [pool EXCEPT ![p].op = "sync", ![p].wait = gone,
                 ![p].loops = [t \in s.targets |-> IF t \in fresh THEN f[t] ELSE @[t]]]
            /\ loop' = [l \in LoopIDs |->
                 IF l \in Range(f)
                 THEN [NoLoop EXCEPT !.pool = p, !.target = CHOOSE t \in fresh : f[t] = l,
                                     !.pc = "tick", !.cancelled = ~pool[p].ctx, !.forced = err]
                 ELSE IF l \in gone THEN [loop[l] EXCEPT !.cancelled = TRUE]
                 ELSE IF l \in LoopsOf(p) THEN [loop[l] EXCEPT !.forced = err]
                 ELSE loop[l]]
       /\ syncs' = (syncs \ {s}) \cup {[s EXCEPT !.pc = "wait"]}
       /\ UNCHANGED <<mgr, poolOf, sbudget>>

\* The stopped loops have terminated: Sync returns.
SyncEnds ==
  \E s \in syncs :
    /\ s.pc = "wait" /\ Stopped(pool[s.pool].wait)
    /\ pool' = [pool EXCEPT ![s.pool].op = "", ![s.pool].wait = {}]
    /\ loop' = Forget(pool[s.pool].wait)
    /\ syncs' = syncs \ {s}
    /\ UNCHANGED <<mgr, poolOf, sbudget>>

\* ApplyConfig: the new job configurations, under mtxScrape.
ApplyScrapeConfig ==
  /\ mgr.mtx = "" /\ sbudget.configs < MaxJobConfigs
  /\ \E cs \in [Jobs -> {<<>>} \cup {<<c>> : c \in JobConfigs}] :
       mgr' = [mgr EXCEPT !.configs = cs, !.mtx = "apply", !.current = FALSE,
                 !.todo = {poolOf[j] : j \in {j \in Jobs : poolOf[j] # 0}}]
  /\ sbudget' = [sbudget EXCEPT !.configs = @ + 1]
  /\ UNCHANGED <<poolOf, pool, syncs, loop>>

\* The pools are visited one after the other: none is being stopped or reloaded.
NoneVisited == \A p \in mgr.todo : pool[p].op \notin {"stop", "reload"}

\* ... for a pool whose config is unchanged, or whose new client cannot be made,
\* nothing happens.
ApplySkips ==
  /\ mgr.mtx = "apply" /\ NoneVisited
  /\ \E p \in mgr.todo :
       /\ LET c == mgr.configs[pool[p].job] IN
            c # <<>> /\ (c[1] = pool[p].config \/ (c[1].bad /\ pool[p].op = ""))
       /\ mgr' = [mgr EXCEPT !.todo = @ \ {p}]
  /\ UNCHANGED <<poolOf, pool, syncs, loop, sbudget>>

\* Faulty variant: the pool's own context is left alone.
StopPoolKeepsContext(p) ==
  /\ pool[p].op = ""
  /\ pool' = [pool EXCEPT ![p].op = "stop", ![p].wait = LoopsOf(p), ![p].loops = <<>>]
  /\ loop' = [l \in LoopIDs |-> [loop[l] EXCEPT !.cancelled = @ \/ l \in LoopsOf(p)]]
\* stop of one pool: its context and with it every loop of it is cancelled.
StopPool(p) ==
  /\ pool[p].op = ""
  /\ pool' = [pool EXCEPT ![p].op = "stop", ![p].wait = LoopsOf(p), ![p].loops = <<>>,
                          ![p].ctx = FALSE]
  /\ loop' = [l \in LoopIDs |-> [loop[l] EXCEPT !.cancelled = @ \/ loop[l].pool = p]]

\* ... the pool of a job that is gone is stopped ...
ApplyStops ==
  /\ mgr.mtx = "apply" /\ NoneVisited
  /\ \E p \in mgr.todo : mgr.configs[pool[p].job] = <<>> /\ StopPool(p)
  /\ UNCHANGED <<mgr, poolOf, syncs, sbudget>>

\* Faulty variant: a loop starts before the one it replaces has stopped.
ReloadLoopAtOnce(p, t, err) ==
  [NoLoop EXCEPT !.pool = p, !.target = t, !.pc = "tick", !.forced = err,
                 !.cancelled = ~pool[p].ctx]
\* The loop that reload makes for a target: a goroutine stops the old loop and
\* then sets the target limit error of this reload and runs the new one.
ReloadLoop(p, t, err) ==
  [NoLoop EXCEPT !.pool = p, !.target = t, !.pc = "created", !.after = pool[p].loops[t],
                 !.then = err, !.cancelled = ~pool[p].ctx]

\* ... and the pool of a job that changed replaces its loops.
ApplyReloads ==
  /\ mgr.mtx = "apply" /\ NoneVisited
  /\ \E p \in mgr.todo :
       LET c   == mgr.configs[pool[p].job]
           ts  == DOMAIN pool[p].loops
       IN /\ c # <<>> /\ c[1] # pool[p].config /\ ~c[1].bad /\ pool[p].op = ""
          /\ Cardinality(ts) <= Cardinality(FreeLoops)
          /\ LET f == NewLoops(ts) IN
               /\ pool' = [pool EXCEPT ![p].op = "reload", ![p].config = c[1],
                                       ![p].wait = LoopsOf(p), ![p].loops = f]
               /\ loop' = [l \in LoopIDs |->
                    IF l \in Range(f)
                    THEN ReloadLoop(p, CHOOSE t \in ts : f[t] = l,
                                    c[1].limit # 0 /\ Cardinality(ts) > c[1].limit)
                    ELSE [loop[l] EXCEPT !.cancelled = @ \/ l \in LoopsOf(p)]]
  /\ UNCHANGED <<mgr, poolOf, syncs, sbudget>>

\* Stop and reload of a pool return once the loops they stop have terminated;
\* ApplyConfig then removes the pool it has stopped.
OpEnds ==
  \E p \in PoolIDs :
    /\ pool[p].op \in {"stop", "reload"} /\ Stopped(pool[p].wait)
    /\ pool' = [pool EXCEPT ![p].op = "", ![p].wait = {}]
    /\ loop' = Forget(pool[p].wait)
    /\ mgr' = [mgr EXCEPT !.todo = @ \ {p}]
    /\ poolOf' = IF mgr.mtx = "apply" /\ pool[p].op = "stop"
                 THEN [poolOf EXCEPT ![pool[p].job] = 0] ELSE poolOf
    /\ UNCHANGED <<syncs, sbudget>>

ApplyScrapeEnds ==
  /\ mgr.mtx = "apply" /\ mgr.todo = {}
  /\ mgr' = [mgr EXCEPT !.mtx = ""]
  /\ UNCHANGED <<poolOf, pool, syncs, loop, sbudget>>

\* Stop: every pool is stopped, and then graceShut is closed.
StopManager ==
  /\ mgr.mtx = "" /\ ~mgr.stopped
  /\ mgr' = [mgr EXCEPT !.mtx = "stop", !.stopped = TRUE,
               !.todo = {poolOf[j] : j \in {j \in Jobs : poolOf[j] # 0}}]
  /\ UNCHANGED <<poolOf, pool, syncs, loop, sbudget>>
StopsPool ==
  /\ mgr.mtx = "stop" /\ NoneVisited /\ \E p \in mgr.todo : StopPool(p)
  /\ UNCHANGED <<mgr, poolOf, syncs, sbudget>>
StopManagerEnds ==
  /\ mgr.mtx = "stop" /\ mgr.todo = {}
  /\ mgr' = [mgr EXCEPT !.mtx = "", !.grace = TRUE]
  /\ UNCHANGED <<poolOf, pool, syncs, loop, sbudget>>

\* The goroutine of a reloaded loop, once the old loop has stopped.
LoopForced(l) ==
  /\ loop[l].pc = "created" /\ Stopped({loop[l].after} \ {0})
  /\ loop' = [loop EXCEPT ![l].pc = "tick", ![l].forced = loop[l].then]
  /\ UNCHANGED <<mgr, poolOf, pool, syncs, sbudget>>

\* run: a scrape begins when neither context is done, after the offset or at a
\* tick; with a forced error only stale markers are appended.
LoopScrapes(l) ==
  /\ loop[l].pc = "tick" /\ ~loop[l].cancelled
  /\ loop' = [loop EXCEPT ![l].pc = "scrape"]
  /\ UNCHANGED <<mgr, poolOf, pool, syncs, sbudget>>
LoopScraped(l) ==
  /\ loop[l].pc = "scrape"
  /\ loop' = [loop EXCEPT ![l].pc = "tick"]
  /\ UNCHANGED <<mgr, poolOf, pool, syncs, sbudget>>
\* Faulty variant: a loop ended by its pool's context does not close stopped.
LoopStopsQuietly(l) ==
  /\ loop[l].pc = "tick" /\ loop[l].cancelled
  /\ loop' = [loop EXCEPT ![l].pc = IF pool[loop[l].pool].ctx THEN "stopped" ELSE "none"]
  /\ UNCHANGED <<mgr, poolOf, pool, syncs, sbudget>>
LoopStops(l) ==
  /\ loop[l].pc = "tick" /\ loop[l].cancelled
  /\ loop' = [loop EXCEPT ![l].pc = "stopped"]
  /\ UNCHANGED <<mgr, poolOf, pool, syncs, sbudget>>

LoopStep(l) == LoopForced(l) \/ LoopScrapes(l) \/ LoopScraped(l) \/ LoopStops(l)
ScrapeWork == Reload \/ SyncStarts \/ SyncEnds \/ OpEnds
StopWork == ApplySkips \/ ApplyStops \/ ApplyReloads \/ ApplyScrapeEnds \/ StopsPool
            \/ StopManagerEnds
ScrapeNext == \/ UpdateTsets \/ ApplyScrapeConfig \/ StopManager
              \/ ScrapeWork \/ StopWork \/ \E l \in LoopIDs : LoopStep(l)
\* The goroutines of the manager, of the pools and of the loops run; a mutex
\* that is released again and again is not denied for ever.
ScrapeFairness ==
  /\ WF_scrapeVars(Reload) /\ SF_scrapeVars(SyncStarts) /\ WF_scrapeVars(SyncEnds)
  /\ WF_scrapeVars(OpEnds) /\ SF_scrapeVars(StopWork)
  /\ \A l \in LoopIDs : WF_scrapeVars(LoopForced(l)) /\ WF_scrapeVars(LoopScraped(l))
                        /\ WF_scrapeVars(LoopStops(l))
ScrapeSpec == ScrapeInit /\ [][ScrapeNext]_scrapeVars /\ ScrapeFairness

-----------------------------------------------------------------------------
\* A target is never scraped twice at a time: of the loops made for a target
\* of a job, by syncs, reloads and the pools that follow each other, at most
\* one scrapes.
OneScrapeAtATime ==
  \A l, m \in LoopIDs :
    l # m /\ loop[l].pc = "scrape" /\ loop[m].pc = "scrape" =>
      loop[l].target # loop[m].target \/ pool[loop[l].pool].job # pool[loop[m].pool].job

\* A pool that ApplyConfig has stopped and removed does not scrape, even if a
\* Sync that was under way for it comes later and makes loops.
RemovedPoolsAreSilent ==
  \A l \in LoopIDs : loop[l].pc = "scrape" => poolOf[pool[loop[l].pool].job] = loop[l].pool

\* ApplyConfig and Stop return.
ScrapeCallsReturn == mgr.mtx # "" ~> mgr.mtx = ""

\* Once target sets have arrived after the last configuration, every pool ends
\* up with one loop for each of its targets, unless the manager stops or the
\* job's client cannot be made.
LoopsFollowTargets ==
  <>[](\/ mgr.stopped \/ ~mgr.current
       \/ \A j \in DOMAIN mgr.tsets : mgr.configs[j] # <<>> =>
            \/ mgr.configs[j][1].bad
            \/ poolOf[j] # 0 /\ DOMAIN pool[poolOf[j]].loops = mgr.tsets[j])

\* When no sync, reload or stop is under way, every loop that scrapes has the
\* target limit error exactly when its pool has more targets than the limit.
LimitEnforced ==
  \A j \in Jobs : poolOf[j] # 0 /\ pool[poolOf[j]].op = "" =>
    \A l \in LoopsOf(poolOf[j]) : loop[l].pc = "scrape" =>
      loop[l].forced = Exceeds(poolOf[j], Cardinality(DOMAIN pool[poolOf[j]].loops))

\* Once Stop has returned nothing is scraped, so that nothing is appended to a
\* storage that is about to be closed.
NoScrapeAfterStop == mgr.grace => \A l \in LoopIDs : loop[l].pc # "scrape"

\* Loops that are replaced, and pools that are removed, do not scrape any more.
OldLoopsAreSilent == OneScrapeAtATime /\ RemovedPoolsAreSilent
=============================================================================
