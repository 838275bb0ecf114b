------------------------------ MODULE MCScrape ------------------------------
(***************************************************************************)
(* Discovery and scraping on small instances.  The four components are     *)
(* independent of each other: part says which of them runs.                *)
(***************************************************************************)
EXTENDS Discovery, LegacyDiscovery, ScrapePools, ScrapeLoop

CONSTANTS x, y, fails, m1, m2, m3, d, e, s1, s2, s3
VARIABLE part
mcVars == <<part, discoveryVars, legacyVars, scrapeVars, loopVars>>

MCSDConfigs == {("ja" :> {x, y}), ("ja" :> {x}) @@ ("jb" :> {x}), ("ja" :> {fails}) @@ ("jb" :> {y})}
MCUpdates == [c \in {x, y, EmptyStatic} |->
  IF c = x THEN {[s1 |-> 1], [s2 |-> 1]} ELSE IF c = y THEN {[s1 |-> 2]} ELSE {[s0 |-> 0]}]
MCJobConfigs == {[limit |-> 0, bad |-> FALSE], [limit |-> 1, bad |-> FALSE], [limit |-> 1, bad |-> TRUE]}
MCSeriesOf == [m \in Metrics |-> IF m = m3 THEN s2 ELSE IF m = e THEN s3 ELSE s1]
MCBodies == {<<m1>>, <<m2, m3>>, <<m1, m2, d>>, <<m3, e>>}

MCInit ==
  /\ part \in {"discovery", "legacy", "pools", "loop"}
  /\ DiscoveryInit /\ LegacyInit /\ ScrapeInit /\ LoopInit

\* No ApplyConfig is under way when the process ends, and none comes after.
DiscoveryPart ==
  /\ part = "discovery"
  /\ \/ \E cfg \in SDConfigs : ~sdctx.done /\ ApplyConfig(cfg)
     \/ apply.pc = "idle" /\ CtxCancelled
     \/ DiscoveryStep
  /\ UNCHANGED <<part, legacyVars, scrapeVars, loopVars>>
\* No updater is between receiving and storing when a configuration is applied.
LegacyPart ==
  /\ part = "legacy"
  /\ \/ \E cfg \in LegacyConfigs : (\A i \in DOMAIN lprov : lprov[i].updater # "store") /\ LApplyConfig(cfg)
     \/ \E i \in LegacyIDs : LUpdaterStep(i) \/ (i \in DOMAIN lprov /\ ~lprov[i].cancelled /\ LUpdateArrives(i))
     \/ LSenderTick \/ LSenderSends \/ LSenderRetries
  /\ UNCHANGED <<part, discoveryVars, scrapeVars, loopVars>>
PoolsPart ==
  part = "pools" /\ ScrapeNext /\ UNCHANGED <<part, discoveryVars, legacyVars, loopVars>>
\* A loop that took over the cache of another one ends after its first scrape.
LoopPart ==
  /\ part = "loop"
  /\ \/ ScrapeFails \/ ScrapeAnswers \/ ScrapeMalformed
     \/ (Current.last > 0 \/ Current.cache = NewCache) /\ LoopEnds
     \/ TargetReturns \/ LoopReplaced \/ EndOfRunSome \/ Tick
  /\ UNCHANGED <<part, discoveryVars, legacyVars, scrapeVars>>
MCNext == DiscoveryPart \/ LegacyPart \/ PoolsPart \/ LoopPart

MCFairness ==
  /\ WF_discoveryVars(part = "discovery" /\ ApplyStep)
  /\ WF_discoveryVars(part = "discovery" /\ SenderTick)
  /\ SF_discoveryVars(part = "discovery" /\ SenderSends)
  /\ WF_discoveryVars(part = "discovery" /\ CancelDiscoverers)
  /\ \A p \in ProviderIDs : WF_discoveryVars(part = "discovery" /\ UpdaterStep(p))
  /\ WF_legacyVars(part = "legacy" /\ LSenderTick)
  /\ SF_legacyVars(part = "legacy" /\ LSenderSends)
  /\ \A i \in LegacyIDs : WF_legacyVars(part = "legacy" /\ LUpdaterStep(i))
  /\ WF_scrapeVars(part = "pools" /\ Reload)
  /\ SF_scrapeVars(part = "pools" /\ SyncStarts)
  /\ WF_scrapeVars(part = "pools" /\ SyncEnds)
  /\ WF_scrapeVars(part = "pools" /\ OpEnds)
  /\ SF_scrapeVars(part = "pools" /\ StopWork)
  /\ \A l \in LoopIDs : /\ WF_scrapeVars(part = "pools" /\ LoopForced(l))
                        /\ WF_scrapeVars(part = "pools" /\ LoopScraped(l))
                        /\ WF_scrapeVars(part = "pools" /\ LoopStops(l))
  /\ WF_loopVars(part = "loop" /\ EndOfRunSome)
  /\ WF_loopVars(part = "loop" /\ Tick)
MCSpec == MCInit /\ [][MCNext]_mcVars /\ MCFairness

\* Both discovery managers hold the targets of the current configuration only
\* (ApplyConfig, updateGroup).
TargetsAreCurrent == SubscribersAgree /\ OnlyCurrentProviders

\* What the discoverers find reaches the receiver and then the loops of the pools,
\* the calls that change the configuration return, and a target that is gone goes
\* stale.
ScrapeProgress ==
  /\ TargetsReachReceiver /\ LegacyTargetsReachReceiver /\ LoopsFollowTargets
  /\ ApplyConfigReturns /\ ScrapeCallsReturn /\ GoneTargetGoesStale
=============================================================================
