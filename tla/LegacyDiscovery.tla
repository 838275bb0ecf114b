-------------------------- MODULE LegacyDiscovery --------------------------
(***************************************************************************)
(* The service discovery manager the server uses unless the feature flag   *)
(* new-service-discovery-manager is set (discovery/legacymanager/          *)
(* manager.go).  ApplyConfig cancels every provider, forgets all targets   *)
(* and starts the new providers; it does not wait for the updaters of the  *)
(* old ones.  A provider is named by its type and its position, so that a  *)
(* provider of the new configuration can have the name of an old one.      *)
(***************************************************************************)
EXTENDS Integers, Sequences, FiniteSets, SequencesExt

CONSTANTS
  LegacyConfigs,       \* the job configurations: functions set -> set of SD configs
  LegacyFailing, LegacyEmpty, \* as FailingConfigs and EmptyStatic of Discovery
  LegacyUpdates,       \* SD config -> the updates (functions source -> version) it may send
  MaxLegacyUpdates, MaxLegacyApplies

VARIABLES
  lprov,    \* every provider started so far: [name, config, subs, updater, tgs, rem, cancelled]
  ltargets, \* m.targets: <<set, provider name>> -> source -> [version, by]
  lsync,    \* [trigger, offer, received]
  lbudget   \* [updates, applies] that have happened

legacyVars == <<lprov, ltargets, lsync, lbudget>>

LegacyAssumption == LegacyEmpty \notin LegacyFailing
ASSUME LegacyAssumption

LegacyInit ==
  /\ lprov = <<>> /\ ltargets = <<>>
  /\ lsync = [trigger |-> FALSE, offer |-> <<>>, received |-> {}]
  /\ lbudget = [updates |-> 0, applies |-> 0]

LWanted(cfg, s) == IF cfg[s] \subseteq LegacyFailing
                   THEN {LegacyEmpty} ELSE cfg[s] \ LegacyFailing

\* registerProviders of every set: one provider for each distinct config, in
\* the order of a map iteration, named by its position in m.providers.
LRegister(cfg) ==
  LET wanted == UNION {LWanted(cfg, s) : s \in DOMAIN cfg} IN
  {[n \in 1 .. Cardinality(wanted) |->
      [name |-> n - 1, config |-> order[n],
       subs |-> {s \in DOMAIN cfg : order[n] \in LWanted(cfg, s)},
       updater |-> "select", tgs |-> <<>>, rem |-> {}, cancelled |-> FALSE]] :
   order \in SetToAllKPermutations(wanted) \cap [1 .. Cardinality(wanted) -> wanted]}

\* Faulty variant: the targets of the old configuration stay.
LApplyConfigKeeps(cfg) ==
  /\ lbudget.applies < MaxLegacyApplies
  /\ \E new \in LRegister(cfg) :
       lprov' = [i \in DOMAIN lprov |-> [lprov[i] EXCEPT !.cancelled = TRUE]] \o new
  /\ lbudget' = [lbudget EXCEPT !.applies = @ + 1]
  /\ UNCHANGED <<ltargets, lsync>>
\* ApplyConfig, which holds mtx throughout.
LApplyConfig(cfg) ==
  /\ lbudget.applies < MaxLegacyApplies
  /\ \E new \in LRegister(cfg) :
       lprov' = [i \in DOMAIN lprov |-> [lprov[i] EXCEPT !.cancelled = TRUE]] \o new
  /\ ltargets' = <<>>
  /\ lbudget' = [lbudget EXCEPT !.applies = @ + 1]
  /\ UNCHANGED lsync

\* updater: the select takes an update, even when the context is done too.
LUpdateArrives(i) ==
  /\ lprov[i].updater = "select" /\ lbudget.updates < MaxLegacyUpdates
  /\ \E u \in LegacyUpdates[lprov[i].config] :
       lprov' = [lprov EXCEPT ![i].updater = "store", ![i].tgs = u, ![i].rem = lprov[i].subs]
  /\ lbudget' = [lbudget EXCEPT !.updates = @ + 1]
  /\ UNCHANGED <<ltargets, lsync>>

\* updateGroup for one subscriber, with mtx.
LUpdateGroup(i) ==
  /\ lprov[i].updater = "store"
  /\ \E s \in lprov[i].rem :
       LET k   == <<s, lprov[i].name>>
           old == IF k \in DOMAIN ltargets THEN ltargets[k] ELSE <<>>
           tgs == lprov[i].tgs
           new == [x \in DOMAIN old \cup DOMAIN tgs |->
                     IF x \in DOMAIN tgs THEN [version |-> tgs[x], by |-> i] ELSE old[x]]
       IN /\ ltargets' = [j \in DOMAIN ltargets \cup {k} |-> IF j = k THEN new ELSE ltargets[j]]
          /\ lprov' = [lprov EXCEPT ![i].rem = @ \ {s}]
  /\ UNCHANGED <<lsync, lbudget>>

\* ... and the trigger for the sender.
LUpdateStored(i) ==
  /\ lprov[i].updater = "store" /\ lprov[i].rem = {}
  /\ lprov' = [lprov EXCEPT ![i].updater = "select", ![i].tgs = <<>>]
  /\ lsync' = [lsync EXCEPT !.trigger = TRUE]
  /\ UNCHANGED <<ltargets, lbudget>>

\* The updater of a cancelled provider returns.
LUpdaterEnds(i) ==
  /\ lprov[i].updater = "select" /\ lprov[i].cancelled
  /\ lprov' = [lprov EXCEPT ![i].updater = "done"]
  /\ UNCHANGED <<ltargets, lsync, lbudget>>

LAllGroups == UNION {{<<k[1], k[2], x, ltargets[k][x]>> : x \in DOMAIN ltargets[k]} :
                     k \in DOMAIN ltargets}

\* sender: a tick collects all groups; the receiver takes them or the next
\* cycle retries.
LSenderTick ==
  /\ lsync.trigger /\ lsync.offer = <<>>
  /\ lsync' = [lsync EXCEPT !.trigger = FALSE, !.offer = <<LAllGroups>>]
  /\ UNCHANGED <<lprov, ltargets, lbudget>>
LSenderSends ==
  /\ lsync.offer # <<>>
  /\ lsync' = [lsync EXCEPT !.received = lsync.offer[1], !.offer = <<>>]
  /\ UNCHANGED <<lprov, ltargets, lbudget>>
\* Faulty variant: what the receiver was not ready for is dropped.
LSenderGivesUp ==
  /\ lsync.offer # <<>>
  /\ lsync' = [lsync EXCEPT !.offer = <<>>]
  /\ UNCHANGED <<lprov, ltargets, lbudget>>
LSenderRetries ==
  /\ lsync.offer # <<>>
  /\ lsync' = [lsync EXCEPT !.trigger = TRUE, !.offer = <<>>]
  /\ UNCHANGED <<lprov, ltargets, lbudget>>

LegacyIDs == 1 .. 3 * MaxLegacyApplies
LUpdaterStep(i) == i \in DOMAIN lprov /\ (LUpdateGroup(i) \/ LUpdateStored(i) \/ LUpdaterEnds(i))
LegacyNext ==
  \/ \E cfg \in LegacyConfigs : LApplyConfig(cfg)
  \/ \E i \in LegacyIDs : LUpdaterStep(i) \/ (i \in DOMAIN lprov /\ LUpdateArrives(i))
  \/ LSenderTick \/ LSenderSends \/ LSenderRetries
\* Every goroutine runs, and the receiver is ready again and again.
LegacyFairness ==
  /\ WF_legacyVars(LSenderTick) /\ SF_legacyVars(LSenderSends)
  /\ \A i \in LegacyIDs : WF_legacyVars(LUpdaterStep(i))
LegacySpec == LegacyInit /\ [][LegacyNext]_legacyVars /\ LegacyFairness

-----------------------------------------------------------------------------
\* ApplyConfig "removes all running discovery providers": every group the
\* manager holds was sent by a provider of the current configuration.
OnlyCurrentProviders ==
  \A k \in DOMAIN ltargets : \A x \in DOMAIN ltargets[k] : ~lprov[ltargets[k][x].by].cancelled

\* The receiver ends up with every group the manager holds.
LegacyTargetsReachReceiver == <>[](LAllGroups \subseteq lsync.received)
=============================================================================
