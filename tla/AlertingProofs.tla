---------------------------- MODULE AlertingProofs ----------------------------
(***************************************************************************)
(* Proofs about the modules ServerRun and AlertingRule, for any durations, *)
(* number of reloads, failures and missed evaluations.                     *)
(*   - The server: its parts start after what they need and stop before it.*)
(*   - An alerting rule: Alertmanager's view of its alerts is right, and   *)
(*     an alert fires only when it has been active long enough.            *)
(***************************************************************************)
EXTENDS ServerRun, AlertingRule, TLAPS

-------------------------------------------------------------------------------
(* The server *)

ServerType ==
    /\ actorPC \in [ActorSet -> {"gate", "run", "reloading", "loading", "loaded", "open", "returned"}]
    /\ interrupts \in -1..9
    /\ reloadReady \in BOOLEAN /\ dbOpen \in BOOLEAN /\ dbClosed \in BOOLEAN
    /\ ruleStopped \in BOOLEAN
    /\ ruleGroups \in {"none", "blocked", "running", "stopped"}

\* The run group has cancelled the first actors, in the order of registration;
\* Stop of the rule manager and the closing of the storage come in their turn.
InterruptsInv ==
    /\ cancelled = {Actors[i] : i \in 1..interrupts}
    /\ dbClosed => interrupts >= 7
    /\ interrupts >= 3 => ruleStopped

\* Stopped groups stay stopped until a late reload.
RulesInv == ruleStopped /\ lateReloads = {} => ruleGroups \in {"none", "stopped"}

\* reloadReady is released by the loaded configuration, or when the process ends.
ReadyInv ==
    /\ actorPC["init"] \in {"loading", "loaded"} => dbOpen
    /\ \A a \in Gated : actorPC[a] # "gate" => reloadReady
    /\ actorPC["term"] = "run" /\ interrupts < 1 /\ reloadReady => At("init", "loaded")

ServerInv == ServerType /\ InterruptsInv /\ RulesInv /\ ReadyInv

-----------------------------------------------------------------------------
\* The order in which main registers the actors.
LEMMA ActorOrder ==
    /\ Len(Actors) = 9
    /\ Actors[1] = "term" /\ Actors[2] = "scrapeSD" /\ Actors[3] = "rules" /\ Actors[4] = "scrape"
    /\ Actors[5] = "reload" /\ Actors[6] = "init" /\ Actors[7] = "tsdb" /\ Actors[8] = "web"
    /\ Actors[9] = "notifier"
    /\ ActorSet = {"term", "scrapeSD", "rules", "scrape", "reload", "init", "tsdb", "web", "notifier"}
<1>1. /\ Len(Actors) = 9
      /\ Actors[1] = "term" /\ Actors[2] = "scrapeSD" /\ Actors[3] = "rules" /\ Actors[4] = "scrape"
      /\ Actors[5] = "reload" /\ Actors[6] = "init" /\ Actors[7] = "tsdb" /\ Actors[8] = "web"
      /\ Actors[9] = "notifier"
  BY DEF Actors
<1>2. 1..9 = {1, 2, 3, 4, 5, 6, 7, 8, 9}
  OBVIOUS
<1>. QED  BY <1>1, <1>2 DEF ActorSet

\* Who is cancelled says how far the run group has come.
LEMMA CancelledInOrder ==
    ASSUME ServerType, InterruptsInv
    PROVE  /\ "term" \in cancelled <=> interrupts >= 1
           /\ "scrape" \in cancelled <=> interrupts >= 4
           /\ "init" \in cancelled <=> interrupts >= 6
BY ActorOrder DEF ServerType, InterruptsInv

\* An actor's turn to be interrupted.
LEMMA TurnOf ==
    ASSUME ServerType, NEW a \in ActorSet, Turn(a)
    PROVE  /\ interrupts \in 0..8
           /\ a = "term" <=> interrupts = 0
           /\ a = "rules" <=> interrupts = 2
           /\ a = "reload" <=> interrupts = 4
           /\ a = "init" <=> interrupts = 5
           /\ a = "tsdb" <=> interrupts = 6
BY ActorOrder DEF Turn, ServerType

\* The next interrupt function returns.
LEMMA DoneInOrder ==
    ASSUME ServerType, InterruptsInv, NEW a \in ActorSet, Turn(a), Done(a)
    PROVE  cancelled' = {Actors[i] : i \in 1..interrupts'} /\ interrupts' \in -1..9
<1>1. interrupts \in 0..8 /\ interrupts' = interrupts + 1 /\ Actors[interrupts + 1] = a
  BY TurnOf DEF Turn, Done
<1>2. 1..interrupts' = (1..interrupts) \cup {interrupts + 1}
  BY <1>1
<1>. QED  BY <1>1, <1>2, ActorOrder DEF Done, InterruptsInv

\* A step of an actor's own leaves the run group alone.
LEMMA ActorFrame ==
    ASSUME ServerInv, UNCHANGED <<interrupts, cancelled, dbClosed, ruleStopped>>
    PROVE  InterruptsInv'
BY DEF ServerInv, InterruptsInv

\* A step that leaves the rule manager alone.
LEMMA RulesFrame ==
    ASSUME ServerInv, UNCHANGED ruleState
    PROVE  RulesInv'
BY DEF ServerInv, RulesInv, ruleState

\* reloadConfig after Stop counts as late.
LEMMA ApplyReloadersInv ==
    ASSUME ServerInv, ApplyReloaders
    PROVE  /\ RulesInv' /\ ruleStopped' = ruleStopped
           /\ ruleGroups' \in {"none", "blocked", "running", "stopped"}
BY DEF ServerInv, ServerType, RulesInv, ApplyReloaders, ruleState

\* An actor that returns, or passes from one state to the next.
LEMMA GotoType ==
    ASSUME ServerType, NEW a \in ActorSet,
           NEW pc \in {"gate", "run", "reloading", "loading", "loaded", "open", "returned"}, Goto(a, pc)
    PROVE  /\ actorPC' \in [ActorSet -> {"gate", "run", "reloading", "loading", "loaded", "open", "returned"}]
           /\ actorPC'[a] = pc
           /\ \A b \in ActorSet \ {a} : actorPC'[b] = actorPC[b]
BY DEF ServerType, Goto

-----------------------------------------------------------------------------
\* An actor that ends or moves on without touching anything shared.
LEMMA QuietStep ==
    ASSUME ServerInv, NEW a \in ActorSet,
           NEW pc \in {"gate", "run", "reloading", "loading", "loaded", "open", "returned"}, Goto(a, pc),
           UNCHANGED <<interrupts, cancelled, reloadReady, dbOpen, dbClosed, ruleState>>,
           a \in Gated => actorPC[a] # "gate",
           a = "init" => \/ pc = "loading" /\ dbOpen /\ actorPC["init"] # "loaded"
                         \/ pc = "returned" /\ interrupts >= 1,
           a = "term" => pc # "run"
    PROVE  ServerInv'
<1>1. ServerType'
  BY GotoType DEF ServerInv, ServerType, ruleState
<1>2. InterruptsInv' /\ RulesInv'
  BY ActorFrame, RulesFrame DEF ruleState
<1>3. ReadyInv'
  BY GotoType, ActorOrder DEF ServerInv, ServerType, ReadyInv, Gated, At
<1>. QED  BY <1>1, <1>2, <1>3 DEF ServerInv

\* Every step of ServerNext preserves the invariant.
LEMMA ServerStep ==
    ASSUME ServerInv, [ServerNext]_serverVars
    PROVE  ServerInv'
<1>. ActorSet = {"term", "scrapeSD", "rules", "scrape", "reload", "init", "tsdb", "web", "notifier"}
  BY ActorOrder, Zenon
<1>1. CASE Sigterm \/ TermCancelled
  <2>1. Goto("term", "returned") /\ reloadReady' = TRUE /\ UNCHANGED <<interrupts, dbOpen, dbClosed, ruleState>>
    BY <1>1, Zenon DEF Sigterm, TermCancelled, Returns
  <2>2. ServerType'
    BY <2>1, GotoType DEF ServerInv, ServerType, ruleState
  <2>3. InterruptsInv' /\ RulesInv'
    BY <1>1, ActorFrame, RulesFrame DEF Sigterm, TermCancelled, ruleState
  <2>4. ReadyInv'
    BY <2>1, GotoType DEF ServerInv, ServerType, ReadyInv, Gated, At
  <2>. QED  BY <2>2, <2>3, <2>4 DEF ServerInv
<1>2. CASE WebQuit \/ ActorFails \/ RulesReturn \/ OpenDBFails \/ TsdbReturns
  <2>1. CASE WebQuit
    BY <2>1, QuietStep DEF WebQuit, Returns, Gated, At
  <2>2. CASE ActorFails
    BY <2>2, QuietStep DEF ActorFails, Returns, Gated, At
  <2>3. CASE RulesReturn
    BY <2>3, QuietStep DEF RulesReturn, Returns, Gated, At
  <2>4. CASE OpenDBFails
    BY <2>4, QuietStep DEF OpenDBFails, Returns, Gated, At
  <2>5. CASE TsdbReturns
    BY <2>5, QuietStep DEF TsdbReturns, Returns, Gated, At
  <2>. QED  BY <1>2, <2>1, <2>2, <2>3, <2>4, <2>5
<1>3. ASSUME NEW a \in Gated, PassGate(a)
      PROVE  ServerInv'
  <2>1. a \in ActorSet /\ a # "init" /\ a # "term" /\ Goto(a, "run")
    BY <1>3 DEF Gated, PassGate
  <2>2. ServerType'
    BY <1>3, <2>1, GotoType DEF ServerInv, ServerType, PassGate
  <2>3. InterruptsInv'
    BY <1>3, ActorFrame DEF PassGate
  <2>4. RulesInv'
    BY <1>3 DEF ServerInv, RulesInv, PassGate
  <2>5. ReadyInv'
    BY <1>3, <2>1, GotoType DEF ServerInv, ServerType, ReadyInv, PassGate, Gated, At
  <2>. QED  BY <2>2, <2>3, <2>4, <2>5 DEF ServerInv
<1>4. ASSUME NEW a \in Cancellable, CancelledReturns(a)
      PROVE  ServerInv'
  BY <1>4, QuietStep DEF CancelledReturns, Cancellable, Returns, Gated, At
<1>5. CASE ReloadBegins
  BY <1>5, QuietStep DEF ReloadBegins, Gated, At
<1>6. CASE ReloadEnds
  <2>1. ServerType'
    BY <1>6, GotoType, ApplyReloadersInv DEF ServerInv, ServerType, ReloadEnds
  <2>2. InterruptsInv' /\ RulesInv'
    BY <1>6, ActorFrame, ApplyReloadersInv DEF ReloadEnds
  <2>3. ReadyInv'
    BY <1>6, GotoType DEF ServerInv, ServerType, ReadyInv, ReloadEnds, Gated, At
  <2>. QED  BY <2>1, <2>2, <2>3 DEF ServerInv
<1>7. CASE InitBegins
  BY <1>7, QuietStep DEF InitBegins, Gated, At
<1>8. CASE InitCancelled
  <2>1. interrupts >= 6
    BY <1>8, CancelledInOrder DEF ServerInv, InitCancelled
  <2>2. ServerType'
    BY <1>8, GotoType DEF ServerInv, ServerType, InitCancelled, Returns, ruleState
  <2>3. InterruptsInv' /\ RulesInv'
    BY <1>8, ActorFrame, RulesFrame DEF InitCancelled, ruleState
  <2>4. ReadyInv'
    BY <1>8, <2>1, GotoType DEF ServerInv, ServerType, ReadyInv, InitCancelled, Returns, Gated, At
  <2>. QED  BY <2>2, <2>3, <2>4 DEF ServerInv
<1>9. CASE InitFails
  <2>1. ServerType'
    BY <1>9, GotoType, ApplyReloadersInv DEF ServerInv, ServerType, InitFails, Returns
  <2>2. InterruptsInv' /\ RulesInv'
    BY <1>9, ActorFrame, ApplyReloadersInv DEF InitFails
  <2>3. ReadyInv'
    BY <1>9, GotoType DEF ServerInv, ServerType, ReadyInv, InitFails, Returns, Gated, At
  <2>. QED  BY <2>1, <2>2, <2>3 DEF ServerInv
<1>10. CASE InitLoads
  <2>1. ServerType'
    BY <1>10, GotoType, ApplyReloadersInv DEF ServerInv, ServerType, InitLoads
  <2>2. InterruptsInv' /\ RulesInv'
    BY <1>10, ActorFrame, ApplyReloadersInv DEF InitLoads
  <2>3. ReadyInv'
    BY <1>10, GotoType DEF ServerInv, ServerType, ReadyInv, InitLoads, Gated, At
  <2>. QED  BY <2>1, <2>2, <2>3 DEF ServerInv
<1>11. CASE InitReturns
  <2>1. interrupts >= 6
    BY <1>11, CancelledInOrder DEF ServerInv, InitReturns
  <2>. QED  BY <1>11, <2>1, QuietStep DEF ServerInv, ServerType, InitReturns, Returns, Gated, At
<1>12. CASE OpenDB
  <2>1. ServerType'
    BY <1>12, GotoType DEF ServerInv, ServerType, OpenDB, ruleState
  <2>2. InterruptsInv' /\ RulesInv'
    BY <1>12, ActorFrame, RulesFrame DEF OpenDB, ruleState
  <2>3. ReadyInv'
    BY <1>12, GotoType DEF ServerInv, ServerType, ReadyInv, OpenDB, Gated, At
  <2>. QED  BY <2>1, <2>2, <2>3 DEF ServerInv
<1>13. CASE FirstReturns
  <2>1. interrupts = -1 /\ interrupts' = 0
    BY <1>13 DEF FirstReturns
  <2>2. ServerType' /\ ReadyInv'
    BY <1>13, <2>1 DEF ServerInv, ServerType, ReadyInv, FirstReturns, ruleState, At
  <2>3. InterruptsInv'
    BY <1>13, <2>1 DEF ServerInv, InterruptsInv, FirstReturns, ruleState
  <2>4. RulesInv'
    BY <1>13, RulesFrame DEF FirstReturns
  <2>. QED  BY <2>2, <2>3, <2>4 DEF ServerInv
<1>14. CASE Interrupt
  <2>1. ASSUME NEW a \in ActorSet, Turn(a), Done(a), UNCHANGED <<actorPC, reloadReady, dbOpen, dbClosed, ruleState>>,
               a # "rules"
        PROVE  ServerInv'
    <3>1. interrupts \in 0..8 /\ interrupts # 2 /\ interrupts' = interrupts + 1
      BY <2>1, TurnOf DEF ServerInv, Done
    <3>2. ServerType' /\ ReadyInv'
      BY <2>1, <3>1 DEF ServerInv, ServerType, ReadyInv, ruleState, At
    <3>3. InterruptsInv'
      BY <2>1, <3>1, DoneInOrder DEF ServerInv, InterruptsInv, ruleState
    <3>4. RulesInv'
      BY <2>1, RulesFrame
    <3>. QED  BY <3>2, <3>3, <3>4 DEF ServerInv
  <2>2. CASE InterruptTerm
    BY <2>1, <2>2 DEF InterruptTerm
  <2>3. ASSUME NEW a \in {"scrapeSD", "scrape", "init", "web", "notifier"}, InterruptPlain(a)
        PROVE  ServerInv'
    BY <2>1, <2>3 DEF InterruptPlain
  <2>4. CASE InterruptRules
    <3>1. interrupts = 2 /\ interrupts' = 3
      BY <2>4, TurnOf DEF ServerInv, Done, InterruptRules
    <3>2. ServerType' /\ ReadyInv'
      BY <2>4, <3>1 DEF ServerInv, ServerType, ReadyInv, InterruptRules, At
    <3>3. InterruptsInv'
      BY <2>4, <3>1, DoneInOrder DEF ServerInv, InterruptsInv, InterruptRules
    <3>4. RulesInv'
      BY <2>4 DEF ServerInv, ServerType, RulesInv, InterruptRules
    <3>. QED  BY <3>2, <3>3, <3>4 DEF ServerInv
  <2>5. CASE InterruptReload
    <3>1. interrupts = 4 /\ interrupts' = 5
      BY <2>5, TurnOf DEF ServerInv, Done, InterruptReload
    <3>2. ServerType' /\ ReadyInv'
      BY <2>5, <3>1, GotoType DEF ServerInv, ServerType, ReadyInv, InterruptReload, Returns, ruleState, Gated, At
    <3>3. InterruptsInv'
      BY <2>5, <3>1, DoneInOrder DEF ServerInv, InterruptsInv, InterruptReload, ruleState
    <3>4. RulesInv'
      BY <2>5, RulesFrame DEF InterruptReload
    <3>. QED  BY <3>2, <3>3, <3>4 DEF ServerInv
  <2>6. CASE InterruptTsdb
    <3>1. interrupts = 6 /\ interrupts' = 7
      BY <2>6, TurnOf DEF ServerInv, Done, InterruptTsdb
    <3>2. ServerType' /\ ReadyInv'
      BY <2>6, <3>1 DEF ServerInv, ServerType, ReadyInv, InterruptTsdb, ruleState, At
    <3>3. InterruptsInv'
      BY <2>6, <3>1, DoneInOrder DEF ServerInv, InterruptsInv, InterruptTsdb, ruleState
    <3>4. RulesInv'
      BY <2>6, RulesFrame DEF InterruptTsdb
    <3>. QED  BY <3>2, <3>3, <3>4 DEF ServerInv
  <2>. QED  BY <1>14, <2>2, <2>3, <2>4, <2>5, <2>6, Zenon DEF Interrupt
<1>15. CASE Exited \/ UNCHANGED serverVars
  BY <1>15 DEF Exited, serverVars, ServerInv, ServerType, InterruptsInv, RulesInv, ReadyInv, At
<1>. QED  BY <1>1, <1>2, <1>3, <1>4, <1>5, <1>6, <1>7, <1>8, <1>9, <1>10, <1>11, <1>12, <1>13, <1>14, <1>15,
             Zenon DEF ServerNext, ProcessStep

\* The server starts and stops in order, however signals, reloads, failures and
\* the interrupt functions of the run group interleave: the storage is closed after
\* scraping and the rules have stopped, and no actor that needs the configuration
\* runs before it is loaded.
THEOREM ServerIsOrdered == ServerSpec => []StartAndStopInOrder
<1>1. ServerInit => ServerInv
  <2>. SUFFICES ASSUME ServerInit PROVE ServerInv
    OBVIOUS
  <2>1. ServerType
    <3>1. actorPC \in [ActorSet -> {"gate", "run", "reloading", "loading", "loaded", "open", "returned"}]
      BY Zenon DEF ServerInit
    <3>2. interrupts \in -1..9
      BY DEF ServerInit
    <3>. QED  BY <3>1, <3>2, Zenon DEF ServerInit, ServerType
  <2>2. RulesInv /\ ReadyInv
    <3>1. "init" \in ActorSet /\ Gated \subseteq ActorSet
      BY ActorOrder, Zenon DEF Gated
    <3>. QED  BY <3>1 DEF ServerInit, RulesInv, ReadyInv, Gated, At
  <2>3. InterruptsInv
    BY DEF ServerInit, InterruptsInv
  <2>. QED  BY <2>1, <2>3, <2>2 DEF ServerInv
<1>2. ServerInv => StartAndStopInOrder
  <2>. SUFFICES ASSUME ServerInv PROVE StartAndStopInOrder
    OBVIOUS
  <2>1. WritersStopBeforeStorage
    BY CancelledInOrder DEF ServerInv, ServerType, InterruptsInv, RulesInv, WritersStopBeforeStorage
  <2>2. ConfigLoadedFirst
    BY CancelledInOrder, ActorOrder DEF ServerInv, ServerType, ReadyInv, ConfigLoadedFirst, Gated, At
  <2>. QED  BY <2>1, <2>2 DEF StartAndStopInOrder
<1>. QED  BY <1>1, <1>2, ServerStep, PTL DEF ServerSpec

-------------------------------------------------------------------------------
(* The alerting rule *)

AlertStates == {"pending", "firing", "inactive"}
Alerts == [state : AlertStates, activeAt : Int, firedAt : Nat, resolvedAt : Nat,
           lastSentAt : Nat, keepFiringSince : Nat]
AlertMaps == UNION {[D -> Alerts] : D \in SUBSET Fingerprints}

RuleType ==
  /\ evalTs \in Nat /\ evalTs > ResendDelay
  /\ active \in AlertMaps
  /\ restored \in BOOLEAN /\ ruleEvals \in {-1, 0, 1, 3} /\ (restored <=> ruleEvals = 3)
  /\ forState \in [Fingerprints -> [t : Nat, v : Int]]
  /\ prevSeries \subseteq Fingerprints
  /\ am \in [Fingerprints -> Nat] /\ told \subseteq Fingerprints
  /\ failures \in Nat /\ held \in [Fingerprints -> Nat] /\ crashes \in Nat

\* An alert has a time of resolution exactly when it is inactive, and no time of
\* it lies ahead of the last evaluation.
AlertInv ==
  \A fp \in DOMAIN active :
    /\ active[fp].state = "inactive" <=> active[fp].resolvedAt # 0
    /\ active[fp].state = "pending" => active[fp].lastSentAt = 0
    /\ active[fp].resolvedAt <= evalTs /\ active[fp].lastSentAt <= evalTs

\* What Alertmanager has of an alert whose last notification arrived.
ToldInv ==
  \A fp \in told :
    IF StateOf(fp) = "firing" THEN am[fp] = ValidUntil(active[fp].lastSentAt)
    ELSE am[fp] <= evalTs

RuleInv == RuleType /\ AlertInv /\ ToldInv

-------------------------------------------------------------------------------
\* The map of alerts, its alerts and the state of an alert.
LEMMA AlertMapIs ==
  ASSUME NEW m \in AlertMaps
  PROVE  /\ DOMAIN m \in SUBSET Fingerprints /\ \A fp \in DOMAIN m : m[fp] \in Alerts
         /\ m = [fp \in DOMAIN m |-> m[fp]]
  BY Zenon DEF AlertMaps

\* A function from fingerprints to alerts is such a map.
LEMMA IsAlertMap ==
  ASSUME NEW D \in SUBSET Fingerprints, NEW m \in [D -> Alerts]
  PROVE  m \in AlertMaps
  BY Zenon DEF AlertMaps

\* The map of a rule that has just been loaded (NewAlertingRule).
LEMMA NoAlerts == <<>> \in AlertMaps /\ DOMAIN <<>> = {}
<1>1. <<>> \in [{} -> Alerts] /\ DOMAIN <<>> = {}
  OBVIOUS
<1> QED
  BY <1>1, IsAlertMap, Zenon

\* A new alert, fire, and what becomes of an alert that the query does not
\* return: the cases of AlertingRule.Eval.
LEMMA FireIs ==
  ASSUME NEW a \in Alerts, NEW ts \in Nat
  PROVE  /\ Fire(a, ts) \in Alerts
         /\ Fire(a, ts).activeAt = a.activeAt /\ Fire(a, ts).resolvedAt = a.resolvedAt
         /\ Fire(a, ts).lastSentAt = a.lastSentAt
         /\ \/ Fire(a, ts).state = a.state
            \/ a.state = "pending" /\ Fire(a, ts).state = "firing" /\ ts - a.activeAt >= HoldDuration
<1>1. CASE a.state = "pending" /\ ts - a.activeAt >= HoldDuration
  <2>1. Fire(a, ts) = [a EXCEPT !.state = "firing", !.firedAt = ts]
    BY <1>1, Zenon DEF Fire
  <2> QED
    BY <1>1, <2>1, Zenon DEF Alerts, AlertStates
<1>2. CASE ~(a.state = "pending" /\ ts - a.activeAt >= HoldDuration)
  <2>1. Fire(a, ts) = a
    BY <1>2, Zenon DEF Fire
  <2> QED
    BY <2>1, Zenon
<1> QED
  BY <1>1, <1>2, Zenon

\* An alert that is no longer returned: kept firing, dropped or resolved (Eval).
LEMMA GoneIs ==
  ASSUME NEW a \in Alerts, NEW ts \in Nat
  PROVE  /\ Gone(a, ts) \in Alerts
         /\ Gone(a, ts).activeAt = a.activeAt /\ Gone(a, ts).lastSentAt = a.lastSentAt
         /\ \/ /\ a.state = "inactive" \/ KeepFiring(a, ts)
               /\ Gone(a, ts).state = a.state /\ Gone(a, ts).resolvedAt = a.resolvedAt
            \/ /\ a.state # "inactive" /\ ~KeepFiring(a, ts)
               /\ Gone(a, ts).state = "inactive" /\ Gone(a, ts).resolvedAt = ts
<1> DEFINE b == [a EXCEPT !.keepFiringSince = KeepSince(a, ts)]
<1>1. KeepSince(a, ts) \in Nat
  BY Zenon DEF KeepSince, Alerts
<1>2. /\ b \in Alerts /\ b.activeAt = a.activeAt /\ b.lastSentAt = a.lastSentAt
      /\ b.state = a.state /\ b.resolvedAt = a.resolvedAt
  BY <1>1, Zenon DEF Alerts
<1>3. Gone(a, ts) = IF a.state = "inactive" \/ KeepFiring(a, ts) THEN b
                    ELSE [b EXCEPT !.state = "inactive", !.resolvedAt = ts]
  BY Zenon DEF Gone
<1> HIDE DEF b
<1>4. CASE a.state = "inactive" \/ KeepFiring(a, ts)
  BY <1>2, <1>3, <1>4, Zenon
<1>5. CASE ~(a.state = "inactive" \/ KeepFiring(a, ts))
  <2>1. Gone(a, ts) = [b EXCEPT !.state = "inactive", !.resolvedAt = ts]
    BY <1>3, <1>5, Zenon
  <2> QED
    BY <1>2, <1>5, <2>1, Zenon DEF Alerts, AlertStates
<1> QED
  BY <1>4, <1>5, Zenon

\* What an evaluation at ts may make of the alert of fp: it is active, newly or
\* still, or it is inactive, still or from now on.
StillActive(fp, n, ts) ==
  /\ n.state \in {"pending", "firing"} /\ n.resolvedAt = 0
  /\ \/ StateOf(fp) = "inactive" /\ n.activeAt = ts /\ n.lastSentAt = 0
     \/ /\ fp \in DOMAIN active /\ StateOf(fp) # "inactive"
        /\ n.activeAt = active[fp].activeAt /\ n.lastSentAt = active[fp].lastSentAt
  /\ StateOf(fp) = "firing" => n.state = "firing"
  /\ n.state = "firing" /\ StateOf(fp) # "firing" => ts - n.activeAt >= HoldDuration
  /\ n.state = "pending" => n.lastSentAt = 0
NowInactive(fp, n, ts) ==
  /\ n.state = "inactive" /\ fp \in DOMAIN active /\ n.lastSentAt = active[fp].lastSentAt
  /\ \/ StateOf(fp) = "inactive" /\ n.resolvedAt = active[fp].resolvedAt
     \/ StateOf(fp) = "firing" /\ n.resolvedAt = ts

\* The map that an evaluation of the rule leaves behind (Eval), alert by alert.
LEMMA EvaluatedIs ==
  ASSUME RuleType, AlertInv, NEW res \in SUBSET Fingerprints, NEW ts \in Nat
  PROVE  /\ Evaluated(active, res, ts) \in AlertMaps
         /\ Counted(active, res, ts) \subseteq DOMAIN Evaluated(active, res, ts)
         /\ \A fp \in DOMAIN Evaluated(active, res, ts) :
              IF fp \in Counted(active, res, ts)
              THEN StillActive(fp, Evaluated(active, res, ts)[fp], ts)
              ELSE NowInactive(fp, Evaluated(active, res, ts)[fp], ts)
         /\ \A fp \in Fingerprints : StateOf(fp) = "firing" => fp \in DOMAIN Evaluated(active, res, ts)
<1> DEFINE merged == Merge(active, res, ts)
           kept   == {fp \in DOMAIN merged : fp \in res \/ ~Deleted(merged[fp], ts)}
           now(fp) == IF fp \in res THEN Fire([merged[fp] EXCEPT !.keepFiringSince = 0], ts)
                      ELSE Gone(merged[fp], ts)
<1>1. Evaluated(active, res, ts) = [fp \in kept |-> now(fp)]
  BY Zenon DEF Evaluated
<1>2. active \in AlertMaps /\ DOMAIN active \in SUBSET Fingerprints
  BY AlertMapIs, Zenon DEF RuleType
<1>3. NewAlert(ts) \in Alerts /\ NewAlert(ts).state = "pending" /\ NewAlert(ts).activeAt = ts
      /\ NewAlert(ts).resolvedAt = 0 /\ NewAlert(ts).lastSentAt = 0
  BY DEF NewAlert, Alerts, AlertStates
<1>4. /\ DOMAIN merged = DOMAIN active \cup res
      /\ \A fp \in DOMAIN merged :
           merged[fp] = IF fp \in DOMAIN active /\ (fp \notin res \/ active[fp].state # "inactive")
                        THEN active[fp] ELSE NewAlert(ts)
  BY Zenon DEF Merge
<1> HIDE DEF merged
<1>5. \A fp \in DOMAIN merged : merged[fp] \in Alerts
  BY <1>2, <1>3, <1>4, AlertMapIs, Zenon
<1>6. \A fp \in kept : now(fp) \in Alerts
  <2> TAKE fp \in kept
  <2>1. merged[fp] \in Alerts /\ [merged[fp] EXCEPT !.keepFiringSince = 0] \in Alerts
    BY <1>5, Zenon DEF Alerts
  <2> QED
    BY <2>1, FireIs, GoneIs, Zenon
<1>7. Evaluated(active, res, ts) \in AlertMaps
  <2>1. kept \in SUBSET Fingerprints
    BY <1>2, <1>4, Zenon
  <2>2. [fp \in kept |-> now(fp)] \in [kept -> Alerts]
    BY <1>6, Zenon
  <2> QED
    BY <1>1, <2>1, <2>2, IsAlertMap, Zenon
<1>8. ASSUME NEW fp \in res
      PROVE  fp \in kept /\ StillActive(fp, now(fp), ts)
  <2>1. fp \in kept
    BY <1>4, Zenon
  <2> DEFINE a == [merged[fp] EXCEPT !.keepFiringSince = 0]
  <2>2. /\ a \in Alerts /\ a.state = merged[fp].state /\ a.activeAt = merged[fp].activeAt
        /\ a.resolvedAt = merged[fp].resolvedAt /\ a.lastSentAt = merged[fp].lastSentAt
    BY <1>5, <2>1, Zenon DEF Alerts
  <2>3. now(fp) = Fire(a, ts)
    BY Zenon
  <2> HIDE DEF a, now
  <2>4. /\ Fire(a, ts).activeAt = a.activeAt /\ Fire(a, ts).resolvedAt = a.resolvedAt
        /\ Fire(a, ts).lastSentAt = a.lastSentAt
        /\ \/ Fire(a, ts).state = a.state
           \/ a.state = "pending" /\ Fire(a, ts).state = "firing" /\ ts - a.activeAt >= HoldDuration
    BY <2>2, FireIs, Zenon
  <2>5. CASE fp \in DOMAIN active /\ active[fp].state # "inactive"
    <3>1. merged[fp] = active[fp] /\ StateOf(fp) = active[fp].state
      BY <1>4, <2>5, Zenon DEF StateOf
    <3>2. active[fp].state \in {"pending", "firing"} /\ active[fp].resolvedAt = 0
      BY <1>2, <2>5, AlertMapIs, Zenon DEF AlertInv, Alerts, AlertStates
    <3>3. active[fp].state = "pending" => active[fp].lastSentAt = 0
      BY <2>5, Zenon DEF AlertInv
    <3> QED
      BY <2>1, <2>2, <2>3, <2>4, <2>5, <3>1, <3>2, <3>3, Zenon DEF StillActive
  <2>6. CASE ~(fp \in DOMAIN active /\ active[fp].state # "inactive")
    <3>1. merged[fp] = NewAlert(ts) /\ StateOf(fp) = "inactive"
      BY <1>4, <2>6, Zenon DEF StateOf
    <3> QED
      BY <1>3, <2>1, <2>2, <2>3, <2>4, <3>1, Zenon DEF StillActive
  <2> QED
    BY <2>5, <2>6, Zenon
<1>9. ASSUME NEW fp \in DOMAIN active, fp \notin res
      PROVE  /\ merged[fp] = active[fp] /\ now(fp) = Gone(active[fp], ts)
             /\ active[fp] \in Alerts /\ StateOf(fp) = active[fp].state
  BY <1>2, <1>4, <1>9, AlertMapIs, Zenon DEF StateOf
<1>10. ASSUME NEW fp \in DOMAIN active, fp \notin res, KeepFiring(active[fp], ts)
       PROVE  fp \in kept /\ StillActive(fp, now(fp), ts)
  <2>1. active[fp].state = "firing"
    BY <1>10, Zenon DEF KeepFiring
  <2>2. active[fp].resolvedAt = 0
    BY <2>1, Zenon DEF AlertInv
  <2>3. fp \in kept
    BY <1>4, <1>9, <1>10, <2>1, <2>2, Zenon DEF Deleted
  <2>4. /\ Gone(active[fp], ts).activeAt = active[fp].activeAt
        /\ Gone(active[fp], ts).lastSentAt = active[fp].lastSentAt
        /\ Gone(active[fp], ts).state = "firing" /\ Gone(active[fp], ts).resolvedAt = 0
    BY <1>9, <1>10, <2>1, <2>2, GoneIs, Zenon
  <2> HIDE DEF now, kept
  <2> QED
    BY <1>9, <1>10, <2>1, <2>3, <2>4, Zenon DEF StillActive
<1>11. ASSUME NEW fp \in kept, fp \notin Counted(active, res, ts)
       PROVE  NowInactive(fp, now(fp), ts)
  <2>1. fp \in DOMAIN active /\ fp \notin res /\ ~KeepFiring(active[fp], ts)
    BY <1>4, <1>11, Zenon DEF Counted
  <2>2. ~Deleted(active[fp], ts)
    BY <1>9, <1>11, <2>1, Zenon
  <2>3. active[fp].state \in {"firing", "inactive"}
    BY <1>9, <2>1, <2>2, Zenon DEF Deleted, Alerts, AlertStates
  <2>4. /\ Gone(active[fp], ts).lastSentAt = active[fp].lastSentAt
        /\ Gone(active[fp], ts).state = "inactive"
        /\ \/ active[fp].state = "inactive" /\ Gone(active[fp], ts).resolvedAt = active[fp].resolvedAt
           \/ active[fp].state # "inactive" /\ Gone(active[fp], ts).resolvedAt = ts
    <3>1. active[fp] \in Alerts
      BY <1>9, <2>1, Zenon
    <3>2. CASE active[fp].state = "inactive"
      BY <2>1, <3>1, <3>2, GoneIs, Zenon
    <3>3. CASE active[fp].state # "inactive"
      BY <2>1, <3>1, <3>3, GoneIs, Zenon
    <3> QED
      BY <3>2, <3>3, Zenon
  <2> HIDE DEF now, kept
  <2> QED
    BY <1>9, <2>1, <2>3, <2>4, Zenon DEF NowInactive
<1>12. \A fp \in Counted(active, res, ts) : fp \in kept /\ StillActive(fp, now(fp), ts)
  BY <1>8, <1>10, Zenon DEF Counted
<1>13. \A fp \in Fingerprints : StateOf(fp) = "firing" => fp \in kept
  <2> SUFFICES ASSUME NEW fp \in Fingerprints, StateOf(fp) = "firing" PROVE fp \in kept
    BY Zenon
  <2>1. fp \in DOMAIN active /\ active[fp].state = "firing"
    BY Zenon DEF StateOf
  <2>2. active[fp].resolvedAt = 0
    BY <2>1, Zenon DEF AlertInv
  <2>3. CASE fp \in res
    BY <1>8, <2>3, Zenon
  <2>4. CASE fp \notin res
    BY <1>4, <1>9, <2>1, <2>2, <2>4, Zenon DEF Deleted
  <2> QED
    BY <2>3, <2>4, Zenon
<1> HIDE DEF kept, now
<1> QED
  BY <1>1, <1>7, <1>11, <1>12, <1>13, Zenon

-------------------------------------------------------------------------------
\* A notification of a firing alert is valid for longer than the resend delay.
LEMMA ValidFor ==
  ASSUME NEW ts \in Nat
  PROVE  ValidUntil(ts) \in Nat /\ ValidUntil(ts) > ts + ResendDelay
<1> DEFINE S == {ResendDelay, EvalInterval}
<1>1. ResendDelay \in Nat /\ EvalInterval \in Nat /\ EvalInterval > 0
  BY RuleAssumption DEF RuleAssumption
<1>2. \E x \in S : \A y \in S : x >= y
  BY <1>1
<1>3. Max(S) \in S /\ \A y \in S : Max(S) >= y
  BY <1>2, Zenon DEF Max
<1>4. Max(S) \in Nat /\ Max(S) >= ResendDelay /\ Max(S) >= EvalInterval
  BY <1>1, <1>3
<1>5. ValidUntil(ts) = ts + 4 * Max(S)
  BY Zenon DEF ValidUntil
<1> HIDE DEF S
<1> QED
  BY <1>1, <1>4, <1>5

\* The effects of an evaluation that succeeds, on one alert at a time: new are
\* the alerts before the sending, counted those exported, sent those sent.
SucceedsAs(new, counted, sent) ==
  /\ counted \subseteq DOMAIN new
  /\ \A fp \in DOMAIN new : IF fp \in counted THEN StillActive(fp, new[fp], Tick)
                            ELSE NowInactive(fp, new[fp], Tick)
  /\ \A fp \in Fingerprints : StateOf(fp) = "firing" => fp \in DOMAIN new
  /\ sent \subseteq DOMAIN new /\ \A fp \in DOMAIN new : fp \in sent <=> NeedsSending(new[fp], Tick)
  /\ active' \in AlertMaps /\ DOMAIN active' = DOMAIN new
  /\ \A fp \in DOMAIN new :
       /\ active'[fp].state = new[fp].state /\ active'[fp].activeAt = new[fp].activeAt
       /\ active'[fp].resolvedAt = new[fp].resolvedAt
       /\ active'[fp].lastSentAt = IF fp \in sent THEN Tick ELSE new[fp].lastSentAt
  /\ am' \in [Fingerprints -> Nat] /\ told' \subseteq Fingerprints
  /\ \A fp \in told' : IF fp \in sent THEN am'[fp] = EndsAt(new[fp], Tick)
                       ELSE fp \in told /\ am'[fp] = am[fp]
  /\ prevSeries' = IF restored THEN counted ELSE {}
  /\ forState' = [fp \in Fingerprints |->
       IF fp \in prevSeries' THEN [t |-> Tick, v |-> new[fp].activeAt]
       ELSE IF fp \in prevSeries THEN [t |-> Tick, v |-> 0] ELSE forState[fp]]
  /\ held' = [fp \in Fingerprints |->
       IF fp \in counted /\ StateOf(fp) # "inactive"
       THEN held[fp] + EvalInterval * (failures + 1)
       ELSE IF fp \in counted \/ ~restored THEN held[fp] ELSE 0]

\* An evaluation that succeeds, as the proofs use it.
LEMMA SucceedsIs ==
  ASSUME RuleType, AlertInv, EvalSucceeds
  PROVE  \E new \in AlertMaps, counted \in SUBSET Fingerprints, sent \in SUBSET Fingerprints :
           SucceedsAs(new, counted, sent)
<1> USE DEF SucceedsAs
<1> DEFINE new(res)     == Evaluated(active, res, Tick)
           counted(res) == Counted(active, res, Tick)
           sent(res)    == {fp \in DOMAIN new(res) : NeedsSending(new(res)[fp], Tick)}
           series(res)  == IF restored THEN counted(res) ELSE {}
<1>1. PICK res \in SUBSET Fingerprints :
        /\ active' = [fp \in DOMAIN new(res) |->
             IF fp \in sent(res) THEN [new(res)[fp] EXCEPT !.lastSentAt = Tick] ELSE new(res)[fp]]
        /\ \/ /\ am' = [fp \in Fingerprints |->
                   IF fp \in sent(res) THEN EndsAt(new(res)[fp], Tick) ELSE am[fp]]
              /\ told' = told \cup sent(res)
           \/ told' = told \ sent(res) /\ am' = am
        /\ prevSeries' = series(res)
        /\ forState' = [fp \in Fingerprints |->
             IF fp \in series(res) THEN [t |-> Tick, v |-> new(res)[fp].activeAt]
             ELSE IF fp \in prevSeries THEN [t |-> Tick, v |-> 0] ELSE forState[fp]]
        /\ held' = [fp \in Fingerprints |->
             IF fp \in counted(res) /\ StateOf(fp) # "inactive"
             THEN held[fp] + EvalInterval * (failures + 1)
             ELSE IF fp \in counted(res) \/ ~restored THEN held[fp] ELSE 0]
  BY Zenon DEF EvalSucceeds
<1>2. Tick \in Nat
  BY RuleAssumption DEF RuleType, RuleAssumption, Tick
<1>3. /\ new(res) \in AlertMaps /\ counted(res) \subseteq DOMAIN new(res)
      /\ \A fp \in DOMAIN new(res) : IF fp \in counted(res) THEN StillActive(fp, new(res)[fp], Tick)
                                     ELSE NowInactive(fp, new(res)[fp], Tick)
      /\ \A fp \in Fingerprints : StateOf(fp) = "firing" => fp \in DOMAIN new(res)
  BY <1>2, EvaluatedIs, Zenon
<1> HIDE DEF new, counted
<1>4. /\ DOMAIN new(res) \in SUBSET Fingerprints /\ \A fp \in DOMAIN new(res) : new(res)[fp] \in Alerts
  BY <1>3, AlertMapIs, Zenon
<1>5. /\ sent(res) \subseteq DOMAIN new(res)
      /\ \A fp \in DOMAIN new(res) : fp \in sent(res) <=> NeedsSending(new(res)[fp], Tick)
  BY Zenon
<1> HIDE DEF sent
<1>6. ASSUME NEW fp \in DOMAIN new(res)
      PROVE  /\ active'[fp] \in Alerts
             /\ active'[fp].state = new(res)[fp].state /\ active'[fp].activeAt = new(res)[fp].activeAt
             /\ active'[fp].resolvedAt = new(res)[fp].resolvedAt
             /\ active'[fp].lastSentAt = IF fp \in sent(res) THEN Tick ELSE new(res)[fp].lastSentAt
  <2> DEFINE a == new(res)[fp]
  <2>1. a \in Alerts
    BY <1>4, Zenon
  <2>2. active'[fp] = IF fp \in sent(res) THEN [a EXCEPT !.lastSentAt = Tick] ELSE a
    BY <1>1, Zenon
  <2> HIDE DEF a
  <2>3. /\ active'[fp] \in Alerts
        /\ active'[fp].state = a.state /\ active'[fp].activeAt = a.activeAt
        /\ active'[fp].resolvedAt = a.resolvedAt
        /\ active'[fp].lastSentAt = IF fp \in sent(res) THEN Tick ELSE a.lastSentAt
    BY <1>2, <2>1, <2>2, Zenon DEF Alerts
  <2> QED
    BY <2>3, Zenon DEF a
<1>7. active' \in AlertMaps /\ DOMAIN active' = DOMAIN new(res)
  <2>1. active' \in [DOMAIN new(res) -> Alerts]
    <3>1. active' = [fp \in DOMAIN new(res) |-> active'[fp]]
      BY <1>1, Zenon
    <3> QED
      BY <1>6, <3>1, Zenon
  <2> QED
    BY <1>4, <2>1, IsAlertMap, Zenon
<1>8. \A fp \in sent(res) : EndsAt(new(res)[fp], Tick) \in Nat
  BY <1>2, <1>4, <1>5, ValidFor, Zenon DEF EndsAt, Alerts
<1>9. am \in [Fingerprints -> Nat] /\ told \subseteq Fingerprints
  BY Zenon DEF RuleType
<1>10. am' \in [Fingerprints -> Nat]
  BY <1>1, <1>8, <1>9, Zenon
<1>11. told' \subseteq Fingerprints
  BY <1>1, <1>4, <1>5, <1>9, Zenon
<1>12. \A fp \in told' : IF fp \in sent(res) THEN am'[fp] = EndsAt(new(res)[fp], Tick)
                         ELSE fp \in told /\ am'[fp] = am[fp]
  BY <1>1, <1>9, <1>11, Zenon
<1>13. counted(res) \in SUBSET Fingerprints /\ sent(res) \in SUBSET Fingerprints
  BY <1>3, <1>4, <1>5, Zenon
<1>14. prevSeries' = series(res)
  BY <1>1, Zenon
<1>15. forState' = [fp \in Fingerprints |->
             IF fp \in prevSeries' THEN [t |-> Tick, v |-> new(res)[fp].activeAt]
             ELSE IF fp \in prevSeries THEN [t |-> Tick, v |-> 0] ELSE forState[fp]]
  BY <1>1, Zenon
<1>16. held' = [fp \in Fingerprints |->
             IF fp \in counted(res) /\ StateOf(fp) # "inactive"
             THEN held[fp] + EvalInterval * (failures + 1)
             ELSE IF fp \in counted(res) \/ ~restored THEN held[fp] ELSE 0]
  BY <1>1, Zenon
<1>17. new(res) \in AlertMaps
  BY <1>3, Zenon
<1> USE <1>13, <1>17
<1> WITNESS new(res) \in AlertMaps, counted(res) \in SUBSET Fingerprints,
            sent(res) \in SUBSET Fingerprints
<1> QED
  BY <1>3, <1>5, <1>6, <1>7, <1>10, <1>11, <1>12, <1>14, <1>15, <1>16, Zenon

-------------------------------------------------------------------------------
\* RuleInv holds when the rule is loaded.
LEMMA RuleInitially == RuleInit => RuleInv
<1> SUFFICES ASSUME RuleInit PROVE RuleInv
  OBVIOUS
<1>1. active = <<>> /\ active \in AlertMaps /\ DOMAIN active = {}
  BY NoAlerts, Zenon DEF RuleInit
<1>2. /\ evalTs = FirstTs /\ restored = FALSE /\ ruleEvals = 0 /\ prevSeries = {}
      /\ told = Fingerprints /\ failures = 0 /\ crashes = 0
      /\ am = [fp \in Fingerprints |-> 0] /\ held = [fp \in Fingerprints |-> 0]
      /\ forState = [fp \in Fingerprints |-> [t |-> 0, v |-> 0]]
  BY Zenon DEF RuleInit
<1>3. RuleType
  <2>1. evalTs \in Nat /\ evalTs > ResendDelay /\ failures \in Nat /\ crashes \in Nat
    BY <1>2, RuleAssumption DEF RuleAssumption
  <2>2. forState \in [Fingerprints -> [t : Nat, v : Int]]
    BY <1>2
  <2>3. am \in [Fingerprints -> Nat] /\ held \in [Fingerprints -> Nat]
    BY <1>2
  <2>4. restored \in BOOLEAN /\ ruleEvals \in {-1, 0, 1, 3} /\ (restored <=> ruleEvals = 3)
    <3>1. 0 \in {-1, 0, 1, 3} /\ 0 # 3
      OBVIOUS
    <3> QED
      BY <1>2, <3>1, Zenon
  <2>5. prevSeries \subseteq Fingerprints /\ told \subseteq Fingerprints
    BY <1>2, Zenon
  <2> QED
    BY <1>1, <2>1, <2>2, <2>3, <2>4, <2>5, Zenon DEF RuleType
<1>4. AlertInv
  BY <1>1, Zenon DEF AlertInv
<1>5. ToldInv
  <2>1. \A fp \in told : StateOf(fp) = "inactive" /\ am[fp] = 0
    BY <1>1, <1>2, Zenon DEF StateOf
  <2> QED
    BY <1>3, <2>1 DEF ToldInv, RuleType
<1> QED
  BY <1>3, <1>4, <1>5 DEF RuleInv

\* An evaluation that succeeds keeps RuleInv, and the alerts that are firing
\* after it have been sent within the resend delay.
LEMMA SucceedsKeeps ==
  ASSUME RuleInv, EvalSucceeds
  PROVE  /\ RuleInv'
         /\ \A fp \in Fingerprints : StateOf(fp)' = "firing" =>
              active'[fp].lastSentAt + ResendDelay >= evalTs'
<1>1. PICK new \in AlertMaps, counted \in SUBSET Fingerprints, sent \in SUBSET Fingerprints :
        SucceedsAs(new, counted, sent)
  BY SucceedsIs, Zenon DEF RuleInv
<1> USE DEF SucceedsAs
<1>2. /\ evalTs' = Tick /\ failures' = 0 /\ restored' = restored /\ crashes' = crashes
      /\ ruleEvals \in {0, 1, 3}
      /\ ruleEvals' = CASE ruleEvals = 0 -> 1 [] ruleEvals = 1 -> -1 [] OTHER -> 3
  <2>1. ruleEvals \in {-1, 0, 1, 3} /\ ruleEvals >= 0
    BY Zenon DEF RuleInv, RuleType, EvalSucceeds
  <2>2. ruleEvals \in {0, 1, 3}
    BY <2>1
  <2> QED
    BY <2>2, Zenon DEF EvalSucceeds
<1>3. Tick = evalTs + EvalInterval /\ evalTs \in Nat /\ Tick \in Nat /\ Tick > evalTs /\ evalTs > ResendDelay
      /\ EvalInterval \in Nat /\ ResendDelay \in Nat
  BY RuleAssumption DEF RuleInv, RuleType, RuleAssumption, Tick
<1>4. /\ DOMAIN new \in SUBSET Fingerprints /\ \A fp \in DOMAIN new : new[fp] \in Alerts
      /\ DOMAIN active \in SUBSET Fingerprints /\ \A fp \in DOMAIN active : active[fp] \in Alerts
  BY <1>1, AlertMapIs, Zenon DEF RuleInv, RuleType
<1>5. RuleType'
  <2>1. forState' \in [Fingerprints -> [t : Nat, v : Int]]
    <3>1. \A fp \in prevSeries' : [t |-> Tick, v |-> new[fp].activeAt] \in [t : Nat, v : Int]
      <4>1. \A fp \in prevSeries' : new[fp].activeAt \in Int
        BY <1>1, <1>4, Zenon DEF Alerts
      <4> QED
        BY <1>3, <4>1, Zenon
    <3>2. [t |-> Tick, v |-> 0] \in [t : Nat, v : Int]
      BY <1>3
    <3>3. forState \in [Fingerprints -> [t : Nat, v : Int]]
      BY Zenon DEF RuleInv, RuleType
    <3> QED
      BY <1>1, <3>1, <3>2, <3>3, Zenon
  <2>2. held' \in [Fingerprints -> Nat]
    <3>1. failures \in Nat /\ held \in [Fingerprints -> Nat]
      BY Zenon DEF RuleInv, RuleType
    <3>2. EvalInterval * (failures + 1) \in Nat
      BY <1>3, <3>1
    <3>3. \A fp \in Fingerprints : held[fp] + EvalInterval * (failures + 1) \in Nat
      BY <3>1, <3>2
    <3>4. 0 \in Nat
      OBVIOUS
    <3> QED
      BY <1>1, <3>1, <3>3, <3>4, Zenon
  <2>3. evalTs' \in Nat /\ evalTs' > ResendDelay /\ failures' \in Nat
    BY <1>2, <1>3
  <2>4. prevSeries' \subseteq Fingerprints
    BY <1>1, Zenon
  <2>5. ruleEvals' \in {-1, 0, 1, 3} /\ (restored' <=> ruleEvals' = 3)
    BY <1>2 DEF RuleInv, RuleType
  <2> QED
    BY <1>1, <1>2, <2>1, <2>2, <2>3, <2>4, <2>5, Zenon DEF RuleInv, RuleType
<1>6. ASSUME NEW fp \in DOMAIN new, fp \in counted
      PROVE  /\ new[fp].state \in {"pending", "firing"} /\ new[fp].resolvedAt = 0
             /\ new[fp].lastSentAt <= evalTs
             /\ new[fp].state = "pending" => new[fp].lastSentAt = 0
             /\ new[fp].state = "firing" /\ StateOf(fp) # "firing" => new[fp].lastSentAt = 0
             /\ StateOf(fp) = "firing" => new[fp].state = "firing" /\ new[fp].lastSentAt = active[fp].lastSentAt
  <2>1. StillActive(fp, new[fp], Tick)
    BY <1>1, <1>6, Zenon
  <2>2. fp \in DOMAIN active => active[fp].lastSentAt <= evalTs /\ (StateOf(fp) = "pending" => active[fp].lastSentAt = 0)
    BY Zenon DEF RuleInv, AlertInv, StateOf
  <2>3. 0 <= evalTs
    BY <1>3
  <2>4. StateOf(fp) \in AlertStates
    BY <1>4, Zenon DEF StateOf, AlertStates, Alerts
  <2> QED
    BY <2>1, <2>2, <2>3, <2>4, Zenon DEF StillActive, AlertStates
<1>7. ASSUME NEW fp \in DOMAIN new, fp \notin counted
      PROVE  /\ new[fp].state = "inactive" /\ new[fp].resolvedAt # 0 /\ new[fp].resolvedAt <= Tick
             /\ new[fp].lastSentAt <= evalTs
             /\ StateOf(fp) = "firing" => new[fp].resolvedAt = Tick
  <2>1. NowInactive(fp, new[fp], Tick)
    BY <1>1, <1>7, Zenon
  <2>2. fp \in DOMAIN active /\ active[fp].lastSentAt <= evalTs /\ active[fp].resolvedAt <= evalTs
    BY <2>1, Zenon DEF RuleInv, AlertInv, NowInactive
  <2>3. StateOf(fp) = "inactive" => active[fp].resolvedAt # 0
    BY <2>2, Zenon DEF RuleInv, AlertInv, StateOf
  <2>4. active[fp].resolvedAt \in Nat /\ new[fp].resolvedAt \in Nat
    BY <1>4, <2>2, Zenon DEF Alerts
  <2>5. CASE StateOf(fp) = "inactive" /\ new[fp].resolvedAt = active[fp].resolvedAt
    BY <1>3, <2>1, <2>2, <2>3, <2>4, <2>5 DEF NowInactive
  <2>6. CASE StateOf(fp) = "firing" /\ new[fp].resolvedAt = Tick
    BY <1>3, <2>1, <2>2, <2>6 DEF NowInactive
  <2> QED
    BY <2>1, <2>5, <2>6, Zenon DEF NowInactive
<1>8. \A fp \in DOMAIN new : new[fp].lastSentAt \in Nat /\ new[fp].resolvedAt \in Nat
  BY <1>4, Zenon DEF Alerts
<1>9. AlertInv'
  <2> SUFFICES ASSUME NEW fp \in DOMAIN new
               PROVE  /\ active'[fp].state = "inactive" <=> active'[fp].resolvedAt # 0
                      /\ active'[fp].state = "pending" => active'[fp].lastSentAt = 0
                      /\ active'[fp].resolvedAt <= evalTs' /\ active'[fp].lastSentAt <= evalTs'
    BY <1>1, Zenon DEF AlertInv
  <2>1. /\ active'[fp].state = new[fp].state /\ active'[fp].resolvedAt = new[fp].resolvedAt
        /\ active'[fp].lastSentAt = IF fp \in sent THEN Tick ELSE new[fp].lastSentAt
        /\ evalTs' = Tick
    BY <1>1, <1>2, Zenon
  <2>2. new[fp].state = "pending" => fp \notin sent
    BY <1>1, Zenon DEF NeedsSending
  <2>3. new[fp].lastSentAt \in Nat /\ new[fp].resolvedAt \in Nat
    BY <1>8
  <2>4. CASE fp \in counted
    BY <1>3, <1>6, <2>1, <2>2, <2>3, <2>4
  <2>5. CASE fp \notin counted
    BY <1>3, <1>7, <2>1, <2>2, <2>3, <2>5
  <2> QED
    BY <2>4, <2>5
<1>10. \A fp : StateOf(fp)' = IF fp \in DOMAIN new THEN new[fp].state ELSE "inactive"
  BY <1>1, Zenon DEF StateOf
<1>11. ASSUME NEW fp \in DOMAIN new, new[fp].state = "firing"
       PROVE  /\ fp \in counted /\ new[fp].resolvedAt = 0
              /\ fp \notin sent => /\ StateOf(fp) = "firing" /\ new[fp].lastSentAt = active[fp].lastSentAt
                                   /\ new[fp].lastSentAt + ResendDelay >= Tick
  <2>1. fp \in counted /\ new[fp].resolvedAt = 0
    BY <1>6, <1>7, <1>11, Zenon
  <2>2. ASSUME fp \notin sent PROVE new[fp].lastSentAt + ResendDelay >= Tick
    <3>1. ~(new[fp].lastSentAt + ResendDelay < Tick)
      BY <1>1, <1>11, <2>2, Zenon DEF NeedsSending
    <3> QED
      BY <1>3, <1>8, <3>1
  <2>3. ASSUME fp \notin sent PROVE StateOf(fp) = "firing"
    <3>1. ASSUME StateOf(fp) # "firing" PROVE FALSE
      <4>1. new[fp].lastSentAt = 0
        BY <1>6, <1>11, <2>1, <3>1, Zenon
      <4> QED
        BY <1>3, <2>2, <2>3, <4>1
    <3> QED
      BY <3>1
  <2> QED
    BY <1>6, <2>1, <2>2, <2>3, Zenon
<1>12. ASSUME NEW fp \in told'
       PROVE  IF StateOf(fp)' = "firing" THEN am'[fp] = ValidUntil(active'[fp].lastSentAt)
              ELSE am'[fp] <= evalTs'
  <2>1. am'[fp] \in Nat /\ am[fp] \in Nat
    BY <1>1, Zenon DEF RuleInv, RuleType
  <2>2. CASE fp \in DOMAIN new /\ new[fp].state = "firing" /\ fp \in sent
    <3>1. am'[fp] = ValidUntil(Tick)
      BY <1>1, <1>11, <2>2, Zenon DEF EndsAt
    <3> QED
      BY <1>1, <1>10, <2>2, <3>1, Zenon
  <2>3. CASE fp \in DOMAIN new /\ new[fp].state = "firing" /\ fp \notin sent
    <3>1. fp \in told /\ am'[fp] = am[fp] /\ StateOf(fp) = "firing"
      BY <1>1, <1>11, <2>3, Zenon
    <3>2. am[fp] = ValidUntil(active[fp].lastSentAt)
      BY <3>1, Zenon DEF RuleInv, ToldInv
    <3>3. active'[fp].lastSentAt = active[fp].lastSentAt
      BY <1>1, <1>11, <2>3, Zenon
    <3> QED
      BY <1>10, <2>3, <3>1, <3>2, <3>3, Zenon
  <2>4. CASE fp \in sent /\ new[fp].state # "firing"
    <3>1. fp \in DOMAIN new /\ am'[fp] = EndsAt(new[fp], Tick) /\ new[fp].state # "pending"
      BY <1>1, <2>4, Zenon DEF NeedsSending
    <3>2. fp \notin counted
      BY <1>6, <2>4, <3>1, Zenon
    <3>3. am'[fp] = new[fp].resolvedAt /\ new[fp].resolvedAt <= Tick
      BY <1>7, <3>1, <3>2, Zenon DEF EndsAt
    <3> QED
      BY <1>2, <1>10, <2>4, <3>1, <3>3, Zenon
  <2>5. CASE fp \notin sent /\ ~(fp \in DOMAIN new /\ new[fp].state = "firing")
    <3>1. fp \in told /\ am'[fp] = am[fp] /\ StateOf(fp)' # "firing"
      BY <1>1, <1>10, <2>5, Zenon
    <3>2. StateOf(fp) # "firing"
      <4> SUFFICES ASSUME StateOf(fp) = "firing" PROVE FALSE
        OBVIOUS
      <4>1. fp \in DOMAIN new /\ fp \in Fingerprints
        BY <1>1, Zenon
      <4>2. fp \notin counted
        BY <1>6, <2>5, <4>1, Zenon
      <4>3. new[fp].state = "inactive" /\ new[fp].resolvedAt = Tick /\ new[fp].lastSentAt <= evalTs
        BY <1>7, <4>1, <4>2, Zenon
      <4>4. ~(new[fp].resolvedAt > new[fp].lastSentAt)
        BY <1>1, <2>5, <4>1, <4>3, Zenon DEF NeedsSending
      <4> QED
        BY <1>3, <1>8, <4>1, <4>3, <4>4
    <3>3. am[fp] <= evalTs
      BY <3>1, <3>2, Zenon DEF RuleInv, ToldInv
    <3>4. am'[fp] <= evalTs'
      BY <1>2, <1>3, <2>1, <3>1, <3>3
    <3> QED
      BY <3>1, <3>4, Zenon
  <2>6. fp \in sent => fp \in DOMAIN new
    BY <1>1, Zenon
  <2> QED
    BY <2>2, <2>3, <2>4, <2>5, <2>6, Zenon
<1>13. ToldInv'
  BY <1>12, Zenon DEF ToldInv
<1>14. ASSUME NEW fp \in Fingerprints, StateOf(fp)' = "firing"
       PROVE  active'[fp].lastSentAt + ResendDelay >= evalTs'
  <2>1. fp \in DOMAIN new /\ new[fp].state = "firing"
    BY <1>10, <1>14, Zenon
  <2>2. active'[fp].lastSentAt = IF fp \in sent THEN Tick ELSE new[fp].lastSentAt
    BY <1>1, <2>1, Zenon
  <2>3. fp \notin sent => new[fp].lastSentAt + ResendDelay >= Tick
    BY <1>11, <2>1, Zenon
  <2>4. CASE fp \in sent
    <3>1. active'[fp].lastSentAt = Tick /\ evalTs' = Tick
      BY <1>2, <2>2, <2>4, Zenon
    <3> QED
      BY <1>3, <3>1
  <2>5. CASE fp \notin sent
    BY <1>2, <2>2, <2>3, <2>5, Zenon
  <2> QED
    BY <2>4, <2>5, Zenon
<1> QED
  BY <1>5, <1>9, <1>13, <1>14, Zenon DEF RuleInv

\* The other steps: an evaluation that fails or is missed, the limit, the
\* restoration and a restart.
LEMMA RuleOthersKeep ==
  ASSUME RuleInv, EvalFails \/ EvalExceedsLimit \/ RestoreForState \/ CrashRule
  PROVE  RuleInv'
<1>1. /\ evalTs \in Nat /\ evalTs > ResendDelay /\ Tick \in Nat /\ Tick > evalTs
      /\ EvalInterval \in Nat /\ ResendDelay \in Nat /\ failures \in Nat
  BY RuleAssumption DEF RuleInv, RuleType, RuleAssumption, Tick
<1>2. /\ DOMAIN active \in SUBSET Fingerprints /\ \A fp \in DOMAIN active : active[fp] \in Alerts
      /\ active = [fp \in DOMAIN active |-> active[fp]]
  BY AlertMapIs, Zenon DEF RuleInv, RuleType
<1>3. \A fp \in DOMAIN active : active[fp].resolvedAt \in Nat /\ active[fp].lastSentAt \in Nat
  BY <1>2, Zenon DEF Alerts
<1>4. \A fp \in told : am[fp] \in Nat
  BY Zenon DEF RuleInv, RuleType
<1>5. ASSUME UNCHANGED <<active, told, am>>, evalTs' \in Nat, evalTs' >= evalTs
      PROVE  AlertInv' /\ ToldInv'
  <2>1. AlertInv'
    <3> SUFFICES ASSUME NEW fp \in DOMAIN active
                 PROVE  /\ active[fp].state = "inactive" <=> active[fp].resolvedAt # 0
                        /\ active[fp].state = "pending" => active[fp].lastSentAt = 0
                        /\ active[fp].resolvedAt <= evalTs' /\ active[fp].lastSentAt <= evalTs'
      BY <1>5, Zenon DEF AlertInv
    <3>1. /\ active[fp].state = "inactive" <=> active[fp].resolvedAt # 0
          /\ active[fp].state = "pending" => active[fp].lastSentAt = 0
          /\ active[fp].resolvedAt <= evalTs /\ active[fp].lastSentAt <= evalTs
      BY Zenon DEF RuleInv, AlertInv
    <3>2. active[fp].resolvedAt <= evalTs' /\ active[fp].lastSentAt <= evalTs'
      BY <1>1, <1>3, <1>5, <3>1
    <3> QED
      BY <3>1, <3>2
  <2>2. \A fp : StateOf(fp)' = StateOf(fp)
    BY <1>5, Zenon DEF StateOf
  <2>3. \A fp \in told : am[fp] <= evalTs => am[fp] <= evalTs'
    BY <1>1, <1>4, <1>5
  <2>4. ToldInv'
    BY <1>5, <2>2, <2>3, Zenon DEF RuleInv, ToldInv
  <2> QED
    BY <2>1, <2>4
<1>6. ASSUME active' = <<>>, told' \subseteq told, \A fp \in told' : fp \notin DOMAIN active,
             UNCHANGED am, evalTs' \in Nat, evalTs' >= evalTs
      PROVE  active' \in AlertMaps /\ AlertInv' /\ ToldInv'
  <2>1. active' \in AlertMaps /\ DOMAIN active' = {}
    BY <1>6, NoAlerts, Zenon
  <2>2. AlertInv'
    BY <2>1, Zenon DEF AlertInv
  <2>3. \A fp \in told' : StateOf(fp) = "inactive" /\ StateOf(fp)' = "inactive" /\ fp \in told
    BY <1>6, <2>1, Zenon DEF StateOf
  <2>4. \A fp \in told : am[fp] <= evalTs => am[fp] <= evalTs'
    BY <1>1, <1>4, <1>6
  <2>5. ToldInv'
    BY <1>6, <2>3, <2>4, Zenon DEF RuleInv, ToldInv
  <2> QED
    BY <2>1, <2>2, <2>5
<1>7. CASE EvalFails
  <2>1. /\ evalTs' = Tick /\ failures' = failures + 1 /\ ruleEvals >= 0
        /\ UNCHANGED <<active, restored, forState, prevSeries, am, told, held, crashes, lost>>
        /\ \/ ruleEvals' = CASE ruleEvals = 0 -> 1 [] ruleEvals = 1 -> -1 [] OTHER -> 3
           \/ ruleEvals' = ruleEvals
    BY <1>7, Zenon DEF EvalFails
  <2>2. ruleEvals' \in {-1, 0, 1, 3} /\ (restored <=> ruleEvals' = 3)
    BY <2>1 DEF RuleInv, RuleType
  <2>3. evalTs' \in Nat /\ evalTs' >= evalTs /\ evalTs' > ResendDelay /\ failures' \in Nat
    BY <1>1, <2>1
  <2>4. AlertInv' /\ ToldInv'
    BY <1>5, <2>1, <2>3, Zenon
  <2>5. RuleType'
    BY <2>1, <2>2, <2>3, Zenon DEF RuleInv, RuleType
  <2> QED
    BY <2>4, <2>5 DEF RuleInv
<1>8. CASE EvalExceedsLimit
  <2>1. /\ evalTs' = Tick /\ failures' = failures + 1 /\ ruleEvals >= 0
        /\ active' = <<>> /\ told' = told \ DOMAIN active
        /\ UNCHANGED <<restored, forState, prevSeries, am, held, crashes, lost>>
        /\ ruleEvals' = CASE ruleEvals = 0 -> 1 [] ruleEvals = 1 -> -1 [] OTHER -> 3
    BY <1>8, Zenon DEF EvalExceedsLimit
  <2>2. ruleEvals' \in {-1, 0, 1, 3} /\ (restored <=> ruleEvals' = 3)
    BY <2>1 DEF RuleInv, RuleType
  <2>3. evalTs' \in Nat /\ evalTs' >= evalTs /\ evalTs' > ResendDelay /\ failures' \in Nat
    BY <1>1, <2>1
  <2>4. active' \in AlertMaps /\ AlertInv' /\ ToldInv'
    BY <1>6, <2>1, <2>3, Zenon
  <2>5. RuleType'
    BY <2>1, <2>2, <2>3, <2>4, Zenon DEF RuleInv, RuleType
  <2> QED
    BY <2>4, <2>5 DEF RuleInv
<1>9. CASE CrashRule
  <2>1. /\ active' = <<>> /\ told' = {} /\ failures' = 0 /\ crashes' = crashes + 1
        /\ restored' = FALSE /\ ruleEvals' = 0 /\ prevSeries' = {}
        /\ UNCHANGED <<forState, am, held, lost>>
    BY <1>9, Zenon DEF CrashRule
  <2>2. PICK down \in 0 .. 2 : evalTs' = evalTs + down * EvalInterval
    BY <1>9, Zenon DEF CrashRule
  <2>3. evalTs' \in Nat /\ evalTs' >= evalTs
    <3>1. down = 0 \/ down = 1 \/ down = 2
      OBVIOUS
    <3> QED
      BY <1>1, <2>2, <3>1
  <2>4. active' \in AlertMaps /\ AlertInv' /\ ToldInv'
    BY <1>6, <2>1, <2>3, Zenon
  <2>5. 0 \in {-1, 0, 1, 3} /\ 0 # 3 /\ 0 \in Nat /\ evalTs' > ResendDelay
    BY <1>1, <2>3
  <2>6. crashes' \in Nat
    BY <2>1 DEF RuleInv, RuleType
  <2>7. RuleType'
    BY <2>1, <2>3, <2>4, <2>5, <2>6, Zenon DEF RuleInv, RuleType
  <2> QED
    BY <2>4, <2>7 DEF RuleInv
<1>10. CASE RestoreForState
  <2> DEFINE at(fp) == RestoredActiveAt(forState[fp], active[fp].activeAt, evalTs)
             a(fp)  == IF HoldDuration < ForGracePeriod THEN active[fp]
                       ELSE [active[fp] EXCEPT !.activeAt = at(fp)]
  <2>1. /\ active' = [fp \in DOMAIN active |-> a(fp)]
        /\ ruleEvals = -1 /\ ruleEvals' = 3 /\ restored' = TRUE
        /\ UNCHANGED <<evalTs, forState, prevSeries, am, told, failures, misses, held, crashes, lost>>
    BY <1>10, Zenon DEF RestoreForState
  <2>2. \A fp \in DOMAIN active : at(fp) \in Int
    <3> TAKE fp \in DOMAIN active
    <3>1. active[fp].activeAt \in Int /\ forState[fp].t \in Nat /\ forState[fp].v \in Int
      BY <1>2, Zenon DEF Alerts, RuleInv, RuleType
    <3>2. HoldDuration \in Nat /\ ForGracePeriod \in Nat
      BY RuleAssumption DEF RuleAssumption
    <3> QED
      BY <1>1, <3>1, <3>2 DEF RestoredActiveAt
  <2>3. \A fp \in DOMAIN active : /\ a(fp) \in Alerts /\ a(fp).state = active[fp].state
                                  /\ a(fp).resolvedAt = active[fp].resolvedAt
                                  /\ a(fp).lastSentAt = active[fp].lastSentAt
    BY <1>2, <2>2, Zenon DEF Alerts
  <2> HIDE DEF a, at
  <2>4. /\ active' \in AlertMaps /\ DOMAIN active' = DOMAIN active
        /\ \A fp \in DOMAIN active : active'[fp] = a(fp)
    BY <1>2, <2>1, <2>3, IsAlertMap, Zenon
  <2>5. AlertInv'
    BY <2>1, <2>3, <2>4, ZenonT(30) DEF RuleInv, AlertInv
  <2>6. \A fp : StateOf(fp)' = StateOf(fp)
    BY <2>3, <2>4, Zenon DEF StateOf
  <2>7. \A fp : StateOf(fp) = "firing" => active'[fp].lastSentAt = active[fp].lastSentAt
    BY <2>3, <2>4, Zenon DEF StateOf
  <2>8. ToldInv'
    BY <2>1, <2>6, <2>7, Zenon DEF RuleInv, ToldInv
  <2>9. 3 \in {-1, 0, 1, 3}
    OBVIOUS
  <2>10. RuleType'
    BY <2>1, <2>4, <2>9, Zenon DEF RuleInv, RuleType
  <2> QED
    BY <2>5, <2>8, <2>10 DEF RuleInv
<1> QED
  BY <1>7, <1>8, <1>9, <1>10, Zenon

\* Every step of the rule keeps RuleInv.
LEMMA RuleStepKeeps == RuleInv /\ [RuleNext]_ruleVars => RuleInv'
<1> SUFFICES ASSUME RuleInv, [RuleNext]_ruleVars PROVE RuleInv'
  OBVIOUS
<1>1. CASE UNCHANGED ruleVars
  <2>1. UNCHANGED <<evalTs, active, restored, ruleEvals, forState, prevSeries, am, told,
                    failures, held, crashes>>
    BY <1>1, Zenon DEF ruleVars
  <2>2. RuleType'
    BY <2>1, Zenon DEF RuleInv, RuleType
  <2>3. AlertInv'
    BY <2>1, Zenon DEF RuleInv, AlertInv
  <2>4. ToldInv'
    BY <2>1, Zenon DEF RuleInv, ToldInv, StateOf
  <2> QED
    BY <2>2, <2>3, <2>4 DEF RuleInv
<1> QED
  BY <1>1, SucceedsKeeps, RuleOthersKeep, Zenon DEF RuleNext

\* Alertmanager's view of an alert is right after every evaluation that succeeds
\* (sendAlerts, needsSending): for all durations, delays and failures.
THEOREM AlertmanagerIsRight == RuleSpec => AlertmanagerAgrees
<1>1. RuleInv /\ [RuleNext]_ruleVars =>
        [EvalSucceeds => \A fp \in told' : (am'[fp] > evalTs') <=> (StateOf(fp)' = "firing")]_ruleVars
  <2> SUFFICES ASSUME RuleInv, EvalSucceeds, NEW fp \in told'
               PROVE  (am'[fp] > evalTs') <=> (StateOf(fp)' = "firing")
    OBVIOUS
  <2>1. RuleInv' /\ (fp \in Fingerprints /\ StateOf(fp)' = "firing" =>
                       active'[fp].lastSentAt + ResendDelay >= evalTs')
    BY SucceedsKeeps, Zenon
  <2>2. fp \in Fingerprints /\ evalTs' \in Nat /\ am'[fp] \in Nat
    BY <2>1, Zenon DEF RuleInv, RuleType
  <2>3. CASE StateOf(fp)' = "firing"
    <3>1. am'[fp] = ValidUntil(active'[fp].lastSentAt)
      BY <2>1, <2>3, Zenon DEF RuleInv, ToldInv
    <3>2. active'[fp].lastSentAt \in Nat
      <4>1. fp \in DOMAIN active'
        BY <2>3, Zenon DEF StateOf
      <4>2. active' \in AlertMaps
        BY <2>1, Zenon DEF RuleInv, RuleType
      <4> QED
        BY <4>1, <4>2, AlertMapIs, Zenon DEF Alerts
    <3>3. am'[fp] > active'[fp].lastSentAt + ResendDelay
      BY <3>1, <3>2, ValidFor, Zenon
    <3>4. ResendDelay \in Nat
      BY RuleAssumption DEF RuleAssumption
    <3>5. am'[fp] > evalTs'
      BY <2>1, <2>2, <2>3, <3>2, <3>3, <3>4
    <3> QED
      BY <2>3, <3>5
  <2>4. CASE StateOf(fp)' # "firing"
    <3>1. am'[fp] <= evalTs'
      BY <2>1, <2>4, Zenon DEF RuleInv, ToldInv
    <3>2. ~(am'[fp] > evalTs')
      BY <2>2, <3>1
    <3> QED
      BY <2>4, <3>2
  <2> QED
    BY <2>3, <2>4
<1> QED
  BY <1>1, RuleInitially, RuleStepKeeps, PTL DEF RuleSpec, AlertmanagerAgrees

-------------------------------------------------------------------------------
\* The time an alert is taken to have been active for has been spent that way,
\* in the alerts of the rule and in the samples a restart goes by.
EarnInv ==
  \A fp \in DOMAIN active : active[fp].state \in {"pending", "firing"} =>
    HoldDuration <= held[fp] \/ evalTs <= held[fp] + active[fp].activeAt + EvalInterval * failures
ForInv ==
  crashes = 0 \/ ~restored =>
    \A fp \in Fingerprints : forState[fp].v # 0 =>
      HoldDuration <= held[fp] \/ forState[fp].t <= forState[fp].v + held[fp]

\* Before the first restart every sample that is not a marker is of a series of
\* the last evaluation.
PrevInv ==
  /\ ~restored => prevSeries = {}
  /\ crashes = 0 => \A fp \in Fingerprints : forState[fp].v # 0 => fp \in prevSeries

EarnedInv == RuleInv /\ EarnInv /\ ForInv /\ PrevInv /\ crashes <= MaxCrashes

\* Evaluation periods add up.
LEMMA PeriodsAdd ==
  ASSUME NEW i \in Nat, NEW f \in Nat
  PROVE  i * f \in Nat /\ i * (f + 1) = i * f + i /\ i * 0 = 0
  OBVIOUS

\* The arithmetic of an evaluation that finds an alert still active, and of the
\* restoration of an alert.
LEMMA StillEarned ==
  ASSUME NEW ts \in Nat, NEW h \in Nat, NEW at \in Int, NEW x \in Nat, NEW i \in Nat,
         HoldDuration <= h \/ ts <= h + at + x
  PROVE  /\ HoldDuration <= h + (x + i) \/ ts + i <= h + (x + i) + at
         /\ (ts + i) - at >= HoldDuration => h + (x + i) >= HoldDuration
  BY RuleAssumption DEF RuleAssumption

\* An alert restored by RestoreForState fires no sooner than it would have.
LEMMA RestoredIsEarned ==
  ASSUME NEW s \in [t : Nat, v : Int], NEW at \in Int, NEW ts \in Nat, NEW h \in Nat, NEW x \in Nat,
         HoldDuration <= h \/ ts <= h + at + x,
         s.v # 0 => HoldDuration <= h \/ s.t <= s.v + h
  PROVE  HoldDuration <= h \/ ts <= h + RestoredActiveAt(s, at, ts) + x
<1>1. HoldDuration \in Nat /\ ForGracePeriod \in Nat /\ OutageTolerance \in Nat /\ s.t \in Nat /\ s.v \in Int
  BY RuleAssumption DEF RuleAssumption
<1> QED
  BY <1>1 DEF RestoredActiveAt

\* An evaluation that succeeds keeps all of this, and lets an alert fire only
\* when its time is up.
LEMMA SucceedsEarns ==
  ASSUME EarnedInv, EvalSucceeds
  PROVE  /\ EarnedInv'
         /\ \A fp \in Fingerprints : StateOf(fp)' = "firing" /\ StateOf(fp) # "firing"
              => held'[fp] >= HoldDuration
<1>1. PICK new \in AlertMaps, counted \in SUBSET Fingerprints, sent \in SUBSET Fingerprints :
        SucceedsAs(new, counted, sent)
  BY SucceedsIs, Zenon DEF EarnedInv, RuleInv
<1> USE DEF SucceedsAs
<1>2. /\ evalTs' = Tick /\ failures' = 0 /\ restored' = restored /\ crashes' = crashes
  BY Zenon DEF EvalSucceeds
<1> DEFINE x == EvalInterval * failures
<1>3. /\ evalTs \in Nat /\ failures \in Nat /\ EvalInterval \in Nat /\ HoldDuration \in Nat
      /\ held \in [Fingerprints -> Nat] /\ Tick = evalTs + EvalInterval /\ Tick \in Nat
  BY RuleAssumption DEF EarnedInv, RuleInv, RuleType, RuleAssumption, Tick
<1>4. x \in Nat /\ EvalInterval * (failures + 1) = x + EvalInterval /\ EvalInterval * failures' = 0
  BY <1>2, <1>3, PeriodsAdd, Zenon
<1>5. \A fp \in DOMAIN active : active[fp].activeAt \in Int
  BY AlertMapIs, Zenon DEF EarnedInv, RuleInv, RuleType, Alerts
<1>6. \A fp \in DOMAIN new : fp \in Fingerprints /\ new[fp].activeAt \in Int
  BY AlertMapIs, Zenon DEF Alerts
<1>7. ASSUME NEW fp \in counted
      PROVE  /\ HoldDuration <= held'[fp] \/ Tick <= held'[fp] + new[fp].activeAt
             /\ new[fp].state = "firing" /\ StateOf(fp) # "firing" => held'[fp] >= HoldDuration
  <2>1. fp \in Fingerprints /\ fp \in DOMAIN new /\ StillActive(fp, new[fp], Tick) /\ held[fp] \in Nat
    BY <1>1, <1>3, <1>7, Zenon
  <2>2. CASE StateOf(fp) = "inactive"
    <3>1. held'[fp] = held[fp] /\ new[fp].activeAt = Tick
      BY <1>1, <1>7, <2>1, <2>2, Zenon DEF StillActive
    <3>2. new[fp].state = "firing" /\ StateOf(fp) # "firing" => Tick - new[fp].activeAt >= HoldDuration
      BY <2>1, Zenon DEF StillActive
    <3>3. Tick - new[fp].activeAt >= HoldDuration => held'[fp] >= HoldDuration
      BY <1>3, <2>1, <3>1
    <3>4. Tick <= held'[fp] + new[fp].activeAt
      BY <1>3, <2>1, <3>1
    <3> QED
      BY <3>2, <3>3, <3>4, Zenon
  <2>3. CASE StateOf(fp) # "inactive"
    <3> DEFINE at == active[fp].activeAt
    <3>1. /\ fp \in DOMAIN active /\ new[fp].activeAt = at /\ active[fp].state = StateOf(fp)
      BY <2>1, <2>3, Zenon DEF StillActive, StateOf
    <3>2. active[fp].state \in {"pending", "firing"}
      BY <2>3, <3>1, AlertMapIs, Zenon DEF EarnedInv, RuleInv, RuleType, Alerts, AlertStates
    <3>3. held'[fp] = held[fp] + (x + EvalInterval)
      <4>1. held'[fp] = held[fp] + EvalInterval * (failures + 1)
        BY <1>1, <1>7, <2>1, <2>3, Zenon
      <4> QED
        BY <1>4, <4>1, Zenon
    <3>4. at \in Int
      BY <1>5, <3>1, Zenon
    <3>5. HoldDuration <= held[fp] \/ evalTs <= held[fp] + at + x
      BY <3>1, <3>2, Zenon DEF EarnedInv, EarnInv
    <3> HIDE DEF x, at
    <3>6. /\ HoldDuration <= held[fp] + (x + EvalInterval) \/ evalTs + EvalInterval <= held[fp] + (x + EvalInterval) + at
          /\ (evalTs + EvalInterval) - at >= HoldDuration => held[fp] + (x + EvalInterval) >= HoldDuration
      BY <1>3, <1>4, <2>1, <3>4, <3>5, StillEarned, Zenon
    <3>7. new[fp].state = "firing" /\ StateOf(fp) # "firing" => Tick - at >= HoldDuration
      BY <2>1, <3>1, Zenon DEF StillActive
    <3> QED
      BY <1>3, <3>1, <3>3, <3>6, <3>7, Zenon
  <2> QED
    BY <2>2, <2>3, Zenon
<1> HIDE DEF x
<1>8. RuleInv'
  BY SucceedsKeeps, Zenon DEF EarnedInv
<1>9. EarnInv'
  <2> SUFFICES ASSUME NEW fp \in DOMAIN active', active'[fp].state \in {"pending", "firing"}
               PROVE  \/ HoldDuration <= held'[fp]
                      \/ evalTs' <= held'[fp] + active'[fp].activeAt + EvalInterval * failures'
    BY Zenon DEF EarnInv
  <2>1. fp \in DOMAIN new /\ active'[fp].state = new[fp].state /\ active'[fp].activeAt = new[fp].activeAt
    BY <1>1, Zenon
  <2>2. fp \in counted
    BY <1>1, <2>1, Zenon DEF NowInactive
  <2>3. HoldDuration <= held'[fp] \/ Tick <= held'[fp] + new[fp].activeAt
    BY <1>7, <2>2, Zenon
  <2>4. held'[fp] \in Nat /\ new[fp].activeAt \in Int
    BY <1>6, <1>8, <2>1, Zenon DEF RuleInv, RuleType
  <2>5. held'[fp] + new[fp].activeAt + 0 = held'[fp] + new[fp].activeAt
    BY <2>4
  <2> QED
    BY <1>2, <1>4, <2>1, <2>3, <2>5, Zenon
<1>10. PrevInv'
  <2>1. ~restored' => prevSeries' = {}
    BY <1>1, <1>2, Zenon
  <2>2. ASSUME crashes' = 0, NEW fp \in Fingerprints, forState'[fp].v # 0, fp \notin prevSeries'
        PROVE  FALSE
    <3>1. CASE fp \in prevSeries
      BY <1>1, <2>2, <3>1, Zenon
    <3>2. CASE fp \notin prevSeries
      <4>1. forState'[fp] = forState[fp]
        BY <1>1, <2>2, <3>2, Zenon
      <4> QED
        BY <1>2, <2>2, <3>2, <4>1, Zenon DEF EarnedInv, PrevInv
    <3> QED
      BY <3>1, <3>2
  <2> QED
    BY <2>1, <2>2, Zenon DEF PrevInv
<1>11. ForInv'
  <2> SUFFICES ASSUME crashes' = 0 \/ ~restored', NEW fp \in Fingerprints, forState'[fp].v # 0
               PROVE  HoldDuration <= held'[fp] \/ forState'[fp].t <= forState'[fp].v + held'[fp]
    BY Zenon DEF ForInv
  <2>1. held[fp] \in Nat /\ held'[fp] \in Nat
    BY <1>3, <1>8, Zenon DEF RuleInv, RuleType
  <2>2. CASE fp \in prevSeries'
    <3>1. fp \in counted /\ forState'[fp].t = Tick /\ forState'[fp].v = new[fp].activeAt
      BY <1>1, <2>2, Zenon
    <3>2. HoldDuration <= held'[fp] \/ Tick <= held'[fp] + new[fp].activeAt
      BY <1>7, <3>1, Zenon
    <3>3. new[fp].activeAt \in Int
      BY <1>1, <1>6, <3>1, Zenon
    <3>4. held'[fp] + new[fp].activeAt = new[fp].activeAt + held'[fp]
      BY <2>1, <3>3
    <3> QED
      BY <3>1, <3>2, <3>4, Zenon
  <2>3. CASE fp \notin prevSeries'
    <3>1. ~restored
      BY <1>2, <1>10, <2>3, Zenon DEF PrevInv
    <3>2. fp \notin prevSeries
      BY <3>1, Zenon DEF EarnedInv, PrevInv
    <3>3. forState'[fp] = forState[fp]
      BY <1>1, <2>3, <3>2, Zenon
    <3>4. held'[fp] = held[fp] \/ held'[fp] = held[fp] + (x + EvalInterval)
      BY <1>1, <1>4, <3>1, Zenon
    <3>5. held'[fp] >= held[fp]
      BY <1>3, <1>4, <2>1, <3>4
    <3>6. HoldDuration <= held[fp] \/ forState[fp].t <= forState[fp].v + held[fp]
      BY <3>1, <3>3, Zenon DEF EarnedInv, ForInv
    <3>7. forState[fp].t \in Nat /\ forState[fp].v \in Int
      BY Zenon DEF EarnedInv, RuleInv, RuleType
    <3>8. HoldDuration <= held'[fp] \/ forState[fp].t <= forState[fp].v + held'[fp]
      BY <1>3, <2>1, <3>5, <3>6, <3>7
    <3> QED
      BY <3>3, <3>8, Zenon
  <2> QED
    BY <2>2, <2>3
<1>12. ASSUME NEW fp \in Fingerprints, StateOf(fp)' = "firing", StateOf(fp) # "firing"
       PROVE  held'[fp] >= HoldDuration
  <2>1. fp \in DOMAIN new /\ new[fp].state = "firing"
    BY <1>1, <1>12, Zenon DEF StateOf
  <2>2. fp \in counted
    BY <1>1, <2>1, Zenon DEF NowInactive
  <2> QED
    BY <1>7, <1>12, <2>1, <2>2, Zenon
<1>13. crashes' <= MaxCrashes
  BY <1>2, Zenon DEF EarnedInv
<1> QED
  BY <1>8, <1>9, <1>10, <1>11, <1>12, <1>13, Zenon DEF EarnedInv

\* The other steps keep what is earned, RestoreForState and a restart among them.
LEMMA OthersEarn ==
  ASSUME MaxCrashes <= 1, EarnedInv,
         EvalFails \/ EvalExceedsLimit \/ RestoreForState \/ CrashRule
  PROVE  EarnedInv' /\ \A fp : StateOf(fp)' = "firing" => StateOf(fp) = "firing"
<1>1. RuleInv'
  BY RuleOthersKeep, Zenon DEF EarnedInv
<1>2. /\ evalTs \in Nat /\ failures \in Nat /\ EvalInterval \in Nat /\ HoldDuration \in Nat
      /\ held \in [Fingerprints -> Nat] /\ crashes \in Nat /\ MaxCrashes \in Nat
      /\ forState \in [Fingerprints -> [t : Nat, v : Int]]
  BY RuleAssumption DEF EarnedInv, RuleInv, RuleType, RuleAssumption
<1>3. /\ DOMAIN active \in SUBSET Fingerprints
      /\ \A fp \in DOMAIN active : active[fp] \in Alerts /\ active[fp].activeAt \in Int
  BY AlertMapIs, Zenon DEF EarnedInv, RuleInv, RuleType, Alerts
<1>4. ASSUME active' = <<>>
      PROVE  EarnInv' /\ \A fp : StateOf(fp)' # "firing"
  <2>1. DOMAIN active' = {}
    BY <1>4, NoAlerts, Zenon
  <2> QED
    BY <2>1, Zenon DEF EarnInv, StateOf
<1>5. ASSUME UNCHANGED <<crashes, restored, forState, held, prevSeries>>
      PROVE  ForInv' /\ PrevInv' /\ crashes' <= MaxCrashes
  BY <1>5, Zenon DEF EarnedInv, ForInv, PrevInv
<1>6. CASE EvalFails
  <2>1. /\ evalTs' = evalTs + EvalInterval /\ failures' = failures + 1
        /\ UNCHANGED <<active, crashes, restored, forState, held, prevSeries>>
    BY <1>6, Zenon DEF EvalFails, Tick
  <2>2. EarnInv'
    <3> SUFFICES ASSUME NEW fp \in DOMAIN active, active[fp].state \in {"pending", "firing"}
                 PROVE  \/ HoldDuration <= held[fp]
                        \/ evalTs' <= held[fp] + active[fp].activeAt + EvalInterval * failures'
      BY <2>1, Zenon DEF EarnInv
    <3> DEFINE x == EvalInterval * failures
    <3>1. HoldDuration <= held[fp] \/ evalTs <= held[fp] + active[fp].activeAt + x
      BY Zenon DEF EarnedInv, EarnInv
    <3>2. x \in Nat /\ EvalInterval * failures' = x + EvalInterval
      BY <1>2, <2>1, PeriodsAdd, Zenon
    <3>3. held[fp] \in Nat /\ active[fp].activeAt \in Int
      BY <1>2, <1>3, Zenon
    <3> HIDE DEF x
    <3> QED
      BY <1>2, <2>1, <3>1, <3>2, <3>3
  <2>3. \A fp : StateOf(fp)' = StateOf(fp)
    BY <2>1, Zenon DEF StateOf
  <2> QED
    BY <1>1, <1>5, <2>1, <2>2, <2>3, Zenon DEF EarnedInv
<1>7. CASE EvalExceedsLimit
  <2>1. active' = <<>> /\ UNCHANGED <<crashes, restored, forState, held, prevSeries>>
    BY <1>7, Zenon DEF EvalExceedsLimit
  <2> QED
    BY <1>1, <1>4, <1>5, <2>1, Zenon DEF EarnedInv
<1>8. CASE CrashRule
  <2>1. /\ active' = <<>> /\ crashes' = crashes + 1 /\ crashes < MaxCrashes /\ prevSeries' = {}
        /\ UNCHANGED <<forState, held>>
    BY <1>8, Zenon DEF CrashRule
  <2>2. crashes = 0 /\ crashes' # 0 /\ crashes' <= MaxCrashes
    BY <1>2, <2>1
  <2>3. ForInv'
    BY <2>1, <2>2, Zenon DEF EarnedInv, ForInv
  <2>4. PrevInv'
    BY <2>1, <2>2, Zenon DEF PrevInv
  <2> QED
    BY <1>1, <1>4, <2>1, <2>2, <2>3, <2>4, Zenon DEF EarnedInv
<1>9. CASE RestoreForState
  <2> DEFINE at(fp) == RestoredActiveAt(forState[fp], active[fp].activeAt, evalTs)
             a(fp)  == IF HoldDuration < ForGracePeriod THEN active[fp]
                       ELSE [active[fp] EXCEPT !.activeAt = at(fp)]
  <2>1. /\ active' = [fp \in DOMAIN active |-> a(fp)] /\ ruleEvals = -1
        /\ UNCHANGED <<evalTs, failures, crashes, forState, held, prevSeries>>
    BY <1>9, Zenon DEF RestoreForState
  <2>2. ~restored
    <3>1. -1 # 3
      OBVIOUS
    <3> QED
      BY <2>1, <3>1, Zenon DEF EarnedInv, RuleInv, RuleType
  <2>3. \A fp \in DOMAIN active : /\ a(fp).state = active[fp].state
                                  /\ a(fp).activeAt \in {active[fp].activeAt, at(fp)}
    BY <1>3, Zenon DEF Alerts
  <2>4. EarnInv'
    <3> SUFFICES ASSUME NEW fp \in DOMAIN active, active[fp].state \in {"pending", "firing"}
                 PROVE  \/ HoldDuration <= held[fp]
                        \/ evalTs <= held[fp] + a(fp).activeAt + EvalInterval * failures
      BY <2>1, <2>3, Zenon DEF EarnInv
    <3> DEFINE x == EvalInterval * failures
    <3>1. HoldDuration <= held[fp] \/ evalTs <= held[fp] + active[fp].activeAt + x
      BY Zenon DEF EarnedInv, EarnInv
    <3>2. x \in Nat
      BY <1>2, PeriodsAdd, Zenon
    <3>3. held[fp] \in Nat /\ active[fp].activeAt \in Int /\ forState[fp] \in [t : Nat, v : Int]
      BY <1>2, <1>3, Zenon
    <3>4. forState[fp].v # 0 => HoldDuration <= held[fp] \/ forState[fp].t <= forState[fp].v + held[fp]
      BY <1>3, <2>2, Zenon DEF EarnedInv, ForInv
    <3> HIDE DEF x
    <3>5. HoldDuration <= held[fp] \/ evalTs <= held[fp] + at(fp) + x
      BY <1>2, <3>1, <3>2, <3>3, <3>4, RestoredIsEarned, Zenon
    <3> HIDE DEF at, a
    <3>6. HoldDuration <= held[fp] \/ evalTs <= held[fp] + a(fp).activeAt + x
      BY <2>3, <3>1, <3>5, Zenon
    <3> QED
      BY <3>6, Zenon DEF x
  <2>5. ForInv'
    <3> SUFFICES ASSUME NEW fp \in Fingerprints, forState[fp].v # 0
                 PROVE  HoldDuration <= held[fp] \/ forState[fp].t <= forState[fp].v + held[fp]
      BY <2>1, Zenon DEF ForInv
    <3> QED
      BY <2>2, Zenon DEF EarnedInv, ForInv
  <2>6. PrevInv'
    BY <2>1, <2>2, Zenon DEF EarnedInv, PrevInv
  <2>7. \A fp : StateOf(fp)' = StateOf(fp)
    <3> HIDE DEF a
    <3> QED
      BY <2>1, <2>3, Zenon DEF StateOf
  <2>8. crashes' <= MaxCrashes
    BY <2>1, Zenon DEF EarnedInv
  <2> QED
    BY <1>1, <2>4, <2>5, <2>6, <2>7, <2>8, Zenon DEF EarnedInv
<1> QED
  BY <1>6, <1>7, <1>8, <1>9, Zenon

\* A rule that has just been loaded has no alerts.
LEMMA EarnedInitially == RuleInit => EarnedInv
<1> SUFFICES ASSUME RuleInit PROVE EarnedInv
  OBVIOUS
<1>1. RuleInv
  BY RuleInitially
<1>2. /\ DOMAIN active = {} /\ prevSeries = {} /\ crashes = 0
      /\ \A fp \in Fingerprints : forState[fp].v = 0
  BY NoAlerts, Zenon DEF RuleInit
<1>3. EarnInv /\ ForInv /\ PrevInv
  BY <1>2, Zenon DEF EarnInv, ForInv, PrevInv
<1>4. crashes <= MaxCrashes
  BY <1>2, RuleAssumption DEF RuleAssumption
<1> QED
  BY <1>1, <1>3, <1>4 DEF EarnedInv

\* No alert fires before it has been active for its hold duration, downtime not
\* counted (Eval, RestoreForState): for all durations, grace periods and outages,
\* with at most one restart. A second restart can restore the state of an alert
\* that has gone in between, because the series of the evaluations before the
\* first restart get no staleness marker.
THEOREM AlertsEarnTheirFiring ==
  ASSUME MaxCrashes <= 1
  PROVE  RuleSpec => FiringIsEarned
<1>1. EarnedInv /\ [RuleNext]_ruleVars => EarnedInv'
  <2> SUFFICES ASSUME EarnedInv, [RuleNext]_ruleVars PROVE EarnedInv'
    OBVIOUS
  <2>1. CASE UNCHANGED ruleVars
    <3>1. UNCHANGED <<evalTs, active, restored, forState, prevSeries, failures, held, crashes>>
      BY <2>1, Zenon DEF ruleVars
    <3>2. RuleInv'
      BY RuleStepKeeps, Zenon DEF EarnedInv
    <3> QED
      BY <3>1, <3>2, Zenon DEF EarnedInv, EarnInv, ForInv, PrevInv
  <2> QED
    BY <2>1, SucceedsEarns, OthersEarn, Zenon DEF RuleNext
<1>2. EarnedInv /\ [RuleNext]_ruleVars =>
        [\A fp \in Fingerprints : StateOf(fp)' = "firing" /\ StateOf(fp) # "firing"
           => held'[fp] >= HoldDuration]_ruleVars
  BY SucceedsEarns, OthersEarn, Zenon DEF RuleNext
<1> QED
  BY <1>1, <1>2, EarnedInitially, PTL DEF RuleSpec, FiringIsEarned
===============================================================================
