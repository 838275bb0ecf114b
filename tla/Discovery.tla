----------------------------- MODULE Discovery -----------------------------
(***************************************************************************)
(* The service discovery manager (discovery/manager.go).  ApplyConfig      *)
(* registers one provider for each distinct discovery configuration,       *)
(* keeps the ones already running, cancels the ones no set subscribes to   *)
(* any more and copies the targets of a kept provider to its new           *)
(* subscribers.  Each provider has an updater goroutine that stores what   *)
(* its discoverer sends and, once its context is done, a cleaner that      *)
(* removes it.  A sender goroutine offers all targets to the receiver,     *)
(* throttled by a ticker and signalled through a channel of capacity one.  *)
(*                                                                         *)
(* A critical section is one step, except where the code holds one mutex   *)
(* while it waits for another: ApplyConfig holds Provider.mu and waits for *)
(* Manager.targetsMtx, the cleaner holds targetsMtx and waits for mu.      *)
(***************************************************************************)
EXTENDS Integers, Sequences, FiniteSets, SequencesExt

CONSTANTS
  SDConfigs,       \* the job configurations to apply: functions set -> set of SD configs
  FailingConfigs,  \* SD configs whose NewDiscoverer returns an error
  EmptyStatic,     \* StaticConfig{{}}, used for a set without any working config
  Updates,         \* SD config -> the updates (functions source -> version) it may send
  MaxProviders, MaxUpdates, MaxApplies

VARIABLES
  prov,      \* id -> [config, subs, newSubs, updater, tgs, rem, cancelled]; an updater is
             \* "none", "select", "store" (tgs for rem), "clean" (with targetsMtx) or "done"
  reg,       \* [providers, lastProvider] of the manager
  targets,   \* m.targets: <<set, id>> -> source -> version
  sync,      \* [trigger, offer, received]: triggerSend, the map on offer, the receiver's
  apply,     \* ApplyConfig: [pc, todo, kept, wait, keep]
  sdctx,     \* [done, ran]: the context is cancelled, Run has returned
  sdbudget   \* [updates, applies] that have happened

discoveryVars == <<prov, reg, targets, sync, apply, sdctx, sdbudget>>

ProviderIDs == 0 .. MaxProviders - 1
NoApply == [pc |-> "idle", todo |-> <<>>, kept |-> <<>>, wait |-> {}, keep |-> FALSE]
NoProvider == [config |-> EmptyStatic, subs |-> {}, newSubs |-> {}, updater |-> "none",
               tgs |-> <<>>, rem |-> {}, cancelled |-> FALSE]

DiscoveryAssumption == EmptyStatic \notin FailingConfigs
ASSUME DiscoveryAssumption

DiscoveryInit ==
  /\ prov = [p \in ProviderIDs |-> NoProvider]
  /\ reg = [providers |-> <<>>, lastProvider |-> 0]
  /\ targets = <<>>
  /\ sync = [trigger |-> FALSE, offer |-> <<>>, received |-> {}]
  /\ apply = NoApply
  /\ sdctx = [done |-> FALSE, ran |-> FALSE]
  /\ sdbudget = [updates |-> 0, applies |-> 0]

Running == ToSet(reg.providers)
TargetsMtxFree == \A p \in ProviderIDs : prov[p].updater # "clean"
MuFree(p) == ~(apply.pc = "locked" /\ Head(apply.todo) = p)
TargetsAt(k) == IF k \in DOMAIN targets THEN targets[k] ELSE <<>>

\* What a set asks for: its configs that can be created, or else the empty static one.
Wanted(cfg, s) == IF cfg[s] \subseteq FailingConfigs
                  THEN {EmptyStatic} ELSE cfg[s] \ FailingConfigs

\* ApplyConfig up to its loop: registerProviders for every set.  A config that
\* equals a known provider's adds a subscriber to it, any other makes a new one.
ApplyConfig(cfg) ==
  LET fresh == SetToSeq(UNION {Wanted(cfg, s) : s \in DOMAIN cfg}
                        \ {prov[p].config : p \in Running})
      ids   == [n \in 1 .. Len(fresh) |-> reg.lastProvider + n - 1]
      conf(p) == IF p \in ToSet(ids) THEN fresh[p - reg.lastProvider + 1] ELSE prov[p].config
  IN /\ apply.pc = "idle" /\ sdbudget.applies < MaxApplies
     /\ reg.lastProvider + Len(fresh) <= MaxProviders
     /\ prov' = [p \in ProviderIDs |->
                   IF p \in Running \cup ToSet(ids)
                   THEN [prov[p] EXCEPT !.config = conf(p),
                           !.newSubs = {s \in DOMAIN cfg : conf(p) \in Wanted(cfg, s)}]
                   ELSE prov[p]]
     /\ reg' = [reg EXCEPT !.lastProvider = @ + Len(fresh)]
     /\ apply' = [NoApply EXCEPT !.pc = "loop", !.todo = reg.providers \o ids]
     /\ sdbudget' = [sdbudget EXCEPT !.applies = @ + 1]
     /\ UNCHANGED <<targets, sync, sdctx>>

\* One round of the loop: a provider nobody subscribes to is cancelled, to be
\* waited for below; of one that stays mu is taken, once its updater releases it.
ApplyRound ==
  /\ apply.pc = "loop" /\ apply.todo # <<>>
  /\ LET p == Head(apply.todo) IN
       \/ /\ prov[p].newSubs = {}
          /\ prov' = [prov EXCEPT ![p].cancelled = TRUE]
          /\ apply' = [apply EXCEPT !.todo = Tail(@), !.wait = @ \cup {p}]
       \/ /\ prov[p].newSubs # {} /\ prov[p].updater # "store"
          /\ apply' = [apply EXCEPT !.pc = "locked"]
          /\ UNCHANGED prov
  /\ UNCHANGED <<reg, targets, sync, sdctx, sdbudget>>

\* Faulty variant: a new subscriber starts without the provider's targets.
NewTargetsForgotten(p, ref) ==
  [k \in {k \in DOMAIN targets : k[2] # p \/ k[1] \in prov[p].newSubs} |-> targets[k]]
\* m.targets once the subscribers of p change: the keys of its former ones go,
\* and every new one has a copy of the targets of the former subscriber that
\* the map iteration ended with, if there are any.
NewTargets(p, ref) ==
  LET kept == {k \in DOMAIN targets : k[2] # p \/ k[1] \in prov[p].newSubs}
      copy == IF ref = <<>> THEN {} ELSE {<<s, p>> : s \in prov[p].newSubs}
  IN [k \in kept \cup copy |-> IF k \in copy THEN ref ELSE targets[k]]

\* ... and with targetsMtx as well, targets and subscribers change; a provider
\* that is new is started.
ApplyUpdates ==
  /\ apply.pc = "locked" /\ TargetsMtxFree
  /\ LET p   == Head(apply.todo)
         old == prov[p].subs
     IN /\ \E ref \in IF old = {} THEN {<<>>} ELSE {TargetsAt(<<s, p>>) : s \in old} :
             targets' = NewTargets(p, ref)
        /\ prov' = [prov EXCEPT ![p].subs = prov[p].newSubs, ![p].newSubs = {},
                                ![p].updater = IF @ = "none" THEN "select" ELSE @]
        /\ apply' = [apply EXCEPT !.pc = "loop", !.todo = Tail(@), !.kept = Append(@, p),
                                  !.keep = @ \/ old # {}]
  /\ UNCHANGED <<reg, sync, sdctx, sdbudget>>

\* After the loop the sender is triggered when a provider was kept.
ApplyTriggers ==
  /\ apply.pc = "loop" /\ apply.todo = <<>>
  /\ sync' = [sync EXCEPT !.trigger = @ \/ apply.keep]
  /\ reg' = [reg EXCEPT !.providers = apply.kept]
  /\ apply' = [apply EXCEPT !.pc = "wait"]
  /\ UNCHANGED <<prov, targets, sdctx, sdbudget>>

\* Faulty variant: ApplyConfig does not wait for the providers it cancelled.
ApplyReturnsEarly ==
  apply.pc = "wait" /\ apply' = NoApply /\ UNCHANGED <<prov, reg, targets, sync, sdctx, sdbudget>>
\* The providers that were cancelled are waited for.
ApplyReturns ==
  /\ apply.pc = "wait" /\ \A p \in apply.wait : prov[p].updater = "done"
  /\ apply' = NoApply
  /\ UNCHANGED <<prov, reg, targets, sync, sdctx, sdbudget>>

\* updater: an update arrives; mu is read-locked until every subscriber has it.
UpdateArrives(p) ==
  /\ prov[p].updater = "select" /\ MuFree(p) /\ sdbudget.updates < MaxUpdates
  /\ \E u \in Updates[prov[p].config] :
       prov' = [prov EXCEPT ![p].updater = "store", ![p].tgs = u, ![p].rem = prov[p].subs]
  /\ sdbudget' = [sdbudget EXCEPT !.updates = @ + 1]
  /\ UNCHANGED <<reg, targets, sync, apply, sdctx>>

\* updateGroup for one subscriber: the groups sent replace those of their source.
UpdateGroup(p) ==
  /\ prov[p].updater = "store" /\ TargetsMtxFree
  /\ \E s \in prov[p].rem :
       LET old == TargetsAt(<<s, p>>)
           tgs == prov[p].tgs
           new == [x \in DOMAIN old \cup DOMAIN tgs |-> IF x \in DOMAIN tgs THEN tgs[x] ELSE old[x]]
       IN /\ targets' = [k \in DOMAIN targets \cup {<<s, p>>} |->
                           IF k = <<s, p>> THEN new ELSE targets[k]]
          /\ prov' = [prov EXCEPT ![p].rem = @ \ {s}]
  /\ UNCHANGED <<reg, sync, apply, sdctx, sdbudget>>

\* Faulty variant: an update is stored without telling the sender.
UpdateStoredQuietly(p) ==
  /\ prov[p].updater = "store" /\ prov[p].rem = {}
  /\ prov' = [prov EXCEPT ![p].updater = "select", ![p].tgs = <<>>]
  /\ UNCHANGED <<reg, targets, sync, apply, sdctx, sdbudget>>
\* ... after which the sender is triggered, unless it already is.
UpdateStored(p) ==
  /\ prov[p].updater = "store" /\ prov[p].rem = {}
  /\ prov' = [prov EXCEPT ![p].updater = "select", ![p].tgs = <<>>]
  /\ sync' = [sync EXCEPT !.trigger = TRUE]
  /\ UNCHANGED <<reg, targets, apply, sdctx, sdbudget>>

\* Faulty variant: only the manager's own context ends an updater.
CleanLocksOnShutdown(p) ==
  /\ prov[p].updater = "select" /\ sdctx.done /\ TargetsMtxFree
  /\ prov' = [prov EXCEPT ![p].updater = "clean"]
  /\ UNCHANGED <<reg, targets, sync, apply, sdctx, sdbudget>>
\* cleaner: takes targetsMtx and then mu, to remove what the subscribers have
\* from the provider.
CleanLocks(p) ==
  /\ prov[p].updater = "select" /\ (sdctx.done \/ prov[p].cancelled) /\ TargetsMtxFree
  /\ prov' = [prov EXCEPT ![p].updater = "clean"]
  /\ UNCHANGED <<reg, targets, sync, apply, sdctx, sdbudget>>
Clean(p) ==
  /\ prov[p].updater = "clean" /\ MuFree(p)
  /\ prov' = [prov EXCEPT ![p].updater = "done"]
  /\ targets' = [k \in DOMAIN targets \ {<<s, p>> : s \in prov[p].subs} |-> targets[k]]
  /\ UNCHANGED <<reg, sync, apply, sdctx, sdbudget>>

\* allGroups: per set, every group of every provider, with its origin.
AllGroups == UNION {{<<k[1], k[2], x, targets[k][x]>> : x \in DOMAIN targets[k]} :
                    k \in DOMAIN targets}

\* sender: a tick finds the trigger set and collects all groups.
SenderTick ==
  /\ sync.trigger /\ sync.offer = <<>> /\ ~sdctx.done /\ TargetsMtxFree
  /\ sync' = [sync EXCEPT !.trigger = FALSE, !.offer = <<AllGroups>>]
  /\ UNCHANGED <<prov, reg, targets, apply, sdctx, sdbudget>>
\* The receiver is ready and takes them, or it is not and the next cycle retries.
SenderSends ==
  /\ sync.offer # <<>>
  /\ sync' = [sync EXCEPT !.received = sync.offer[1], !.offer = <<>>]
  /\ UNCHANGED <<prov, reg, targets, apply, sdctx, sdbudget>>
SenderRetries ==
  /\ sync.offer # <<>>
  /\ sync' = [sync EXCEPT !.trigger = TRUE, !.offer = <<>>]
  /\ UNCHANGED <<prov, reg, targets, apply, sdctx, sdbudget>>

\* The server shuts down.
CtxCancelled ==
  /\ ~sdctx.done
  /\ sdctx' = [sdctx EXCEPT !.done = TRUE]
  /\ UNCHANGED <<prov, reg, targets, sync, apply, sdbudget>>
\* Run cancels the discoverers, for which it needs mtx, which ApplyConfig holds.
CancelDiscoverers ==
  /\ sdctx.done /\ ~sdctx.ran /\ apply.pc = "idle"
  /\ prov' = [p \in ProviderIDs |-> [prov[p] EXCEPT !.cancelled = @ \/ p \in Running]]
  /\ sdctx' = [sdctx EXCEPT !.ran = TRUE]
  /\ UNCHANGED <<reg, targets, sync, apply, sdbudget>>

ApplyStep == ApplyRound \/ ApplyUpdates \/ ApplyTriggers \/ ApplyReturns
UpdaterStep(p) == UpdateGroup(p) \/ UpdateStored(p) \/ CleanLocks(p) \/ Clean(p)
DiscoveryStep ==
  \/ ApplyStep
  \/ \E p \in ProviderIDs : UpdateArrives(p) \/ UpdaterStep(p)
  \/ SenderTick \/ SenderSends \/ SenderRetries \/ CancelDiscoverers
DiscoveryNext == (\E cfg \in SDConfigs : ApplyConfig(cfg)) \/ CtxCancelled \/ DiscoveryStep

\* Every goroutine runs; a receiver that reads in a loop is ready again and
\* again, so an offer is not refused for ever.
DiscoveryFairness ==
  /\ WF_discoveryVars(ApplyStep) /\ WF_discoveryVars(SenderTick)
  /\ SF_discoveryVars(SenderSends) /\ WF_discoveryVars(CancelDiscoverers)
  /\ \A p \in ProviderIDs : WF_discoveryVars(UpdaterStep(p))
DiscoverySpec == DiscoveryInit /\ [][DiscoveryNext]_discoveryVars /\ DiscoveryFairness

-----------------------------------------------------------------------------
\* Between two configuration changes the manager holds targets only for the
\* providers that run and the sets that subscribe to them, and the sets that
\* share a provider have the same targets, however they came to share it.
SubscribersAgree ==
  apply.pc = "idle" /\ ~sdctx.done =>
    /\ \A k \in DOMAIN targets : k[2] \in Running /\ k[1] \in prov[k[2]].subs
    /\ \A p \in Running : prov[p].updater # "store" =>
         \A s, t \in prov[p].subs : TargetsAt(<<s, p>>) = TargetsAt(<<t, p>>)

\* Whatever the discoverers send, the receiver ends up with every group the
\* manager holds, unless the server stops: no trigger is lost between the
\* updaters, ApplyConfig and a receiver that is not always ready.
TargetsReachReceiver == <>[](sdctx.done \/ AllGroups \subseteq sync.received)

\* ApplyConfig returns, and on shutdown Run does: the configuration reload or
\* the shutdown that waits for it completes.
ApplyConfigReturns == (apply.pc # "idle" \/ sdctx.done)
                      ~> (apply.pc = "idle" /\ (sdctx.done => sdctx.ran))

=============================================================================
