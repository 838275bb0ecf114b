------------------------------ MODULE ServerRun -------------------------------
(***************************************************************************)
(* The life of the server process (cmd/prometheus/main.go): the actors of  *)
(* the run group, the channels by which they wait for each other           *)
(* (reloadReady, dbOpen, the cancel channels), reloads of the              *)
(* configuration and the orderly shutdown.                                 *)
(*                                                                         *)
(* The run group (github.com/oklog/run, external) runs all actors; when    *)
(* the first returns it calls the interrupt functions one after the other, *)
(* in the order of registration, and waits for all actors.                 *)
(***************************************************************************)
EXTENDS Integers, Sequences, FiniteSets

CONSTANTS MaxReloads   \* bound: SIGHUPs and calls of /-/reload

\* Faulty variant: the storage is closed before the scrape manager is stopped.
ActorsStorageEarly ==
    <<"term", "scrapeSD", "rules", "tsdb", "reload", "init", "scrape", "web", "notifier">>
\* The notifier's discovery manager and the exporter are like scrapeSD, the tracing
\* manager is like notifier.
Actors == <<"term", "scrapeSD", "rules", "scrape", "reload", "init", "tsdb", "web", "notifier">>
ActorSet == {Actors[i] : i \in 1..Len(Actors)}

\* Actors that begin with <-reloadReady.C.
Gated == {"rules", "scrape", "reload", "notifier"}
\* Actors that run until their context or channel is closed.
Cancellable == {"scrapeSD", "scrape", "web", "notifier"}

VARIABLES
    actorPC,        \* actor -> where its execute function stands
    interrupts,     \* interrupt functions called; -1: none returned yet
    cancelled,      \* actors whose cancel channel or context is closed
    reloadReady, dbOpen, dbClosed,
    webReady,       \* webHandler.SetReady
    ruleGroups,     \* "none", "blocked" (loaded, not started), "running", "stopped"
    ruleStart,      \* ruleManager.start was called
    ruleStopped,    \* ruleManager.Stop has returned
    lateReloads,    \* components that were reloaded after their Stop
    reloads

serverVars == <<actorPC, interrupts, cancelled, reloadReady, dbOpen, dbClosed,
                webReady, ruleGroups, ruleStart, ruleStopped, lateReloads, reloads>>

ServerInit ==
    /\ actorPC = [a \in ActorSet |-> IF a \in Gated THEN "gate" ELSE "run"]
    /\ interrupts = -1
    /\ cancelled = {}
    /\ reloadReady = FALSE /\ dbOpen = FALSE /\ dbClosed = FALSE
    /\ webReady = FALSE
    /\ ruleGroups = "none" /\ ruleStart = FALSE /\ ruleStopped = FALSE
    /\ lateReloads = {}
    /\ reloads = 0

At(a, pc) == actorPC[a] = pc
Goto(a, pc) == actorPC' = [actorPC EXCEPT ![a] = pc]
Returns(a) == Goto(a, "returned")
ruleState == <<ruleGroups, ruleStart, ruleStopped, lateReloads>>

-------------------------------------------------------------------------------
(* Termination handler *)
Sigterm ==
    /\ At("term", "run") /\ Returns("term")
    /\ reloadReady' = TRUE
    /\ UNCHANGED <<interrupts, cancelled, dbOpen, dbClosed, webReady, ruleState, reloads>>
\* A POST to /-/quit, served from the start: this branch does not release
\* reloadReady.
WebQuit ==
    /\ At("term", "run") /\ Returns("term")
    /\ UNCHANGED <<interrupts, cancelled, reloadReady, dbOpen, dbClosed,
                   webReady, ruleState, reloads>>
\* Faulty variant: the termination handler does not release reloadReady either.
TermCancelledQuietly ==
    /\ At("term", "run") /\ "term" \in cancelled /\ Returns("term")
    /\ UNCHANGED <<interrupts, cancelled, reloadReady, dbOpen, dbClosed,
                   webReady, ruleState, reloads>>
TermCancelled ==
    /\ At("term", "run") /\ "term" \in cancelled /\ Returns("term")
    /\ reloadReady' = TRUE
    /\ UNCHANGED <<interrupts, cancelled, dbOpen, dbClosed, webReady, ruleState, reloads>>

\* The web server fails.
ActorFails ==
    /\ At("web", "run") /\ Returns("web")
    /\ UNCHANGED <<interrupts, cancelled, reloadReady, dbOpen, dbClosed,
                   webReady, ruleState, reloads>>

PassGate(a) ==
    /\ At(a, "gate") /\ reloadReady
    /\ Goto(a, "run")
    /\ ruleStart' = (ruleStart \/ a = "rules")
    /\ ruleGroups' = IF a = "rules" /\ ruleGroups = "blocked"
                     THEN "running" ELSE ruleGroups
    /\ UNCHANGED <<interrupts, cancelled, reloadReady, dbOpen, dbClosed,
                   webReady, ruleStopped, lateReloads, reloads>>

CancelledReturns(a) ==
    /\ At(a, "run") /\ a \in cancelled /\ Returns(a)
    /\ UNCHANGED <<interrupts, cancelled, reloadReady, dbOpen, dbClosed,
                   webReady, ruleState, reloads>>

\* ruleManager.Run returns when Stop has closed done.
RulesReturn ==
    /\ At("rules", "run") /\ ruleStopped /\ Returns("rules")
    /\ UNCHANGED <<interrupts, cancelled, reloadReady, dbOpen, dbClosed,
                   webReady, ruleState, reloads>>

-------------------------------------------------------------------------------
(* reloadConfig: the rules reloader is the one whose outcome others wait for;
   loading may fail before it or the files may be bad, and other reloaders may
   fail without stopping it. *)
ApplyReloaders ==
    \/ UNCHANGED ruleState
    \/ /\ ruleGroups' = IF ruleStart THEN "running" ELSE "blocked"
       /\ lateReloads' = lateReloads
            \cup (IF ruleStopped THEN {"rules"} ELSE {})
            \cup (IF "scrape" \in cancelled THEN {"scrape"} ELSE {})
       /\ UNCHANGED <<ruleStart, ruleStopped>>

\* Update waits for the lock while Stop holds it: "rules" is next to be
\* interrupted and its groups are still blocked.
RulesLocked == interrupts = 2 /\ ruleGroups = "blocked"

(* Reload handler *)
ReloadBegins ==
    /\ At("reload", "run") /\ reloads < MaxReloads
    /\ reloads' = reloads + 1
    /\ Goto("reload", "reloading")
    /\ UNCHANGED <<interrupts, cancelled, reloadReady, dbOpen, dbClosed,
                   webReady, ruleState>>
ReloadEnds ==
    /\ At("reload", "reloading") /\ ~RulesLocked
    /\ Goto("reload", "run")
    /\ ApplyReloaders
    /\ UNCHANGED <<interrupts, cancelled, reloadReady, dbOpen, dbClosed,
                   webReady, reloads>>

(* Initial configuration loading *)
\* Faulty variant: the configuration is loaded without waiting for the database.
InitBeginsAtOnce ==
    /\ At("init", "run")
    /\ Goto("init", "loading")
    /\ UNCHANGED <<interrupts, cancelled, reloadReady, dbOpen, dbClosed,
                   webReady, ruleState, reloads>>
InitBegins ==
    /\ At("init", "run") /\ dbOpen
    /\ Goto("init", "loading")
    /\ UNCHANGED <<interrupts, cancelled, reloadReady, dbOpen, dbClosed,
                   webReady, ruleState, reloads>>
InitCancelled ==
    /\ At("init", "run") /\ "init" \in cancelled
    /\ reloadReady' = TRUE
    /\ Returns("init")
    /\ UNCHANGED <<interrupts, cancelled, dbOpen, dbClosed, webReady, ruleState, reloads>>
InitFails ==
    /\ At("init", "loading") /\ ~RulesLocked
    /\ ApplyReloaders
    /\ Returns("init")
    /\ UNCHANGED <<interrupts, cancelled, reloadReady, dbOpen, dbClosed,
                   webReady, reloads>>
InitLoads ==
    /\ At("init", "loading") /\ ~RulesLocked
    /\ ApplyReloaders
    /\ reloadReady' = TRUE
    /\ webReady' = TRUE
    /\ Goto("init", "loaded")
    /\ UNCHANGED <<interrupts, cancelled, dbOpen, dbClosed, reloads>>
InitReturns ==
    /\ At("init", "loaded") /\ "init" \in cancelled /\ Returns("init")
    /\ UNCHANGED <<interrupts, cancelled, reloadReady, dbOpen, dbClosed,
                   webReady, ruleState, reloads>>

(* TSDB *)
OpenDB ==
    /\ At("tsdb", "run") /\ Goto("tsdb", "open")
    /\ dbOpen' = TRUE
    /\ UNCHANGED <<interrupts, cancelled, reloadReady, dbClosed, webReady, ruleState, reloads>>
OpenDBFails ==
    /\ At("tsdb", "run") /\ Returns("tsdb")
    /\ UNCHANGED <<interrupts, cancelled, reloadReady, dbOpen, dbClosed,
                   webReady, ruleState, reloads>>
TsdbReturns ==
    /\ At("tsdb", "open") /\ "tsdb" \in cancelled /\ Returns("tsdb")
    /\ UNCHANGED <<interrupts, cancelled, reloadReady, dbOpen, dbClosed,
                   webReady, ruleState, reloads>>

-------------------------------------------------------------------------------
(* The run group: interrupts in the order of registration *)
FirstReturns ==
    /\ interrupts = -1
    /\ \E a \in ActorSet : At(a, "returned")
    /\ interrupts' = 0
    /\ UNCHANGED <<actorPC, cancelled, reloadReady, dbOpen, dbClosed, webReady,
                   ruleState, reloads>>

Turn(a) == interrupts \in 0..(Len(Actors) - 1) /\ Actors[interrupts + 1] = a
Done(a) == interrupts' = interrupts + 1 /\ cancelled' = cancelled \cup {a}

InterruptTerm ==
    /\ Turn("term") /\ Done("term")
    /\ webReady' = FALSE
    /\ UNCHANGED <<actorPC, reloadReady, dbOpen, dbClosed, ruleState, reloads>>
InterruptPlain(a) ==
    /\ Turn(a) /\ Done(a)
    /\ UNCHANGED <<actorPC, reloadReady, dbOpen, dbClosed, webReady, ruleState, reloads>>
\* ruleManager.Stop waits for the goroutine of every group.
InterruptRules ==
    /\ Turn("rules") /\ Done("rules")
    /\ ruleGroups # "blocked"
    /\ ruleGroups' = IF ruleGroups = "running" THEN "stopped" ELSE ruleGroups
    /\ ruleStopped' = TRUE
    /\ UNCHANGED <<actorPC, reloadReady, dbOpen, dbClosed, webReady, ruleStart,
                   lateReloads, reloads>>
\* cancel <- struct{}{}: the handler has to be in its select.
InterruptReload ==
    /\ Turn("reload") /\ Done("reload")
    /\ At("reload", "run") /\ Returns("reload")
    /\ UNCHANGED <<reloadReady, dbOpen, dbClosed, webReady, ruleState, reloads>>
\* fanoutStorage.Close closes the database if it is already there.
InterruptTsdb ==
    /\ Turn("tsdb") /\ Done("tsdb")
    /\ dbClosed' = dbOpen
    /\ UNCHANGED <<actorPC, reloadReady, dbOpen, webReady, ruleState, reloads>>

Interrupt ==
    \/ InterruptTerm \/ InterruptRules \/ InterruptReload \/ InterruptTsdb
    \/ \E a \in {"scrapeSD", "scrape", "init", "web", "notifier"} : InterruptPlain(a)

Exited ==
    /\ \A a \in ActorSet : At(a, "returned")
    /\ UNCHANGED serverVars

ProcessStep ==
    \/ TermCancelled \/ RulesReturn \/ ReloadEnds \/ InitBegins \/ InitCancelled
    \/ InitFails \/ InitLoads \/ InitReturns \/ OpenDB \/ OpenDBFails \/ TsdbReturns
    \/ FirstReturns \/ Interrupt
    \/ \E a \in Gated : PassGate(a)
    \/ \E a \in Cancellable : CancelledReturns(a)

ServerNext == Sigterm \/ WebQuit \/ ActorFails \/ ReloadBegins \/ ProcessStep \/ Exited

\* Goroutines are scheduled; opening the database and loading files end.
ServerFairness ==
    /\ WF_serverVars(TermCancelled) /\ WF_serverVars(RulesReturn)
    /\ WF_serverVars(ReloadEnds)
    /\ WF_serverVars(InitBegins \/ InitCancelled \/ InitFails \/ InitLoads \/ InitReturns)
    /\ WF_serverVars(OpenDB \/ OpenDBFails \/ TsdbReturns)
    /\ WF_serverVars(FirstReturns) /\ WF_serverVars(Interrupt)
    /\ \A a \in Gated : WF_serverVars(PassGate(a))
    /\ \A a \in Cancellable : WF_serverVars(CancelledReturns(a))

ServerSpec == ServerInit /\ [][ServerNext]_serverVars /\ ServerFairness
-------------------------------------------------------------------------------
\* Once an actor has returned, the process ends: "release the reloadReady channel
\* so that waiting blocks can exit normally". No interrupt function waits for an
\* actor that waits for something only a later interrupt provides.
ShutdownCompletes ==
    (interrupts >= 0) ~> (\A a \in ActorSet : At(a, "returned"))

\* "Wait for any in-progress reloads to complete to avoid reloading things after
\* they have been shutdown."
NothingReloadedAfterStop == lateReloads = {}

\* "Scrape manager needs to be stopped before closing the local TSDB so that it
\* doesn't try to write samples to a closed storage. We should also wait for rule
\* manager to be fully stopped": when the storage is closed, no scrape pool and
\* no rule group is running, except one that a late reload has started again.
WritersStopBeforeStorage ==
    dbClosed => "scrape" \in cancelled /\ ruleStopped /\ (lateReloads = {} => ruleGroups # "running")

\* No actor that needs the loaded configuration runs before the database is
\* open and the configuration is loaded, unless the process is being shut down.
ConfigLoadedFirst ==
    (\E a \in Gated : At(a, "run")) /\ actorPC["term"] = "run" /\ "term" \notin cancelled
        => dbOpen /\ At("init", "loaded")

\* The parts of the server start after what they need and stop before it.
StartAndStopInOrder == WritersStopBeforeStorage /\ ConfigLoadedFirst
===============================================================================
