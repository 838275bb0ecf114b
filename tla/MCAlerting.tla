----------------------------- MODULE MCAlerting -----------------------------
(***************************************************************************)
(* Rules, alerts, notifications and the server process on small instances. *)
(* They are independent of each other: part says which of them runs.       *)
(***************************************************************************)
EXTENDS Notifier, AlertingRule, RuleGroups, ServerRun, TLC

CONSTANTS u1, u2, bad, unused    \* URLs of Alertmanagers
VARIABLE part
alertingVars == <<part, notifierVars, ruleVars, groupVars, serverVars>>

MCTargetUpdates == {<<>>, << <<u1, u2>>, <<u1, unused>> >>, << <<u2, bad>>, <<u1>> >>}
MCRuleConfigs == {"g1" :> <<"r1", "r2">>, "g1" :> <<"r2", "r2">>, "g2" :> <<"r2">>}
MCRuleSeries == "r1" :> {"s1"} @@ "r2" :> {"s2"}

\* /-/quit is called on a server that is ready.
MCWebQuit == reloadReady /\ WebQuit

MCInit ==
    /\ part \in {"notifier", "alerts", "groups", "server"}
    /\ NotifierInit /\ RuleInit /\ GroupsInit /\ ServerInit
NotifierPart ==
    part = "notifier" /\ NotifierNext /\ UNCHANGED <<part, ruleVars, groupVars, serverVars>>
AlertsPart ==
    part = "alerts" /\ RuleNext /\ UNCHANGED <<part, notifierVars, groupVars, serverVars>>
GroupsPart ==
    /\ part = "groups"
    /\ SettledNext
    /\ UNCHANGED <<part, notifierVars, ruleVars, serverVars>>
ServerPart ==
    /\ part = "server"
    /\ Sigterm \/ MCWebQuit \/ ActorFails \/ ReloadBegins \/ ProcessStep \/ Exited
    /\ UNCHANGED <<part, notifierVars, ruleVars, groupVars>>
MCNext == NotifierPart \/ AlertsPart \/ GroupsPart \/ ServerPart

\* No step of the server is ever undone, so a behaviour in which the steps of the
\* actors are taken as long as there are any is one of ServerFairness.
MCFairness ==
    /\ WF_notifierVars(part = "notifier" /\ RunStep)
    /\ WF_groupVars(part = "groups" /\ StartManager)
    /\ WF_groupVars(part = "groups" /\ UpdateEnd)
    /\ WF_groupVars(part = "groups" /\ StopEnd)
    /\ \A n \in 1..MaxInstances :
          WF_groupVars(part = "groups" /\ n <= Len(instances) /\ (StartGroup(n) \/ RunGroupStep(n)))
    /\ WF_serverVars(part = "server" /\ ProcessStep)
MCSpec == MCInit /\ [][MCNext]_alertingVars /\ MCFairness

\* The loops and calls of these parts come to an end: queued alerts are taken up
\* (setMore, Run), Update and Stop of the rule manager return, and a shutdown that
\* has begun ends the process.
AlertingProgress == QueueDrains /\ ManagerCallsReturn /\ ShutdownCompletes
=============================================================================
