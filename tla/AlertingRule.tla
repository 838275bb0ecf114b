----------------------------- MODULE AlertingRule -----------------------------
(***************************************************************************)
(* One alerting rule (rules/alerting.go) inside its group (Group.Eval and  *)
(* RestoreForState of rules/manager.go): the life of its alerts, what is   *)
(* sent to Alertmanager and when, the ALERTS_FOR_STATE series in storage   *)
(* and the restoration of pending alerts from it after a restart.          *)
(*                                                                         *)
(* Times are natural numbers, 0 is Go's zero time. Evaluations happen at   *)
(* multiples of the group interval. The query is external: it fails or     *)
(* returns any set of alerts (identified by their label hash).             *)
(***************************************************************************)
EXTENDS Integers, Sequences, FiniteSets, FiniteSetsExt, Functions

CONSTANTS
    Fingerprints,        \* hashes of the label sets the query may return
    HoldDuration, KeepFiringFor, ResolvedRetention,
    ResendDelay, EvalInterval, AlertLimit,
    ForGracePeriod, OutageTolerance,
    FirstTs, LastTs,     \* bound: evaluations lie between these times
    MaxCrashes, MaxLost  \* bounds: restarts, notifications that get lost

ASSUME RuleAssumption ==
    /\ {HoldDuration, KeepFiringFor, ResolvedRetention, ResendDelay,
        ForGracePeriod, OutageTolerance, AlertLimit} \subseteq Nat
    /\ EvalInterval \in Nat \ {0}
    /\ FirstTs \in Nat /\ FirstTs > ResendDelay   \* the zero time is long past
    /\ LastTs \in Nat /\ MaxCrashes \in Nat /\ MaxLost \in Nat

VARIABLES
    evalTs,      \* time of the last evaluation
    active,      \* AlertingRule.active: fingerprint -> Alert
    restored,    \* AlertingRule.restored
    ruleEvals,   \* evaluations since the start, capped at 3; -1: restore is next
    forState,    \* last ALERTS_FOR_STATE sample: [t |-> time, v |-> ActiveAt, 0 = stale]
    prevSeries,  \* Group.seriesInPreviousEval of the rule
    am,          \* EndsAt of the last notification Alertmanager has per alert
    told,        \* fingerprints whose last notification arrived
    failures,    \* evaluations missed or failed since the last one that did not
    misses,      \* evaluations or sends that failed since a notification arrived
    held,        \* how long the rule has had an alert active, downtime excluded
    crashes, lost

ruleVars == <<evalTs, active, restored, ruleEvals, forState, prevSeries, am,
              told, failures, misses, held, crashes, lost>>

NewAlert(ts) ==
    [state |-> "pending", activeAt |-> ts, firedAt |-> 0, resolvedAt |-> 0,
     lastSentAt |-> 0, keepFiringSince |-> 0]

\* m.restored is false when the first rule set is loaded: NewAlertingRule gets
\* restored = FALSE and NewGroup shouldRestore = TRUE.
RuleInit ==
    /\ evalTs = FirstTs
    /\ active = <<>>
    /\ restored = FALSE
    /\ ruleEvals = 0
    /\ forState = [fp \in Fingerprints |-> [t |-> 0, v |-> 0]]
    /\ prevSeries = {}
    /\ am = [fp \in Fingerprints |-> 0]
    /\ told = Fingerprints
    /\ failures = 0
    /\ misses = 0
    /\ held = [fp \in Fingerprints |-> 0]
    /\ crashes = 0
    /\ lost = 0

-------------------------------------------------------------------------------
(* AlertingRule.Eval *)

\* New alerts enter the map; an inactive one is replaced.
Merge(act, res, ts) ==
    [fp \in DOMAIN act \cup res |->
        IF fp \in DOMAIN act /\ (fp \notin res \/ act[fp].state # "inactive")
        THEN act[fp] ELSE NewAlert(ts)]

\* keep_firing_for: since when a firing alert is gone, and whether that is recent.
KeepSince(a, ts) ==
    IF a.state = "firing" /\ KeepFiringFor > 0 /\ a.keepFiringSince = 0
    THEN ts ELSE a.keepFiringSince
KeepFiring(a, ts) ==
    a.state = "firing" /\ KeepFiringFor > 0 /\ ts - KeepSince(a, ts) < KeepFiringFor

Deleted(a, ts) ==
    \/ a.state = "pending"
    \/ a.resolvedAt # 0 /\ ts - a.resolvedAt > ResolvedRetention

Fire(a, ts) ==
    IF a.state = "pending" /\ ts - a.activeAt >= HoldDuration
    THEN [a EXCEPT !.state = "firing", !.firedAt = ts] ELSE a

Gone(a, ts) ==
    LET b == [a EXCEPT !.keepFiringSince = KeepSince(a, ts)]
    IN  IF a.state = "inactive" \/ KeepFiring(a, ts) THEN b
        ELSE [b EXCEPT !.state = "inactive", !.resolvedAt = ts]

Evaluated(act, res, ts) ==
    LET merged == Merge(act, res, ts)
        kept   == {fp \in DOMAIN merged :
                      fp \in res \/ ~Deleted(merged[fp], ts)}
    IN  [fp \in kept |->
            IF fp \in res THEN Fire([merged[fp] EXCEPT !.keepFiringSince = 0], ts)
                          ELSE Gone(merged[fp], ts)]

\* The alerts the second loop counts and exports: numActivePending.
Counted(act, res, ts) ==
    res \cup {fp \in DOMAIN act : KeepFiring(act[fp], ts)}

StateOf(fp) == IF fp \in DOMAIN active THEN active[fp].state ELSE "inactive"

-------------------------------------------------------------------------------
(* sendAlerts and the NotifyFunc made by SendAlerts *)

\* Faulty variant: a resolved alert is not sent before the resend delay is over.
NeedsSendingLate(a, ts) ==
    a.state # "pending" /\ a.lastSentAt + ResendDelay < ts
NeedsSending(a, ts) ==
    /\ a.state # "pending"
    /\ a.resolvedAt > a.lastSentAt \/ a.lastSentAt + ResendDelay < ts

ValidUntil(ts) == ts + 4 * Max({ResendDelay, EvalInterval})
EndsAt(a, ts) == IF a.resolvedAt # 0 THEN a.resolvedAt ELSE ValidUntil(ts)

-------------------------------------------------------------------------------
Tick == evalTs + EvalInterval

\* An evaluation that is missed, or whose query fails: Eval returns the error
\* and Group.Eval returns without sending or appending.
EvalFails ==
    /\ ruleEvals >= 0
    /\ Tick <= LastTs
    /\ evalTs' = Tick
    /\ failures' = failures + 1
    /\ misses' = misses + 1
    /\ \/ ruleEvals' = CASE ruleEvals = 0 -> 1 [] ruleEvals = 1 -> -1 [] OTHER -> 3
       \/ UNCHANGED ruleEvals   \* missed: no iteration
    /\ UNCHANGED <<active, restored, forState, prevSeries, am, told, held,
                   crashes, lost>>

\* The result exceeds the limit of the group: all alerts are forgotten.
EvalExceedsLimit ==
    /\ ruleEvals >= 0
    /\ Tick <= LastTs
    /\ AlertLimit > 0
    /\ \E res \in SUBSET Fingerprints :
        Cardinality(Counted(active, res, Tick)) > AlertLimit
    /\ active' = <<>>
    /\ evalTs' = Tick
    /\ failures' = failures + 1
    /\ misses' = misses + 1
    /\ told' = told \ DOMAIN active
    /\ ruleEvals' = CASE ruleEvals = 0 -> 1 [] ruleEvals = 1 -> -1 [] OTHER -> 3
    /\ UNCHANGED <<restored, forState, prevSeries, am, held, crashes, lost>>

\* An evaluation that succeeds: the alerts, the notifications (which get lost
\* or arrive), the samples of the ALERTS_FOR_STATE series and the staleness
\* markers of the series that are gone.
EvalSucceeds ==
    /\ ruleEvals >= 0
    /\ Tick <= LastTs
    /\ evalTs' = Tick
    /\ ruleEvals' = CASE ruleEvals = 0 -> 1 [] ruleEvals = 1 -> -1 [] OTHER -> 3
    /\ \E res \in SUBSET Fingerprints :
        LET ts      == Tick
            counted == Counted(active, res, ts)
            new     == Evaluated(active, res, ts)
            sent    == {fp \in DOMAIN new : NeedsSending(new[fp], ts)}
            series  == IF restored THEN counted ELSE {}
        IN  /\ AlertLimit = 0 \/ Cardinality(counted) <= AlertLimit
            /\ active' = [fp \in DOMAIN new |->
                   IF fp \in sent THEN [new[fp] EXCEPT !.lastSentAt = ts]
                                  ELSE new[fp]]
            /\ \/ /\ am' = [fp \in Fingerprints |->
                         IF fp \in sent THEN EndsAt(new[fp], ts) ELSE am[fp]]
                  /\ told' = told \cup sent
                  /\ misses' = IF sent = {} THEN misses ELSE 0
                  /\ UNCHANGED lost
               \/ /\ sent # {}
                  /\ lost < MaxLost
                  /\ lost' = lost + 1
                  /\ misses' = misses + 1
                  /\ told' = told \ sent
                  /\ UNCHANGED am
            /\ forState' = [fp \in Fingerprints |->
                   IF fp \in series THEN [t |-> ts, v |-> new[fp].activeAt]
                   ELSE IF fp \in prevSeries THEN [t |-> ts, v |-> 0]
                   ELSE forState[fp]]
            /\ prevSeries' = series
            /\ held' = [fp \in Fingerprints |->
                   IF fp \in counted /\ StateOf(fp) # "inactive"
                   THEN held[fp] + EvalInterval * (failures + 1)
                   ELSE IF fp \in counted \/ ~restored THEN held[fp] ELSE 0]
    /\ failures' = 0
    /\ UNCHANGED <<restored, crashes>>

\* Group.RestoreForState, for one active alert.
\* Faulty variant: the time of the outage counts as time spent pending.
RestoredActiveAtOutage(sample, activeAt, ts) ==
    LET usable == sample.t >= ts - OutageTolerance /\ sample.v # 0
    IN  IF usable THEN sample.v ELSE activeAt
RestoredActiveAt(sample, activeAt, ts) ==
    LET usable    == sample.t >= ts - OutageTolerance /\ sample.v # 0
        remaining == HoldDuration - (sample.t - sample.v)
    IN  IF ~usable THEN activeAt
        ELSE IF remaining <= 0 THEN sample.v
        ELSE IF remaining < ForGracePeriod THEN ts + ForGracePeriod - HoldDuration
        ELSE sample.v + (ts - sample.t)

\* After the second evaluation of a group that has to restore.
RestoreForState ==
    /\ ruleEvals = -1
    /\ ruleEvals' = 3
    /\ restored' = TRUE
    /\ active' = [fp \in DOMAIN active |->
           IF HoldDuration < ForGracePeriod THEN active[fp]
           ELSE [active[fp] EXCEPT !.activeAt =
                    RestoredActiveAt(forState[fp], @, evalTs)]]
    /\ UNCHANGED <<evalTs, forState, prevSeries, am, told, failures, misses,
                   held, crashes, lost>>

\* The process ends and starts again; only the storage survives.
CrashRule ==
    /\ crashes < MaxCrashes
    /\ crashes' = crashes + 1
    /\ \E down \in 0..2 : evalTs' = evalTs + down * EvalInterval
    /\ evalTs' <= LastTs
    /\ active' = <<>>
    /\ restored' = FALSE
    /\ ruleEvals' = 0
    /\ prevSeries' = {}
    /\ told' = {}
    /\ failures' = 0
    /\ misses' = 0
    /\ UNCHANGED <<forState, am, held, lost>>

RuleNext ==
    EvalFails \/ EvalExceedsLimit \/ EvalSucceeds \/ RestoreForState \/ CrashRule

RuleSpec == RuleInit /\ [][RuleNext]_ruleVars
-------------------------------------------------------------------------------
\* An alert fires only after it has been observed active for the hold duration,
\* the time during which the server was down not counted: neither the merge of
\* returning alerts nor the restoration gives an alert time it did not spend.
FiringIsEarned ==
    [][\A fp \in Fingerprints :
          StateOf(fp)' = "firing" /\ StateOf(fp) # "firing"
              => held'[fp] >= HoldDuration]_ruleVars

\* After an evaluation that succeeded, Alertmanager takes an alert for firing
\* (its EndsAt lies ahead) exactly when the rule has it firing, for every alert
\* whose last notification arrived and was not followed by a restart or by the
\* limit, however many evaluations have failed before.
AlertmanagerAgrees ==
    [][EvalSucceeds =>
          \A fp \in told' : (am'[fp] > evalTs') <=> (StateOf(fp)' = "firing")]_ruleVars

\* "Allow for two Eval or Alertmanager send failures" (sendAlerts): an alert that
\* keeps firing does not end in Alertmanager while at most two evaluations or
\* sends fail in a row.
TwoFailuresTolerated ==
    [][EvalSucceeds /\ misses <= 2 /\ crashes = 0 =>
          \A fp \in Fingerprints :
              StateOf(fp) = "firing" /\ StateOf(fp)' = "firing" /\ am[fp] # 0
                  => am[fp] >= evalTs']_ruleVars
===============================================================================
