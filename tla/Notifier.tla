------------------------------- MODULE Notifier -------------------------------
(***************************************************************************)
(* The notification manager (notifier/notifier.go): rule evaluations hand  *)
(* it alerts with Send, one goroutine (Run) takes them out of a bounded    *)
(* queue in batches and posts every batch to all Alertmanagers.            *)
(*                                                                         *)
(* An alert is its number in the order in which Send accepted it (after    *)
(* relabelling), so that order and loss can be read off the numbers.       *)
(* Alertmanagers are external: a post succeeds or fails.                   *)
(***************************************************************************)
EXTENDS Integers, Sequences, Functions, FiniteSets, FiniteSetsExt

CONSTANTS
    QueueCapacity,   \* Options.QueueCapacity
    MaxBatchSize,    \* maxBatchSize (64 in the code)
    AMSets,          \* keys of the configured Alertmanager sets
    AMUrls,          \* addresses service discovery may report
    DroppedUrls,     \* those the relabel configuration drops
    BadUrls,         \* those that CheckTargetAddress refuses
    TargetUpdates,   \* what discovery may report for a set: sequences of groups
    MaxOffered,      \* bound: alerts of one Send
    MaxAccepted,     \* bound: alerts accepted in all
    MaxReconfigs     \* bound: calls of ApplyConfig and target updates

ASSUME NotifierAssumption ==
    /\ QueueCapacity \in Nat \ {0}
    /\ MaxBatchSize \in Nat \ {0}
    /\ MaxOffered \in Nat /\ MaxAccepted \in Nat
    /\ \A tgs \in TargetUpdates : tgs \in Seq(Seq(AMUrls))

VARIABLES
    queue,           \* Manager.queue
    more,            \* the one-slot channel Manager.more is full
    alertmanagers,   \* Manager.alertmanagers: set key -> its ams, place -> URL
    notifierPC,      \* where Run stands
    batch,           \* what the last nextBatch returned
    postTo,          \* the alertmanagers map sendAll took under the lock
    notifierDone,    \* Stop has cancelled the context
    lastAccepted,    \* number of the newest alert Send accepted
    delivered,       \* set key, address -> alerts accepted there, in order
    dropped,         \* the dropped_total counter
    reconfigs

notifierVars == <<queue, more, alertmanagers, notifierPC, batch, postTo,
                  notifierDone, lastAccepted, delivered, dropped, reconfigs>>

NotifierInit ==
    /\ queue = <<>>
    /\ more = FALSE
    /\ alertmanagers = <<>>
    /\ notifierPC = "select"
    /\ batch = <<>>
    /\ postTo = <<>>
    /\ notifierDone = FALSE
    /\ lastAccepted = 0
    /\ delivered = [am \in AMSets \X AMUrls |-> <<>>]
    /\ dropped = 0
    /\ reconfigs = 0

Excess(n) == Max({n - QueueCapacity, 0})

\* Faulty variant: a full queue drops the new alerts instead of the old ones.
EnqueueDropsNew(q, alerts) ==
    LET both == q \o alerts
    IN  SubSeq(both, 1, Len(both) - Excess(Len(both)))
\* Send's treatment of alerts that relabelling kept: a batch larger than the
\* queue loses its oldest alerts, then the queue loses its oldest.
Enqueue(q, alerts) ==
    LET fitting == SubSeq(alerts, Excess(Len(alerts)) + 1, Len(alerts))
        full    == Excess(Len(q) + Len(fitting))
    IN  SubSeq(q, full + 1, Len(q)) \o fitting

\* What relabelAlerts keeps of n offered alerts is any number of them.
Send ==
    \E n \in 1..MaxOffered : \E kept \in 1..n :
        LET alerts == [i \in 1..kept |-> lastAccepted + i]
        IN  /\ lastAccepted + kept <= MaxAccepted
            /\ lastAccepted' = lastAccepted + kept
            /\ queue' = Enqueue(queue, alerts)
            /\ dropped' = dropped + Len(queue) + kept - Len(queue')
            /\ more' = TRUE
            /\ UNCHANGED <<alertmanagers, notifierPC, batch, postTo,
                           notifierDone, delivered, reconfigs>>

\* ApplyConfig builds every set anew, without addresses; reload fills them.
ApplyAlertingConfig ==
    /\ reconfigs < MaxReconfigs
    /\ reconfigs' = reconfigs + 1
    /\ \E ids \in SUBSET AMSets : alertmanagers' = [id \in ids |-> <<>>]
    /\ UNCHANGED <<queue, more, notifierPC, batch, postTo, notifierDone,
                   lastAccepted, delivered, dropped>>

\* The targets of a group that relabelling keeps; one refused address makes the
\* whole group fail, and sync then skips the group.
AlertmanagerFromGroup(tg) ==
    LET kept == {k \in DOMAIN tg : tg[k] \notin DroppedUrls}
    IN  {k \in kept : \A j \in kept : tg[j] \notin BadUrls}

\* alertmanagerSet.sync: allAms has the targets of all groups in order, named by
\* group and place in it; of those with the same URL the first one is taken.
AllAms(tgs) == UNION {{g} \X AlertmanagerFromGroup(tgs[g]) : g \in DOMAIN tgs}
Before(p, q) == p[1] < q[1] \/ (p[1] = q[1] /\ p[2] < q[2])
\* Faulty variant: an address that two groups report is kept twice.
SyncKeepsDuplicates(tgs) == [p \in AllAms(tgs) |-> tgs[p[1]][p[2]]]
Sync(tgs) ==
    [p \in {p \in AllAms(tgs) :
              \A q \in AllAms(tgs) : Before(q, p) => tgs[q[1]][q[2]] # tgs[p[1]][p[2]]} |->
        tgs[p[1]][p[2]]]

\* Run receives a target update; reload skips unknown set keys.
Reload ==
    /\ notifierPC = "select"
    /\ reconfigs < MaxReconfigs
    /\ reconfigs' = reconfigs + 1
    /\ \E ids \in SUBSET AMSets : \E tgs \in [ids -> TargetUpdates] :
        alertmanagers' = [id \in DOMAIN alertmanagers |->
            IF id \in ids THEN Sync(tgs[id]) ELSE alertmanagers[id]]
    /\ notifierPC' = "batch"
    /\ UNCHANGED <<queue, more, batch, postTo, notifierDone, lastAccepted,
                   delivered, dropped>>

TakeMore ==
    /\ notifierPC = "select"
    /\ more
    /\ more' = FALSE
    /\ notifierPC' = "batch"
    /\ UNCHANGED <<queue, alertmanagers, batch, postTo, notifierDone,
                   lastAccepted, delivered, dropped, reconfigs>>

BatchLen(q) == Min({Len(q), MaxBatchSize})
NextBatch ==
    /\ notifierPC = "batch"
    /\ batch' = SubSeq(queue, 1, BatchLen(queue))
    /\ queue' = SubSeq(queue, BatchLen(queue) + 1, Len(queue))
    /\ notifierPC' = "send"
    /\ UNCHANGED <<more, alertmanagers, postTo, notifierDone, lastAccepted,
                   delivered, dropped, reconfigs>>

\* sendAll reads the map of sets under the lock and then works on that map.
SendAllStart ==
    /\ notifierPC = "send"
    /\ postTo' = alertmanagers
    /\ notifierPC' = IF batch = <<>> THEN "check" ELSE "post"
    /\ UNCHANGED <<queue, more, alertmanagers, batch, notifierDone,
                   lastAccepted, delivered, dropped, reconfigs>>

\* One goroutine per element of every set's ams.
Posts == UNION {{id} \X DOMAIN postTo[id] : id \in DOMAIN postTo}
Answers(accepted, am) ==
    Cardinality({p \in accepted : <<p[1], postTo[p[1]][p[2]]>> = am})
Repeated(s, n) == [i \in 1..(n * Len(s)) |-> s[((i - 1) % Len(s)) + 1]]

\* All posts of sendAll (sendOne, one goroutine each) have ended; those in
\* accepted answered 2xx. Without any success the batch counts as dropped.
\* Faulty variant: the dropped counter is only told of partial failures.
SendAllEndUncounted ==
    /\ notifierPC = "post"
    /\ \E accepted \in SUBSET Posts :
        /\ delivered' = [am \in AMSets \X AMUrls |->
                delivered[am] \o Repeated(batch, Answers(accepted, am))]
        /\ dropped' = IF accepted = {} /\ DOMAIN postTo # {}
                      THEN dropped + Len(batch) ELSE dropped
    /\ notifierPC' = "check"
    /\ UNCHANGED <<queue, more, alertmanagers, batch, postTo, notifierDone,
                   lastAccepted, reconfigs>>
SendAllEnd ==
    /\ notifierPC = "post"
    /\ \E accepted \in SUBSET Posts :
        /\ delivered' = [am \in AMSets \X AMUrls |->
                delivered[am] \o Repeated(batch, Answers(accepted, am))]
        /\ dropped' = IF accepted = {} THEN dropped + Len(batch) ELSE dropped
    /\ notifierPC' = "check"
    /\ UNCHANGED <<queue, more, alertmanagers, batch, postTo, notifierDone,
                   lastAccepted, reconfigs>>

\* queueLen() > 0: there are more alerts than fitted into the batch.
\* Faulty variant: the queue is not looked at again after a batch.
CheckQueueNever ==
    /\ notifierPC = "check"
    /\ notifierPC' = "select"
    /\ UNCHANGED <<queue, more, alertmanagers, batch, postTo, notifierDone,
                   lastAccepted, delivered, dropped, reconfigs>>
CheckQueue ==
    /\ notifierPC = "check"
    /\ more' = (more \/ queue # <<>>)
    /\ notifierPC' = "select"
    /\ UNCHANGED <<queue, alertmanagers, batch, postTo, notifierDone,
                   lastAccepted, delivered, dropped, reconfigs>>

StopNotifier ==
    /\ ~notifierDone
    /\ notifierDone' = TRUE
    /\ UNCHANGED <<queue, more, alertmanagers, notifierPC, batch, postTo,
                   lastAccepted, delivered, dropped, reconfigs>>

RunReturns ==
    /\ notifierPC = "select"
    /\ notifierDone
    /\ notifierPC' = "done"
    /\ UNCHANGED <<queue, more, alertmanagers, batch, postTo, notifierDone,
                   lastAccepted, delivered, dropped, reconfigs>>

RunStep ==
    \/ Reload \/ TakeMore \/ NextBatch \/ SendAllStart \/ SendAllEnd
    \/ CheckQueue \/ RunReturns

NotifierNext ==
    Send \/ ApplyAlertingConfig \/ StopNotifier \/ RunStep

\* Run is one goroutine that the runtime schedules; posts end by their timeout.
NotifierFairness == WF_notifierVars(RunStep)

NotifierSpec == NotifierInit /\ [][NotifierNext]_notifierVars /\ NotifierFairness
-------------------------------------------------------------------------------
InFlight == IF notifierPC \in {"send", "post"} THEN batch ELSE <<>>

\* The queue of the manager always holds the newest alerts, in the order in
\* which Send accepted them, and never more than its capacity: Send makes room
\* by dropping the oldest, Run takes from the front.
QueueHoldsNewest ==
    /\ Len(queue) <= QueueCapacity
    /\ queue = [i \in 1..Len(queue) |-> lastAccepted - Len(queue) + i]

\* Every accepted alert is queued, being posted, delivered to at least one
\* Alertmanager, or counted in dropped_total, and in one of them only.
DropsAreCounted ==
    LET answered == UNION {Range(delivered[am]) : am \in AMSets \X AMUrls}
    IN  lastAccepted = Len(queue) + Len(InFlight)
                       + Cardinality(answered \ Range(InFlight)) + dropped

\* No Alertmanager of a set gets an alert twice or after a newer one, however
\* batches, reloads of the configuration and target updates interleave.
DeliveredInOrder ==
    \A am \in AMSets \X AMUrls : \A i, j \in 1..Len(delivered[am]) :
        i < j => delivered[am][i] < delivered[am][j]

\* Queued alerts are taken up or dropped for newer ones: setMore in Send and the
\* check after each batch leave no queued alert without a wake-up of Run.
QueueDrains == (queue # <<>>) ~> (queue = <<>> \/ notifierDone)

\* No alert that Send accepts gets lost uncounted, out of order or doubled.
AlertsAreAccounted == QueueHoldsNewest /\ DropsAreCounted /\ DeliveredInOrder
===============================================================================
