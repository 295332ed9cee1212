---------------------------- MODULE Notifications ----------------------------
(***************************************************************************)
(* Notifications (apps/piqueld/src/store/observability/notifications.rs,   *)
(* destinations.rs, event.rs and api/service/notification_worker.rs).      *)
(*                                                                         *)
(* Committed events are read behind a cursor, open and close conditions,   *)
(* and queue deliveries in an outbox; one worker claims a delivery, posts  *)
(* it and records the result, and may stop between any two of these.       *)
(* Meanwhile destinations are edited, deleted and replaced, deliveries are *)
(* retried by hand, events are pruned and the environment is deleted.      *)
(*                                                                         *)
(* One environment and one kind of daemon failure: a condition is named by *)
(* its category.  The clock is left out: any pending delivery may be due,  *)
(* and any retry window may have passed, whenever the worker looks.        *)
(***************************************************************************)
EXTENDS Naturals, Sequences, FiniteSets

CONSTANTS
    Destinations,    \* destination names
    Settings,        \* the settings destinations may be given
    Reported,        \* the kinds of events operations and the daemon record
    SustainedAfter,  \* FAILURE_THRESHOLD_MS, in observations
    MaxReports,      \* bound: events of the environment and failures of the daemon
    MaxEdits,        \* bound: changes of destinations
    MaxRestarts      \* bound: restarts of the daemon

EnvironmentFailures == {"build_failures", "deployment_failures", "service_degradation"}
FailureCategories == EnvironmentFailures \cup {"daemon_failures"}
Occurrences == {"security", "daemon_started"}
Categories == FailureCategories \cup Occurrences \cup {"recovery", "deployment_succeeded"}

\* Event kinds; "failed" and "recovered" are dependency_health_changed.
EnvironmentKinds == {"build_failed", "deployment_failed", "operation_succeeded",
                     "operation_deleted", "failed", "recovered"}
Kinds == EnvironmentKinds \cup Occurrences \cup {"daemon_failed"}

ASSUME NotificationsAssumption ==
    /\ Settings \subseteq [enabled : BOOLEAN, categories : SUBSET Categories, selects : BOOLEAN]
    /\ Reported \subseteq {"build_failed", "deployment_failed", "daemon_failed",
                           "operation_succeeded"}
    /\ SustainedAfter \in Nat \ {0}
    /\ MaxReports \in Nat /\ MaxEdits \in Nat /\ MaxRestarts \in Nat

VARIABLES
    log,          \* the kind of each event ever recorded
    gone,         \* events that were deleted with their application
    cursor,       \* notification_cursor
    conditions,   \* notification_conditions
    observed,     \* dependency_observations of the environment
    exists,       \* the environment exists
    destination,  \* notification_destinations and their categories
    deliveries,   \* notification_deliveries
    sources,      \* notification_recovery_sources: <<recovery, failure>>
    worker,       \* the delivery the worker has claimed, and its result
    inbox         \* history: alerts receivers acknowledged, recoveries they got

vars == <<log, gone, cursor, conditions, observed, exists, destination,
          deliveries, sources, worker, inbox>>
events == <<log, gone, cursor>>
incidents == <<conditions, observed, exists>>
outbox == <<deliveries, sources>>

MaxEvents == MaxReports + MaxEdits + MaxRestarts
Events == 1 .. MaxEvents
Subscribed == UNION {s.categories : s \in Settings}
DeliveryIds == [event : Events, name : Destinations, category : Subscribed]
NoCondition == [event |-> 0, notified |-> FALSE, window |-> 0]
Idle == [delivery |-> <<>>, receiver |-> 0, result |-> "idle"]

\* A destination is a new receiver whenever its URL or kind changes, named by
\* the event that records the change.
NoDestination == [known |-> FALSE, receiver |-> 0, enabled |-> FALSE,
                  after |-> <<>>, selects |-> FALSE]

NTypeOK ==
    /\ log \in Seq(Kinds) /\ Len(log) <= MaxEvents
    /\ gone \subseteq DOMAIN log
    /\ cursor \in 0 .. Len(log)
    /\ conditions \in [FailureCategories ->
           [event : 0 .. MaxEvents, notified : BOOLEAN, window : 0 .. SustainedAfter]]
    /\ observed \in {"unknown", "failed", "recovered"}
    /\ exists \in BOOLEAN
    /\ DOMAIN destination = Destinations
    /\ DOMAIN deliveries \subseteq DeliveryIds
    /\ \A k \in DOMAIN deliveries :
           deliveries[k] \in [state : {"pending", "delivered", "failed", "cancelled"},
                              tried : BOOLEAN, attached : BOOLEAN]
    /\ \A s \in sources : s[1].category = "recovery" /\ s[2].category \in FailureCategories
    /\ worker.result \in {"idle", "claimed", "delivered", "retry", "rejected"}
    /\ worker # Idle => worker.delivery \in DeliveryIds

\* Destinations were created before the first event of the log.
Init ==
    /\ log = <<>> /\ gone = {} /\ cursor = 0
    /\ conditions = [c \in FailureCategories |-> NoCondition]
    /\ observed = "unknown" /\ exists = TRUE
    /\ \E enabled \in BOOLEAN :
           destination = [d \in Destinations |->
               [known |-> TRUE, receiver |-> 0, enabled |-> enabled, selects |-> TRUE,
                after |-> [c \in Subscribed |-> 0]]]
    /\ deliveries = <<>> /\ sources = {}
    /\ worker = Idle
    /\ inbox = {}

-----------------------------------------------------------------------------
(***************************************************************************)
(* The outbox                                                              *)
(***************************************************************************)
\* The view notification_audience.
Audience(d, kind) == kind \notin EnvironmentKinds \/ destination[d].selects

Receives(d, category) == destination[d].enabled /\ category \in DOMAIN destination[d].after

\* Mutant: a category that was just added replays events before it.
EnqueueReplaying(event, category) ==
    {[event |-> event, name |-> d, category |-> category] :
        d \in {d \in Destinations : Receives(d, category) /\ Audience(d, log[event])}}

\* Every destination that receives the category since before the event.
Enqueue(event, category) ==
    {[event |-> event, name |-> d, category |-> category] :
        d \in {d \in Destinations : /\ Receives(d, category)
                                    /\ destination[d].after[category] < event
                                    /\ Audience(d, log[event])}}

\* A delivery that exists already stays as it is.
Queued(ids) ==
    [k \in DOMAIN deliveries \cup ids |->
        IF k \in DOMAIN deliveries THEN deliveries[k]
        ELSE [state |-> "pending", tried |-> FALSE, attached |-> TRUE]]

InState(states) == {k \in DOMAIN deliveries : deliveries[k].state \in states}

\* The alerts of the notified conditions that the event clears, at
\* destinations that were sent, or are being sent, them.
RecoveredFailures(categories, event) ==
    {f \in InState({"pending", "delivered"}) :
        /\ f.category \in categories /\ conditions[f.category].notified
        /\ f.event = conditions[f.category].event
        /\ deliveries[f].attached
        /\ Receives(f.name, f.category) /\ Receives(f.name, "recovery")
        /\ destination[f.name].after["recovery"] < event}

Recovery(f, event) == [event |-> event, name |-> f.name, category |-> "recovery"]

\* close_condition of the given categories, and the deliveries queued with it.
CloseConditions(categories, event, others) ==
    LET failures == RecoveredFailures(categories, event)
    IN  /\ conditions' = [c \in FailureCategories |->
                             IF c \in categories THEN NoCondition ELSE conditions[c]]
        /\ deliveries' = Queued({Recovery(f, event) : f \in failures} \cup others)
        /\ sources' = sources \cup {<<Recovery(f, event), f>> : f \in failures}

-----------------------------------------------------------------------------
(***************************************************************************)
(* Events                                                                  *)
(***************************************************************************)
Recorded(kinds) == Cardinality({e \in DOMAIN log : log[e] \in kinds})

\* Bounded by MaxReports, MaxEdits and MaxRestarts.
Record(kind) ==
    /\ CASE kind = "security" -> Recorded({kind}) < MaxEdits
         [] kind = "daemon_started" -> Recorded({kind}) < MaxRestarts
         [] OTHER -> Recorded(Kinds \ Occurrences) < MaxReports
    /\ log' = Append(log, kind)

\* An operation or the daemon records an event.
Report(kind) ==
    /\ Record(kind)
    /\ kind \in EnvironmentKinds => exists
    /\ UNCHANGED <<gone, cursor, incidents, destination, outbox, worker, inbox>>

\* Repeats while the condition is open are deduplicated.
Opens(category) == conditions[category].event = 0

CategoryOf == [build_failed |-> "build_failures",
               deployment_failed |-> "deployment_failures",
               daemon_failed |-> "daemon_failures"]

\* process_notification_event
Apply(event) ==
    LET kind == log[event]
        closed == {"build_failures", "deployment_failures"}
        opened == CategoryOf[kind]
    IN  \/ /\ kind = "operation_succeeded"
           /\ CloseConditions(closed, event, Enqueue(event, "deployment_succeeded"))
        \/ /\ kind = "operation_deleted"
           /\ CloseConditions(closed, event, {})
        \/ /\ kind \in Occurrences
           /\ deliveries' = Queued(Enqueue(event, kind))
           /\ UNCHANGED <<conditions, sources>>
        \/ /\ kind \in DOMAIN CategoryOf
           /\ IF Opens(opened)
              THEN /\ conditions' = [conditions EXCEPT
                         ![opened] = [event |-> event, notified |-> TRUE, window |-> 0]]
                   /\ deliveries' = Queued(Enqueue(event, opened))
              ELSE UNCHANGED <<conditions, deliveries>>
           /\ UNCHANGED sources
        \/ /\ kind \in {"failed", "recovered"}
           /\ UNCHANGED <<conditions, outbox>>

\* process_notifications: the next event behind the cursor, if it is there.
\* A page is a batch of these.
Process ==
    /\ worker = Idle
    /\ cursor < Len(log)
    /\ cursor' = cursor + 1
    /\ \/ cursor + 1 \notin gone /\ Apply(cursor + 1)
       \/ cursor + 1 \in gone /\ UNCHANGED <<conditions, outbox>>
    /\ UNCHANGED <<log, gone, observed, exists, destination, worker, inbox>>

\* The window of the health condition after a failing observation.
Window(changed, gap) ==
    IF changed \/ gap THEN 0 ELSE conditions["service_degradation"].window + 1

\* observe_condition of a failing environment, and notify_sustained_failure;
\* after a gap the failure is not known to have lasted.
ObserveFailure(gap) ==
    LET changed == observed # "failed"
        health == conditions["service_degradation"]
        window == Window(changed, gap)
        event == IF changed THEN Len(log) + 1 ELSE health.event
    IN  /\ exists
        /\ changed \/ ~health.notified
        /\ IF changed THEN Record("failed") ELSE UNCHANGED log
        /\ conditions' = [conditions EXCEPT !["service_degradation"] =
               [event |-> event, notified |-> window >= SustainedAfter,
                window |-> window]]
        /\ deliveries' = IF window >= SustainedAfter
                         THEN Queued(Enqueue(event, "service_degradation"))
                         ELSE deliveries
        /\ observed' = "failed"
        /\ UNCHANGED <<gone, cursor, exists, destination, sources, worker, inbox>>

\* observe_condition of a healthy environment: an event only on a transition.
ObserveRecovery ==
    /\ exists
    /\ observed # "recovered"
    /\ observed' = "recovered"
    /\ \/ /\ observed = "failed"
          /\ Record("recovered")
          /\ CloseConditions({"service_degradation"}, Len(log) + 1, {})
       \/ /\ observed = "unknown"
          /\ UNCHANGED <<log, conditions, outbox>>
    /\ UNCHANGED <<gone, cursor, exists, destination, worker, inbox>>

\* Events take their deliveries, and those their pairings, with them.
Forget(removed) ==
    /\ deliveries' = [k \in {k \in DOMAIN deliveries : k.event \notin removed} |->
                         deliveries[k]]
    /\ sources' = {s \in sources : s[1].event \notin removed /\ s[2].event \notin removed}

\* finish_delete_operation, of an application's last environment with the
\* application's history.
DeleteEnvironment(last) ==
    /\ exists
    /\ exists' = FALSE
    /\ Record("operation_deleted")
    /\ conditions' = [c \in FailureCategories |->
                         IF c \in EnvironmentFailures THEN NoCondition ELSE conditions[c]]
    /\ observed' = "unknown"
    /\ LET history == {e \in DOMAIN log' : log'[e] \in EnvironmentKinds}
       IN  IF last THEN gone' = history /\ Forget(history)
           ELSE UNCHANGED <<gone, outbox>>
    /\ UNCHANGED <<cursor, destination, worker, inbox>>

\* Mutant: an event is needed only by the deliveries that are pending.
NeededByPending(event) == \E k \in InState({"pending"}) : k.event = event

\* Mutant: an event is not needed by a condition once its alerts were delivered.
NeededByOutbox(event) ==
    \/ \E k \in InState({"pending"}) : k.event = event
    \/ \E s \in sources : s[2].event = event /\ s[1] \in InState({"pending"})

\* What prune_scope keeps: events of open conditions, of pending deliveries and
\* of the failures a pending recovery is about.
Needed(event) ==
    \/ \E c \in FailureCategories : conditions[c].event = event
    \/ \E k \in InState({"pending"}) : k.event = event
    \/ \E s \in sources : s[2].event = event /\ s[1] \in InState({"pending"})

\* prune_scope, of events up to some age, days after they were read.  Nothing
\* reads them again, so it shows only in what goes with them.
Prune(last) ==
    LET removed == {e \in 1 .. last : ~Needed(e)}
    IN  /\ \E k \in DOMAIN deliveries : k.event \in removed
        /\ Forget(removed)
        /\ conditions' = [c \in FailureCategories |->
               IF conditions[c].event \in removed THEN NoCondition ELSE conditions[c]]
        /\ UNCHANGED <<events, observed, exists, destination, worker, inbox>>

-----------------------------------------------------------------------------
(***************************************************************************)
(* The delivery worker                                                     *)
(***************************************************************************)
\* A retry window starts with the first attempt of a delivery that waits for
\* another.
Waiting == {"recovery", "deployment_succeeded"}

\* Mutant: the retry window of a recovery or a deployment never passes.
ExpirableAlerts == {k \in InState({"pending"}) : k.category \notin Waiting}

Expirable == {k \in InState({"pending"}) : k.category \in Waiting => deliveries[k].tried}

Sources(recovery) == {s[2] : s \in {s \in sources : s[1] = recovery}}

\* The recovery of the same event at the same destination.
Companion(k, outboxed, state) ==
    \E r \in DOMAIN outboxed : /\ r = [k EXCEPT !.category = "recovery"]
                               /\ outboxed[r].attached /\ outboxed[k].attached
                               /\ outboxed[r].state = state

\* settle_expired_deliveries: fail, then cancel, then cancel.
Settled(expired) ==
    LET failed == [k \in DOMAIN deliveries |->
            IF k \in expired THEN [deliveries[k] EXCEPT !.state = "failed"]
            ELSE deliveries[k]]
        unpaired == [k \in DOMAIN deliveries |->
            IF /\ failed[k].state = "pending" /\ k.category = "recovery"
               /\ \A f \in Sources(k) : failed[f].state \notin {"pending", "delivered"}
            THEN [failed[k] EXCEPT !.state = "cancelled"] ELSE failed[k]]
    IN  [k \in DOMAIN deliveries |->
            IF /\ unpaired[k].state = "pending" /\ k.category = "deployment_succeeded"
               /\ Companion(k, unpaired, "delivered")
            THEN [unpaired[k] EXCEPT !.state = "cancelled"] ELSE unpaired[k]]

Ready(k, outboxed) ==
    /\ outboxed[k].state = "pending"
    /\ k.category = "recovery" =>
           /\ \E f \in Sources(k) : outboxed[f].state = "delivered"
           /\ \A f \in Sources(k) : outboxed[f].state # "pending"
    /\ k.category = "deployment_succeeded" => ~Companion(k, outboxed, "pending")

Deliverable(k) == deliveries[k].attached /\ Receives(k.name, k.category)

\* claim_delivery of a due delivery; what can no longer be sent is cancelled.
Claim(k, expired) ==
    LET outboxed == Settled(expired)
    IN  /\ worker = Idle
        /\ Ready(k, outboxed)
        /\ IF Deliverable(k)
           THEN /\ deliveries' = [outboxed EXCEPT ![k].tried = k.category \in Waiting]
                /\ worker' = [delivery |-> k, receiver |-> destination[k.name].receiver,
                              result |-> "claimed"]
           ELSE /\ deliveries' = [outboxed EXCEPT ![k].state = "cancelled"]
                /\ UNCHANGED worker
        /\ UNCHANGED <<events, incidents, destination, sources, inbox>>

\* claim_delivery with nothing due still settles.
ClaimNothing(expired) ==
    /\ worker = Idle
    /\ Settled(expired) # deliveries
    /\ deliveries' = Settled(expired)
    /\ UNCHANGED <<events, incidents, destination, sources, worker, inbox>>

\* The claimed delivery's event was deleted meanwhile.
Abandon ==
    /\ worker.result = "claimed" /\ worker.delivery \notin DOMAIN deliveries
    /\ worker' = Idle
    /\ UNCHANGED <<events, incidents, destination, outbox, inbox>>

\* The receiver got it: a recovery also when it does not acknowledge it.
Arrived(result, arrives) ==
    \/ worker.delivery.category = "recovery" /\ arrives
    \/ worker.delivery.category \in FailureCategories /\ result = "delivered"

\* post: a receiver that does not acknowledge may have got the notification.
Post(result, arrives) ==
    /\ worker.result = "claimed" /\ worker.delivery \in DOMAIN deliveries
    /\ result = "delivered" => arrives
    /\ worker' = [worker EXCEPT !.result = result]
    /\ inbox' = IF Arrived(result, arrives)
                THEN inbox \cup {<<worker.receiver, worker.delivery>>} ELSE inbox
    /\ UNCHANGED <<events, incidents, destination, outbox>>

OutcomeOf == [delivered |-> "delivered", retry |-> "pending", rejected |-> "failed"]

Completes(k) == k \in InState({"pending"})

\* complete_delivery
Complete ==
    LET k == worker.delivery
    IN  /\ worker.result \in DOMAIN OutcomeOf
        /\ deliveries' = IF Completes(k)
                         THEN [deliveries EXCEPT ![k].state = OutcomeOf[worker.result]]
                         ELSE deliveries
        /\ worker' = Idle
        /\ UNCHANGED <<events, incidents, destination, sources, inbox>>

\* The daemon stops and starts: its worker forgets, and restart_failure_windows.
Restart ==
    /\ Record("daemon_started")
    /\ worker' = Idle
    /\ conditions' = [c \in FailureCategories |->
                         IF conditions[c].notified THEN conditions[c]
                         ELSE [conditions[c] EXCEPT !.window = 0]]
    /\ UNCHANGED <<gone, cursor, observed, exists, destination, outbox, inbox>>

-----------------------------------------------------------------------------
(***************************************************************************)
(* Requests                                                                *)
(***************************************************************************)
\* Mutant: an alert is retried whatever became of its condition.
RetryableOpenOrClosed(k) ==
    /\ ~\E s \in sources : s[2] = k /\ s[1] \in InState({"delivered"})
    /\ k.category = "recovery" =>
           \A f \in Sources(k) : conditions[f.category].event = 0

Retryable(k) ==
    /\ ~\E s \in sources : s[2] = k /\ s[1] \in InState({"delivered"})
    /\ k.category = "recovery" =>
           \A f \in Sources(k) : conditions[f.category].event = 0
    /\ k.category \in FailureCategories =>
           \E c \in FailureCategories : conditions[c].event = k.event

\* retry_delivery
Retry(k) ==
    /\ k \in InState({"failed"})
    /\ Deliverable(k)
    /\ k.category = "recovery" \/ Audience(k.name, log[k.event])
    /\ Retryable(k)
    /\ deliveries' = [deliveries EXCEPT ![k].state = "pending"]
    /\ UNCHANGED <<events, incidents, destination, sources, worker, inbox>>

\* Mutant: deliveries of the former receiver stay attached to the destination.
CancelDeliveriesAttached(d, cancelled, detach) ==
    deliveries' = [k \in DOMAIN deliveries |->
        IF k.name = d /\ deliveries[k].attached
        THEN [deliveries[k] EXCEPT
                 !.state = IF @ = "pending" /\ k \in cancelled THEN "cancelled" ELSE @]
        ELSE deliveries[k]]

\* cancel_deliveries of the given ones, and whether they stay attached.
CancelDeliveries(d, cancelled, detach) ==
    deliveries' = [k \in DOMAIN deliveries |->
        IF k.name = d /\ deliveries[k].attached
        THEN [deliveries[k] EXCEPT
                 !.state = IF @ = "pending" /\ k \in cancelled THEN "cancelled" ELSE @,
                 !.attached = ~detach]
        ELSE deliveries[k]]

\* save_rules: added categories, and every category of a replaced or resumed
\* destination, start after the latest event.
After(d, categories, restart) ==
    [c \in categories |-> IF ~restart /\ c \in DOMAIN destination[d].after
                          THEN destination[d].after[c] ELSE Len(log) + 1]

\* put_notification_destination; `replaced' is a new URL or kind.
PutDestination(d, replaced, new) ==
    LET old == destination[d]
        restart == replaced \/ (~old.enabled /\ new.enabled)
        outside(k) == /\ k.category # "recovery"
                      /\ log[k.event] \in EnvironmentKinds /\ ~new.selects
    IN  /\ ~old.known => replaced
        /\ Record("security")
        /\ destination' = [destination EXCEPT ![d] =
               [known |-> TRUE, enabled |-> new.enabled, selects |-> new.selects,
                receiver |-> IF replaced THEN Len(log) + 1 ELSE @.receiver,
                after |-> After(d, new.categories, restart)]]
        /\ CancelDeliveries(d, {k \in DOMAIN deliveries :
                                   \/ replaced \/ ~new.enabled
                                   \/ k.category \notin new.categories
                                   \/ outside(k)},
                            replaced)
        /\ UNCHANGED <<gone, cursor, incidents, sources, worker, inbox>>

DeleteDestination(d) ==
    /\ destination[d].known
    /\ Record("security")
    /\ destination' = [destination EXCEPT ![d] = NoDestination]
    /\ CancelDeliveries(d, DOMAIN deliveries, TRUE)
    /\ UNCHANGED <<gone, cursor, incidents, sources, worker, inbox>>

-----------------------------------------------------------------------------
Sweep == ClaimNothing(Expirable) \/ \E k \in DOMAIN deliveries : Claim(k, Expirable)

FirstAttempt ==
    \E k \in DOMAIN deliveries :
        k.category \in Waiting /\ ~deliveries[k].tried /\ \E x \in SUBSET Expirable : Claim(k, x)

WorkerStep ==
    \/ Abandon
    \/ \E result \in DOMAIN OutcomeOf, arrives \in BOOLEAN : Post(result, arrives)
    \/ Complete

Next ==
    \/ \E kind \in Reported : Report(kind)
    \/ Process
    \/ \E gap \in BOOLEAN : ObserveFailure(gap)
    \/ ObserveRecovery
    \/ \E last \in BOOLEAN : DeleteEnvironment(last)
    \/ \E last \in 1 .. cursor : Prune(last)
    \/ \E x \in SUBSET Expirable : ClaimNothing(x) \/ \E k \in DOMAIN deliveries : Claim(k, x)
    \/ WorkerStep
    \/ Restart
    \/ \E k \in DOMAIN deliveries : Retry(k)
    \/ \E d \in Destinations :
          \/ \E replaced \in BOOLEAN, new \in Settings : PutDestination(d, replaced, new)
          \/ DeleteDestination(d)

Spec == Init /\ [][Next]_vars

(***************************************************************************)
(* The worker loops: it reads events, a post ends (it times out), and its  *)
(* result is recorded.  Retry windows pass.  Deliveries are claimed in the *)
(* order of next_attempt_ms, so one that was never tried is not passed     *)
(* over for ever by others that are retried.                               *)
(***************************************************************************)
FairSpec ==
    /\ Spec
    /\ WF_vars(Process) /\ WF_vars(WorkerStep)
    /\ SF_vars(Sweep) /\ SF_vars(FirstAttempt)

-----------------------------------------------------------------------------
Clears == [build_failures |-> {"operation_succeeded", "operation_deleted"},
           deployment_failures |-> {"operation_succeeded", "operation_deleted"},
           service_degradation |-> {"recovered"}, daemon_failures |-> {}]

\* The event c is the one that cleared the incident which f announces.
Cleared(f, c) ==
    /\ f.event < c /\ log[c] \in Clears[f.category]
    /\ \A e \in f.event + 1 .. c - 1 : log[e] \notin Clears[f.category]

\* "A new or changed destination never receives recovery for a failure it was
\* not sent" (docs/dev/architecture/observability.md): whatever crashes,
\* retries and edits came between, a receiver that got a recovery got an alert
\* of an incident that event cleared.
RecoveryFollowsFailure ==
    \A m \in inbox : m[2].category = "recovery" =>
        \E f \in inbox : /\ f[1] = m[1] /\ f[2].name = m[2].name
                         /\ f[2].category \in FailureCategories
                         /\ Cleared(f[2], m[2].event)

\* A receiver that got the recovery of an incident is never sent its alert
\* again, by an automatic retry, a retry by hand or after a crash.
AlertIsNotReplayed ==
    [][worker.result = "claimed" /\ worker'.result \in DOMAIN OutcomeOf
       /\ worker.delivery.category \in FailureCategories /\ exists
       => ~\E r \in inbox : /\ r[1] = worker.receiver /\ r[2].name = worker.delivery.name
                            /\ r[2].category = "recovery"
                            /\ Cleared(worker.delivery, r[2].event)]_vars

Alerts == DOMAIN deliveries \cup {m[2] : m \in inbox}

\* A failure alerts once: two alerts of a category at a destination are about
\* incidents with a recovery between them, although events are read late,
\* pruned and repeated.
OneAlertPerIncident ==
    exists => \A f, g \in Alerts :
        /\ f.name = g.name /\ f.category = g.category
        /\ f.category \in FailureCategories /\ f.event < g.event
        => \E c \in f.event + 1 .. g.event - 1 : log[c] \in Clears[f.category]

\* Edits of a destination reach the deliveries that are queued for it: what
\* waits to be sent is wanted by the present settings, and a new URL or kind
\* never gets what happened before it, although events are read late and
\* failed deliveries are retried by hand.
NothingUnwantedIsQueued ==
    \A k \in InState({"pending"}) :
        /\ Deliverable(k)
        /\ destination[k.name].receiver < k.event

\* Whatever is pruned or deleted, a recovery that waits for its alerts to
\* settle is still paired with them: none is pruned away with its event.
RecoveryKeepsItsFailures ==
    /\ NTypeOK
    /\ \A r \in InState({"pending"}) :
        r.category = "recovery" /\ ~deliveries[r].tried => Sources(r) # {}

\* Every queued delivery is delivered, fails or is cancelled in the end: one
\* that waits for another never waits for ever.
DeliveriesSettle ==
    \A k \in DeliveryIds : k \in InState({"pending"}) ~> k \notin InState({"pending"})

==============================================================================
