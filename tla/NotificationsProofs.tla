------------------------- MODULE NotificationsProofs -------------------------
(***************************************************************************)
(* Proofs about Notifications, for any destinations, settings and numbers  *)
(* of reports, edits and restarts: recoveries follow failures, an incident *)
(* alerts once and is not replayed after its recovery, what is queued is   *)
(* wanted, and a recovery that waits keeps its failures.                   *)
(*                                                                         *)
(* The inductive invariant says why: nothing that was handled clears an    *)
(* open condition, so an alert is of the open incident or was cleared      *)
(* before it; the event that clears an incident pairs its recovery with    *)
(* every alert that is still to be sent; and whoever is attached to a      *)
(* destination has the receiver it had when it was queued.                 *)
(***************************************************************************)
EXTENDS Notifications, TLAPS, FiniteSetTheorems

DeliveryStates == {"pending", "delivered", "failed", "cancelled"}
DeliveryRecord == [state : DeliveryStates, tried : BOOLEAN, attached : BOOLEAN]
ConditionRecord == [event : 0 .. MaxEvents, notified : BOOLEAN, window : 0 .. SustainedAfter]
WorkerRecord ==
    [delivery : DeliveryIds \cup {<<>>}, receiver : Nat,
     result : {"idle", "claimed", "delivered", "retry", "rejected"}]

AlertKind == [build_failures |-> "build_failed", deployment_failures |-> "deployment_failed",
              daemon_failures |-> "daemon_failed", service_degradation |-> "failed"]

ClearingKinds == {"operation_succeeded", "operation_deleted", "recovered"}

\* Deliveries that are in the outbox, with the worker or with receivers.
Seen == DOMAIN deliveries \cup {m[2] : m \in inbox}
          \cup (IF worker.result = "idle" THEN {} ELSE {worker.delivery})

\* An event that is behind the cursor, or was acted on when it was observed.
Handled(e) == e <= cursor \/ log[e] \in {"failed", "recovered"}

\* The log and its cursor; every event counts against one of the bounds.
LogInv ==
    /\ log \in Seq(Kinds)
    /\ gone \subseteq 1 .. Len(log)
    /\ cursor \in 0 .. Len(log)
    /\ exists \in BOOLEAN
    /\ observed \in {"unknown", "failed", "recovered"}
    /\ Len(log) = Recorded({"security"}) + Recorded({"daemon_started"})
                    + Recorded(Kinds \ Occurrences)
    /\ Recorded({"security"}) <= MaxEdits
    /\ Recorded({"daemon_started"}) <= MaxRestarts
    /\ Recorded(Kinds \ Occurrences) <= MaxReports

\* What a delivery is about.
KeyInv(k) ==
    /\ k \in DeliveryIds /\ k.event <= Len(log) /\ Handled(k.event)
    /\ k.category \in FailureCategories => log[k.event] = AlertKind[k.category]
    /\ k.category = "recovery" => log[k.event] \in ClearingKinds

KeysInv == \A k \in Seen : KeyInv(k)

\* A category counts from after the event that made its receiver.
DestinationInv(d) ==
    /\ destination[d].receiver \in 0 .. Len(log)
    /\ DOMAIN destination[d].after \subseteq Subscribed
    /\ \A c \in DOMAIN destination[d].after :
           destination[d].after[c] \in Nat /\ destination[d].receiver <= destination[d].after[c]

DestinationsInv ==
    /\ DOMAIN destination = Destinations
    /\ \A d \in Destinations : DestinationInv(d)

\* Nothing that was handled clears an open condition.
OpenInv(c) ==
    LET e == conditions[c].event
    IN  /\ e # 0 => /\ e <= Len(log) /\ Handled(e) /\ log[e] = AlertKind[c]
                    /\ \A x \in e + 1 .. Len(log) : Handled(x) => log[x] \notin Clears[c]
        /\ e = 0 => ~conditions[c].notified
        /\ ~conditions[c].notified => conditions[c].window < SustainedAfter

ConditionsInv ==
    /\ conditions \in [FailureCategories -> ConditionRecord]
    /\ \A c \in FailureCategories : OpenInv(c)
    /\ observed = "failed" <=> conditions["service_degradation"].event # 0
    /\ gone # {} => /\ ~exists
                    /\ \A e \in 1 .. Len(log) : log[e] \in EnvironmentKinds => e \in gone
                    /\ \A c \in EnvironmentFailures : conditions[c].event = 0

\* An alert's incident is the open one, or was cleared before the open one.
IncidentInv(f) ==
    \/ /\ f.event = conditions[f.category].event
       /\ conditions[f.category].notified
    \/ \E x \in f.event + 1 .. Len(log) :
           /\ Handled(x) /\ log[x] \in Clears[f.category]
           /\ conditions[f.category].event # 0 => x < conditions[f.category].event

ClearedBetween(f, g) == \E x \in f.event + 1 .. g.event - 1 : log[x] \in Clears[f.category]

IncidentsInv ==
    exists =>
        /\ \A f \in Seen : f.category \in FailureCategories => IncidentInv(f)
        /\ \A f, g \in Seen :
               f.category \in FailureCategories /\ f.category = g.category /\ f.event < g.event
                 => ClearedBetween(f, g)

\* What is queued is wanted, and a delivered alert arrived.
RowInv(k) ==
    /\ deliveries[k] \in DeliveryRecord
    /\ deliveries[k].state = "pending" => Deliverable(k)
    /\ deliveries[k].attached => destination[k.name].receiver < k.event
    /\ k.category = "recovery" =>
           /\ deliveries[k].state = "failed" => deliveries[k].tried
           /\ deliveries[k].state = "pending" /\ ~deliveries[k].tried =>
                  \E s \in sources : s[1] = k
    /\ /\ k.category \in FailureCategories
       /\ deliveries[k].state = "delivered" /\ deliveries[k].attached
       => <<destination[k.name].receiver, k>> \in inbox

OutboxInv == \A k \in DOMAIN deliveries : RowInv(k)

\* A recovery is paired with the alerts of what its event cleared.
SourcesInv ==
    /\ \A s \in sources :
           /\ s = <<s[1], s[2]>> /\ s[1] \in DOMAIN deliveries /\ s[2] \in DOMAIN deliveries
           /\ s[1].category = "recovery" /\ s[2].category \in FailureCategories
           /\ s[1].name = s[2].name /\ Cleared(s[2], s[1].event)
           /\ deliveries[s[1]].attached => deliveries[s[2]].attached
    /\ exists => \A r, k \in DOMAIN deliveries :
           /\ r.category = "recovery" /\ k.category \in FailureCategories
           /\ deliveries[k].state = "pending" /\ r.name = k.name /\ Cleared(k, r.event)
           => <<r, k>> \in sources

\* The alert the worker posts was not followed by its recovery, and the
\* recovery it posts follows an alert, with none left to send.
ClaimInv(k) ==
    /\ k.category = "recovery" =>
           \E m \in inbox : /\ m[1] = worker.receiver /\ m[2].name = k.name
                            /\ m[2].category \in FailureCategories /\ Cleared(m[2], k.event)
    /\ k.category = "recovery" /\ exists =>
           \A q \in DOMAIN deliveries :
               /\ deliveries[q].state = "pending" /\ q.category \in FailureCategories
               /\ q.name = k.name
               => ~Cleared(q, k.event)
    /\ k.category \in FailureCategories /\ exists =>
           \A m \in inbox :
               m[1] = worker.receiver /\ m[2].name = k.name /\ m[2].category = "recovery"
                 => ~Cleared(k, m[2].event)

WorkingInv(k) ==
    /\ k \in DeliveryIds
    /\ k \in DOMAIN deliveries /\ deliveries[k].attached =>
           worker.receiver = destination[k.name].receiver
    /\ k \in DOMAIN deliveries /\ k.category = "recovery" => deliveries[k].tried
    /\ worker.result = "delivered" /\ k.category \in FailureCategories =>
           <<worker.receiver, k>> \in inbox
    /\ worker.result = "claimed" => ClaimInv(k)

WorkerInv ==
    /\ worker \in WorkerRecord
    /\ worker.result = "idle" <=> worker = Idle
    /\ worker.result # "idle" => WorkingInv(worker.delivery)

\* No alert that is still to be sent was followed by its recovery.
InboxInv ==
    /\ \A m \in inbox : m = <<m[1], m[2]>>
    /\ RecoveryFollowsFailure
    /\ exists => \A m \in inbox, q \in DOMAIN deliveries :
           /\ m[2].category = "recovery" /\ q.category \in FailureCategories
           /\ deliveries[q].state = "pending"
           /\ m[1] = destination[q.name].receiver /\ m[2].name = q.name
           => ~Cleared(q, m[2].event)

NInv ==
    /\ LogInv
    /\ DestinationsInv
    /\ ConditionsInv
    /\ KeysInv
    /\ IncidentsInv
    /\ OutboxInv
    /\ SourcesInv
    /\ WorkerInv
    /\ InboxInv

-----------------------------------------------------------------------------
(* Kinds and records *)

LEMMA KindFacts ==
    /\ \A c \in FailureCategories : /\ AlertKind[c] \in Kinds /\ AlertKind[c] \notin ClearingKinds
                                    /\ Clears[c] \subseteq ClearingKinds
                                    /\ AlertKind[c] \notin Occurrences
                                    /\ c \notin Occurrences /\ c # "recovery"
                                    /\ c # "deployment_succeeded"
    /\ \A c, d \in FailureCategories : AlertKind[c] = AlertKind[d] => c = d
    /\ \A c \in FailureCategories :
           c # "service_degradation" => /\ "recovered" \notin Clears[c] /\ AlertKind[c] # "failed"
    /\ Clears["service_degradation"] = {"recovered"}
    /\ AlertKind["service_degradation"] = "failed"
    /\ "failed" \notin ClearingKinds
    /\ ClearingKinds \subseteq EnvironmentKinds /\ EnvironmentKinds \subseteq Kinds
    /\ "service_degradation" \in FailureCategories
    /\ Clears["daemon_failures"] = {}
BY DEF FailureCategories, EnvironmentFailures, AlertKind, Kinds, EnvironmentKinds, Occurrences,
       ClearingKinds, Clears

LEMMA BoundsType ==
    MaxReports \in Nat /\ MaxEdits \in Nat /\ MaxRestarts \in Nat /\ MaxEvents \in Nat
    /\ SustainedAfter \in Nat /\ SustainedAfter > 0
BY NotificationsAssumption DEF MaxEvents

LEMMA KeyFields ==
    ASSUME NEW k \in DeliveryIds
    PROVE  /\ k.event \in 1 .. MaxEvents /\ k.event \in Nat /\ k.event > 0
           /\ k.name \in Destinations /\ k.category \in Subscribed
           /\ k = [event |-> k.event, name |-> k.name, category |-> k.category]
BY BoundsType DEF DeliveryIds, Events

LEMMA RowExcept ==
    ASSUME NEW v \in DeliveryRecord, NEW b
    PROVE  /\ [v EXCEPT !.state = b]
                = [state |-> b, tried |-> v.tried, attached |-> v.attached]
           /\ [v EXCEPT !.tried = b]
                = [state |-> v.state, tried |-> b, attached |-> v.attached]
           /\ [v EXCEPT !.attached = b]
                = [state |-> v.state, tried |-> v.tried, attached |-> b]
BY DEF DeliveryRecord

LEMMA RowMade ==
    ASSUME NEW s \in DeliveryStates, NEW t \in BOOLEAN, NEW a \in BOOLEAN,
           NEW v, v = [state |-> s, tried |-> t, attached |-> a]
    PROVE  v \in DeliveryRecord /\ v.state = s /\ v.tried = t /\ v.attached = a
BY DEF DeliveryRecord

LEMMA RowState ==
    ASSUME NEW v \in DeliveryRecord, NEW b \in DeliveryStates
    PROVE  /\ [v EXCEPT !.state = b] \in DeliveryRecord
           /\ [v EXCEPT !.state = b].state = b
           /\ [v EXCEPT !.state = b].tried = v.tried
           /\ [v EXCEPT !.state = b].attached = v.attached
BY RowExcept DEF DeliveryRecord

LEMMA RowTried ==
    ASSUME NEW v \in DeliveryRecord, NEW b \in BOOLEAN
    PROVE  /\ [v EXCEPT !.tried = b] \in DeliveryRecord
           /\ [v EXCEPT !.tried = b].state = v.state
           /\ [v EXCEPT !.tried = b].tried = b
           /\ [v EXCEPT !.tried = b].attached = v.attached
BY RowExcept DEF DeliveryRecord

LEMMA RowAttached ==
    ASSUME NEW v \in DeliveryRecord, NEW b \in BOOLEAN
    PROVE  /\ [v EXCEPT !.attached = b] \in DeliveryRecord
           /\ [v EXCEPT !.attached = b].state = v.state
           /\ [v EXCEPT !.attached = b].tried = v.tried
           /\ [v EXCEPT !.attached = b].attached = b
BY RowExcept DEF DeliveryRecord

-----------------------------------------------------------------------------
(* The log *)

LEMMA LogFacts ==
    ASSUME LogInv
    PROVE  /\ Len(log) \in Nat /\ DOMAIN log = 1 .. Len(log) /\ Len(log) <= MaxEvents
           /\ \A e \in 1 .. Len(log) : log[e] \in Kinds
           /\ \A kinds : /\ IsFiniteSet({e \in DOMAIN log : log[e] \in kinds})
                         /\ Recorded(kinds) \in Nat
<1>1. /\ Len(log) \in Nat /\ DOMAIN log = 1 .. Len(log)
      /\ \A e \in 1 .. Len(log) : log[e] \in Kinds
  <2>1. log \in Seq(Kinds)
    BY DEF LogInv
  <2>. QED
    BY <2>1
<1>2. IsFiniteSet(1 .. Len(log))
  BY <1>1, FS_Interval
<1>3. ASSUME NEW kinds
      PROVE  /\ IsFiniteSet({e \in DOMAIN log : log[e] \in kinds})
             /\ Recorded(kinds) \in Nat
  <2>1. {e \in DOMAIN log : log[e] \in kinds} \in SUBSET (1 .. Len(log))
    BY <1>1
  <2>2. IsFiniteSet({e \in DOMAIN log : log[e] \in kinds})
    BY <1>2, <2>1, FS_Subset
  <2>. QED
    BY <2>2, FS_CardinalityType DEF Recorded
<1>4. Len(log) <= MaxEvents
  <2>1. /\ Recorded({"security"}) \in Nat /\ Recorded({"daemon_started"}) \in Nat
        /\ Recorded(Kinds \ Occurrences) \in Nat
    BY <1>3
  <2>. QED
    BY <1>1, <2>1, BoundsType DEF LogInv, MaxEvents
<1>. QED
  BY <1>1, <1>3, <1>4

\* The log keeps its events, and its cursor advances.
Grows ==
    /\ log' \in Seq(Kinds) /\ Len(log') \in Nat /\ Len(log) <= Len(log')
    /\ \A e \in 1 .. Len(log) : log'[e] = log[e]
    /\ cursor <= cursor' /\ cursor' \in 0 .. Len(log')

(* Appending an event within the bounds.                                     *)
LEMMA RecordLog ==
    ASSUME LogInv, NEW kind \in Kinds, Record(kind), cursor' = cursor
    PROVE  /\ Grows /\ Len(log') = Len(log) + 1 /\ log'[Len(log) + 1] = kind
           /\ Len(log') <= MaxEvents
           /\ gone' \subseteq 1 .. Len(log') /\ exists' \in BOOLEAN
              /\ observed' \in {"unknown", "failed", "recovered"} => LogInv'
<1>. DEFINE n == Len(log)
            C(kinds) == {e \in DOMAIN log : log[e] \in kinds}
<1>1. log \in Seq(Kinds) /\ n \in Nat /\ DOMAIN log = 1 .. n /\ cursor \in 0 .. n
  BY LogFacts DEF LogInv
<1>2. log' = Append(log, kind)
  BY DEF Record
<1>3. /\ log' \in Seq(Kinds) /\ Len(log') = n + 1 /\ DOMAIN log' = 1 .. n + 1
      /\ \A e \in 1 .. n : log'[e] = log[e]
      /\ log'[n + 1] = kind
  BY <1>1, <1>2
<1>4. ASSUME NEW kinds
      PROVE  Recorded(kinds)' = IF kind \in kinds THEN Recorded(kinds) + 1 ELSE Recorded(kinds)
  <2>1. IsFiniteSet(C(kinds)) /\ n + 1 \notin C(kinds)
    <3>1. IsFiniteSet(C(kinds))
      BY LogFacts
    <3>2. n + 1 \notin DOMAIN log
      BY <1>1
    <3>. QED
      BY <3>1, <3>2
  <2>2. CASE kind \in kinds
    <3>1. C(kinds)' = C(kinds) \cup {n + 1}
      BY <1>1, <1>3, <2>2
    <3>. QED
      BY <2>1, <2>2, <3>1, FS_AddElement DEF Recorded
  <2>3. CASE kind \notin kinds
    <3>1. C(kinds)' = C(kinds)
      BY <1>1, <1>3, <2>3
    <3>. QED
      BY <2>3, <3>1 DEF Recorded
  <2>. QED
    BY <2>2, <2>3
<1>5. /\ Recorded({"security"}) \in Nat /\ Recorded({"daemon_started"}) \in Nat
      /\ Recorded(Kinds \ Occurrences) \in Nat
  BY LogFacts
<1>6. kind \in {"security"} \/ kind \in {"daemon_started"} \/ kind \in Kinds \ Occurrences
  BY DEF Occurrences
<1>7. /\ n + 1 = Recorded({"security"})' + Recorded({"daemon_started"})'
                    + Recorded(Kinds \ Occurrences)'
      /\ Recorded({"security"})' <= MaxEdits
      /\ Recorded({"daemon_started"})' <= MaxRestarts
      /\ Recorded(Kinds \ Occurrences)' <= MaxReports
  <2>1. CASE kind = "security"
    <3>1. /\ Recorded({"security"})' = Recorded({"security"}) + 1
          /\ Recorded({"daemon_started"})' = Recorded({"daemon_started"})
          /\ Recorded(Kinds \ Occurrences)' = Recorded(Kinds \ Occurrences)
      BY <1>4, <2>1 DEF Occurrences
    <3>2. Recorded({"security"}) < MaxEdits
      BY <2>1 DEF Record
    <3>. QED
      BY <1>5, <3>1, <3>2, BoundsType DEF LogInv
  <2>2. CASE kind = "daemon_started"
    <3>1. /\ Recorded({"daemon_started"})' = Recorded({"daemon_started"}) + 1
          /\ Recorded({"security"})' = Recorded({"security"})
          /\ Recorded(Kinds \ Occurrences)' = Recorded(Kinds \ Occurrences)
      BY <1>4, <2>2 DEF Occurrences
    <3>2. Recorded({"daemon_started"}) < MaxRestarts
      BY <2>2 DEF Record
    <3>. QED
      BY <1>5, <3>1, <3>2, BoundsType DEF LogInv
  <2>3. CASE kind \notin {"security", "daemon_started"}
    <3>1. /\ Recorded(Kinds \ Occurrences)' = Recorded(Kinds \ Occurrences) + 1
          /\ Recorded({"security"})' = Recorded({"security"})
          /\ Recorded({"daemon_started"})' = Recorded({"daemon_started"})
      BY <1>4, <1>6, <2>3
    <3>2. Recorded(Kinds \ Occurrences) < MaxReports
      BY <2>3 DEF Record
    <3>. QED
      BY <1>5, <3>1, <3>2, BoundsType DEF LogInv
  <2>. QED
    BY <2>1, <2>2, <2>3
<1>8. /\ Recorded({"security"})' \in Nat /\ Recorded({"daemon_started"})' \in Nat
      /\ Recorded(Kinds \ Occurrences)' \in Nat
  BY <1>4, <1>5
<1>9. Len(log') <= MaxEvents
  BY <1>1, <1>3, <1>7, <1>8, BoundsType DEF MaxEvents
<1>10. Grows
  BY <1>1, <1>3 DEF Grows
<1>11. ASSUME gone' \subseteq 1 .. Len(log'), exists' \in BOOLEAN,
              observed' \in {"unknown", "failed", "recovered"}
       PROVE  LogInv'
  <2>1. cursor' \in 0 .. Len(log')
    BY <1>1, <1>3
  <2>2. Len(log') = Recorded({"security"})' + Recorded({"daemon_started"})'
                      + Recorded(Kinds \ Occurrences)'
    BY <1>3, <1>7
  <2>. QED
    BY <1>3, <1>7, <1>11, <2>1, <2>2 DEF LogInv
<1>. QED
  BY <1>3, <1>9, <1>10, <1>11

(* What was known of an event stays known.                                   *)
LEMMA GrowsHandled ==
    ASSUME LogInv, Grows
    PROVE  \A e \in 1 .. Len(log) : /\ log'[e] = log[e] /\ e \in 1 .. Len(log')
                                    /\ Handled(e) => Handled(e)'
<1>1. Len(log) \in Nat /\ cursor \in Nat
  BY LogFacts DEF LogInv
<1>. QED
  BY <1>1 DEF Grows, Handled

LEMMA GrowsKeys ==
    ASSUME LogInv, Grows
    PROVE  \A k : KeyInv(k) => KeyInv(k)'
<1>1. Len(log) \in Nat
  BY LogFacts
<1>. SUFFICES ASSUME NEW k, KeyInv(k) PROVE KeyInv(k)'
  OBVIOUS
<1>2. k \in DeliveryIds /\ k.event \in 1 .. Len(log) /\ k.event \in Nat
  BY <1>1, KeyFields DEF KeyInv
<1>3. log'[k.event] = log[k.event] /\ Handled(k.event)'
  BY <1>2, GrowsHandled DEF KeyInv
<1>. QED
  BY <1>1, <1>2, <1>3 DEF KeyInv, Grows

LEMMA GrowsCleared ==
    ASSUME LogInv, Grows
    PROVE  \A f \in DeliveryIds, c \in 1 .. Len(log) : Cleared(f, c)' <=> Cleared(f, c)
<1>1. Len(log) \in Nat
  BY LogFacts
<1>. SUFFICES ASSUME NEW f \in DeliveryIds, NEW c \in 1 .. Len(log)
     PROVE  Cleared(f, c)' <=> Cleared(f, c)
  OBVIOUS
<1>2. f.event \in Nat /\ f.event > 0
  BY KeyFields
<1>3. log'[c] = log[c] /\ \A e \in f.event + 1 .. c - 1 : log'[e] = log[e]
  BY <1>1, <1>2 DEF Grows
<1>. QED
  BY <1>3 DEF Cleared

(* An open condition stays open while nothing that is handled clears it.     *)
LEMMA OpenStays ==
    ASSUME LogInv, Grows, NEW c \in FailureCategories, OpenInv(c),
           conditions[c].event \in Nat,
           conditions'[c].event = conditions[c].event,
           conditions'[c].notified <=> conditions[c].notified,
           conditions'[c].window \in {0, conditions[c].window},
           \A x \in 1 .. Len(log') : Handled(x)' /\ log'[x] \in Clears[c] =>
               (x <= Len(log) /\ Handled(x)) \/ conditions[c].event = 0
    PROVE  OpenInv(c)'
<1>. SUFFICES ASSUME NEW e, e = conditions[c].event, e = conditions'[c].event
     PROVE  OpenInv(c)'
  OBVIOUS
<1>1. Len(log) \in Nat /\ Len(log') \in Nat /\ Len(log) <= Len(log') /\ e \in Nat
  BY LogFacts DEF Grows
<1>2. ASSUME e # 0
      PROVE  e <= Len(log') /\ Handled(e)' /\ log'[e] = AlertKind[c]
  <2>1. e \in 1 .. Len(log) /\ Handled(e) /\ log[e] = AlertKind[c]
    BY <1>1, <1>2 DEF OpenInv
  <2>. QED
    BY <1>1, <2>1, GrowsHandled
<1>3. ASSUME e # 0, NEW x \in e + 1 .. Len(log'), Handled(x)' PROVE log'[x] \notin Clears[c]
  <2>1. x \in 1 .. Len(log')
    BY <1>1, <1>3
  <2>2. CASE x <= Len(log)
    <3>1. x \in e + 1 .. Len(log) /\ x \in 1 .. Len(log)
      BY <1>1, <1>3, <2>1, <2>2
    <3>2. log'[x] = log[x]
      BY <3>1, GrowsHandled
    <3>. QED
      BY <1>3, <2>1, <3>1, <3>2 DEF OpenInv
  <2>3. CASE ~(x <= Len(log))
    BY <1>3, <2>1, <2>3
  <2>. QED
    BY <2>2, <2>3
<1>4. e = 0 => ~conditions'[c].notified
  BY DEF OpenInv
<1>5. ~conditions'[c].notified => conditions'[c].window < SustainedAfter
  BY BoundsType DEF OpenInv
<1>6. /\ e # 0 => /\ e <= Len(log') /\ Handled(e)' /\ log'[e] = AlertKind[c]
                  /\ \A x \in e + 1 .. Len(log') : Handled(x)' => log'[x] \notin Clears[c]
      /\ e = 0 => ~conditions'[c].notified
  BY <1>2, <1>3, <1>4
<1>. HIDE DEF Handled
<1>. QED
  BY <1>5, <1>6, Zenon DEF OpenInv

-----------------------------------------------------------------------------
(* Steps that queue nothing *)

\* Deliveries are settled, detached or removed.
Fades ==
    /\ DOMAIN deliveries' \subseteq DOMAIN deliveries
    /\ \A k \in DOMAIN deliveries' :
           /\ deliveries'[k] \in DeliveryRecord
           /\ deliveries'[k].state = "pending" => deliveries[k].state = "pending"
           /\ deliveries'[k].attached => deliveries[k].attached
           /\ k.category = "recovery" =>
                  /\ deliveries[k].tried => deliveries'[k].tried
                  /\ deliveries'[k].state = "failed" => deliveries'[k].tried
           /\ k.category \in FailureCategories /\ deliveries'[k].state = "delivered"
                /\ deliveries'[k].attached
              => \/ deliveries[k].state = "delivered"
                 \/ <<destination[k.name].receiver, k>> \in inbox
    /\ \A r, k \in DOMAIN deliveries' :
           r.name = k.name /\ deliveries'[r].attached /\ deliveries[k].attached
             => deliveries'[k].attached

\* Pairings stay as long as one of their ends waits.
PairsStay ==
    /\ sources' \subseteq sources
    /\ \A s \in sources' : s[1] \in DOMAIN deliveries' /\ s[2] \in DOMAIN deliveries'
    /\ \A s \in sources :
           /\ s[1] \in DOMAIN deliveries'
           /\ \/ deliveries'[s[1]].state = "pending"
              \/ s[2] \in DOMAIN deliveries' /\ deliveries'[s[2]].state = "pending"
           => s \in sources'

\* Whoever stays attached keeps its receiver, and what waits is wanted.
StaysWanted ==
    /\ DestinationsInv'
    /\ \A k \in DOMAIN deliveries' :
           /\ deliveries'[k].attached =>
                  destination'[k.name].receiver = destination[k.name].receiver
           /\ deliveries'[k].state = "pending" => Deliverable(k)'

IncidentsStay ==
    exists' => /\ exists
               /\ \A c \in FailureCategories :
                      /\ conditions'[c].event = conditions[c].event
                      /\ conditions'[c].notified <=> conditions[c].notified

Fading == Grows /\ Fades /\ PairsStay /\ StaysWanted /\ IncidentsStay /\ inbox' = inbox

(* The worker goes on, stops, or takes a delivery of the outbox.             *)
LEMMA FadingSeen ==
    ASSUME NInv, Fading,
           \/ worker' = worker \/ worker' = Idle \/ worker'.delivery \in DOMAIN deliveries
    PROVE  Seen' \subseteq Seen
<1>1. DOMAIN deliveries' \subseteq DOMAIN deliveries /\ inbox' = inbox
  BY DEF Fading, Fades
<1>2. Idle.result = "idle"
  BY DEF Idle
<1>. QED
  BY <1>1, <1>2 DEF Seen

LEMMA SeenKeys ==
    ASSUME NInv
    PROVE  /\ \A k \in Seen : /\ KeyInv(k) /\ k \in DeliveryIds /\ k.event \in 1 .. Len(log)
                              /\ k.event \in Nat /\ k.event > 0 /\ k.name \in Destinations
           /\ \A k \in DOMAIN deliveries : k \in Seen
           /\ \A m \in inbox : m[2] \in Seen
           /\ worker.result # "idle" => worker.delivery \in Seen
           /\ Len(log) \in Nat
<1>1. Len(log) \in Nat
  BY LogFacts DEF NInv
<1>2. ASSUME NEW k \in Seen
      PROVE  /\ KeyInv(k) /\ k \in DeliveryIds /\ k.event \in 1 .. Len(log)
             /\ k.event \in Nat /\ k.event > 0 /\ k.name \in Destinations
  <2>1. KeyInv(k) /\ k \in DeliveryIds /\ k.event <= Len(log)
    BY DEF NInv, KeysInv, KeyInv
  <2>. QED
    BY <1>1, <2>1, KeyFields
<1>3. /\ \A k \in DOMAIN deliveries : k \in Seen
      /\ \A m \in inbox : m[2] \in Seen
      /\ worker.result # "idle" => worker.delivery \in Seen
  BY DEF Seen
<1>. QED
  BY <1>1, <1>2, <1>3

(* Whether an event cleared what was alerted does not change.                *)
LEMMA SeenCleared ==
    ASSUME NInv, Grows
    PROVE  \A f, r \in Seen : Cleared(f, r.event)' <=> Cleared(f, r.event)
<1>1. LogInv
  BY DEF NInv
<1>. QED
  BY <1>1, SeenKeys, GrowsCleared

LEMMA IncidentsKept ==
    ASSUME NInv, Grows, IncidentsStay,
           \A k \in Seen' : k \in Seen \/ k.category \notin FailureCategories
    PROVE  IncidentsInv'
<1>. SUFFICES ASSUME exists' PROVE
        /\ \A f \in Seen' : f.category \in FailureCategories => IncidentInv(f)'
        /\ \A f, g \in Seen' :
               f.category \in FailureCategories /\ f.category = g.category /\ f.event < g.event
                 => ClearedBetween(f, g)'
  BY DEF IncidentsInv
<1>1. exists /\ LogInv /\ IncidentsInv
  BY DEF NInv, IncidentsStay
<1>2. Len(log) \in Nat
  BY LogFacts, <1>1
<1>3. ASSUME NEW f \in Seen', f.category \in FailureCategories PROVE IncidentInv(f)'
  <2>1. f \in Seen /\ IncidentInv(f) /\ f.event \in Nat
    BY <1>1, <1>3, SeenKeys DEF IncidentsInv
  <2>2. /\ conditions'[f.category].event = conditions[f.category].event
        /\ conditions'[f.category].notified <=> conditions[f.category].notified
    BY <1>3 DEF IncidentsStay
  <2>3. CASE f.event = conditions[f.category].event /\ conditions[f.category].notified
    BY <2>2, <2>3 DEF IncidentInv
  <2>4. ASSUME NEW x \in f.event + 1 .. Len(log), Handled(x), log[x] \in Clears[f.category],
               conditions[f.category].event # 0 => x < conditions[f.category].event
        PROVE  IncidentInv(f)'
    <3>1. x \in 1 .. Len(log)
      BY <1>2, <2>1
    <3>2. Handled(x)' /\ log'[x] = log[x]
      BY <1>1, <2>4, <3>1, GrowsHandled
    <3>3. x \in f.event + 1 .. Len(log')
      BY <1>2, <2>1, <2>4 DEF Grows
    <3>. QED
      BY <2>2, <2>4, <3>2, <3>3 DEF IncidentInv
  <2>. QED
    BY <2>1, <2>3, <2>4 DEF IncidentInv
<1>4. ASSUME NEW f \in Seen', NEW g \in Seen', f.category \in FailureCategories,
             f.category = g.category, f.event < g.event
      PROVE  ClearedBetween(f, g)'
  <2>1. f.event \in Nat /\ g.event \in 1 .. Len(log) /\ ClearedBetween(f, g)
    BY <1>1, <1>4, SeenKeys DEF IncidentsInv
  <2>2. \A x \in f.event + 1 .. g.event - 1 : log'[x] = log[x]
    BY <1>2, <2>1 DEF Grows
  <2>. QED
    BY <2>1, <2>2 DEF ClearedBetween
<1>. QED
  BY <1>3, <1>4

LEMMA FadingRows ==
    ASSUME NInv, Fading, LogInv'
    PROVE  OutboxInv' /\ SourcesInv' /\ InboxInv'
<1>1. /\ LogInv /\ OutboxInv /\ SourcesInv /\ InboxInv /\ Grows /\ Fades /\ PairsStay
      /\ StaysWanted /\ inbox' = inbox /\ (exists' => exists)
  BY DEF NInv, Fading, IncidentsStay
<1>2. \A k \in DOMAIN deliveries' : k \in DOMAIN deliveries /\ k \in Seen
  BY <1>1, SeenKeys DEF Fades
<1>3. ASSUME NEW k \in DOMAIN deliveries' PROVE RowInv(k)'
  <2>1. RowInv(k) /\ k \in DOMAIN deliveries
    BY <1>1, <1>2 DEF OutboxInv
  <2>2. deliveries'[k].state = "pending" => Deliverable(k)'
    BY <1>1 DEF StaysWanted
  <2>3. deliveries'[k].attached => destination'[k.name].receiver < k.event
    BY <1>1, <2>1 DEF StaysWanted, Fades, RowInv
  <2>4. ASSUME k.category = "recovery", deliveries'[k].state = "pending", ~deliveries'[k].tried
        PROVE  \E s \in sources' : s[1] = k
    <3>1. deliveries[k].state = "pending" /\ ~deliveries[k].tried
      BY <1>1, <2>4 DEF Fades
    <3>2. PICK s \in sources : s[1] = k
      BY <2>1, <2>4, <3>1 DEF RowInv
    <3>. QED
      BY <1>1, <2>4, <3>2 DEF PairsStay
  <2>5. ASSUME k.category \in FailureCategories, deliveries'[k].state = "delivered",
               deliveries'[k].attached
        PROVE  <<destination'[k.name].receiver, k>> \in inbox'
    <3>1. destination'[k.name].receiver = destination[k.name].receiver /\ deliveries[k].attached
      BY <1>1, <2>5 DEF StaysWanted, Fades
    <3>. QED
      BY <1>1, <2>1, <2>5, <3>1 DEF Fades, RowInv
  <2>6. /\ deliveries'[k] \in DeliveryRecord
        /\ k.category = "recovery" /\ deliveries'[k].state = "failed" => deliveries'[k].tried
    BY <1>1 DEF Fades
  <2>. QED
    BY <2>2, <2>3, <2>4, <2>5, <2>6 DEF RowInv
<1>4. ASSUME NEW s \in sources'
      PROVE  /\ s = <<s[1], s[2]>> /\ s[1] \in DOMAIN deliveries' /\ s[2] \in DOMAIN deliveries'
             /\ s[1].category = "recovery" /\ s[2].category \in FailureCategories
             /\ s[1].name = s[2].name /\ Cleared(s[2], s[1].event)'
             /\ deliveries'[s[1]].attached => deliveries'[s[2]].attached
  <2>1. s \in sources /\ s[1] \in DOMAIN deliveries' /\ s[2] \in DOMAIN deliveries'
    BY <1>1 DEF PairsStay
  <2>2. /\ s = <<s[1], s[2]>>
        /\ s[1].category = "recovery" /\ s[2].category \in FailureCategories
        /\ s[1].name = s[2].name /\ Cleared(s[2], s[1].event)
        /\ deliveries[s[1]].attached => deliveries[s[2]].attached
    BY <1>1, <2>1 DEF SourcesInv
  <2>3. s[1] \in Seen /\ s[2] \in Seen
    BY <1>2, <2>1
  <2>4. Cleared(s[2], s[1].event)'
    BY <1>1, <2>2, <2>3, SeenCleared
  <2>5. deliveries'[s[1]].attached => deliveries'[s[2]].attached
    BY <1>1, <2>1, <2>2 DEF Fades
  <2>. QED
    BY <2>1, <2>2, <2>4, <2>5
<1>5. ASSUME exists', NEW r \in DOMAIN deliveries', NEW k \in DOMAIN deliveries',
             r.category = "recovery", k.category \in FailureCategories,
             deliveries'[k].state = "pending", r.name = k.name, Cleared(k, r.event)'
      PROVE  <<r, k>> \in sources'
  <2>1. r \in DOMAIN deliveries /\ k \in DOMAIN deliveries /\ r \in Seen /\ k \in Seen
    BY <1>2
  <2>2. Cleared(k, r.event) /\ deliveries[k].state = "pending"
    BY <1>1, <1>5, <2>1, SeenCleared DEF Fades
  <2>3. <<r, k>> \in sources
    BY <1>1, <1>5, <2>1, <2>2 DEF SourcesInv
  <2>4. <<r, k>>[1] = r /\ <<r, k>>[2] = k
    OBVIOUS
  <2>. QED
    BY <1>1, <1>5, <2>3, <2>4 DEF PairsStay
<1>6. RecoveryFollowsFailure'
  <2>. SUFFICES ASSUME NEW m \in inbox, m[2].category = "recovery"
       PROVE  \E f \in inbox : /\ f[1] = m[1] /\ f[2].name = m[2].name
                               /\ f[2].category \in FailureCategories
                               /\ Cleared(f[2], m[2].event)'
    BY <1>1 DEF RecoveryFollowsFailure
  <2>1. PICK f \in inbox : /\ f[1] = m[1] /\ f[2].name = m[2].name
                           /\ f[2].category \in FailureCategories
                           /\ Cleared(f[2], m[2].event)
    BY <1>1 DEF InboxInv, RecoveryFollowsFailure
  <2>. QED
    BY <1>1, <2>1, SeenKeys, SeenCleared
<1>7. ASSUME exists', NEW m \in inbox, NEW q \in DOMAIN deliveries',
             m[2].category = "recovery", q.category \in FailureCategories,
             deliveries'[q].state = "pending",
             m[1] = destination'[q.name].receiver, m[2].name = q.name
      PROVE  ~Cleared(q, m[2].event)'
  <2>1. q \in DOMAIN deliveries /\ q \in Seen /\ m[2] \in Seen
    BY <1>2, SeenKeys
  <2>2. deliveries[q].state = "pending" /\ deliveries'[q].attached
    BY <1>1, <1>7 DEF Fades, StaysWanted, Deliverable
  <2>3. destination'[q.name].receiver = destination[q.name].receiver
    BY <1>1, <2>2 DEF StaysWanted
  <2>4. ~Cleared(q, m[2].event)
    BY <1>1, <1>7, <2>1, <2>2, <2>3 DEF InboxInv
  <2>. QED
    BY <1>1, <2>1, <2>4, SeenCleared
<1>8. OutboxInv'
  BY <1>3 DEF OutboxInv
<1>9. SourcesInv'
  BY <1>4, <1>5, Zenon DEF SourcesInv
<1>10. InboxInv'
  BY <1>1, <1>6, <1>7, Zenon DEF InboxInv
<1>. QED
  BY <1>8, <1>9, <1>10

LEMMA FadingWorker ==
    ASSUME NInv, Fading, worker' = worker \/ worker' = Idle
    PROVE  WorkerInv'
<1>1. /\ WorkerInv /\ Grows /\ Fades /\ StaysWanted /\ inbox' = inbox /\ (exists' => exists)
  BY DEF NInv, Fading, IncidentsStay
<1>2. CASE worker' = Idle
  <2>1. Idle \in WorkerRecord /\ Idle.result = "idle"
    BY DEF Idle, WorkerRecord
  <2>. QED
    BY <1>2, <2>1 DEF WorkerInv
<1>3. CASE worker' = worker
  <2>1. worker \in WorkerRecord /\ (worker.result = "idle" <=> worker = Idle)
    BY <1>1 DEF WorkerInv
  <2>2. ASSUME worker.result # "idle", NEW k, k = worker.delivery PROVE WorkingInv(k)'
    <3>1. WorkingInv(k) /\ k \in Seen
      BY <1>1, <2>2, SeenKeys DEF WorkerInv
    <3>2. ASSUME k \in DOMAIN deliveries' PROVE k \in DOMAIN deliveries
      BY <1>1, <3>2 DEF Fades
    <3>3. k \in DOMAIN deliveries' /\ deliveries'[k].attached =>
              worker'.receiver = destination'[k.name].receiver
      BY <1>1, <1>3, <3>1, <3>2 DEF WorkingInv, Fades, StaysWanted
    <3>4. k \in DOMAIN deliveries' /\ k.category = "recovery" => deliveries'[k].tried
      BY <1>1, <3>1, <3>2 DEF WorkingInv, Fades
    <3>5. ASSUME worker.result = "claimed" PROVE ClaimInv(k)'
      <4>1. ClaimInv(k)
        BY <3>1, <3>5 DEF WorkingInv
      <4>2. ASSUME k.category = "recovery"
            PROVE  \E m \in inbox : /\ m[1] = worker.receiver /\ m[2].name = k.name
                                    /\ m[2].category \in FailureCategories
                                    /\ Cleared(m[2], k.event)'
        <5>1. PICK m \in inbox : /\ m[1] = worker.receiver /\ m[2].name = k.name
                                 /\ m[2].category \in FailureCategories
                                 /\ Cleared(m[2], k.event)
          BY <4>1, <4>2 DEF ClaimInv
        <5>. QED
          BY <1>1, <3>1, <5>1, SeenKeys, SeenCleared
      <4>3. ASSUME k.category = "recovery", exists', NEW q \in DOMAIN deliveries',
                   deliveries'[q].state = "pending", q.category \in FailureCategories,
                   q.name = k.name
            PROVE  ~Cleared(q, k.event)'
        <5>1. q \in DOMAIN deliveries /\ deliveries[q].state = "pending" /\ q \in Seen
          BY <1>1, <4>3, SeenKeys DEF Fades
        <5>. QED
          BY <1>1, <3>1, <4>1, <4>3, <5>1, SeenCleared DEF ClaimInv
      <4>4. ASSUME k.category \in FailureCategories, exists', NEW m \in inbox,
                   m[1] = worker.receiver, m[2].name = k.name, m[2].category = "recovery"
            PROVE  ~Cleared(k, m[2].event)'
        BY <1>1, <3>1, <4>1, <4>4, SeenKeys, SeenCleared DEF ClaimInv
      <4>. QED
        BY <1>1, <1>3, <4>2, <4>3, <4>4, Zenon DEF ClaimInv
    <3>. QED
      BY <1>1, <1>3, <3>1, <3>3, <3>4, <3>5, Zenon DEF WorkingInv
  <2>. QED
    BY <1>3, <2>1, <2>2, Zenon DEF WorkerInv
<1>. QED
  BY <1>2, <1>3

LEMMA FadingInv ==
    ASSUME NInv, Fading, LogInv', ConditionsInv',
           \/ worker' = worker \/ worker' = Idle
           \/ worker'.delivery \in DOMAIN deliveries /\ WorkerInv'
    PROVE  NInv'
<1>1. Seen' \subseteq Seen
  BY FadingSeen
<1>2. IncidentsInv'
  BY <1>1, IncidentsKept DEF Fading
<1>3. KeysInv'
  BY <1>1, GrowsKeys DEF NInv, KeysInv, Fading
<1>4. WorkerInv'
  BY FadingWorker
<1>5. DestinationsInv'
  BY DEF Fading, StaysWanted
<1>. QED
  BY <1>2, <1>3, <1>4, <1>5, FadingRows DEF NInv

-----------------------------------------------------------------------------
(* Events, retention and requests *)

LEMMA QuietEvents ==
    ASSUME NInv, UNCHANGED <<events, incidents>>
    PROVE  LogInv' /\ ConditionsInv' /\ Grows /\ IncidentsStay
<1>1. /\ log' = log /\ gone' = gone /\ cursor' = cursor
      /\ conditions' = conditions /\ observed' = observed /\ exists' = exists
  BY DEF events, incidents
<1>2. LogInv'
  BY <1>1 DEF NInv, LogInv, Recorded
<1>3. ConditionsInv'
  BY <1>1 DEF NInv, ConditionsInv, OpenInv, Handled
<1>4. Grows
  <2>1. log \in Seq(Kinds) /\ Len(log) \in Nat /\ cursor \in 0 .. Len(log)
    BY LogFacts DEF NInv, LogInv
  <2>. QED
    BY <1>1, <2>1 DEF Grows
<1>. QED
  BY <1>1, <1>2, <1>3, <1>4 DEF IncidentsStay

(* An event that is yet to be read changes no condition.                     *)
LEMMA RecordEvents ==
    ASSUME NInv, NEW kind \in Kinds \ {"failed", "recovered"}, Record(kind),
           kind \in EnvironmentKinds => exists,
           UNCHANGED <<gone, cursor, observed, exists>>,
           conditions' \in [FailureCategories -> ConditionRecord],
           \A c \in FailureCategories :
               /\ conditions'[c].event = conditions[c].event
               /\ conditions'[c].notified <=> conditions[c].notified
               /\ conditions'[c].window \in {0, conditions[c].window}
    PROVE  LogInv' /\ ConditionsInv' /\ Grows /\ IncidentsStay
<1>1. LogInv /\ ConditionsInv
  BY DEF NInv
<1>2. /\ Grows /\ Len(log') = Len(log) + 1 /\ log'[Len(log) + 1] = kind
      /\ Len(log) \in Nat /\ cursor \in 0 .. Len(log)
  BY <1>1, RecordLog, LogFacts DEF LogInv
<1>3. LogInv'
  <2>1. gone' \subseteq 1 .. Len(log') /\ exists' \in BOOLEAN
          /\ observed' \in {"unknown", "failed", "recovered"}
    <3>1. gone \subseteq 1 .. Len(log) /\ exists \in BOOLEAN
            /\ observed \in {"unknown", "failed", "recovered"}
      BY <1>1 DEF LogInv
    <3>. QED
      BY <1>2, <3>1
  <2>. QED
    BY <1>1, <2>1, RecordLog
<1>4. \A x \in 1 .. Len(log') : Handled(x)' => x <= Len(log) /\ Handled(x)
  <2>. SUFFICES ASSUME NEW x \in 1 .. Len(log'), Handled(x)' PROVE x <= Len(log) /\ Handled(x)
    OBVIOUS
  <2>1. x <= cursor \/ log'[x] \in {"failed", "recovered"}
    BY DEF Handled
  <2>2. x # Len(log) + 1
    BY <1>2, <2>1
  <2>3. x \in 1 .. Len(log) /\ log'[x] = log[x]
    BY <1>2, <2>2 DEF Grows
  <2>. QED
    BY <2>1, <2>3 DEF Handled
<1>5. ASSUME NEW c \in FailureCategories PROVE OpenInv(c)'
  <2>1. OpenInv(c) /\ conditions[c].event \in Nat
    BY <1>1, BoundsType DEF ConditionsInv, ConditionRecord
  <2>. QED
    BY <1>1, <1>2, <1>4, <2>1, OpenStays
<1>6. conditions'["service_degradation"].event = conditions["service_degradation"].event
  BY KindFacts
<1>7. ASSUME gone # {}
      PROVE  /\ ~exists
             /\ \A e \in 1 .. Len(log') : log'[e] \in EnvironmentKinds => e \in gone
             /\ \A c \in EnvironmentFailures : conditions'[c].event = 0
  <2>1. /\ ~exists /\ \A e \in 1 .. Len(log) : log[e] \in EnvironmentKinds => e \in gone
        /\ \A c \in EnvironmentFailures : conditions[c].event = 0
    BY <1>1, <1>7 DEF ConditionsInv
  <2>2. \A e \in 1 .. Len(log') : \/ e \in 1 .. Len(log) /\ log'[e] = log[e]
                                \/ e = Len(log) + 1
    BY <1>2 DEF Grows
  <2>3. EnvironmentFailures \subseteq FailureCategories
    BY DEF FailureCategories
  <2>. QED
    BY <1>2, <2>1, <2>2, <2>3
<1>8. ConditionsInv'
  BY <1>1, <1>5, <1>6, <1>7 DEF ConditionsInv
<1>. QED
  BY <1>2, <1>3, <1>8 DEF IncidentsStay

LEMMA ConditionsType ==
    ASSUME NInv
    PROVE  /\ conditions \in [FailureCategories -> ConditionRecord]
           /\ \A c \in FailureCategories : /\ conditions[c] \in ConditionRecord
                                           /\ conditions[c].event \in 0 .. MaxEvents
                                           /\ conditions[c].event \in Nat
                                           /\ conditions[c].notified \in BOOLEAN
                                           /\ conditions[c].window \in 0 .. SustainedAfter
                                           /\ OpenInv(c)
BY BoundsType DEF NInv, ConditionsInv, ConditionRecord

(* Rows that stay as they are.                                               *)
LEMMA RowsKept ==
    ASSUME NInv, Grows, DOMAIN deliveries' \subseteq DOMAIN deliveries,
           \A k \in DOMAIN deliveries' : deliveries'[k] = deliveries[k],
           destination' = destination
    PROVE  Fades /\ StaysWanted
<1>1. \A k \in DOMAIN deliveries : RowInv(k)
  BY DEF NInv, OutboxInv
<1>2. Fades
  BY <1>1 DEF Fades, RowInv
<1>3. DestinationsInv'
  <2>1. DestinationsInv /\ Len(log) \in Nat
    BY LogFacts DEF NInv
  <2>. QED
    BY <2>1 DEF DestinationsInv, DestinationInv, Grows
<1>4. \A k \in DOMAIN deliveries' : deliveries'[k].state = "pending" => Deliverable(k)'
  BY <1>1 DEF RowInv, Deliverable, Receives
<1>. QED
  BY <1>2, <1>3, <1>4 DEF StaysWanted

LEMMA PairsKept ==
    ASSUME NInv, DOMAIN deliveries' = DOMAIN deliveries, sources' = sources
    PROVE  PairsStay
BY DEF NInv, SourcesInv, PairsStay

LEMMA OutboxKept ==
    ASSUME NInv, Grows, UNCHANGED <<outbox, destination>>
    PROVE  Fades /\ PairsStay /\ StaysWanted
BY RowsKept, PairsKept DEF outbox

LEMMA ReportInv ==
    ASSUME NInv, NEW kind \in Reported, Report(kind)
    PROVE  NInv'
<1>1. kind \in Kinds \ {"failed", "recovered"}
  BY NotificationsAssumption DEF Kinds, EnvironmentKinds
<1>2. /\ Record(kind) /\ (kind \in EnvironmentKinds => exists)
      /\ UNCHANGED <<gone, cursor, observed, exists>> /\ conditions' = conditions
      /\ UNCHANGED <<outbox, destination>> /\ worker' = worker /\ inbox' = inbox
  BY DEF Report, incidents
<1>3. LogInv' /\ ConditionsInv' /\ Grows /\ IncidentsStay
  BY <1>1, <1>2, ConditionsType, RecordEvents
<1>. QED
  BY <1>2, <1>3, OutboxKept, FadingInv DEF Fading

LEMMA RestartInv ==
    ASSUME NInv, Restart
    PROVE  NInv'
<1>1. "daemon_started" \in Kinds \ {"failed", "recovered"} /\ "daemon_started" \notin EnvironmentKinds
  BY DEF Kinds, EnvironmentKinds, Occurrences
<1>2. /\ Record("daemon_started")
      /\ UNCHANGED <<gone, cursor, observed, exists>>
      /\ UNCHANGED <<outbox, destination>> /\ worker' = Idle /\ inbox' = inbox
      /\ conditions' = [c \in FailureCategories |->
                         IF conditions[c].notified THEN conditions[c]
                         ELSE [conditions[c] EXCEPT !.window = 0]]
  BY DEF Restart
<1>3. ASSUME NEW c \in FailureCategories
      PROVE  /\ conditions'[c] \in ConditionRecord
             /\ conditions'[c].event = conditions[c].event
             /\ conditions'[c].notified <=> conditions[c].notified
             /\ conditions'[c].window \in {0, conditions[c].window}
  <2>1. conditions[c] \in ConditionRecord
    BY ConditionsType
  <2>2. conditions'[c] \in {conditions[c], [conditions[c] EXCEPT !.window = 0]}
    BY <1>2
  <2>. QED
    BY <2>1, <2>2, BoundsType DEF ConditionRecord
<1>4. conditions' \in [FailureCategories -> ConditionRecord]
  BY <1>2, <1>3
<1>5. LogInv' /\ ConditionsInv' /\ Grows /\ IncidentsStay
  BY <1>1, <1>2, <1>3, <1>4, RecordEvents
<1>. QED
  BY <1>2, <1>5, OutboxKept, FadingInv DEF Fading

LEMMA ForgetFacts ==
    ASSUME NInv, Grows, NEW removed, Forget(removed), destination' = destination
    PROVE  /\ Fades /\ StaysWanted
           /\ DOMAIN deliveries' = {k \in DOMAIN deliveries : k.event \notin removed}
           /\ \A k \in DOMAIN deliveries' : deliveries'[k] = deliveries[k]
           /\ sources' = {s \in sources : s[1].event \notin removed /\ s[2].event \notin removed}
           /\ \A s \in sources' : s[1] \in DOMAIN deliveries' /\ s[2] \in DOMAIN deliveries'
<1>1. /\ DOMAIN deliveries' = {k \in DOMAIN deliveries : k.event \notin removed}
      /\ \A k \in DOMAIN deliveries' : deliveries'[k] = deliveries[k]
      /\ sources' = {s \in sources : s[1].event \notin removed /\ s[2].event \notin removed}
  BY DEF Forget
<1>2. \A s \in sources' : s[1] \in DOMAIN deliveries' /\ s[2] \in DOMAIN deliveries'
  BY <1>1 DEF NInv, SourcesInv
<1>3. Fades /\ StaysWanted
  BY <1>1, RowsKept
<1>. QED
  BY <1>1, <1>2, <1>3

LEMMA NoConditionType ==
    /\ NoCondition \in ConditionRecord /\ NoCondition.event = 0
    /\ ~NoCondition.notified /\ NoCondition.window < SustainedAfter
BY BoundsType DEF NoCondition, ConditionRecord

LEMMA DeleteEnvironmentInv ==
    ASSUME NInv, NEW last \in BOOLEAN, DeleteEnvironment(last)
    PROVE  NInv'
<1>. DEFINE history == {e \in DOMAIN log' : log'[e] \in EnvironmentKinds}
<1>1. /\ exists /\ exists' = FALSE /\ Record("operation_deleted")
      /\ conditions' = [c \in FailureCategories |->
             IF c \in EnvironmentFailures THEN NoCondition ELSE conditions[c]]
      /\ observed' = "unknown" /\ cursor' = cursor /\ destination' = destination
      /\ worker' = worker /\ inbox' = inbox
      /\ \/ gone' = history /\ Forget(history)
         \/ gone' = gone /\ deliveries' = deliveries /\ sources' = sources
  BY DEF DeleteEnvironment, outbox
<1>2. LogInv /\ ConditionsInv /\ "operation_deleted" \in Kinds
  BY DEF NInv, Kinds, EnvironmentKinds
<1>3. /\ Grows /\ Len(log') = Len(log) + 1 /\ Len(log) \in Nat /\ log \in Seq(Kinds)
      /\ log' \in Seq(Kinds) /\ DOMAIN log' = 1 .. Len(log') /\ gone \subseteq 1 .. Len(log)
  <2>1. Grows /\ Len(log') = Len(log) + 1
    BY <1>1, <1>2, RecordLog
  <2>2. Len(log) \in Nat /\ log \in Seq(Kinds) /\ gone \subseteq 1 .. Len(log)
    BY <1>2, LogFacts DEF LogInv
  <2>3. log' \in Seq(Kinds)
    BY <2>1 DEF Grows
  <2>. QED
    BY <2>1, <2>2, <2>3
<1>4. LogInv'
  <2>1. history \subseteq 1 .. Len(log') /\ gone \subseteq 1 .. Len(log')
    BY <1>3
  <2>2. gone' \subseteq 1 .. Len(log')
    BY <1>1, <2>1
  <2>. QED
    BY <1>1, <1>2, <2>2, RecordLog
<1>5. gone = {}
  BY <1>1, <1>2 DEF ConditionsInv
<1>6. ConditionsInv'
  <2>1. conditions' \in [FailureCategories -> ConditionRecord]
    BY <1>1, ConditionsType, NoConditionType
  <2>2. ASSUME NEW c \in FailureCategories PROVE OpenInv(c)'
    <3>1. CASE c \in EnvironmentFailures
      <4>1. conditions'[c] = NoCondition
        BY <1>1, <3>1
      <4>. QED
        BY <4>1, NoConditionType DEF OpenInv
    <3>2. CASE c = "daemon_failures"
      <4>1. conditions'[c] = conditions[c] /\ Clears[c] = {}
        BY <1>1, <3>2, KindFacts DEF EnvironmentFailures
      <4>. QED
        BY <1>2, <1>3, <4>1, ConditionsType, OpenStays
    <3>. QED
      BY <3>1, <3>2 DEF FailureCategories
  <2>3. \A c \in EnvironmentFailures : conditions'[c].event = 0
    BY <1>1, NoConditionType DEF FailureCategories
  <2>4. conditions'["service_degradation"].event = 0
    BY <2>3 DEF EnvironmentFailures
  <2>5. gone' # {} => \A e \in 1 .. Len(log') : log'[e] \in EnvironmentKinds => e \in gone'
    BY <1>1, <1>3, <1>5
  <2>. QED
    BY <1>1, <2>1, <2>2, <2>3, <2>4, <2>5 DEF ConditionsInv
<1>7. IncidentsStay
  BY <1>1 DEF IncidentsStay
<1>8. Fades /\ PairsStay /\ StaysWanted
  <2>1. CASE gone' = history /\ Forget(history)
    <3>1. /\ Fades /\ StaysWanted
          /\ DOMAIN deliveries' = {k \in DOMAIN deliveries : k.event \notin history}
          /\ sources' = {s \in sources : s[1].event \notin history /\ s[2].event \notin history}
          /\ \A s \in sources' : s[1] \in DOMAIN deliveries' /\ s[2] \in DOMAIN deliveries'
      <4>. HIDE DEF history
      <4>. QED
        BY <1>1, <1>3, <2>1, ForgetFacts
    <3>2. \A s \in sources : s[1] \notin DOMAIN deliveries'
      <4>. SUFFICES ASSUME NEW s \in sources PROVE s[1].event \in history
        BY <3>1
      <4>1. s[1] \in DOMAIN deliveries /\ s[1].category = "recovery"
        BY DEF NInv, SourcesInv
      <4>2. s[1].event \in 1 .. Len(log) /\ log[s[1].event] \in ClearingKinds
        BY <4>1, SeenKeys DEF KeyInv
      <4>3. log'[s[1].event] \in EnvironmentKinds /\ s[1].event \in DOMAIN log'
        BY <1>3, <4>2, KindFacts DEF Grows
      <4>. QED
        BY <4>3
    <3>. QED
      BY <3>1, <3>2 DEF PairsStay
  <2>2. CASE deliveries' = deliveries /\ sources' = sources
    BY <1>1, <1>3, <2>2, OutboxKept DEF outbox
  <2>. QED
    BY <1>1, <2>1, <2>2
<1>. QED
  BY <1>1, <1>3, <1>4, <1>6, <1>7, <1>8, FadingInv DEF Fading

LEMMA PruneInv ==
    ASSUME NInv, NEW last \in 1 .. cursor, Prune(last)
    PROVE  NInv'
<1>. DEFINE removed == {e \in 1 .. last : ~Needed(e)}
<1>1. /\ Forget(removed) /\ destination' = destination
      /\ conditions' = [c \in FailureCategories |->
               IF conditions[c].event \in removed THEN NoCondition ELSE conditions[c]]
      /\ log' = log /\ gone' = gone /\ cursor' = cursor
      /\ observed' = observed /\ exists' = exists /\ worker' = worker /\ inbox' = inbox
  BY DEF Prune, events
<1>2. conditions' = conditions
  <2>1. \A c \in FailureCategories : conditions[c].event \notin removed
    BY DEF Needed
  <2>. QED
    BY <1>1, <2>1, ConditionsType
<1>3. LogInv' /\ ConditionsInv' /\ Grows /\ IncidentsStay
  BY <1>1, <1>2, QuietEvents DEF events, incidents
<1>4. /\ Fades /\ StaysWanted
      /\ DOMAIN deliveries' = {k \in DOMAIN deliveries : k.event \notin removed}
      /\ \A k \in DOMAIN deliveries' : deliveries'[k] = deliveries[k]
      /\ sources' = {s \in sources : s[1].event \notin removed /\ s[2].event \notin removed}
      /\ \A s \in sources' : s[1] \in DOMAIN deliveries' /\ s[2] \in DOMAIN deliveries'
  <2>. HIDE DEF removed
  <2>. QED
    BY <1>1, <1>3, ForgetFacts
<1>5. ASSUME NEW s \in sources, s[1] \in DOMAIN deliveries',
             \/ deliveries'[s[1]].state = "pending"
             \/ s[2] \in DOMAIN deliveries' /\ deliveries'[s[2]].state = "pending"
      PROVE  s \in sources'
  <2>1. s[1].event \notin removed
    BY <1>4, <1>5
  <2>2. s[2].event \notin removed
    BY <1>4, <1>5 DEF Needed, InState
  <2>. QED
    BY <1>4, <2>1, <2>2
<1>6. PairsStay
  BY <1>4, <1>5 DEF PairsStay
<1>. QED
  BY <1>1, <1>3, <1>4, <1>6, FadingInv DEF Fading

(* Requests cancel what is no longer wanted, and detach what a replaced or   *)
(* deleted destination was sent.                                             *)
LEMMA CancelFacts ==
    ASSUME NInv, NEW d, NEW cancelled, NEW detach \in BOOLEAN,
           CancelDeliveries(d, cancelled, detach)
    PROVE  /\ DOMAIN deliveries' = DOMAIN deliveries
           /\ \A k \in DOMAIN deliveries :
                  /\ deliveries'[k] \in DeliveryRecord
                  /\ deliveries'[k].tried <=> deliveries[k].tried
                  /\ deliveries'[k].state \in {deliveries[k].state, "cancelled"}
                  /\ k.name # d => deliveries'[k] = deliveries[k]
                  /\ k.name = d =>
                         /\ deliveries'[k].attached <=> deliveries[k].attached /\ ~detach
                         /\ deliveries'[k].state = "pending" => k \notin cancelled
<1>1. /\ DOMAIN deliveries' = DOMAIN deliveries
      /\ \A k \in DOMAIN deliveries : deliveries'[k] =
            IF k.name = d /\ deliveries[k].attached
            THEN [deliveries[k] EXCEPT
                     !.state = IF @ = "pending" /\ k \in cancelled THEN "cancelled" ELSE @,
                     !.attached = ~detach]
            ELSE deliveries[k]
  BY DEF CancelDeliveries
<1>. SUFFICES ASSUME NEW k \in DOMAIN deliveries
     PROVE  /\ deliveries'[k] \in DeliveryRecord
            /\ deliveries'[k].tried <=> deliveries[k].tried
            /\ deliveries'[k].state \in {deliveries[k].state, "cancelled"}
            /\ k.name # d => deliveries'[k] = deliveries[k]
            /\ k.name = d =>
                   /\ deliveries'[k].attached <=> deliveries[k].attached /\ ~detach
                   /\ deliveries'[k].state = "pending" => k \notin cancelled
  BY <1>1
<1>2. RowInv(k) /\ deliveries[k] \in DeliveryRecord
  BY DEF NInv, OutboxInv, RowInv
<1>3. CASE k.name = d /\ deliveries[k].attached
  <2>. DEFINE b == IF deliveries[k].state = "pending" /\ k \in cancelled THEN "cancelled"
                   ELSE deliveries[k].state
  <2>1. deliveries'[k] = [state |-> b, tried |-> deliveries[k].tried, attached |-> ~detach]
    BY <1>1, <1>2, <1>3 DEF DeliveryRecord
  <2>2. b \in DeliveryStates /\ b \in {deliveries[k].state, "cancelled"}
          /\ (b = "pending" => k \notin cancelled)
    BY <1>2 DEF DeliveryRecord, DeliveryStates
  <2>3. deliveries[k].tried \in BOOLEAN
    BY <1>2 DEF DeliveryRecord
  <2>. DEFINE a == ~detach
  <2>4. a \in BOOLEAN /\ (a <=> ~detach)
    OBVIOUS
  <2>. HIDE DEF b
  <2>5. deliveries'[k] = [state |-> b, tried |-> deliveries[k].tried, attached |-> a]
    BY <2>1
  <2>. HIDE DEF a
  <2>6. /\ deliveries'[k] \in DeliveryRecord /\ deliveries'[k].state = b
        /\ deliveries'[k].tried = deliveries[k].tried /\ deliveries'[k].attached = a
    BY <2>2, <2>3, <2>4, <2>5, RowMade
  <2>. QED
    BY <1>3, <2>2, <2>4, <2>6
<1>4. CASE ~(k.name = d /\ deliveries[k].attached)
  <2>1. deliveries'[k] = deliveries[k]
    BY <1>1, <1>4
  <2>2. k.name = d => ~deliveries[k].attached /\ deliveries[k].state # "pending"
    BY <1>2, <1>4 DEF RowInv, Deliverable
  <2>. QED
    BY <1>2, <2>1, <2>2
<1>. QED
  BY <1>3, <1>4

LEMMA CancelFades ==
    ASSUME NInv, NEW d, NEW cancelled, NEW detach \in BOOLEAN,
           CancelDeliveries(d, cancelled, detach), sources' = sources
    PROVE  Fades /\ PairsStay
<1>1. \A k \in DOMAIN deliveries : RowInv(k)
  BY DEF NInv, OutboxInv
<1>2. DOMAIN deliveries' = DOMAIN deliveries
  BY CancelFacts
<1>3. ASSUME NEW k \in DOMAIN deliveries
      PROVE  /\ deliveries'[k] \in DeliveryRecord
             /\ deliveries'[k].state = "pending" => deliveries[k].state = "pending"
             /\ deliveries'[k].attached => deliveries[k].attached
             /\ k.category = "recovery" =>
                    /\ deliveries[k].tried => deliveries'[k].tried
                    /\ deliveries'[k].state = "failed" => deliveries'[k].tried
             /\ deliveries'[k].state = "delivered" => deliveries[k].state = "delivered"
  BY <1>1, CancelFacts DEF RowInv
<1>4. \A r, k \in DOMAIN deliveries :
           r.name = k.name /\ deliveries'[r].attached /\ deliveries[k].attached
             => deliveries'[k].attached
  BY CancelFacts
<1>. QED
  BY <1>2, <1>3, <1>4, PairsKept DEF Fades

LEMMA SecurityRecorded ==
    ASSUME NInv, Record("security"), UNCHANGED <<gone, cursor, incidents>>
    PROVE  /\ LogInv' /\ ConditionsInv' /\ Grows /\ IncidentsStay
           /\ Len(log') = Len(log) + 1 /\ Len(log) \in Nat
<1>1. "security" \in Kinds \ {"failed", "recovered"} /\ "security" \notin EnvironmentKinds
  BY DEF Kinds, EnvironmentKinds, Occurrences
<1>2. UNCHANGED <<gone, cursor, observed, exists>> /\ conditions' = conditions
  BY DEF incidents
<1>3. LogInv' /\ ConditionsInv' /\ Grows /\ IncidentsStay
  BY <1>1, <1>2, ConditionsType, RecordEvents
<1>. QED
  BY <1>1, <1>2, <1>3, RecordLog, LogFacts DEF NInv

LEMMA DeleteDestinationInv ==
    ASSUME NInv, NEW d \in Destinations, DeleteDestination(d)
    PROVE  NInv'
<1>1. /\ Record("security") /\ UNCHANGED <<gone, cursor, incidents>>
      /\ destination' = [destination EXCEPT ![d] = NoDestination]
      /\ sources' = sources /\ worker' = worker /\ inbox' = inbox
  BY DEF DeleteDestination
<1>2. CancelDeliveries(d, DOMAIN deliveries, TRUE)
  BY DEF DeleteDestination
<1>3. PICK detach \in BOOLEAN, cancelled \in {DOMAIN deliveries} :
            detach /\ CancelDeliveries(d, cancelled, detach)
  BY <1>2, Zenon
<1>4. CancelDeliveries(d, cancelled, detach)
  BY <1>3
<1>5. /\ LogInv' /\ ConditionsInv' /\ Grows /\ IncidentsStay
      /\ Len(log') = Len(log) + 1 /\ Len(log) \in Nat
  BY <1>1, SecurityRecorded
<1>6. Fades /\ PairsStay
  BY <1>1, <1>4, CancelFades
<1>7. DestinationsInv'
  <2>1. DestinationsInv
    BY DEF NInv
  <2>2. \A c \in Destinations : destination'[c] = IF c = d THEN NoDestination ELSE destination[c]
    BY <1>1, <2>1 DEF DestinationsInv
  <2>3. /\ NoDestination.receiver = 0 /\ DOMAIN NoDestination.after = {}
    BY DEF NoDestination
  <2>4. DOMAIN destination' = Destinations
    BY <1>1, <2>1 DEF DestinationsInv
  <2>5. ASSUME NEW c \in Destinations PROVE DestinationInv(c)'
    <3>1. CASE c = d
      BY <1>5, <2>2, <2>3, <3>1 DEF DestinationInv
    <3>2. CASE c # d
      <4>1. destination'[c] = destination[c] /\ DestinationInv(c)
        BY <2>1, <2>2, <3>2 DEF DestinationsInv
      <4>. QED
        BY <1>5, <4>1 DEF DestinationInv
    <3>. QED
      BY <3>1, <3>2
  <2>. QED
    BY <2>4, <2>5 DEF DestinationsInv
<1>8. ASSUME NEW k \in DOMAIN deliveries'
      PROVE  /\ deliveries'[k].attached =>
                    destination'[k.name].receiver = destination[k.name].receiver
             /\ deliveries'[k].state = "pending" => Deliverable(k)'
  <2>1. k \in DOMAIN deliveries /\ RowInv(k) /\ k.name \in Destinations
    BY <1>1, <1>4, CancelFacts, SeenKeys DEF NInv, OutboxInv
  <2>2. CASE k.name = d
    <3>1. /\ deliveries'[k].attached <=> deliveries[k].attached /\ ~detach
          /\ deliveries'[k].state = "pending" => k \notin cancelled
      BY <1>4, <2>1, <2>2, CancelFacts
    <3>. QED
      BY <1>3, <2>1, <3>1
  <2>3. CASE k.name # d
    <3>1. destination'[k.name] = destination[k.name] /\ deliveries'[k] = deliveries[k]
      BY <1>1, <1>4, <2>1, <2>3, CancelFacts DEF NInv, DestinationsInv
    <3>. QED
      BY <2>1, <3>1 DEF RowInv, Deliverable, Receives
  <2>. QED
    BY <2>2, <2>3
<1>9. StaysWanted
  BY <1>7, <1>8 DEF StaysWanted
<1>. QED
  BY <1>1, <1>5, <1>6, <1>9, FadingInv DEF Fading

LEMMA PutDestinationInv ==
    ASSUME NInv, NEW d \in Destinations, NEW replaced \in BOOLEAN, NEW new \in Settings,
           PutDestination(d, replaced, new)
    PROVE  NInv'
<1>. DEFINE restart == replaced \/ (~destination[d].enabled /\ new.enabled)
            receiver == IF replaced THEN Len(log) + 1 ELSE destination[d].receiver
            after == After(d, new.categories, restart)
            saved == [known |-> TRUE, enabled |-> new.enabled, selects |-> new.selects,
                      receiver |-> receiver, after |-> after]
            unwanted == {k \in DOMAIN deliveries :
                            \/ replaced \/ ~new.enabled
                            \/ k.category \notin new.categories
                            \/ /\ k.category # "recovery"
                               /\ log[k.event] \in EnvironmentKinds /\ ~new.selects}
<1>1. /\ Record("security") /\ UNCHANGED <<gone, cursor, incidents>>
      /\ CancelDeliveries(d, unwanted, replaced)
      /\ sources' = sources /\ worker' = worker /\ inbox' = inbox
  BY DEF PutDestination
<1>2. /\ LogInv' /\ ConditionsInv' /\ Grows /\ IncidentsStay
      /\ Len(log') = Len(log) + 1 /\ Len(log) \in Nat
  BY <1>1, SecurityRecorded
<1>3. DestinationsInv
  BY DEF NInv
<1>4. destination' = [destination EXCEPT ![d] = saved]
  BY DEF PutDestination
<1>5. /\ DOMAIN destination' = Destinations
      /\ \A c \in Destinations : destination'[c] = IF c = d THEN saved ELSE destination[c]
  <2>. HIDE DEF saved
  <2>. QED
    BY <1>3, <1>4 DEF DestinationsInv
<1>6. /\ saved.receiver = receiver /\ saved.after = after /\ saved.enabled = new.enabled
  OBVIOUS
<1>7. /\ DestinationInv(d) /\ destination[d].receiver \in 0 .. Len(log)
  BY <1>3 DEF DestinationsInv, DestinationInv
<1>8. /\ DOMAIN after = new.categories /\ new.categories \subseteq Subscribed
      /\ \A c \in new.categories : /\ after[c] \in Nat /\ receiver <= after[c]
                                   /\ receiver \in 0 .. Len(log')
  <2>1. new.categories \subseteq Subscribed
    BY DEF Subscribed
  <2>2. DOMAIN after = new.categories
    BY DEF After
  <2>3. ASSUME NEW c \in new.categories PROVE after[c] \in Nat /\ receiver <= after[c]
    <3>1. CASE ~restart /\ c \in DOMAIN destination[d].after
      <4>1. after[c] = destination[d].after[c]
        BY <3>1 DEF After
      <4>2. receiver = destination[d].receiver
        BY <3>1
      <4>. QED
        BY <1>7, <3>1, <4>1, <4>2 DEF DestinationInv
    <3>2. CASE ~(~restart /\ c \in DOMAIN destination[d].after)
      <4>1. after[c] = Len(log) + 1
        BY <3>2 DEF After
      <4>. QED
        BY <1>2, <1>7, <4>1
    <3>. QED
      BY <3>1, <3>2
  <2>. QED
    BY <1>2, <1>7, <2>1, <2>2, <2>3
<1>9. receiver \in 0 .. Len(log')
  BY <1>2, <1>7
<1>10. DestinationsInv'
  <2>1. ASSUME NEW c \in Destinations PROVE DestinationInv(c)'
    <3>1. CASE c = d
      <4>. HIDE DEF saved, after, receiver
      <4>. QED
        BY <1>5, <1>6, <1>8, <1>9, <3>1 DEF DestinationInv
    <3>2. CASE c # d
      <4>1. destination'[c] = destination[c] /\ DestinationInv(c)
        BY <1>3, <1>5, <3>2 DEF DestinationsInv
      <4>. QED
        BY <1>2, <4>1 DEF DestinationInv
    <3>. QED
      BY <3>1, <3>2
  <2>. QED
    BY <1>5, <2>1 DEF DestinationsInv
<1>11. ASSUME NEW k \in DOMAIN deliveries'
       PROVE  /\ deliveries'[k].attached =>
                     destination'[k.name].receiver = destination[k.name].receiver
              /\ deliveries'[k].state = "pending" => Deliverable(k)'
  <2>. HIDE DEF unwanted
  <2>1. k \in DOMAIN deliveries /\ RowInv(k) /\ k.name \in Destinations
    BY <1>1, CancelFacts, SeenKeys DEF NInv, OutboxInv
  <2>2. CASE k.name = d
    <3>1. /\ deliveries'[k].attached <=> deliveries[k].attached /\ ~replaced
          /\ deliveries'[k].state \in {deliveries[k].state, "cancelled"}
          /\ deliveries'[k].state = "pending" => k \notin unwanted
      BY <1>1, <2>1, <2>2, CancelFacts
    <3>2. destination'[k.name] = saved
      BY <1>5, <2>2
    <3>3. deliveries'[k].attached => receiver = destination[k.name].receiver
      BY <2>2, <3>1
    <3>4. ASSUME deliveries'[k].state = "pending" PROVE Deliverable(k)'
      <4>1. ~replaced /\ new.enabled /\ k.category \in new.categories
        BY <2>1, <3>1, <3>4 DEF unwanted
      <4>2. deliveries'[k].attached
        BY <2>1, <3>1, <3>4, <4>1 DEF RowInv, Deliverable
      <4>. QED
        BY <1>6, <1>8, <3>2, <4>1, <4>2 DEF Deliverable, Receives
    <3>. QED
      BY <1>6, <3>2, <3>3, <3>4
  <2>3. CASE k.name # d
    <3>1. destination'[k.name] = destination[k.name] /\ deliveries'[k] = deliveries[k]
      BY <1>1, <1>5, <2>1, <2>3, CancelFacts
    <3>. QED
      BY <2>1, <3>1 DEF RowInv, Deliverable, Receives
  <2>. QED
    BY <2>2, <2>3
<1>12. Fades /\ PairsStay
  <2>. HIDE DEF unwanted
  <2>. QED
    BY <1>1, CancelFades
<1>13. StaysWanted
  BY <1>10, <1>11 DEF StaysWanted
<1>. QED
  BY <1>1, <1>2, <1>12, <1>13, FadingInv DEF Fading

-----------------------------------------------------------------------------
(* The delivery worker *)

(* Settling fails what expired and cancels what waits for nothing.           *)
LEMMA SettledFacts ==
    ASSUME NInv, NEW x, x \subseteq Expirable
    PROVE  /\ DOMAIN Settled(x) = DOMAIN deliveries
           /\ \A k \in DOMAIN deliveries :
                  /\ Settled(x)[k] \in DeliveryRecord
                  /\ Settled(x)[k].tried = deliveries[k].tried
                  /\ Settled(x)[k].attached = deliveries[k].attached
                  /\ \/ Settled(x)[k].state = deliveries[k].state
                     \/ deliveries[k].state = "pending" /\ Settled(x)[k].state = "cancelled"
                     \/ /\ deliveries[k].state = "pending" /\ Settled(x)[k].state = "failed"
                        /\ k.category \in Waiting => deliveries[k].tried
<1>. DEFINE failed == [k \in DOMAIN deliveries |->
                IF k \in x THEN [deliveries[k] EXCEPT !.state = "failed"] ELSE deliveries[k]]
            Lonely(k) == /\ failed[k].state = "pending" /\ k.category = "recovery"
                         /\ \A f \in Sources(k) : failed[f].state \notin {"pending", "delivered"}
            unpaired == [k \in DOMAIN deliveries |->
                IF Lonely(k) THEN [failed[k] EXCEPT !.state = "cancelled"] ELSE failed[k]]
            Told(k) == /\ unpaired[k].state = "pending" /\ k.category = "deployment_succeeded"
                       /\ Companion(k, unpaired, "delivered")
<1>1. Settled(x) = [k \in DOMAIN deliveries |->
                IF Told(k) THEN [unpaired[k] EXCEPT !.state = "cancelled"] ELSE unpaired[k]]
  BY DEF Settled
<1>. SUFFICES ASSUME NEW k \in DOMAIN deliveries
     PROVE  /\ Settled(x)[k] \in DeliveryRecord
            /\ Settled(x)[k].tried = deliveries[k].tried
            /\ Settled(x)[k].attached = deliveries[k].attached
            /\ \/ Settled(x)[k].state = deliveries[k].state
               \/ deliveries[k].state = "pending" /\ Settled(x)[k].state = "cancelled"
               \/ /\ deliveries[k].state = "pending" /\ Settled(x)[k].state = "failed"
                  /\ k.category \in Waiting => deliveries[k].tried
  BY <1>1
<1>2. deliveries[k] \in DeliveryRecord
  BY DEF NInv, OutboxInv, RowInv
<1>3. "failed" \in DeliveryStates /\ "cancelled" \in DeliveryStates
  BY DEF DeliveryStates
<1>4. /\ failed[k] \in DeliveryRecord /\ failed[k].tried = deliveries[k].tried
      /\ failed[k].attached = deliveries[k].attached
      /\ \/ failed[k].state = deliveries[k].state
         \/ /\ deliveries[k].state = "pending" /\ failed[k].state = "failed"
            /\ k.category \in Waiting => deliveries[k].tried
  <2>1. k \in x => deliveries[k].state = "pending"
                     /\ (k.category \in Waiting => deliveries[k].tried)
    BY DEF Expirable, InState
  <2>2. CASE k \in x
    <3>1. failed[k] = [deliveries[k] EXCEPT !.state = "failed"]
      BY <2>2
    <3>. HIDE DEF failed
    <3>. QED
      BY <1>2, <1>3, <2>1, <2>2, <3>1, RowState
  <2>3. CASE k \notin x
    <3>1. failed[k] = deliveries[k]
      BY <2>3
    <3>. HIDE DEF failed
    <3>. QED
      BY <1>2, <3>1
  <2>. QED
    BY <2>2, <2>3
<1>. HIDE DEF failed
<1>5. /\ unpaired[k] \in DeliveryRecord /\ unpaired[k].tried = failed[k].tried
      /\ unpaired[k].attached = failed[k].attached
      /\ \/ unpaired[k].state = failed[k].state
         \/ failed[k].state = "pending" /\ unpaired[k].state = "cancelled"
  <2>1. Lonely(k) => failed[k].state = "pending"
    OBVIOUS
  <2>. HIDE DEF Lonely
  <2>2. unpaired[k] = IF Lonely(k) THEN [failed[k] EXCEPT !.state = "cancelled"] ELSE failed[k]
    OBVIOUS
  <2>. HIDE DEF unpaired
  <2>. QED
    BY <1>3, <1>4, <2>1, <2>2, RowState
<1>. HIDE DEF unpaired
<1>6. /\ Settled(x)[k] \in DeliveryRecord /\ Settled(x)[k].tried = unpaired[k].tried
      /\ Settled(x)[k].attached = unpaired[k].attached
      /\ \/ Settled(x)[k].state = unpaired[k].state
         \/ unpaired[k].state = "pending" /\ Settled(x)[k].state = "cancelled"
  <2>1. Told(k) => unpaired[k].state = "pending"
    OBVIOUS
  <2>. HIDE DEF Told
  <2>2. Settled(x)[k] =
            IF Told(k) THEN [unpaired[k] EXCEPT !.state = "cancelled"] ELSE unpaired[k]
    BY <1>1
  <2>. QED
    BY <1>3, <1>5, <2>1, <2>2, RowState
<1>. QED
  BY <1>4, <1>5, <1>6

(* Rows are settled, and one of them tried or cancelled.                     *)
LEMMA SettlingFades ==
    ASSUME NInv, NEW x, x \subseteq Expirable, UNCHANGED <<events, incidents, destination, sources>>,
           DOMAIN deliveries' = DOMAIN deliveries,
           \A k \in DOMAIN deliveries :
               \/ deliveries'[k] = Settled(x)[k]
               \/ deliveries'[k] = [Settled(x)[k] EXCEPT !.state = "cancelled"]
               \/ deliveries'[k] = [Settled(x)[k] EXCEPT !.tried = (k.category \in Waiting)]
    PROVE  /\ Grows /\ Fades /\ PairsStay /\ StaysWanted /\ IncidentsStay
           /\ LogInv' /\ ConditionsInv'
<1>1. LogInv' /\ ConditionsInv' /\ Grows /\ IncidentsStay /\ destination' = destination
  BY QuietEvents
<1>2. PairsStay
  BY PairsKept
<1>3. ASSUME NEW k \in DOMAIN deliveries
      PROVE  /\ deliveries'[k] \in DeliveryRecord
             /\ deliveries'[k].attached = deliveries[k].attached
             /\ deliveries'[k].state = "pending" => deliveries[k].state = "pending"
             /\ deliveries'[k].state = "delivered" => deliveries[k].state = "delivered"
             /\ k.category = "recovery" =>
                    /\ deliveries[k].tried => deliveries'[k].tried
                    /\ deliveries'[k].state = "failed" => deliveries'[k].tried
  <2>1. /\ Settled(x)[k] \in DeliveryRecord
        /\ Settled(x)[k].tried = deliveries[k].tried
        /\ Settled(x)[k].attached = deliveries[k].attached
        /\ \/ Settled(x)[k].state = deliveries[k].state
           \/ deliveries[k].state = "pending" /\ Settled(x)[k].state = "cancelled"
           \/ /\ deliveries[k].state = "pending" /\ Settled(x)[k].state = "failed"
              /\ k.category \in Waiting => deliveries[k].tried
    BY SettledFacts
  <2>2. "recovery" \in Waiting /\ "cancelled" \in DeliveryStates
    BY DEF Waiting, DeliveryStates
  <2>3. k.category = "recovery" /\ deliveries[k].state = "failed" => deliveries[k].tried
    BY DEF NInv, OutboxInv, RowInv
  <2>4. CASE deliveries'[k] = Settled(x)[k]
    BY <2>1, <2>2, <2>3, <2>4
  <2>5. CASE deliveries'[k] = [Settled(x)[k] EXCEPT !.state = "cancelled"]
    <3>1. /\ deliveries'[k] \in DeliveryRecord /\ deliveries'[k].state = "cancelled"
          /\ deliveries'[k].tried = Settled(x)[k].tried
          /\ deliveries'[k].attached = Settled(x)[k].attached
      BY <2>1, <2>2, <2>5, RowState
    <3>. QED
      BY <2>1, <3>1
  <2>6. CASE deliveries'[k] = [Settled(x)[k] EXCEPT !.tried = (k.category \in Waiting)]
    <3>. DEFINE b == (k.category \in Waiting)
    <3>1. /\ b \in BOOLEAN /\ (b <=> k.category \in Waiting)
          /\ deliveries'[k] = [Settled(x)[k] EXCEPT !.tried = b]
      BY <2>6
    <3>. HIDE DEF b
    <3>2. /\ deliveries'[k] \in DeliveryRecord /\ deliveries'[k].state = Settled(x)[k].state
          /\ deliveries'[k].tried = b
          /\ deliveries'[k].attached = Settled(x)[k].attached
      BY <2>1, <3>1, RowTried
    <3>. QED
      BY <2>1, <2>2, <3>1, <3>2
  <2>. QED
    BY <2>4, <2>5, <2>6
<1>4. Fades
  BY <1>3 DEF Fades
<1>5. DestinationsInv'
  BY <1>1, LogFacts DEF NInv, DestinationsInv, DestinationInv, Grows
<1>6. \A k \in DOMAIN deliveries : deliveries'[k].state = "pending" => Deliverable(k)'
  BY <1>1, <1>3 DEF NInv, OutboxInv, RowInv, Deliverable, Receives
<1>7. StaysWanted
  BY <1>1, <1>5, <1>6 DEF StaysWanted
<1>. QED
  BY <1>1, <1>2, <1>4, <1>7

LEMMA ClaimNothingInv ==
    ASSUME NInv, NEW x, x \subseteq Expirable, ClaimNothing(x)
    PROVE  NInv'
<1>1. /\ UNCHANGED <<events, incidents, destination, sources>> /\ deliveries' = Settled(x)
      /\ worker' = worker /\ inbox' = inbox
  BY DEF ClaimNothing
<1>2. DOMAIN deliveries' = DOMAIN deliveries /\ \A k \in DOMAIN deliveries : deliveries'[k] = Settled(x)[k]
  BY <1>1, SettledFacts
<1>. QED
  BY <1>1, <1>2, SettlingFades, FadingInv DEF Fading

LEMMA ClaimInvariant ==
    ASSUME NInv, NEW x, x \subseteq Expirable, NEW k \in DOMAIN deliveries, Claim(k, x)
    PROVE  NInv'
<1>1. /\ UNCHANGED <<events, incidents, destination, sources>> /\ Ready(k, Settled(x))
      /\ worker = Idle /\ inbox' = inbox /\ destination' = destination
      /\ sources' = sources /\ exists' = exists /\ log' = log
  BY DEF Claim, incidents, events
<1>2. DOMAIN Settled(x) = DOMAIN deliveries
  BY SettledFacts
<1>3. CASE ~Deliverable(k)
  <2>1. deliveries' = [Settled(x) EXCEPT ![k].state = "cancelled"] /\ worker' = worker
    BY <1>3 DEF Claim
  <2>2. /\ DOMAIN deliveries' = DOMAIN deliveries
        /\ \A q \in DOMAIN deliveries :
               \/ deliveries'[q] = Settled(x)[q]
               \/ deliveries'[q] = [Settled(x)[q] EXCEPT !.state = "cancelled"]
    BY <1>2, <2>1
  <2>. QED
    BY <1>1, <2>1, <2>2, SettlingFades, FadingInv DEF Fading
<1>4. CASE Deliverable(k)
  <2>1. /\ deliveries' = [Settled(x) EXCEPT ![k].tried = (k.category \in Waiting)]
        /\ worker' = [delivery |-> k, receiver |-> destination[k.name].receiver,
                      result |-> "claimed"]
    BY <1>4 DEF Claim
  <2>2. /\ DOMAIN deliveries' = DOMAIN deliveries
        /\ \A q \in DOMAIN deliveries :
               \/ deliveries'[q] = Settled(x)[q]
               \/ deliveries'[q] = [Settled(x)[q] EXCEPT !.tried = (q.category \in Waiting)]
        /\ deliveries'[k] = [Settled(x)[k] EXCEPT !.tried = (k.category \in Waiting)]
    BY <1>2, <2>1
  <2>3. /\ Grows /\ Fades /\ PairsStay /\ StaysWanted /\ IncidentsStay
        /\ LogInv' /\ ConditionsInv'
    BY <1>1, <2>2, SettlingFades
  <2>4. /\ worker'.delivery = k /\ worker'.receiver = destination[k.name].receiver
        /\ worker'.result = "claimed"
    BY <2>1
  <2>5. /\ k \in DeliveryIds /\ k \in Seen /\ k.name \in Destinations /\ RowInv(k)
        /\ deliveries[k].attached /\ deliveries[k].state = "pending"
    <3>1. Settled(x)[k].state = "pending"
      BY <1>1 DEF Ready
    <3>. QED
      BY <1>4, <3>1, SeenKeys, SettledFacts DEF NInv, OutboxInv, Deliverable
  <2>6. \A q \in DOMAIN deliveries : deliveries'[q].state = Settled(x)[q].state
    <3>. SUFFICES ASSUME NEW q \in DOMAIN deliveries
         PROVE  deliveries'[q].state = Settled(x)[q].state
      OBVIOUS
    <3>1. Settled(x)[q] \in DeliveryRecord
      BY SettledFacts
    <3>. QED
      BY <2>2, <3>1 DEF DeliveryRecord
  <2>7. ASSUME k.category = "recovery"
        PROVE  /\ deliveries'[k].tried
               /\ \E m \in inbox : /\ m[1] = destination[k.name].receiver /\ m[2].name = k.name
                                   /\ m[2].category \in FailureCategories
                                   /\ Cleared(m[2], k.event)
               /\ exists => \A q \in DOMAIN deliveries :
                      /\ deliveries'[q].state = "pending" /\ q.category \in FailureCategories
                      /\ q.name = k.name
                      => ~Cleared(q, k.event)
    <3>1. k.category \in Waiting
      BY <2>7 DEF Waiting
    <3>2. deliveries'[k].tried
      <4>. DEFINE b == (k.category \in Waiting)
      <4>1. b \in BOOLEAN /\ b /\ deliveries'[k] = [Settled(x)[k] EXCEPT !.tried = b]
        BY <2>2, <3>1
      <4>. HIDE DEF b
      <4>2. Settled(x)[k] \in DeliveryRecord
        BY SettledFacts
      <4>. QED
        BY <4>1, <4>2, RowTried
    <3>3. /\ \E f \in Sources(k) : Settled(x)[f].state = "delivered"
          /\ \A f \in Sources(k) : Settled(x)[f].state # "pending"
      BY <1>1, <2>7 DEF Ready
    <3>4. PICK s \in sources : s[1] = k /\ Settled(x)[s[2]].state = "delivered"
      BY <3>3 DEF Sources
    <3>5. /\ s[2] \in DOMAIN deliveries /\ s[2].category \in FailureCategories
          /\ s[2].name = k.name /\ Cleared(s[2], k.event) /\ deliveries[s[2]].attached
      BY <2>5, <3>4 DEF NInv, SourcesInv
    <3>6. deliveries[s[2]].state = "delivered"
      BY <3>4, <3>5, SettledFacts
    <3>7. <<destination[k.name].receiver, s[2]>> \in inbox
      BY <3>5, <3>6 DEF NInv, OutboxInv, RowInv
    <3>8. ASSUME exists, NEW q \in DOMAIN deliveries, deliveries'[q].state = "pending",
                 q.category \in FailureCategories, q.name = k.name, Cleared(q, k.event)
          PROVE  FALSE
      <4>1. Settled(x)[q].state = "pending" /\ deliveries[q].state = "pending"
        BY <2>6, <3>8, SettledFacts
      <4>2. <<k, q>> \in sources
        BY <2>7, <3>8, <4>1 DEF NInv, SourcesInv
      <4>3. <<k, q>>[1] = k /\ <<k, q>>[2] = q
        OBVIOUS
      <4>4. q \in Sources(k)
        BY <4>2, <4>3, Zenon DEF Sources
      <4>. QED
        BY <3>3, <4>1, <4>4
    <3>9. \E m \in inbox : /\ m[1] = destination[k.name].receiver /\ m[2].name = k.name
                           /\ m[2].category \in FailureCategories
                           /\ Cleared(m[2], k.event)
      <4>1. /\ <<destination[k.name].receiver, s[2]>>[1] = destination[k.name].receiver
            /\ <<destination[k.name].receiver, s[2]>>[2] = s[2]
        OBVIOUS
      <4>. QED
        BY <3>5, <3>7, <4>1, Zenon
    <3>. QED
      BY <3>2, <3>8, <3>9
  <2>8. ASSUME k.category \in FailureCategories, exists, NEW m \in inbox,
               m[1] = destination[k.name].receiver, m[2].name = k.name,
               m[2].category = "recovery"
        PROVE  ~Cleared(k, m[2].event)
    BY <2>5, <2>8 DEF NInv, InboxInv
  <2>9. \A f, e : Cleared(f, e)' <=> Cleared(f, e)
    BY <1>1 DEF Cleared
  <2>10. ClaimInv(k)'
    BY <1>1, <2>2, <2>4, <2>7, <2>8, <2>9 DEF ClaimInv
  <2>11. WorkingInv(k)'
    BY <1>1, <2>2, <2>4, <2>5, <2>7, <2>10 DEF WorkingInv
  <2>12. destination[k.name].receiver \in Nat
    BY <2>5, LogFacts DEF NInv, DestinationsInv, DestinationInv
  <2>13. WorkerInv'
    <3>1. worker' \in WorkerRecord
      BY <2>1, <2>5, <2>12 DEF WorkerRecord
    <3>2. worker' # Idle
      BY <2>4 DEF Idle
    <3>. QED
      BY <2>4, <2>11, <3>1, <3>2 DEF WorkerInv
  <2>. QED
    BY <1>1, <2>3, <2>4, <2>13, FadingInv DEF Fading
<1>. QED
  BY <1>3, <1>4

LEMMA AbandonInv ==
    ASSUME NInv, Abandon
    PROVE  NInv'
<1>1. /\ UNCHANGED <<events, incidents>> /\ UNCHANGED <<outbox, destination>>
      /\ worker' = Idle /\ inbox' = inbox
  BY DEF Abandon
<1>. QED
  BY <1>1, QuietEvents, OutboxKept, FadingInv DEF Fading

LEMMA CompleteInv ==
    ASSUME NInv, Complete
    PROVE  NInv'
<1>1. /\ UNCHANGED <<events, incidents, destination, sources>> /\ inbox' = inbox
      /\ worker' = Idle /\ worker.result \in {"delivered", "retry", "rejected"}
      /\ destination' = destination
  BY DEF Complete, OutcomeOf
<1>2. LogInv' /\ ConditionsInv' /\ Grows /\ IncidentsStay
  BY <1>1, QuietEvents
<1>3. CASE deliveries' = deliveries
  <2>1. UNCHANGED <<outbox, destination>>
    BY <1>1, <1>3 DEF outbox
  <2>. QED
    BY <1>1, <1>2, <2>1, OutboxKept, FadingInv DEF Fading
<1>4. ASSUME NEW k, k = worker.delivery, Completes(k),
             NEW b, b = OutcomeOf[worker.result],
             deliveries' = [deliveries EXCEPT ![k].state = b]
      PROVE  NInv'
  <2>1. k \in DOMAIN deliveries /\ deliveries[k].state = "pending" /\ WorkingInv(k)
    BY <1>1, <1>4 DEF Completes, InState, NInv, WorkerInv
  <2>2. /\ b \in DeliveryStates /\ b \in {"delivered", "pending", "failed"}
        /\ b = "delivered" => worker.result = "delivered"
    BY <1>1, <1>4 DEF OutcomeOf, DeliveryStates
  <2>3. \A q \in DOMAIN deliveries : RowInv(q) /\ deliveries[q] \in DeliveryRecord
    BY DEF NInv, OutboxInv, RowInv
  <2>4. /\ DOMAIN deliveries' = DOMAIN deliveries
        /\ \A q \in DOMAIN deliveries : q # k => deliveries'[q] = deliveries[q]
        /\ deliveries'[k] = [deliveries[k] EXCEPT !.state = b]
    BY <1>4, <2>1
  <2>5. /\ deliveries'[k] \in DeliveryRecord /\ deliveries'[k].state = b
        /\ deliveries'[k].tried = deliveries[k].tried
        /\ deliveries'[k].attached = deliveries[k].attached
    BY <2>1, <2>2, <2>3, <2>4, RowState
  <2>6. /\ k.category = "recovery" => deliveries[k].tried
        /\ k.category \in FailureCategories /\ b = "delivered" /\ deliveries[k].attached
             => <<destination[k.name].receiver, k>> \in inbox
    BY <2>1, <2>2 DEF WorkingInv
  <2>7. Fades
    <3>1. ASSUME NEW q \in DOMAIN deliveries
          PROVE  /\ deliveries'[q] \in DeliveryRecord
                 /\ deliveries'[q].state = "pending" => deliveries[q].state = "pending"
                 /\ deliveries'[q].attached = deliveries[q].attached
                 /\ q.category = "recovery" =>
                        /\ deliveries[q].tried => deliveries'[q].tried
                        /\ deliveries'[q].state = "failed" => deliveries'[q].tried
                 /\ q.category \in FailureCategories /\ deliveries'[q].state = "delivered"
                      /\ deliveries'[q].attached
                    => \/ deliveries[q].state = "delivered"
                       \/ <<destination[q.name].receiver, q>> \in inbox
      <4>1. CASE q = k
        BY <2>1, <2>5, <2>6, <4>1
      <4>2. CASE q # k
        BY <2>3, <2>4, <4>2 DEF RowInv
      <4>. QED
        BY <4>1, <4>2
    <3>. QED
      BY <2>4, <3>1 DEF Fades
  <2>8. StaysWanted
    <3>1. DestinationsInv'
      BY <1>1, <1>2, LogFacts DEF NInv, DestinationsInv, DestinationInv, Grows
    <3>2. \A q \in DOMAIN deliveries : deliveries'[q].state = "pending" => Deliverable(q)'
      BY <1>1, <2>1, <2>3, <2>4, <2>5 DEF RowInv, Deliverable, Receives
    <3>. QED
      BY <1>1, <2>4, <3>1, <3>2 DEF StaysWanted
  <2>9. PairsStay
    BY <1>1, <2>4, PairsKept
  <2>. QED
    BY <1>1, <1>2, <2>7, <2>8, <2>9, FadingInv DEF Fading
<1>. QED
  BY <1>3, <1>4 DEF Complete

LEMMA PostInv ==
    ASSUME NInv, NEW result \in DOMAIN OutcomeOf, NEW arrives \in BOOLEAN, Post(result, arrives)
    PROVE  NInv'
<1>. DEFINE k == worker.delivery
            m0 == <<worker.receiver, k>>
<1>1. /\ worker.result = "claimed" /\ k \in DOMAIN deliveries
      /\ worker' = [worker EXCEPT !.result = result]
      /\ inbox' = (IF Arrived(result, arrives) THEN inbox \cup {m0} ELSE inbox)
      /\ UNCHANGED <<events, incidents>>
      /\ log' = log /\ exists' = exists /\ cursor' = cursor /\ deliveries' = deliveries
      /\ sources' = sources /\ destination' = destination
  BY DEF Post, events, incidents, outbox
<1>2. result \in {"delivered", "retry", "rejected"}
  BY DEF OutcomeOf
<1>3. LogInv' /\ ConditionsInv' /\ Grows /\ IncidentsStay
  BY <1>1, QuietEvents
<1>4. /\ WorkingInv(k) /\ ClaimInv(k) /\ worker \in WorkerRecord
  BY <1>1 DEF NInv, WorkerInv, WorkingInv
<1>5. /\ worker' \in WorkerRecord /\ worker'.delivery = k /\ worker'.result = result
      /\ worker'.receiver = worker.receiver
  BY <1>1, <1>2, <1>4 DEF WorkerRecord
<1>6. \/ inbox' = inbox
      \/ inbox' = inbox \cup {m0}
  BY <1>1
<1>7. m0[1] = worker.receiver /\ m0[2] = k /\ m0 = <<m0[1], m0[2]>>
  OBVIOUS
<1>. HIDE DEF m0
<1>8. Seen' \subseteq Seen
  BY <1>1, <1>5, <1>6, <1>7 DEF Seen
<1>9. KeysInv'
  BY <1>3, <1>8, GrowsKeys DEF NInv, KeysInv
<1>10. IncidentsInv'
  BY <1>3, <1>8, IncidentsKept
<1>11. \A f, e : Cleared(f, e)' <=> Cleared(f, e)
  BY <1>1 DEF Cleared
<1>12. DestinationsInv'
  BY <1>1 DEF NInv, DestinationsInv, DestinationInv
<1>13. OutboxInv'
  <2>. SUFFICES ASSUME NEW q \in DOMAIN deliveries PROVE RowInv(q)'
    BY <1>1 DEF OutboxInv
  <2>1. RowInv(q)
    BY DEF NInv, OutboxInv
  <2>2. Deliverable(q)' <=> Deliverable(q)
    BY <1>1 DEF Deliverable, Receives
  <2>. QED
    BY <1>1, <1>6, <2>1, <2>2 DEF RowInv
<1>14. SourcesInv'
  BY <1>1, <1>11 DEF NInv, SourcesInv
<1>15. WorkerInv'
  <2>1. worker' # Idle /\ result # "claimed" /\ result # "idle"
    BY <1>2, <1>5 DEF Idle
  <2>2. result = "delivered" /\ k.category \in FailureCategories => m0 \in inbox'
    BY <1>1 DEF Arrived
  <2>3. WorkingInv(k)'
    BY <1>1, <1>4, <1>5, <2>1, <2>2 DEF WorkingInv, m0
  <2>. QED
    BY <1>5, <2>1, <2>3 DEF WorkerInv
<1>16. InboxInv'
  <2>1. InboxInv
    BY DEF NInv
  <2>2. \A m \in inbox' : m = <<m[1], m[2]>>
    BY <1>6, <1>7, <2>1 DEF InboxInv
  <2>3. RecoveryFollowsFailure'
    <3>. SUFFICES ASSUME NEW m \in inbox', m[2].category = "recovery"
         PROVE  \E f \in inbox : /\ f[1] = m[1] /\ f[2].name = m[2].name
                                 /\ f[2].category \in FailureCategories
                                 /\ Cleared(f[2], m[2].event)
      BY <1>6, <1>11 DEF RecoveryFollowsFailure
    <3>1. CASE m \in inbox
      BY <2>1, <3>1 DEF InboxInv, RecoveryFollowsFailure
    <3>2. CASE m = m0
      BY <1>4, <1>7, <3>2 DEF ClaimInv
    <3>. QED
      BY <1>6, <3>1, <3>2
  <2>4. ASSUME exists, NEW m \in inbox', NEW q \in DOMAIN deliveries,
               m[2].category = "recovery", q.category \in FailureCategories,
               deliveries[q].state = "pending",
               m[1] = destination[q.name].receiver, m[2].name = q.name
        PROVE  ~Cleared(q, m[2].event)
    <3>1. CASE m \in inbox
      BY <2>1, <2>4, <3>1 DEF InboxInv
    <3>2. CASE m = m0
      BY <1>4, <1>7, <2>4, <3>2 DEF ClaimInv
    <3>. QED
      BY <1>6, <3>1, <3>2
  <2>. QED
    BY <1>1, <1>11, <2>2, <2>3, <2>4 DEF InboxInv
<1>. QED
  BY <1>3, <1>9, <1>10, <1>12, <1>13, <1>14, <1>15, <1>16 DEF NInv

-----------------------------------------------------------------------------
(* Steps that queue deliveries *)

\* A delivery that is queued, or queued again, is wanted; an alert is of the
\* open incident.
Raised(k) ==
    /\ deliveries'[k] \in DeliveryRecord
    /\ deliveries'[k].state = "pending" /\ deliveries'[k].attached
    /\ KeyInv(k)' /\ Receives(k.name, k.category) /\ destination[k.name].receiver < k.event
    /\ k.category \in FailureCategories => k.event = conditions'[k.category].event
    /\ k.category = "recovery" => deliveries'[k].tried \/ \E s \in sources' : s[1] = k
    /\ \/ k \notin Seen
       \/ /\ k \in DOMAIN deliveries /\ deliveries[k].attached
          /\ deliveries'[k].tried <=> deliveries[k].tried

Raises ==
    /\ DOMAIN deliveries \subseteq DOMAIN deliveries'
    /\ \A k \in DOMAIN deliveries' :
           \/ k \in DOMAIN deliveries /\ deliveries'[k] = deliveries[k]
           \/ Raised(k)

\* New pairings are of what the recovery's event cleared, with every alert
\* of it that waits.
Pairs ==
    /\ sources \subseteq sources'
    /\ \A s \in sources' \ sources :
           /\ s = <<s[1], s[2]>> /\ s[1] \in DOMAIN deliveries' /\ s[2] \in DOMAIN deliveries'
           /\ s[1].category = "recovery" /\ s[2].category \in FailureCategories
           /\ s[1].name = s[2].name /\ Cleared(s[2], s[1].event)'
           /\ deliveries'[s[2]].attached
    /\ exists => \A r \in DOMAIN deliveries' \ DOMAIN deliveries, k \in DOMAIN deliveries :
           /\ r.category = "recovery" /\ k.category \in FailureCategories
           /\ deliveries[k].state = "pending" /\ r.name = k.name /\ Cleared(k, r.event)'
           => <<r, k>> \in sources'

Queueing ==
    /\ Grows /\ Raises /\ Pairs
    /\ UNCHANGED <<exists, destination, worker, inbox>>

(* Nothing that is handled cleared the incident of a raised alert.           *)
LEMMA RaisedIsOpen ==
    ASSUME ConditionsInv', LogInv', NEW k, Raised(k), k.category \in FailureCategories,
           NEW e \in 1 .. Len(log'), Handled(e)'
    PROVE  ~Cleared(k, e)'
<1>1. k.event \in Nat /\ k.event > 0 /\ k.event = conditions'[k.category].event
  BY KeyFields DEF Raised, KeyInv
<1>2. OpenInv(k.category)'
  BY DEF ConditionsInv
<1>3. \A x \in k.event + 1 .. Len(log') : Handled(x)' => log'[x] \notin Clears[k.category]
  BY <1>1, <1>2 DEF OpenInv
<1>4. Len(log') \in Nat
  BY DEF LogInv
<1>. QED
  BY <1>1, <1>3, <1>4 DEF Cleared

LEMMA QueueingKeys ==
    ASSUME NInv, Queueing, LogInv'
    PROVE  /\ KeysInv'
           /\ \A k \in Seen' : k \in Seen \/ (k \in DOMAIN deliveries' /\ Raised(k))
           /\ \A k \in Seen' : KeyInv(k)' /\ k.event \in 1 .. Len(log') /\ Handled(k.event)'
           /\ \A k \in Seen : k \in Seen'
<1>1. /\ \A k \in Seen' : k \in Seen \/ (k \in DOMAIN deliveries' /\ Raised(k))
      /\ \A k \in Seen : k \in Seen'
  BY DEF Queueing, Raises, Seen
<1>2. \A k \in Seen' : KeyInv(k)'
  BY <1>1, GrowsKeys DEF NInv, KeysInv, Queueing, Raised
<1>3. KeysInv'
  BY <1>2 DEF KeysInv
<1>4. ASSUME NEW k \in Seen' PROVE k.event \in 1 .. Len(log') /\ Handled(k.event)'
  <2>1. k \in DeliveryIds /\ k.event <= Len(log') /\ Handled(k.event)'
    BY <1>2 DEF KeyInv
  <2>2. Len(log') \in Nat
    BY DEF LogInv
  <2>. QED
    BY <2>1, <2>2, KeyFields
<1>. QED
  BY <1>1, <1>2, <1>3, <1>4

LEMMA QueueingRows ==
    ASSUME NInv, Queueing, LogInv', ConditionsInv'
    PROVE  OutboxInv' /\ SourcesInv' /\ InboxInv'
<1>1. /\ LogInv /\ OutboxInv /\ SourcesInv /\ InboxInv /\ Grows /\ Raises /\ Pairs
      /\ exists' = exists /\ destination' = destination /\ inbox' = inbox
  BY DEF NInv, Queueing
<1>2. ASSUME NEW k \in DOMAIN deliveries' PROVE RowInv(k)'
  <2>1. CASE k \in DOMAIN deliveries /\ deliveries'[k] = deliveries[k]
    <3>1. RowInv(k)
      BY <1>1, <2>1 DEF OutboxInv
    <3>2. Deliverable(k)' <=> Deliverable(k)
      BY <1>1, <2>1 DEF Deliverable, Receives
    <3>. QED
      BY <1>1, <2>1, <3>1, <3>2 DEF RowInv, Pairs
  <2>2. CASE Raised(k)
    <3>1. Deliverable(k)'
      BY <1>1, <2>2 DEF Raised, Deliverable, Receives
    <3>. QED
      BY <1>1, <2>2, <3>1 DEF Raised, RowInv
  <2>. QED
    BY <1>1, <2>1, <2>2 DEF Raises
<1>3. ASSUME NEW s \in sources'
      PROVE  /\ s = <<s[1], s[2]>> /\ s[1] \in DOMAIN deliveries' /\ s[2] \in DOMAIN deliveries'
             /\ s[1].category = "recovery" /\ s[2].category \in FailureCategories
             /\ s[1].name = s[2].name /\ Cleared(s[2], s[1].event)'
             /\ deliveries'[s[1]].attached => deliveries'[s[2]].attached
  <2>1. CASE s \in sources
    <3>1. /\ s = <<s[1], s[2]>> /\ s[1] \in DOMAIN deliveries /\ s[2] \in DOMAIN deliveries
          /\ s[1].category = "recovery" /\ s[2].category \in FailureCategories
          /\ s[1].name = s[2].name /\ Cleared(s[2], s[1].event)
          /\ deliveries[s[1]].attached => deliveries[s[2]].attached
      BY <1>1, <2>1 DEF SourcesInv
    <3>2. Cleared(s[2], s[1].event)'
      BY <1>1, <3>1, SeenKeys, SeenCleared
    <3>3. s[1] \in Seen /\ s[2] \in Seen
      BY <3>1, SeenKeys
    <3>4. deliveries'[s[1]].attached => deliveries'[s[2]].attached
      BY <1>1, <3>1, <3>3 DEF Raises, Raised
    <3>. QED
      BY <1>1, <3>1, <3>2, <3>4 DEF Raises
  <2>2. CASE s \notin sources
    BY <1>1, <2>2 DEF Pairs
  <2>. QED
    BY <2>1, <2>2
<1>4. ASSUME exists, NEW r \in DOMAIN deliveries', NEW k \in DOMAIN deliveries',
             r.category = "recovery", k.category \in FailureCategories,
             deliveries'[k].state = "pending", r.name = k.name, Cleared(k, r.event)'
      PROVE  <<r, k>> \in sources'
  <2>1. r \in Seen' /\ k \in Seen'
    BY DEF Seen
  <2>2. CASE Raised(k)
    BY <1>4, <2>1, <2>2, QueueingKeys, RaisedIsOpen
  <2>3. CASE k \in DOMAIN deliveries /\ deliveries'[k] = deliveries[k]
    <3>1. CASE r \notin DOMAIN deliveries
      BY <1>1, <1>4, <2>3, <3>1 DEF Pairs
    <3>2. CASE r \in DOMAIN deliveries
      <4>1. Cleared(k, r.event)
        BY <1>1, <1>4, <2>3, <3>2, SeenKeys, SeenCleared
      <4>2. <<r, k>> \in sources
        BY <1>1, <1>4, <2>3, <3>2, <4>1 DEF SourcesInv
      <4>. QED
        BY <1>1, <4>2 DEF Pairs
    <3>. QED
      BY <3>1, <3>2
  <2>. QED
    BY <1>1, <2>2, <2>3 DEF Raises
<1>5. RecoveryFollowsFailure'
  <2>. SUFFICES ASSUME NEW m \in inbox, m[2].category = "recovery"
       PROVE  \E f \in inbox : /\ f[1] = m[1] /\ f[2].name = m[2].name
                               /\ f[2].category \in FailureCategories
                               /\ Cleared(f[2], m[2].event)'
    BY <1>1 DEF RecoveryFollowsFailure
  <2>1. PICK f \in inbox : /\ f[1] = m[1] /\ f[2].name = m[2].name
                           /\ f[2].category \in FailureCategories
                           /\ Cleared(f[2], m[2].event)
    BY <1>1 DEF InboxInv, RecoveryFollowsFailure
  <2>. QED
    BY <1>1, <2>1, SeenKeys, SeenCleared
<1>6. ASSUME exists, NEW m \in inbox, NEW q \in DOMAIN deliveries',
             m[2].category = "recovery", q.category \in FailureCategories,
             deliveries'[q].state = "pending",
             m[1] = destination[q.name].receiver, m[2].name = q.name
      PROVE  ~Cleared(q, m[2].event)'
  <2>1. m[2] \in Seen /\ m[2] \in Seen'
    BY SeenKeys, QueueingKeys
  <2>2. CASE Raised(q)
    BY <1>6, <2>1, <2>2, QueueingKeys, RaisedIsOpen
  <2>3. CASE q \in DOMAIN deliveries /\ deliveries'[q] = deliveries[q]
    <3>1. ~Cleared(q, m[2].event)
      BY <1>1, <1>6, <2>3 DEF InboxInv
    <3>. QED
      BY <1>1, <2>1, <2>3, <3>1, SeenKeys, SeenCleared
  <2>. QED
    BY <1>1, <2>2, <2>3 DEF Raises
<1>7. OutboxInv'
  BY <1>2 DEF OutboxInv
<1>8. SourcesInv'
  BY <1>1, <1>3, <1>4, Zenon DEF SourcesInv
<1>9. InboxInv'
  BY <1>1, <1>5, <1>6, Zenon DEF InboxInv
<1>. QED
  BY <1>7, <1>8, <1>9

LEMMA QueueingWorker ==
    ASSUME NInv, Queueing, LogInv', ConditionsInv'
    PROVE  WorkerInv'
<1>1. /\ WorkerInv /\ Grows /\ Raises /\ inbox' = inbox /\ worker' = worker
      /\ exists' = exists /\ destination' = destination
  BY DEF NInv, Queueing
<1>2. worker \in WorkerRecord /\ (worker.result = "idle" <=> worker = Idle)
  BY <1>1 DEF WorkerInv
<1>3. ASSUME worker.result # "idle", NEW k, k = worker.delivery PROVE WorkingInv(k)'
  <2>1. WorkingInv(k) /\ k \in Seen /\ k \in Seen'
    BY <1>1, <1>3, SeenKeys, QueueingKeys DEF WorkerInv
  <2>2. ASSUME k \in DOMAIN deliveries'
        PROVE  /\ k \in DOMAIN deliveries
               /\ deliveries'[k].attached => deliveries[k].attached
               /\ deliveries'[k].tried <=> deliveries[k].tried
    BY <1>1, <2>1, <2>2 DEF Raises, Raised
  <2>3. ASSUME worker.result = "claimed" PROVE ClaimInv(k)'
    <3>1. ClaimInv(k)
      BY <2>1, <2>3 DEF WorkingInv
    <3>2. ASSUME k.category = "recovery"
          PROVE  \E m \in inbox : /\ m[1] = worker.receiver /\ m[2].name = k.name
                                  /\ m[2].category \in FailureCategories
                                  /\ Cleared(m[2], k.event)'
      <4>1. PICK m \in inbox : /\ m[1] = worker.receiver /\ m[2].name = k.name
                               /\ m[2].category \in FailureCategories
                               /\ Cleared(m[2], k.event)
        BY <3>1, <3>2 DEF ClaimInv
      <4>. QED
        BY <1>1, <2>1, <4>1, SeenKeys, SeenCleared
    <3>3. ASSUME k.category = "recovery", exists, NEW q \in DOMAIN deliveries',
                 deliveries'[q].state = "pending", q.category \in FailureCategories,
                 q.name = k.name
          PROVE  ~Cleared(q, k.event)'
      <4>1. CASE Raised(q)
        BY <2>1, <3>3, <4>1, QueueingKeys, RaisedIsOpen
      <4>2. CASE q \in DOMAIN deliveries /\ deliveries'[q] = deliveries[q]
        <5>1. ~Cleared(q, k.event)
          BY <3>1, <3>3, <4>2 DEF ClaimInv
        <5>. QED
          BY <1>1, <2>1, <4>2, <5>1, SeenKeys, SeenCleared
      <4>. QED
        BY <1>1, <4>1, <4>2 DEF Raises
    <3>4. ASSUME k.category \in FailureCategories, exists, NEW m \in inbox,
                 m[1] = worker.receiver, m[2].name = k.name, m[2].category = "recovery"
          PROVE  ~Cleared(k, m[2].event)'
      BY <1>1, <2>1, <3>1, <3>4, SeenKeys, SeenCleared DEF ClaimInv
    <3>. QED
      BY <1>1, <3>2, <3>3, <3>4, Zenon DEF ClaimInv
  <2>4. k \in DOMAIN deliveries' /\ deliveries'[k].attached =>
            worker.receiver = destination[k.name].receiver
    BY <2>1, <2>2 DEF WorkingInv
  <2>5. k \in DOMAIN deliveries' /\ k.category = "recovery" => deliveries'[k].tried
    BY <2>1, <2>2 DEF WorkingInv
  <2>. QED
    BY <1>1, <2>1, <2>3, <2>4, <2>5, Zenon DEF WorkingInv
<1>. QED
  BY <1>1, <1>2, <1>3, Zenon DEF WorkerInv

LEMMA QueueingInv ==
    ASSUME NInv, Queueing, LogInv', ConditionsInv', IncidentsInv'
    PROVE  NInv'
<1>1. DestinationsInv'
  BY LogFacts DEF NInv, DestinationsInv, DestinationInv, Grows, Queueing
<1>. QED
  BY <1>1, QueueingKeys, QueueingRows, QueueingWorker DEF NInv

LEMMA RetryInv ==
    ASSUME NInv, NEW k \in DOMAIN deliveries, Retry(k)
    PROVE  NInv'
<1>1. /\ deliveries[k].state = "failed" /\ Deliverable(k) /\ Retryable(k)
      /\ deliveries' = [deliveries EXCEPT ![k].state = "pending"]
      /\ UNCHANGED <<events, incidents>> /\ conditions' = conditions
      /\ UNCHANGED <<exists, destination, worker, inbox>> /\ sources' = sources
  BY DEF Retry, InState, incidents
<1>2. LogInv' /\ ConditionsInv' /\ Grows /\ IncidentsStay
  BY <1>1, QuietEvents
<1>3. /\ DOMAIN deliveries' = DOMAIN deliveries
      /\ \A q \in DOMAIN deliveries : q # k => deliveries'[q] = deliveries[q]
      /\ deliveries'[k] = [deliveries[k] EXCEPT !.state = "pending"]
  BY <1>1
<1>4. RowInv(k) /\ deliveries[k] \in DeliveryRecord /\ KeyInv(k) /\ "pending" \in DeliveryStates
  BY SeenKeys DEF NInv, OutboxInv, RowInv, DeliveryStates
<1>5. /\ deliveries'[k] \in DeliveryRecord /\ deliveries'[k].state = "pending"
      /\ deliveries'[k].tried = deliveries[k].tried
      /\ deliveries'[k].attached = deliveries[k].attached
  BY <1>3, <1>4, RowState
<1>6. ASSUME k.category \in FailureCategories PROVE k.event = conditions[k.category].event
  <2>1. PICK c \in FailureCategories : conditions[c].event = k.event
    BY <1>1, <1>6 DEF Retryable
  <2>2. k.event \in Nat /\ k.event > 0
    BY SeenKeys
  <2>3. log[k.event] = AlertKind[c]
    BY <2>1, <2>2, ConditionsType DEF OpenInv
  <2>4. log[k.event] = AlertKind[k.category]
    BY <1>4, <1>6 DEF KeyInv
  <2>. QED
    BY <1>6, <2>1, <2>3, <2>4, KindFacts
<1>7. Raised(k)
  <2>1. KeyInv(k)'
    BY <1>2, <1>4, GrowsKeys DEF NInv
  <2>2. /\ Receives(k.name, k.category) /\ destination[k.name].receiver < k.event
        /\ deliveries[k].attached
    BY <1>1, <1>4 DEF Deliverable, RowInv
  <2>3. k.category = "recovery" => deliveries'[k].tried
    BY <1>1, <1>4, <1>5 DEF RowInv
  <2>. QED
    BY <1>1, <1>5, <1>6, <2>1, <2>2, <2>3 DEF Raised
<1>8. Raises
  BY <1>3, <1>7 DEF Raises
<1>9. Pairs
  BY <1>1, <1>3 DEF Pairs
<1>10. Queueing
  BY <1>1, <1>2, <1>8, <1>9 DEF Queueing
<1>11. Seen' \subseteq Seen
  BY <1>1, <1>3 DEF Seen
<1>. QED
  BY <1>2, <1>10, <1>11, IncidentsKept, QueueingInv

(* A delivery of an event to who receives its category since before it.      *)
LEMMA NewKey ==
    ASSUME NInv, NEW ev \in 1 .. MaxEvents, NEW d \in Destinations, NEW c,
           Receives(d, c), destination[d].after[c] < ev,
           NEW k, k = [event |-> ev, name |-> d, category |-> c]
    PROVE  /\ k \in DeliveryIds /\ k.event = ev /\ k.name = d /\ k.category = c
           /\ Receives(k.name, k.category) /\ destination[k.name].receiver < k.event
<1>1. DestinationInv(d) /\ c \in DOMAIN destination[d].after
  BY DEF NInv, DestinationsInv, Receives
<1>2. c \in Subscribed /\ destination[d].receiver \in Nat /\ destination[d].after[c] \in Nat
        /\ destination[d].receiver <= destination[d].after[c]
  BY <1>1, LogFacts DEF NInv, DestinationInv
<1>3. k.event = ev /\ k.name = d /\ k.category = c /\ k \in DeliveryIds
  BY <1>2 DEF DeliveryIds, Events
<1>. QED
  BY <1>2, <1>3, BoundsType

LEMMA EnqueueFacts ==
    ASSUME NInv, NEW ev \in 1 .. MaxEvents, NEW c, NEW k \in Enqueue(ev, c)
    PROVE  /\ k \in DeliveryIds /\ k.event = ev /\ k.category = c
           /\ Receives(k.name, k.category) /\ destination[k.name].receiver < k.event
<1>1. PICK d \in Destinations : /\ Receives(d, c) /\ destination[d].after[c] < ev
                                /\ k = [event |-> ev, name |-> d, category |-> c]
  BY DEF Enqueue
<1>. QED
  BY <1>1, NewKey

LEMMA QueuedFacts ==
    ASSUME NEW ids
    PROVE  /\ DOMAIN Queued(ids) = DOMAIN deliveries \cup ids
           /\ \A k \in DOMAIN deliveries : Queued(ids)[k] = deliveries[k]
           /\ \A k \in ids \ DOMAIN deliveries :
                  /\ Queued(ids)[k] \in DeliveryRecord
                  /\ Queued(ids)[k].state = "pending" /\ Queued(ids)[k].attached
<1>. DEFINE new == [state |-> "pending", tried |-> FALSE, attached |-> TRUE]
<1>1. new \in DeliveryRecord /\ new.state = "pending" /\ new.attached
  BY DEF DeliveryRecord, DeliveryStates
<1>2. Queued(ids) = [k \in DOMAIN deliveries \cup ids |->
                        IF k \in DOMAIN deliveries THEN deliveries[k] ELSE new]
  BY DEF Queued
<1>. HIDE DEF new
<1>. QED
  BY <1>1, <1>2

LEMMA RecoveredFacts ==
    ASSUME NInv, NEW categories \in SUBSET FailureCategories, NEW ev,
           NEW f \in RecoveredFailures(categories, ev)
    PROVE  /\ f \in DOMAIN deliveries /\ f.category \in categories
           /\ f.event = conditions[f.category].event /\ deliveries[f].attached
           /\ Receives(f.name, "recovery") /\ destination[f.name].after["recovery"] < ev
BY DEF RecoveredFailures, InState

\* The event that clears the conditions of the categories, and no other, is
\* handled by this step, after what it clears.
ClearsNow(categories, ev) ==
    /\ ev \in 1 .. Len(log') /\ Len(log') <= MaxEvents
    /\ ~(ev <= Len(log) /\ Handled(ev))
    /\ \A x \in 1 .. Len(log') : Handled(x)' <=> (x <= Len(log) /\ Handled(x)) \/ x = ev
    /\ log'[ev] \in ClearingKinds
    /\ \A c \in FailureCategories : log'[ev] \in Clears[c] <=> c \in categories
    /\ \A c \in categories, x \in 1 .. Len(log) :
           Handled(x) /\ log[x] \in Clears[c] \cup {AlertKind[c]} => x < ev
    /\ \A c \in categories, x \in 1 .. ev - 1 :
           log'[x] \in Clears[c] => x <= Len(log) /\ Handled(x)

LEMMA ClosedConditions ==
    ASSUME NInv, Grows, NEW categories \in SUBSET FailureCategories, NEW ev,
           ClearsNow(categories, ev),
           conditions' = [c \in FailureCategories |->
                             IF c \in categories THEN NoCondition ELSE conditions[c]]
    PROVE  /\ conditions' \in [FailureCategories -> ConditionRecord]
           /\ \A c \in FailureCategories : OpenInv(c)'
<1>1. conditions' \in [FailureCategories -> ConditionRecord]
  BY ConditionsType, NoConditionType
<1>2. ASSUME NEW c \in FailureCategories PROVE OpenInv(c)'
  <2>1. CASE c \in categories
    <3>1. conditions'[c] = NoCondition
      BY <2>1
    <3>. QED
      BY <3>1, NoConditionType DEF OpenInv
  <2>2. CASE c \notin categories
    <3>1. conditions'[c] = conditions[c] /\ log'[ev] \notin Clears[c]
      BY <2>2 DEF ClearsNow
    <3>2. \A x \in 1 .. Len(log') : Handled(x)' /\ log'[x] \in Clears[c] =>
               (x <= Len(log) /\ Handled(x)) \/ conditions[c].event = 0
      BY <3>1 DEF ClearsNow
    <3>. QED
      BY <3>1, <3>2, ConditionsType, OpenStays DEF NInv
  <2>. QED
    BY <2>1, <2>2
<1>. QED
  BY <1>1, <1>2

(* A recovery is paired with alerts that its event cleared.                  *)
LEMMA RecoveredCleared ==
    ASSUME NInv, Grows, NEW categories \in SUBSET FailureCategories, NEW ev,
           ClearsNow(categories, ev), NEW f \in RecoveredFailures(categories, ev)
    PROVE  Cleared(f, ev)'
<1>1. /\ f \in DOMAIN deliveries /\ f \in Seen /\ f.category \in categories
      /\ f.category \in FailureCategories /\ f.event = conditions[f.category].event
      /\ f.event \in 1 .. Len(log) /\ f.event > 0 /\ Len(log) \in Nat
  BY RecoveredFacts, SeenKeys
<1>2. /\ OpenInv(f.category) /\ Handled(f.event) /\ log[f.event] = AlertKind[f.category]
      /\ \A x \in f.event + 1 .. Len(log) : Handled(x) => log[x] \notin Clears[f.category]
  BY <1>1, ConditionsType DEF OpenInv
<1>3. f.event < ev
  BY <1>1, <1>2 DEF ClearsNow
<1>4. ev \in Nat /\ log'[ev] \in Clears[f.category]
  BY <1>1 DEF ClearsNow
<1>5. ASSUME NEW e \in f.event + 1 .. ev - 1, log'[e] \in Clears[f.category] PROVE FALSE
  <2>1. e \in 1 .. ev - 1
    BY <1>1, <1>4
  <2>2. e <= Len(log) /\ Handled(e)
    BY <1>1, <1>5, <2>1 DEF ClearsNow
  <2>3. e \in f.event + 1 .. Len(log) /\ e \in 1 .. Len(log)
    BY <1>1, <1>4, <2>1, <2>2
  <2>4. log'[e] = log[e]
    BY <2>3 DEF Grows
  <2>. QED
    BY <1>2, <1>5, <2>2, <2>3, <2>4
<1>. QED
  BY <1>3, <1>4, <1>5 DEF Cleared

(* Every alert that waits and that the event clears is among them.           *)
LEMMA ClearedRecovered ==
    ASSUME NInv, Grows, exists, NEW categories \in SUBSET FailureCategories, NEW ev,
           ClearsNow(categories, ev), NEW k \in DOMAIN deliveries,
           k.category \in FailureCategories, deliveries[k].state = "pending",
           Cleared(k, ev)', Receives(k.name, "recovery"),
           destination[k.name].after["recovery"] < ev
    PROVE  k \in RecoveredFailures(categories, ev)
<1>1. k \in Seen /\ k.event \in Nat /\ Len(log) \in Nat /\ ev \in Nat /\ Len(log') \in Nat
  BY SeenKeys DEF ClearsNow, Grows
<1>2. k.category \in categories
  BY DEF ClearsNow, Cleared
<1>3. IncidentInv(k)
  BY <1>1 DEF NInv, IncidentsInv
<1>4. ASSUME NEW x \in k.event + 1 .. Len(log), Handled(x), log[x] \in Clears[k.category]
      PROVE  FALSE
  <2>1. x \in 1 .. Len(log)
    BY <1>1
  <2>2. x < ev /\ log'[x] = log[x]
    BY <1>2, <1>4, <2>1 DEF ClearsNow, Grows
  <2>3. x \in k.event + 1 .. ev - 1
    BY <1>1, <2>2
  <2>. QED
    BY <1>4, <2>2, <2>3 DEF Cleared
<1>5. k.event = conditions[k.category].event /\ conditions[k.category].notified
  BY <1>3, <1>4 DEF IncidentInv
<1>6. Deliverable(k)
  BY DEF NInv, OutboxInv, RowInv
<1>. QED
  BY <1>2, <1>5, <1>6 DEF RecoveredFailures, InState, Deliverable

LEMMA CloseQueues ==
    ASSUME NInv, Grows, LogInv', NEW categories \in SUBSET FailureCategories, NEW ev, NEW others,
           ClearsNow(categories, ev), CloseConditions(categories, ev, others),
           UNCHANGED <<exists, destination, worker, inbox>>,
           \A k \in others :
               /\ k \in DeliveryIds /\ k.event = ev /\ k.category = "deployment_succeeded"
               /\ Receives(k.name, k.category) /\ destination[k.name].receiver < k.event
    PROVE  Queueing /\ IncidentsInv'
<1>. DEFINE failures == RecoveredFailures(categories, ev)
            recoveries == {Recovery(f, ev) : f \in failures}
            ids == recoveries \cup others
<1>1. /\ conditions' = [c \in FailureCategories |->
                             IF c \in categories THEN NoCondition ELSE conditions[c]]
      /\ deliveries' = Queued(ids)
      /\ sources' = sources \cup {<<Recovery(f, ev), f>> : f \in failures}
  BY DEF CloseConditions
<1>2. /\ Len(log) \in Nat /\ Len(log') \in Nat /\ ev \in 1 .. Len(log') /\ ev \in 1 .. MaxEvents
      /\ Handled(ev)' /\ log'[ev] \in ClearingKinds
  BY LogFacts, BoundsType DEF NInv, ClearsNow, Grows
<1>3. ASSUME NEW f \in failures, NEW k, k = Recovery(f, ev)
      PROVE  /\ k \in DeliveryIds /\ k.event = ev /\ k.category = "recovery" /\ k.name = f.name
             /\ Receives(k.name, k.category) /\ destination[k.name].receiver < k.event
             /\ <<k, f>> \in sources' /\ k \in ids
  <2>1. /\ f \in DOMAIN deliveries /\ f.name \in Destinations
        /\ Receives(f.name, "recovery") /\ destination[f.name].after["recovery"] < ev
    BY RecoveredFacts, SeenKeys
  <2>2. k = [event |-> ev, name |-> f.name, category |-> "recovery"]
    BY <1>3 DEF Recovery
  <2>3. <<k, f>> \in sources' /\ k \in ids
    BY <1>1, <1>3
  <2>. QED
    BY <1>2, <2>1, <2>2, <2>3, NewKey
<1>4. ASSUME NEW k \in ids
      PROVE  /\ k \in DeliveryIds /\ k.event = ev
             /\ k.category \in {"recovery", "deployment_succeeded"}
             /\ k.category \notin FailureCategories
             /\ Receives(k.name, k.category) /\ destination[k.name].receiver < k.event
             /\ k.category = "recovery" =>
                    \E f \in failures : k = Recovery(f, ev) /\ k.name = f.name
  <2>1. "recovery" \notin FailureCategories /\ "deployment_succeeded" \notin FailureCategories
    BY KindFacts
  <2>2. CASE k \in others
    BY <2>1, <2>2
  <2>3. CASE k \in recoveries
    <3>1. PICK f \in failures : k = Recovery(f, ev)
      BY <2>3
    <3>. QED
      BY <1>3, <2>1, <3>1
  <2>. QED
    BY <2>2, <2>3
<1>5. \A k \in ids : k \notin Seen /\ k \notin DOMAIN deliveries
  <2>. SUFFICES ASSUME NEW k \in ids, k \in Seen PROVE FALSE
    BY SeenKeys
  <2>1. k.event = ev /\ k.event <= Len(log) /\ Handled(k.event)
    BY <1>4, SeenKeys DEF KeyInv
  <2>. QED
    BY <2>1 DEF ClearsNow
<1>6. /\ DOMAIN deliveries' = DOMAIN deliveries \cup ids
      /\ \A k \in DOMAIN deliveries : deliveries'[k] = deliveries[k]
      /\ \A k \in ids : /\ deliveries'[k] \in DeliveryRecord
                        /\ deliveries'[k].state = "pending" /\ deliveries'[k].attached
  <2>. HIDE DEF ids
  <2>. QED
    BY <1>1, <1>5, QueuedFacts
<1>. HIDE DEF ids, recoveries, failures
<1>7. ASSUME NEW k \in ids PROVE Raised(k)
  <2>1. KeyInv(k)'
    BY <1>2, <1>4 DEF KeyInv
  <2>2. k.category = "recovery" => \E s \in sources' : s[1] = k
    <3>. SUFFICES ASSUME k.category = "recovery" PROVE \E s \in sources' : s[1] = k
      OBVIOUS
    <3>1. PICK f \in failures : k = Recovery(f, ev)
      BY <1>4
    <3>2. <<k, f>> \in sources' /\ <<k, f>>[1] = k
      BY <1>3, <3>1
    <3>. QED
      BY <3>2
  <2>. QED
    BY <1>4, <1>5, <1>6, <2>1, <2>2 DEF Raised
<1>8. Raises
  BY <1>6, <1>7 DEF Raises
<1>9. ASSUME NEW s \in sources' \ sources
      PROVE  /\ s = <<s[1], s[2]>> /\ s[1] \in DOMAIN deliveries' /\ s[2] \in DOMAIN deliveries'
             /\ s[1].category = "recovery" /\ s[2].category \in FailureCategories
             /\ s[1].name = s[2].name /\ Cleared(s[2], s[1].event)'
             /\ deliveries'[s[2]].attached
  <2>1. PICK f \in failures : s = <<Recovery(f, ev), f>>
    BY <1>1
  <2>2. /\ f \in DOMAIN deliveries /\ f.category \in FailureCategories /\ deliveries[f].attached
        /\ Cleared(f, ev)'
    BY RecoveredFacts, RecoveredCleared DEF failures
  <2>3. s[1] = Recovery(f, ev) /\ s[2] = f /\ s = <<s[1], s[2]>>
    BY <2>1
  <2>4. s[1].event = ev /\ s[1].category = "recovery" /\ s[1].name = f.name /\ s[1] \in ids
    BY <1>3, <2>3
  <2>. QED
    BY <1>6, <2>2, <2>3, <2>4
<1>10. ASSUME exists, NEW r \in DOMAIN deliveries' \ DOMAIN deliveries, NEW k \in DOMAIN deliveries,
              r.category = "recovery", k.category \in FailureCategories,
              deliveries[k].state = "pending", r.name = k.name, Cleared(k, r.event)'
       PROVE  <<r, k>> \in sources'
  <2>1. r \in ids
    BY <1>6
  <2>2. PICK f \in failures : r = Recovery(f, ev) /\ r.name = f.name
    BY <1>4, <1>10, <2>1
  <2>3. Receives(k.name, "recovery") /\ destination[k.name].after["recovery"] < ev
    BY <1>10, <2>2, RecoveredFacts DEF failures
  <2>4. Cleared(k, ev)'
    BY <1>4, <1>10, <2>1
  <2>5. k \in failures
    BY <1>10, <2>3, <2>4, ClearedRecovered DEF failures
  <2>6. Recovery(k, ev) = r
    BY <1>10, <2>2 DEF Recovery
  <2>. QED
    BY <1>1, <2>5, <2>6
<1>11. Pairs
  BY <1>1, <1>9, <1>10, Zenon DEF Pairs
<1>12. Queueing
  BY <1>8, <1>11 DEF Queueing
<1>13. \A k \in Seen' : k \in Seen \/ k.category \notin FailureCategories
  BY <1>4, <1>6 DEF Seen
<1>14. ASSUME exists, NEW f \in Seen, f.category \in FailureCategories PROVE IncidentInv(f)'
  <2>1. IncidentInv(f) /\ f.event \in 1 .. Len(log) /\ f.event \in Nat /\ KeyInv(f)
    BY <1>14, SeenKeys DEF NInv, IncidentsInv
  <2>2. \A x \in 1 .. Len(log) : /\ log'[x] = log[x] /\ x \in 1 .. Len(log')
                                 /\ Handled(x) => Handled(x)'
    BY GrowsHandled DEF NInv
  <2>3. CASE f.category \in categories
    <3>1. conditions'[f.category].event = 0
      BY <1>1, <1>14, <2>3, NoConditionType
    <3>2. f.event < ev /\ log'[ev] \in Clears[f.category]
      BY <1>14, <2>1, <2>3 DEF KeyInv, ClearsNow
    <3>3. ev \in f.event + 1 .. Len(log')
      BY <1>2, <2>1, <3>2
    <3>. QED
      BY <1>2, <3>1, <3>2, <3>3 DEF IncidentInv
  <2>4. CASE f.category \notin categories
    <3>1. conditions'[f.category] = conditions[f.category]
      BY <1>1, <1>14, <2>4
    <3>2. CASE f.event = conditions[f.category].event /\ conditions[f.category].notified
      BY <3>1, <3>2 DEF IncidentInv
    <3>3. ASSUME NEW x \in f.event + 1 .. Len(log), Handled(x), log[x] \in Clears[f.category],
                 conditions[f.category].event # 0 => x < conditions[f.category].event
          PROVE  IncidentInv(f)'
      <4>1. x \in 1 .. Len(log)
        BY <1>2, <2>1
      <4>2. x \in f.event + 1 .. Len(log') /\ Handled(x)' /\ log'[x] = log[x]
        BY <1>2, <2>1, <2>2, <3>3, <4>1
      <4>. QED
        BY <3>1, <3>3, <4>2 DEF IncidentInv
    <3>. QED
      BY <2>1, <3>2, <3>3 DEF IncidentInv
  <2>. QED
    BY <2>3, <2>4
<1>15. ASSUME exists, NEW f \in Seen, NEW g \in Seen, f.category \in FailureCategories,
              f.category = g.category, f.event < g.event
       PROVE  ClearedBetween(f, g)'
  <2>1. ClearedBetween(f, g) /\ f.event \in Nat /\ g.event \in 1 .. Len(log)
    BY <1>15, SeenKeys DEF NInv, IncidentsInv
  <2>2. \A x \in f.event + 1 .. g.event - 1 : log'[x] = log[x]
    BY <1>2, <2>1 DEF Grows
  <2>. QED
    BY <2>1, <2>2 DEF ClearedBetween
<1>16. IncidentsInv'
  BY <1>13, <1>14, <1>15 DEF IncidentsInv
<1>. QED
  BY <1>12, <1>16

LEMMA ObserveRecoveryInv ==
    ASSUME NInv, ObserveRecovery
    PROVE  NInv'
<1>1. /\ exists /\ observed # "recovered" /\ observed' = "recovered"
      /\ UNCHANGED <<gone, cursor, exists, destination, worker, inbox>>
  BY DEF ObserveRecovery
<1>2. /\ LogInv /\ ConditionsInv /\ Len(log) \in Nat /\ log \in Seq(Kinds)
      /\ cursor \in 0 .. Len(log) /\ gone \subseteq 1 .. Len(log)
  BY LogFacts DEF NInv, LogInv
<1>3. gone = {}
  BY <1>1, <1>2 DEF ConditionsInv
<1>4. CASE observed = "unknown"
  <2>1. UNCHANGED <<log, conditions, outbox>>
    BY <1>4 DEF ObserveRecovery
  <2>2. LogInv'
    BY <1>1, <1>2, <2>1 DEF LogInv, Recorded
  <2>3. Grows /\ IncidentsStay
    BY <1>1, <1>2, <2>1 DEF Grows, IncidentsStay
  <2>4. ConditionsInv'
    BY <1>1, <1>2, <1>3, <1>4, <2>1 DEF ConditionsInv, OpenInv, Handled
  <2>. QED
    BY <1>1, <2>1, <2>2, <2>3, <2>4, OutboxKept, FadingInv DEF Fading
<1>5. CASE observed = "failed"
  <2>. DEFINE ev == Len(log) + 1
              categories == {"service_degradation"}
  <2>1. Record("recovered") /\ CloseConditions(categories, ev, {})
    BY <1>5 DEF ObserveRecovery
  <2>2. /\ Grows /\ Len(log') = ev /\ log'[ev] = "recovered" /\ Len(log') <= MaxEvents /\ LogInv'
    <3>1. "recovered" \in Kinds
      BY DEF Kinds, EnvironmentKinds
    <3>. QED
      BY <1>1, <1>2, <1>3, <2>1, <3>1, RecordLog
  <2>3. categories \in SUBSET FailureCategories
    BY KindFacts
  <2>4. \A x \in 1 .. Len(log) : log'[x] = log[x]
    BY <2>2 DEF Grows
  <2>5. ClearsNow(categories, ev)
    <3>1. ev \in 1 .. Len(log') /\ ~(ev <= Len(log))
      BY <1>2, <2>2
    <3>2. \A x \in 1 .. Len(log') : Handled(x)' <=> (x <= Len(log) /\ Handled(x)) \/ x = ev
      <4>. SUFFICES ASSUME NEW x \in 1 .. Len(log')
           PROVE  Handled(x)' <=> (x <= Len(log) /\ Handled(x)) \/ x = ev
        OBVIOUS
      <4>1. CASE x = ev
        BY <2>2, <4>1 DEF Handled
      <4>2. CASE x # ev
        <5>1. x \in 1 .. Len(log) /\ log'[x] = log[x]
          BY <1>2, <2>2, <2>4, <4>2
        <5>. QED
          BY <1>1, <4>2, <5>1 DEF Handled
      <4>. QED
        BY <4>1, <4>2
    <3>3. /\ log'[ev] \in ClearingKinds
          /\ \A c \in FailureCategories : log'[ev] \in Clears[c] <=> c \in categories
      BY <2>2, KindFacts DEF ClearingKinds
    <3>4. \A x \in 1 .. Len(log) : x < ev
      BY <1>2
    <3>5. \A c \in categories, x \in 1 .. ev - 1 :
              log'[x] \in Clears[c] => x <= Len(log) /\ Handled(x)
      BY <1>2, <2>4, KindFacts DEF Handled
    <3>. QED
      BY <2>2, <3>1, <3>2, <3>3, <3>4, <3>5 DEF ClearsNow
  <2>. HIDE DEF ev, categories
  <2>6. Queueing /\ IncidentsInv'
    BY <1>1, <2>1, <2>2, <2>3, <2>5, CloseQueues
  <2>7. conditions' = [c \in FailureCategories |->
                           IF c \in categories THEN NoCondition ELSE conditions[c]]
    BY <2>1 DEF CloseConditions
  <2>8. /\ conditions' \in [FailureCategories -> ConditionRecord]
        /\ \A c \in FailureCategories : OpenInv(c)'
    BY <2>2, <2>3, <2>5, <2>7, ClosedConditions
  <2>9. conditions'["service_degradation"].event = 0
    BY <2>7, KindFacts, NoConditionType DEF categories
  <2>10. ConditionsInv'
    BY <1>1, <1>3, <2>8, <2>9 DEF ConditionsInv
  <2>. QED
    BY <2>2, <2>6, <2>10, QueueingInv
<1>. QED
  BY <1>4, <1>5 DEF ObserveRecovery

\* The event opens an incident of the category, or notifies of it: earlier
\* alerts of the category were cleared before it.
OpensNow(c, ev, ids) ==
    /\ c \in FailureCategories /\ ev \in 1 .. MaxEvents /\ ev <= Len(log')
    /\ Handled(ev)' /\ log'[ev] = AlertKind[c]
    /\ conditions'[c].event = ev
    /\ \A b \in FailureCategories \ {c} : conditions'[b] = conditions[b]
    /\ ids # {} => conditions'[c].notified
    /\ \A k \in ids : /\ k \in DeliveryIds /\ k.event = ev /\ k.category = c /\ k \notin Seen
                      /\ Receives(k.name, k.category) /\ destination[k.name].receiver < k.event
    /\ DOMAIN deliveries' = DOMAIN deliveries \cup ids
    /\ \A k \in DOMAIN deliveries : deliveries'[k] = deliveries[k]
    /\ \A k \in ids : /\ deliveries'[k] \in DeliveryRecord
                      /\ deliveries'[k].state = "pending" /\ deliveries'[k].attached
    /\ exists => \A k \in Seen : k.category = c =>
           \E x \in k.event + 1 .. ev - 1 :
               x <= Len(log) /\ Handled(x) /\ log[x] \in Clears[c]

LEMMA OpenQueues ==
    ASSUME NInv, Grows, LogInv', ConditionsInv',
           UNCHANGED <<exists, destination, worker, inbox, sources>>,
           NEW c, NEW ev, NEW ids, OpensNow(c, ev, ids)
    PROVE  Queueing /\ IncidentsInv'
<1>. USE DEF OpensNow
<1>1. /\ Len(log) \in Nat /\ Len(log') \in Nat /\ Len(log) <= Len(log') /\ ev \in Nat
      /\ c # "recovery"
  BY LogFacts, KindFacts, BoundsType DEF NInv, Grows
<1>2. ASSUME NEW k \in ids PROVE Raised(k)
  <2>1. KeyInv(k)'
    BY <1>1 DEF KeyInv
  <2>. QED
    BY <1>1, <2>1 DEF Raised
<1>3. Raises
  BY <1>2 DEF Raises
<1>4. Pairs
  BY <1>1 DEF Pairs
<1>5. Queueing
  BY <1>3, <1>4 DEF Queueing
<1>6. \A k \in Seen' : k \in Seen \/ k \in ids
  BY DEF Seen
<1>7. \A x \in 1 .. Len(log) : /\ log'[x] = log[x] /\ x \in 1 .. Len(log')
                               /\ Handled(x) => Handled(x)'
  BY GrowsHandled DEF NInv
<1>8. ASSUME exists, NEW f \in Seen', f.category \in FailureCategories PROVE IncidentInv(f)'
  <2>1. CASE f \in ids
    BY <2>1 DEF IncidentInv
  <2>2. CASE f \in Seen /\ f.category = c
    <3>1. PICK x \in f.event + 1 .. ev - 1 :
                   x <= Len(log) /\ Handled(x) /\ log[x] \in Clears[c]
      BY <1>8, <2>2
    <3>2. f.event \in Nat
      BY <2>2, SeenKeys
    <3>3. x \in 1 .. Len(log) /\ x \in f.event + 1 .. Len(log') /\ x < ev
      BY <1>1, <3>1, <3>2
    <3>4. Handled(x)' /\ log'[x] \in Clears[f.category]
      BY <1>7, <2>2, <3>1, <3>3
    <3>. QED
      BY <2>2, <3>3, <3>4 DEF IncidentInv
  <2>3. CASE f \in Seen /\ f.category # c
    <3>1. conditions'[f.category] = conditions[f.category] /\ IncidentInv(f) /\ f.event \in Nat
      BY <1>8, <2>3, SeenKeys DEF NInv, IncidentsInv
    <3>2. CASE f.event = conditions[f.category].event /\ conditions[f.category].notified
      BY <3>1, <3>2 DEF IncidentInv
    <3>3. ASSUME NEW x \in f.event + 1 .. Len(log), Handled(x), log[x] \in Clears[f.category],
                 conditions[f.category].event # 0 => x < conditions[f.category].event
          PROVE  IncidentInv(f)'
      <4>1. x \in 1 .. Len(log) /\ x \in f.event + 1 .. Len(log')
        BY <1>1, <3>1
      <4>2. Handled(x)' /\ log'[x] = log[x]
        BY <1>7, <3>3, <4>1
      <4>. QED
        BY <3>1, <3>3, <4>1, <4>2 DEF IncidentInv
    <3>. QED
      BY <3>1, <3>2, <3>3 DEF IncidentInv
  <2>. QED
    BY <1>6, <2>1, <2>2, <2>3
<1>9. ASSUME exists, NEW f \in Seen', NEW g \in Seen', f.category \in FailureCategories,
             f.category = g.category, f.event < g.event
      PROVE  ClearedBetween(f, g)'
  <2>1. CASE f \in Seen /\ g \in Seen
    <3>1. ClearedBetween(f, g) /\ f.event \in Nat /\ g.event \in 1 .. Len(log)
      BY <1>9, <2>1, SeenKeys DEF NInv, IncidentsInv
    <3>2. \A x \in f.event + 1 .. g.event - 1 : log'[x] = log[x]
      BY <1>1, <1>7, <3>1
    <3>. QED
      BY <3>1, <3>2 DEF ClearedBetween
  <2>2. CASE f \in Seen /\ g \in ids
    <3>1. f.category = c /\ g.event = ev
      BY <1>9, <2>2
    <3>2. PICK x \in f.event + 1 .. ev - 1 :
                   x <= Len(log) /\ Handled(x) /\ log[x] \in Clears[c]
      BY <1>9, <2>2, <3>1
    <3>3. f.event \in Nat
      BY <2>2, SeenKeys
    <3>4. x \in 1 .. Len(log)
      BY <1>1, <3>2, <3>3
    <3>5. log'[x] \in Clears[f.category]
      BY <1>7, <3>1, <3>2, <3>4
    <3>. QED
      BY <3>1, <3>2, <3>5 DEF ClearedBetween
  <2>3. CASE f \in ids /\ g \in Seen
    <3>1. g.category = c /\ f.event = ev
      BY <1>9, <2>3
    <3>2. PICK x \in g.event + 1 .. ev - 1 : TRUE
      BY <1>9, <2>3, <3>1
    <3>3. g.event \in Nat
      BY <2>3, SeenKeys
    <3>. QED
      BY <1>1, <1>9, <3>1, <3>2, <3>3
  <2>4. CASE f \in ids /\ g \in ids
    BY <1>1, <1>9, <2>4
  <2>. QED
    BY <1>6, <2>1, <2>2, <2>3, <2>4
<1>10. IncidentsInv'
  BY <1>8, <1>9 DEF IncidentsInv
<1>. QED
  BY <1>5, <1>10

LEMMA ObserveFailureInv ==
    ASSUME NInv, NEW gap \in BOOLEAN, ObserveFailure(gap)
    PROVE  NInv'
<1>. DEFINE sd == "service_degradation"
            health == conditions[sd]
            changed == observed # "failed"
            window == Window(changed, gap)
            told == (window >= SustainedAfter)
            first == IF changed THEN Len(log) + 1 ELSE health.event
<1>0. /\ IF changed THEN Record("failed") ELSE log' = log
      /\ conditions' = [conditions EXCEPT ![sd] =
             [event |-> first, notified |-> told, window |-> window]]
      /\ deliveries' = IF told THEN Queued(Enqueue(first, sd)) ELSE deliveries
  BY DEF ObserveFailure
<1>1. /\ exists /\ (changed \/ ~health.notified) /\ observed' = "failed"
      /\ UNCHANGED <<gone, cursor, exists, destination, sources, worker, inbox>>
  BY DEF ObserveFailure
<1>2. /\ LogInv /\ ConditionsInv /\ Len(log) \in Nat /\ log \in Seq(Kinds)
      /\ cursor \in 0 .. Len(log) /\ gone \subseteq 1 .. Len(log) /\ Len(log) <= MaxEvents
  BY LogFacts DEF NInv, LogInv
<1>3. gone = {}
  BY <1>1, <1>2 DEF ConditionsInv
<1>4. /\ sd \in FailureCategories /\ AlertKind[sd] = "failed" /\ OpenInv(sd)
      /\ health.event \in 0 .. MaxEvents /\ health.window \in 0 .. SustainedAfter
      /\ (~changed <=> health.event # 0)
  BY <1>2, KindFacts, ConditionsType DEF ConditionsInv
<1>5. ASSUME exists, NEW k \in Seen, k.category = sd, ~health.notified
      PROVE  \E x \in k.event + 1 .. Len(log) :
                 /\ Handled(x) /\ log[x] \in Clears[sd]
                 /\ health.event # 0 => x < health.event
  BY <1>4, <1>5 DEF NInv, IncidentsInv, IncidentInv
<1>6. CASE changed
  <2>. SUFFICES ASSUME NEW ev, ev = Len(log) + 1 PROVE NInv'
    OBVIOUS
  <2>. DEFINE new == [event |-> ev, notified |-> told, window |-> window]
              ids == {}
  <2>1. window = 0 /\ told \in BOOLEAN /\ ~told
    BY <1>6, BoundsType DEF Window
  <2>2. /\ Record("failed") /\ conditions' = [conditions EXCEPT ![sd] = new]
        /\ deliveries' = deliveries
    BY <1>0, <1>6, <2>1
  <2>. HIDE DEF told, window
  <2>3. /\ Grows /\ Len(log') = ev /\ log'[ev] = "failed" /\ Len(log') <= MaxEvents /\ LogInv'
    <3>1. "failed" \in Kinds
      BY DEF Kinds, EnvironmentKinds
    <3>. QED
      BY <1>1, <1>2, <1>3, <2>2, <3>1, RecordLog
  <2>4. ev \in 1 .. MaxEvents /\ ev <= Len(log') /\ Handled(ev)' /\ ev \in Nat /\ ev # 0
    BY <1>2, <2>3, BoundsType DEF Handled
  <2>5. /\ new \in ConditionRecord /\ new.event = ev /\ ~new.notified
        /\ new.window < SustainedAfter
    BY <2>1, <2>4, BoundsType DEF ConditionRecord
  <2>. HIDE DEF new
  <2>6. /\ conditions'[sd] = new
        /\ \A b \in FailureCategories \ {sd} : conditions'[b] = conditions[b]
        /\ conditions' \in [FailureCategories -> ConditionRecord]
    BY <1>4, <2>2, <2>5, ConditionsType
  <2>7. ASSUME NEW b \in FailureCategories PROVE OpenInv(b)'
    <3>1. CASE b = sd
      <4>1. /\ conditions'[b].event = ev /\ ~conditions'[b].notified
            /\ conditions'[b].window < SustainedAfter
        BY <2>5, <2>6, <3>1
      <4>2. \A x \in ev + 1 .. Len(log') : FALSE
        BY <2>3, <2>4
      <4>3. log'[ev] = AlertKind[b]
        BY <1>4, <2>3, <3>1
      <4>. QED
        BY <2>4, <4>1, <4>2, <4>3 DEF OpenInv
    <3>2. CASE b # sd
      <4>1. conditions'[b] = conditions[b] /\ OpenInv(b) /\ conditions[b].event \in Nat
        BY <2>6, <3>2, ConditionsType
      <4>2. "failed" \notin Clears[b]
        BY KindFacts
      <4>3. \A x \in 1 .. Len(log') : Handled(x)' /\ log'[x] \in Clears[b] =>
                x <= Len(log) /\ Handled(x)
        <5>. SUFFICES ASSUME NEW x \in 1 .. Len(log'), Handled(x)', log'[x] \in Clears[b]
             PROVE  x <= Len(log) /\ Handled(x)
          OBVIOUS
        <5>1. x # ev
          BY <2>3, <4>2
        <5>2. x \in 1 .. Len(log) /\ log'[x] = log[x]
          BY <1>2, <2>3, <5>1 DEF Grows
        <5>. QED
          BY <1>1, <5>2 DEF Handled
      <4>. QED
        BY <1>2, <2>3, <4>1, <4>3, OpenStays
    <3>. QED
      BY <3>1, <3>2
  <2>8. ConditionsInv'
    BY <1>1, <1>3, <2>4, <2>5, <2>6, <2>7 DEF ConditionsInv
  <2>9. ~health.notified
    BY <1>4, <1>6 DEF OpenInv
  <2>10. exists => \A k \in Seen : k.category = sd =>
               \E x \in k.event + 1 .. ev - 1 :
                   x <= Len(log) /\ Handled(x) /\ log[x] \in Clears[sd]
    <3>. SUFFICES ASSUME NEW k \in Seen, k.category = sd
         PROVE  \E x \in k.event + 1 .. ev - 1 :
                   x <= Len(log) /\ Handled(x) /\ log[x] \in Clears[sd]
      OBVIOUS
    <3>1. PICK x \in k.event + 1 .. Len(log) : Handled(x) /\ log[x] \in Clears[sd]
      BY <1>1, <1>5, <2>9
    <3>2. k.event \in Nat
      BY SeenKeys
    <3>3. x \in k.event + 1 .. ev - 1 /\ x <= Len(log)
      BY <1>2, <3>1, <3>2
    <3>. QED
      BY <3>1, <3>3
  <2>. HIDE DEF ids
  <2>11. /\ ids = {} /\ DOMAIN deliveries' = DOMAIN deliveries \cup ids
    BY <2>2 DEF ids
  <2>12. OpensNow(sd, ev, ids)
    <3>1. ~conditions'[sd].notified /\ conditions'[sd].event = ev
      BY <2>5, <2>6
    <3>2. log'[ev] = AlertKind[sd]
      BY <1>4, <2>3
    <3>. QED
      BY <1>4, <2>2, <2>4, <2>6, <2>10, <2>11, <3>1, <3>2 DEF OpensNow
  <2>. HIDE DEF sd
  <2>13. Queueing /\ IncidentsInv'
    BY <1>1, <2>3, <2>8, <2>12, OpenQueues
  <2>. QED
    BY <2>3, <2>8, <2>13, QueueingInv
<1>7. CASE ~changed
  <2>. SUFFICES ASSUME NEW ev, ev = health.event PROVE NInv'
    OBVIOUS
  <2>. DEFINE new == [event |-> ev, notified |-> told, window |-> window]
  <2>1. /\ log' = log /\ conditions' = [conditions EXCEPT ![sd] = new]
        /\ deliveries' = IF told THEN Queued(Enqueue(ev, sd)) ELSE deliveries
    BY <1>0, <1>7
  <2>2. /\ ev \in 1 .. MaxEvents /\ ev <= Len(log) /\ Handled(ev) /\ log[ev] = "failed"
        /\ health.window < SustainedAfter /\ ~health.notified
        /\ \A x \in ev + 1 .. Len(log) : Handled(x) => log[x] \notin Clears[sd]
    BY <1>1, <1>4, <1>7, BoundsType DEF OpenInv
  <2>3. window \in {0, health.window + 1}
    BY DEF Window
  <2>4. /\ window \in 0 .. SustainedAfter /\ told \in BOOLEAN
        /\ (~told => window < SustainedAfter)
    BY <1>4, <2>2, <2>3, BoundsType
  <2>. HIDE DEF told, window
  <2>5. /\ new \in ConditionRecord /\ new.event = ev /\ new.notified = told
        /\ new.window = window
    BY <2>2, <2>4 DEF ConditionRecord
  <2>. HIDE DEF new
  <2>6. /\ conditions'[sd] = new
        /\ \A b \in FailureCategories \ {sd} : conditions'[b] = conditions[b]
        /\ conditions' \in [FailureCategories -> ConditionRecord]
    BY <1>4, <2>1, <2>5, ConditionsType
  <2>7. LogInv' /\ Grows
    BY <1>1, <1>2, <2>1 DEF LogInv, Recorded, Grows
  <2>8. \A x : Handled(x)' <=> Handled(x)
    BY <1>1, <2>1 DEF Handled
  <2>9. ASSUME NEW b \in FailureCategories PROVE OpenInv(b)'
    <3>1. CASE b = sd
      <4>1. /\ conditions'[b].event = ev /\ ev # 0
            /\ ~conditions'[b].notified => conditions'[b].window < SustainedAfter
        BY <2>2, <2>4, <2>5, <2>6, <3>1
      <4>. QED
        BY <1>4, <2>1, <2>2, <2>8, <3>1, <4>1 DEF OpenInv
    <3>2. CASE b # sd
      <4>1. conditions'[b] = conditions[b] /\ OpenInv(b)
        BY <2>6, <3>2, ConditionsType
      <4>. QED
        BY <2>1, <2>8, <4>1 DEF OpenInv
    <3>. QED
      BY <3>1, <3>2
  <2>10. ConditionsInv'
    BY <1>1, <1>3, <2>2, <2>5, <2>6, <2>9 DEF ConditionsInv
  <2>11. CASE told
    <3>. DEFINE ids == Enqueue(ev, sd)
    <3>1. exists => \A k \in Seen : k.category = sd =>
               \E x \in k.event + 1 .. ev - 1 :
                   x <= Len(log) /\ Handled(x) /\ log[x] \in Clears[sd]
      <4>. SUFFICES ASSUME NEW k \in Seen, k.category = sd
           PROVE  \E x \in k.event + 1 .. ev - 1 :
                   x <= Len(log) /\ Handled(x) /\ log[x] \in Clears[sd]
        OBVIOUS
      <4>1. PICK x \in k.event + 1 .. Len(log) :
                     Handled(x) /\ log[x] \in Clears[sd] /\ x < ev
        BY <1>1, <1>5, <2>2
      <4>2. k.event \in Nat
        BY SeenKeys
      <4>3. x \in k.event + 1 .. ev - 1 /\ x <= Len(log)
        BY <1>2, <2>2, <4>1, <4>2
      <4>. QED
        BY <4>1, <4>3
    <3>2. \A k \in ids : /\ k \in DeliveryIds /\ k.event = ev /\ k.category = sd
                         /\ Receives(k.name, k.category)
                         /\ destination[k.name].receiver < k.event
      BY <2>2, EnqueueFacts
    <3>. HIDE DEF ids
    <3>3. \A k \in ids : k \notin Seen
      <4>. SUFFICES ASSUME NEW k \in ids, k \in Seen PROVE FALSE
        OBVIOUS
      <4>1. k.category = sd /\ k.event = ev
        BY <3>2
      <4>2. PICK x \in ev + 1 .. ev - 1 : TRUE
        BY <1>1, <3>1, <4>1
      <4>. QED
        BY <2>2, <4>2
    <3>4. deliveries' = Queued(ids)
      BY <2>1, <2>11 DEF ids
    <3>5. /\ DOMAIN deliveries' = DOMAIN deliveries \cup ids
          /\ \A k \in DOMAIN deliveries : deliveries'[k] = deliveries[k]
          /\ \A k \in ids : /\ deliveries'[k] \in DeliveryRecord
                            /\ deliveries'[k].state = "pending" /\ deliveries'[k].attached
      <4>1. \A k \in ids : k \notin DOMAIN deliveries
        BY <3>3, SeenKeys
      <4>. QED
        BY <3>4, <4>1, QueuedFacts
    <3>6. conditions'[sd].event = ev /\ conditions'[sd].notified
      BY <2>5, <2>6, <2>11
    <3>7. Handled(ev)' /\ log'[ev] = AlertKind[sd] /\ ev <= Len(log')
      BY <1>4, <2>1, <2>2, <2>8
    <3>8. OpensNow(sd, ev, ids)
      BY <1>4, <2>2, <2>6, <3>1, <3>2, <3>3, <3>5, <3>6, <3>7 DEF OpensNow
    <3>. HIDE DEF sd
    <3>9. Queueing /\ IncidentsInv'
      BY <1>1, <2>7, <2>10, <3>8, OpenQueues
    <3>. QED
      BY <2>7, <2>10, <3>9, QueueingInv
  <2>12. CASE ~told
    <3>1. IncidentsStay
      BY <1>1, <2>2, <2>5, <2>6, <2>12 DEF IncidentsStay
    <3>2. UNCHANGED <<outbox, destination>>
      BY <1>1, <2>1, <2>12 DEF outbox
    <3>. QED
      BY <1>1, <2>7, <2>10, <3>1, <3>2, OutboxKept, FadingInv DEF Fading
  <2>. QED
    BY <2>11, <2>12
<1>. QED
  BY <1>6, <1>7

-----------------------------------------------------------------------------
(* Reading events *)

\* The next event is read.
Reads(ev) ==
    /\ ev = cursor + 1 /\ cursor' = ev /\ ev <= Len(log)
    /\ UNCHANGED <<log, gone, observed, exists, destination, worker, inbox>>

LEMMA ReadsFacts ==
    ASSUME NInv, NEW ev, Reads(ev)
    PROVE  /\ ev \in 1 .. Len(log) /\ ev \in 1 .. MaxEvents /\ cursor \in Nat /\ Len(log) \in Nat
           /\ log[ev] \in Kinds /\ Grows /\ LogInv' /\ Handled(ev)'
           /\ \A x \in 1 .. Len(log) : Handled(x)' <=> Handled(x) \/ x = ev
           /\ \A x \in 1 .. Len(log) :
                  log[x] \notin {"failed", "recovered"} => (Handled(x) <=> x < ev)
           /\ \A k \in Seen : log[k.event] \notin {"failed", "recovered"} => k.event < ev
<1>1. /\ LogInv /\ log \in Seq(Kinds) /\ Len(log) \in Nat /\ cursor \in 0 .. Len(log)
      /\ Len(log) <= MaxEvents /\ \A e \in 1 .. Len(log) : log[e] \in Kinds
  BY LogFacts DEF NInv, LogInv
<1>2. ev \in 1 .. Len(log) /\ ev \in 1 .. MaxEvents /\ cursor \in Nat
  BY <1>1, BoundsType DEF Reads
<1>3. Grows
  BY <1>1, <1>2 DEF Reads, Grows
<1>4. LogInv'
  BY <1>1, <1>2 DEF Reads, LogInv, Recorded
<1>5. \A x \in 1 .. Len(log) : Handled(x)' <=> Handled(x) \/ x = ev
  BY <1>1, <1>2 DEF Reads, Handled
<1>6. \A x \in 1 .. Len(log) :
          log[x] \notin {"failed", "recovered"} => (Handled(x) <=> x < ev)
  BY <1>1, <1>2 DEF Reads, Handled
<1>7. \A k \in Seen : log[k.event] \notin {"failed", "recovered"} => k.event < ev
  BY <1>6, SeenKeys DEF KeyInv
<1>. QED
  BY <1>1, <1>2, <1>3, <1>4, <1>5, <1>6, <1>7

(* An event that clears no open condition.                                   *)
LEMMA ReadsNothing ==
    ASSUME NInv, NEW ev, Reads(ev), conditions' = conditions,
           \A c \in FailureCategories :
               conditions[c].event # 0 /\ log[ev] \in Clears[c] => Handled(ev)
    PROVE  ConditionsInv' /\ IncidentsStay
<1>1. /\ LogInv /\ ConditionsInv /\ log' = log /\ gone' = gone /\ exists' = exists
      /\ observed' = observed
  BY DEF NInv, Reads
<1>2. Len(log) \in Nat /\ \A x \in 1 .. Len(log) : Handled(x)' <=> Handled(x) \/ x = ev
  BY ReadsFacts
<1>3. ASSUME NEW c \in FailureCategories PROVE OpenInv(c)'
  <2>1. \A x \in 1 .. Len(log') : Handled(x)' /\ log'[x] \in Clears[c] =>
               (x <= Len(log) /\ Handled(x)) \/ conditions[c].event = 0
    BY <1>1, <1>2
  <2>. QED
    BY <1>1, <2>1, ReadsFacts, ConditionsType, OpenStays
<1>4. ConditionsInv'
  BY <1>1, <1>3 DEF ConditionsInv
<1>. QED
  BY <1>1, <1>4 DEF IncidentsStay

LEMMA ReadsKept ==
    ASSUME NInv, NEW ev, Reads(ev), UNCHANGED <<conditions, outbox>>,
           \A c \in FailureCategories :
               conditions[c].event # 0 /\ log[ev] \in Clears[c] => Handled(ev)
    PROVE  NInv'
<1>1. UNCHANGED <<outbox, destination>> /\ worker' = worker /\ inbox' = inbox /\ conditions' = conditions
  BY DEF Reads
<1>. QED
  BY <1>1, ReadsFacts, ReadsNothing, OutboxKept, FadingInv DEF Fading

LEMMA ReadsClose ==
    ASSUME NInv, NEW ev, Reads(ev), log[ev] \in {"operation_succeeded", "operation_deleted"},
           NEW others, CloseConditions({"build_failures", "deployment_failures"}, ev, others),
           \A k \in others :
               /\ k \in DeliveryIds /\ k.event = ev /\ k.category = "deployment_succeeded"
               /\ Receives(k.name, k.category) /\ destination[k.name].receiver < k.event
    PROVE  NInv'
<1>. DEFINE categories == {"build_failures", "deployment_failures"}
<1>1. /\ Grows /\ LogInv' /\ Len(log) \in Nat /\ ev \in 1 .. Len(log) /\ log' = log
      /\ Len(log) <= MaxEvents
      /\ UNCHANGED <<exists, destination, worker, inbox>> /\ gone' = gone /\ observed' = observed
  BY ReadsFacts, LogFacts DEF Reads, NInv
<1>2. categories \in SUBSET FailureCategories
  BY DEF FailureCategories, EnvironmentFailures
<1>3. ClearsNow(categories, ev)
  <2>1. log[ev] \notin {"failed", "recovered"} /\ log[ev] \in ClearingKinds
    BY DEF ClearingKinds
  <2>2. \A x \in 1 .. Len(log') : Handled(x)' <=> (x <= Len(log) /\ Handled(x)) \/ x = ev
    BY <1>1, ReadsFacts
  <2>3. ~Handled(ev)
    BY <1>1, <2>1, ReadsFacts
  <2>4. \A c \in FailureCategories : log[ev] \in Clears[c] <=> c \in categories
    BY DEF FailureCategories, EnvironmentFailures, Clears
  <2>5. \A c \in categories : /\ AlertKind[c] \notin {"failed", "recovered"}
                              /\ Clears[c] \cap {"failed", "recovered"} = {}
    BY DEF AlertKind, Clears
  <2>6. \A c \in categories, x \in 1 .. Len(log) :
            Handled(x) /\ log[x] \in Clears[c] \cup {AlertKind[c]} => x < ev
    BY <2>5, ReadsFacts
  <2>7. \A c \in categories, x \in 1 .. ev - 1 :
            log'[x] \in Clears[c] => x <= Len(log) /\ Handled(x)
    <3>. SUFFICES ASSUME NEW c \in categories, NEW x \in 1 .. ev - 1, log'[x] \in Clears[c]
         PROVE  x <= Len(log) /\ Handled(x)
      OBVIOUS
    <3>1. x \in 1 .. Len(log) /\ x < ev
      BY <1>1
    <3>. QED
      BY <1>1, <2>5, <3>1, ReadsFacts
  <2>. HIDE DEF categories
  <2>. QED
    BY <1>1, <2>1, <2>2, <2>3, <2>4, <2>6, <2>7 DEF ClearsNow
<1>4. CloseConditions(categories, ev, others)
  OBVIOUS
<1>5. /\ "service_degradation" \notin categories /\ "service_degradation" \in FailureCategories
      /\ EnvironmentFailures \subseteq FailureCategories
  BY DEF FailureCategories, EnvironmentFailures
<1>. HIDE DEF categories
<1>6. Queueing /\ IncidentsInv'
  BY <1>1, <1>2, <1>3, <1>4, CloseQueues
<1>7. conditions' = [c \in FailureCategories |->
                         IF c \in categories THEN NoCondition ELSE conditions[c]]
  BY <1>4 DEF CloseConditions
<1>8. /\ conditions' \in [FailureCategories -> ConditionRecord]
      /\ \A c \in FailureCategories : OpenInv(c)'
  BY <1>1, <1>2, <1>3, <1>7, ClosedConditions
<1>9. /\ conditions'["service_degradation"] = conditions["service_degradation"]
      /\ \A c \in EnvironmentFailures : conditions[c].event = 0 => conditions'[c].event = 0
  BY <1>5, <1>7, NoConditionType
<1>10. ConditionsInv'
  BY <1>1, <1>8, <1>9 DEF NInv, ConditionsInv
<1>. QED
  BY <1>1, <1>6, <1>10, QueueingInv

LEMMA ReadsOccurrence ==
    ASSUME NInv, NEW ev, Reads(ev), log[ev] \in Occurrences,
           deliveries' = Queued(Enqueue(ev, log[ev])), UNCHANGED <<conditions, sources>>
    PROVE  NInv'
<1>. DEFINE ids == Enqueue(ev, log[ev])
<1>1. /\ Grows /\ LogInv' /\ Len(log) \in Nat /\ ev \in 1 .. Len(log) /\ log' = log
      /\ Handled(ev)' /\ ev \in 1 .. MaxEvents
      /\ UNCHANGED <<exists, destination, worker, inbox>> /\ conditions' = conditions
      /\ sources' = sources
  BY ReadsFacts DEF Reads
<1>2. /\ log[ev] \notin FailureCategories /\ log[ev] # "recovery"
      /\ log[ev] \notin {"failed", "recovered"} /\ log[ev] \notin ClearingKinds
  BY DEF Occurrences, FailureCategories, EnvironmentFailures, ClearingKinds
<1>3. ConditionsInv' /\ IncidentsStay
  BY <1>1, <1>2, ReadsNothing, KindFacts
<1>4. \A k \in ids : /\ k \in DeliveryIds /\ k.event = ev /\ k.category = log[ev]
                     /\ Receives(k.name, k.category) /\ destination[k.name].receiver < k.event
  BY <1>1, EnqueueFacts
<1>. HIDE DEF ids
<1>5. \A k \in ids : k \notin Seen /\ k \notin DOMAIN deliveries
  <2>. SUFFICES ASSUME NEW k \in ids, k \in Seen PROVE FALSE
    BY SeenKeys
  <2>1. k.event = ev /\ k.event < ev
    BY <1>2, <1>4, ReadsFacts
  <2>. QED
    BY <1>1, <2>1
<1>6. /\ DOMAIN deliveries' = DOMAIN deliveries \cup ids
      /\ \A k \in DOMAIN deliveries : deliveries'[k] = deliveries[k]
      /\ \A k \in ids : /\ deliveries'[k] \in DeliveryRecord
                        /\ deliveries'[k].state = "pending" /\ deliveries'[k].attached
  <2>. SUFFICES ASSUME NEW outboxed, outboxed = Queued(ids), deliveries' = outboxed
       PROVE  /\ DOMAIN outboxed = DOMAIN deliveries \cup ids
              /\ \A k \in DOMAIN deliveries : outboxed[k] = deliveries[k]
              /\ \A k \in ids : /\ outboxed[k] \in DeliveryRecord
                                /\ outboxed[k].state = "pending" /\ outboxed[k].attached
    BY DEF ids
  <2>. QED
    BY <1>5, QueuedFacts
<1>7. ASSUME NEW k \in ids PROVE Raised(k)
  <2>1. KeyInv(k)'
    BY <1>1, <1>2, <1>4 DEF KeyInv
  <2>. QED
    BY <1>2, <1>4, <1>5, <1>6, <2>1 DEF Raised
<1>8. Raises
  BY <1>6, <1>7 DEF Raises
<1>9. Pairs
  BY <1>1, <1>2, <1>4, <1>6 DEF Pairs
<1>10. Queueing
  BY <1>1, <1>8, <1>9 DEF Queueing
<1>11. \A k \in Seen' : k \in Seen \/ k.category \notin FailureCategories
  BY <1>1, <1>2, <1>4, <1>6 DEF Seen
<1>12. IncidentsInv'
  BY <1>1, <1>3, <1>11, IncidentsKept
<1>. QED
  BY <1>1, <1>3, <1>10, <1>12, QueueingInv

LEMMA ReadsOpen ==
    ASSUME NInv, NEW ev, Reads(ev), ev \notin gone, NEW c \in FailureCategories \ {"service_degradation"},
           log[ev] = AlertKind[c], conditions[c].event = 0,
           conditions' = [conditions EXCEPT
                             ![c] = [event |-> ev, notified |-> TRUE, window |-> 0]],
           deliveries' = Queued(Enqueue(ev, c)), sources' = sources
    PROVE  NInv'
<1>. DEFINE ids == Enqueue(ev, c)
            new == [event |-> ev, notified |-> TRUE, window |-> 0]
<1>1. /\ Grows /\ LogInv' /\ Len(log) \in Nat /\ ev \in 1 .. Len(log) /\ log' = log
      /\ Handled(ev)' /\ ev \in 1 .. MaxEvents /\ ev # 0
      /\ UNCHANGED <<exists, destination, worker, inbox, sources>>
      /\ gone' = gone /\ observed' = observed
  BY ReadsFacts DEF Reads
<1>2. /\ AlertKind[c] \notin {"failed", "recovered"} /\ Clears[c] \cap {"failed", "recovered"} = {}
      /\ AlertKind[c] \notin ClearingKinds /\ Clears[c] \subseteq ClearingKinds
      /\ c \in EnvironmentFailures => AlertKind[c] \in EnvironmentKinds
  BY DEF FailureCategories, EnvironmentFailures, AlertKind, Clears, ClearingKinds, EnvironmentKinds
<1>3. new \in ConditionRecord /\ new.event = ev /\ new.notified
  BY <1>1, BoundsType DEF ConditionRecord
<1>. HIDE DEF new
<1>4. /\ conditions'[c] = new
      /\ \A b \in FailureCategories \ {c} : conditions'[b] = conditions[b]
      /\ conditions' \in [FailureCategories -> ConditionRecord]
  BY <1>3, ConditionsType DEF new
<1>5. \A b \in FailureCategories : log[ev] \notin Clears[b]
  BY <1>2, KindFacts
<1>6. ASSUME NEW b \in FailureCategories PROVE OpenInv(b)'
  <2>1. \A x \in 1 .. Len(log) : Handled(x)' <=> Handled(x) \/ x = ev
    BY ReadsFacts
  <2>2. CASE b = c
    <3>1. conditions'[b].event = ev /\ conditions'[b].notified /\ ev <= Len(log')
            /\ log'[ev] = AlertKind[b]
      BY <1>1, <1>3, <1>4, <2>2
    <3>2. ASSUME NEW x \in ev + 1 .. Len(log'), Handled(x)' PROVE log'[x] \notin Clears[b]
      <4>1. x \in 1 .. Len(log) /\ x # ev /\ ~(x < ev)
        BY <1>1
      <4>2. Handled(x)
        BY <2>1, <3>2, <4>1
      <4>3. log[x] \in {"failed", "recovered"}
        BY <4>1, <4>2, ReadsFacts
      <4>. QED
        BY <1>1, <1>2, <2>2, <4>3
    <3>. QED
      BY <1>1, <3>1, <3>2 DEF OpenInv
  <2>3. CASE b # c
    <3>1. conditions'[b] = conditions[b] /\ OpenInv(b) /\ conditions[b].event \in Nat
      BY <1>4, <2>3, ConditionsType
    <3>2. \A x \in 1 .. Len(log') : Handled(x)' /\ log'[x] \in Clears[b] =>
                (x <= Len(log) /\ Handled(x)) \/ conditions[b].event = 0
      BY <1>1, <1>5, <2>1
    <3>. QED
      BY <1>1, <3>1, <3>2, OpenStays DEF NInv
  <2>. QED
    BY <2>2, <2>3
<1>7. ConditionsInv'
  <2>1. ConditionsInv /\ "service_degradation" \in FailureCategories \ {c}
    BY KindFacts DEF NInv
  <2>2. observed' = "failed" <=> conditions'["service_degradation"].event # 0
    BY <1>1, <1>4, <2>1 DEF ConditionsInv
  <2>3. ASSUME gone # {}
        PROVE  /\ ~exists
               /\ \A e \in 1 .. Len(log) : log[e] \in EnvironmentKinds => e \in gone
               /\ \A b \in EnvironmentFailures : conditions'[b].event = 0
    <3>1. /\ ~exists
          /\ \A e \in 1 .. Len(log) : log[e] \in EnvironmentKinds => e \in gone
          /\ \A b \in EnvironmentFailures : conditions[b].event = 0
      BY <2>1, <2>3 DEF ConditionsInv
    <3>2. c \notin EnvironmentFailures
      BY <1>1, <1>2, <3>1
    <3>3. EnvironmentFailures \subseteq FailureCategories
      BY DEF FailureCategories
    <3>. QED
      BY <1>4, <3>1, <3>2, <3>3
  <2>. QED
    BY <1>1, <1>4, <1>6, <2>2, <2>3 DEF ConditionsInv
<1>8. \A k \in ids : /\ k \in DeliveryIds /\ k.event = ev /\ k.category = c
                     /\ Receives(k.name, k.category) /\ destination[k.name].receiver < k.event
  BY <1>1, EnqueueFacts
<1>. HIDE DEF ids
<1>9. \A k \in ids : k \notin Seen /\ k \notin DOMAIN deliveries
  <2>. SUFFICES ASSUME NEW k \in ids, k \in Seen PROVE FALSE
    BY SeenKeys
  <2>1. k.event = ev /\ k.event < ev
    BY <1>2, <1>8, ReadsFacts
  <2>. QED
    BY <1>1, <2>1
<1>10. /\ DOMAIN deliveries' = DOMAIN deliveries \cup ids
       /\ \A k \in DOMAIN deliveries : deliveries'[k] = deliveries[k]
       /\ \A k \in ids : /\ deliveries'[k] \in DeliveryRecord
                         /\ deliveries'[k].state = "pending" /\ deliveries'[k].attached
  <2>. SUFFICES ASSUME NEW outboxed, outboxed = Queued(ids), deliveries' = outboxed
       PROVE  /\ DOMAIN outboxed = DOMAIN deliveries \cup ids
              /\ \A k \in DOMAIN deliveries : outboxed[k] = deliveries[k]
              /\ \A k \in ids : /\ outboxed[k] \in DeliveryRecord
                                /\ outboxed[k].state = "pending" /\ outboxed[k].attached
    BY DEF ids
  <2>. QED
    BY <1>9, QueuedFacts
<1>11. exists => \A k \in Seen : k.category = c =>
           \E x \in k.event + 1 .. ev - 1 :
               x <= Len(log) /\ Handled(x) /\ log[x] \in Clears[c]
  <2>. SUFFICES ASSUME exists, NEW k \in Seen, k.category = c
       PROVE  \E x \in k.event + 1 .. ev - 1 :
                  x <= Len(log) /\ Handled(x) /\ log[x] \in Clears[c]
    OBVIOUS
  <2>1. IncidentInv(k) /\ k.event \in Nat /\ k.event > 0
    BY SeenKeys DEF NInv, IncidentsInv
  <2>2. PICK x \in k.event + 1 .. Len(log) : Handled(x) /\ log[x] \in Clears[c]
    BY <2>1 DEF IncidentInv
  <2>3. x \in 1 .. Len(log) /\ log[x] \notin {"failed", "recovered"}
    BY <1>1, <1>2, <2>1, <2>2
  <2>4. x < ev
    BY <2>2, <2>3, ReadsFacts
  <2>5. x \in k.event + 1 .. ev - 1 /\ x <= Len(log)
    BY <1>1, <2>1, <2>3, <2>4
  <2>. QED
    BY <2>2, <2>5
<1>12. OpensNow(c, ev, ids)
  <2>1. conditions'[c].event = ev /\ conditions'[c].notified /\ log'[ev] = AlertKind[c]
          /\ ev <= Len(log')
    BY <1>1, <1>3, <1>4
  <2>. QED
    BY <1>1, <1>4, <1>8, <1>9, <1>10, <1>11, <2>1 DEF OpensNow
<1>13. Queueing /\ IncidentsInv'
  BY <1>1, <1>7, <1>12, OpenQueues
<1>. QED
  BY <1>1, <1>7, <1>13, QueueingInv

LEMMA ProcessInv ==
    ASSUME NInv, Process
    PROVE  NInv'
<1>. SUFFICES ASSUME NEW ev, ev = cursor + 1 PROVE NInv'
  OBVIOUS
<1>1. Reads(ev)
  <2>1. cursor \in Nat /\ Len(log) \in Nat
    BY LogFacts DEF NInv, LogInv
  <2>. QED
    BY <2>1 DEF Process, Reads
<1>2. ev \in 1 .. Len(log) /\ ev \in 1 .. MaxEvents /\ ConditionsInv
  BY <1>1, ReadsFacts DEF NInv
<1>3. CASE ev \in gone /\ UNCHANGED <<conditions, outbox>>
  <2>1. \A c \in FailureCategories : conditions[c].event = 0 \/ Clears[c] = {}
    BY <1>2, <1>3, KindFacts DEF ConditionsInv, FailureCategories
  <2>. QED
    BY <1>1, <1>3, <2>1, ReadsKept
<1>4. CASE ev \notin gone /\ Apply(ev)
  <2>1. CASE /\ log[ev] = "operation_succeeded"
             /\ CloseConditions({"build_failures", "deployment_failures"}, ev,
                                Enqueue(ev, "deployment_succeeded"))
    <3>1. \A k \in Enqueue(ev, "deployment_succeeded") :
               /\ k \in DeliveryIds /\ k.event = ev /\ k.category = "deployment_succeeded"
               /\ Receives(k.name, k.category) /\ destination[k.name].receiver < k.event
      BY <1>2, EnqueueFacts
    <3>. QED
      BY <1>1, <2>1, <3>1, ReadsClose
  <2>2. CASE /\ log[ev] = "operation_deleted"
             /\ CloseConditions({"build_failures", "deployment_failures"}, ev, {})
    BY <1>1, <2>2, ReadsClose
  <2>3. CASE /\ log[ev] \in Occurrences /\ deliveries' = Queued(Enqueue(ev, log[ev]))
             /\ UNCHANGED <<conditions, sources>>
    BY <1>1, <2>3, ReadsOccurrence
  <2>4. ASSUME log[ev] \in DOMAIN CategoryOf, NEW c, c = CategoryOf[log[ev]], Opens(c),
               conditions' = [conditions EXCEPT
                                 ![c] = [event |-> ev, notified |-> TRUE, window |-> 0]],
               deliveries' = Queued(Enqueue(ev, c)), sources' = sources
        PROVE  NInv'
    <3>1. c \in FailureCategories \ {"service_degradation"} /\ log[ev] = AlertKind[c]
      BY <2>4 DEF CategoryOf, AlertKind, FailureCategories, EnvironmentFailures
    <3>2. conditions[c].event = 0
      BY <2>4 DEF Opens
    <3>. QED
      BY <1>1, <1>4, <2>4, <3>1, <3>2, ReadsOpen
  <2>5. CASE /\ log[ev] \in DOMAIN CategoryOf
             /\ UNCHANGED <<conditions, deliveries, sources>>
    <3>1. log[ev] \notin ClearingKinds
      BY <2>5 DEF CategoryOf, ClearingKinds
    <3>2. \A c \in FailureCategories : log[ev] \notin Clears[c]
      BY <3>1, KindFacts
    <3>. QED
      BY <1>1, <2>5, <3>2, ReadsKept DEF outbox
  <2>6. CASE log[ev] \in {"failed", "recovered"} /\ UNCHANGED <<conditions, outbox>>
    <3>1. Handled(ev)
      BY <2>6 DEF Handled
    <3>. QED
      BY <1>1, <2>6, <3>1, ReadsKept
  <2>. QED
    BY <1>4, <2>1, <2>2, <2>3, <2>4, <2>5, <2>6 DEF Apply
<1>. QED
  BY <1>3, <1>4 DEF Process

-----------------------------------------------------------------------------
(* The invariant *)

LEMMA InitInv == Init => NInv
<1>. SUFFICES ASSUME Init PROVE NInv
  OBVIOUS
<1>1. /\ log = <<>> /\ gone = {} /\ cursor = 0 /\ observed = "unknown" /\ exists = TRUE
      /\ conditions = [c \in FailureCategories |-> NoCondition]
      /\ deliveries = <<>> /\ sources = {} /\ worker = Idle /\ inbox = {}
  BY DEF Init
<1>2. Len(log) = 0 /\ DOMAIN log = {} /\ DOMAIN deliveries = {} /\ log \in Seq(Kinds)
  BY <1>1
<1>3. LogInv
  <2>1. \A kinds : Recorded(kinds) = 0
    <3>1. \A kinds : {e \in DOMAIN log : log[e] \in kinds} = {}
      BY <1>2
    <3>2. Cardinality({}) = 0
      BY FS_EmptySet
    <3>. QED
      BY <3>1, <3>2, Zenon DEF Recorded
  <2>2. 0 \in 0 .. Len(log) /\ gone \subseteq 1 .. Len(log)
    BY <1>1, <1>2
  <2>. QED
    BY <1>1, <1>2, <2>1, <2>2, BoundsType DEF LogInv
<1>4. DestinationsInv
  <2>1. PICK enabled \in BOOLEAN :
           destination = [d \in Destinations |->
               [known |-> TRUE, receiver |-> 0, enabled |-> enabled, selects |-> TRUE,
                after |-> [c \in Subscribed |-> 0]]]
    BY DEF Init
  <2>2. ASSUME NEW d \in Destinations
        PROVE  destination[d].receiver = 0 /\ destination[d].after = [c \in Subscribed |-> 0]
    BY <2>1
  <2>3. DOMAIN destination = Destinations
    BY <2>1
  <2>4. ASSUME NEW d \in Destinations PROVE DestinationInv(d)
    BY <1>2, <2>2 DEF DestinationInv
  <2>. QED
    BY <2>3, <2>4 DEF DestinationsInv
<1>5. ConditionsInv
  <2>1. conditions \in [FailureCategories -> ConditionRecord]
    BY <1>1, NoConditionType
  <2>2. \A c \in FailureCategories : conditions[c] = NoCondition
    BY <1>1
  <2>3. \A c \in FailureCategories : OpenInv(c)
    BY <2>2, NoConditionType DEF OpenInv
  <2>. QED
    BY <1>1, <2>1, <2>2, <2>3, NoConditionType, KindFacts DEF ConditionsInv
<1>6. worker.result = "idle" /\ worker \in WorkerRecord
  BY <1>1 DEF Idle, WorkerRecord
<1>7. Seen = {}
  BY <1>1, <1>2, <1>6 DEF Seen
<1>8. KeysInv /\ IncidentsInv
  BY <1>7 DEF KeysInv, IncidentsInv
<1>9. OutboxInv /\ SourcesInv /\ InboxInv
  BY <1>1, <1>2 DEF OutboxInv, SourcesInv, InboxInv, RecoveryFollowsFailure
<1>10. WorkerInv
  BY <1>1, <1>6 DEF WorkerInv
<1>. QED
  BY <1>3, <1>4, <1>5, <1>8, <1>9, <1>10 DEF NInv

LEMMA StutterInv ==
    ASSUME NInv, UNCHANGED vars
    PROVE  NInv'
<1>1. /\ UNCHANGED <<events, incidents>> /\ UNCHANGED <<outbox, destination>>
      /\ worker' = worker /\ inbox' = inbox
  BY DEF vars, events, incidents, outbox
<1>. QED
  BY <1>1, QuietEvents, OutboxKept, FadingInv DEF Fading

LEMMA NextInv ==
    ASSUME NInv, [Next]_vars
    PROVE  NInv'
<1>1. ASSUME NEW kind \in Reported, Report(kind) PROVE NInv'
  BY <1>1, ReportInv
<1>2. CASE Process
  BY <1>2, ProcessInv
<1>3. ASSUME NEW gap \in BOOLEAN, ObserveFailure(gap) PROVE NInv'
  BY <1>3, ObserveFailureInv
<1>4. CASE ObserveRecovery
  BY <1>4, ObserveRecoveryInv
<1>5. ASSUME NEW last \in BOOLEAN, DeleteEnvironment(last) PROVE NInv'
  BY <1>5, DeleteEnvironmentInv
<1>6. ASSUME NEW last \in 1 .. cursor, Prune(last) PROVE NInv'
  BY <1>6, PruneInv
<1>7. ASSUME NEW x \in SUBSET Expirable, ClaimNothing(x) PROVE NInv'
  BY <1>7, ClaimNothingInv
<1>8. ASSUME NEW x \in SUBSET Expirable, NEW k \in DOMAIN deliveries, Claim(k, x) PROVE NInv'
  BY <1>8, ClaimInvariant
<1>9. CASE Abandon
  BY <1>9, AbandonInv
<1>10. ASSUME NEW result \in DOMAIN OutcomeOf, NEW arrives \in BOOLEAN, Post(result, arrives)
       PROVE  NInv'
  BY <1>10, PostInv
<1>11. CASE Complete
  BY <1>11, CompleteInv
<1>12. CASE Restart
  BY <1>12, RestartInv
<1>13. ASSUME NEW k \in DOMAIN deliveries, Retry(k) PROVE NInv'
  BY <1>13, RetryInv
<1>14. ASSUME NEW d \in Destinations, NEW replaced \in BOOLEAN, NEW new \in Settings,
              PutDestination(d, replaced, new)
       PROVE  NInv'
  BY <1>14, PutDestinationInv
<1>15. ASSUME NEW d \in Destinations, DeleteDestination(d) PROVE NInv'
  BY <1>15, DeleteDestinationInv
<1>16. CASE UNCHANGED vars
  BY <1>16, StutterInv
<1>. QED
  BY <1>1, <1>2, <1>3, <1>4, <1>5, <1>6, <1>7, <1>8, <1>9, <1>10, <1>11, <1>12, <1>13, <1>14,
     <1>15, <1>16, Zenon DEF Next, WorkerStep

\* The inductive invariant: handled events, conditions, the outbox, its
\* pairings, the worker's claim and what receivers got fit together in every
\* reachable state, for all destinations, settings and numbers of events.
THEOREM NotificationsInvariant == Spec => []NInv
<1>1. Init => NInv
  BY InitInv
<1>2. NInv /\ [Next]_vars => NInv'
  BY NextInv
<1>. QED
  BY <1>1, <1>2, PTL DEF Spec

\* A receiver gets a recovery only of an incident it got an alert of, whatever
\* crashes of the worker, retries by hand and edits of its destination came
\* between.
THEOREM NotificationsRecoveryFollowsFailure == Spec => []RecoveryFollowsFailure
<1>1. NInv => RecoveryFollowsFailure
  BY DEF NInv, InboxInv
<1>. QED
  BY <1>1, NotificationsInvariant, PTL

\* Two alerts of a category at a destination are about incidents with a
\* recovery between them, although events are read late, pruned and repeated.
THEOREM NotificationsOneAlertPerIncident == Spec => []OneAlertPerIncident
<1>1. NInv => OneAlertPerIncident
  <2>. SUFFICES ASSUME NInv, exists, NEW f \in Alerts, NEW g \in Alerts,
                       f.category = g.category, f.category \in FailureCategories,
                       f.event < g.event
       PROVE  \E c \in f.event + 1 .. g.event - 1 : log[c] \in Clears[f.category]
    BY DEF OneAlertPerIncident
  <2>1. f \in Seen /\ g \in Seen
    BY DEF Alerts, Seen
  <2>. QED
    BY <2>1 DEF NInv, IncidentsInv, ClearedBetween
<1>. QED
  BY <1>1, NotificationsInvariant, PTL

\* What waits to be sent is wanted by the present settings of its destination,
\* and its receiver is older than its event.
THEOREM NotificationsNothingUnwantedIsQueued == Spec => []NothingUnwantedIsQueued
<1>1. NInv => NothingUnwantedIsQueued
  <2>. SUFFICES ASSUME NInv, NEW k \in DOMAIN deliveries, deliveries[k].state = "pending"
       PROVE  Deliverable(k) /\ destination[k.name].receiver < k.event
    BY DEF NothingUnwantedIsQueued, InState
  <2>. QED
    BY DEF NInv, OutboxInv, RowInv, Deliverable
<1>. QED
  BY <1>1, NotificationsInvariant, PTL

\* A recovery that waits for its alerts to settle is still paired with them,
\* whatever was pruned or deleted; and the state is well-typed.
THEOREM NotificationsRecoveryKeepsItsFailures == Spec => []RecoveryKeepsItsFailures
<1>1. ASSUME NInv PROVE NTypeOK
  <2>1. /\ log \in Seq(Kinds) /\ Len(log) <= MaxEvents /\ cursor \in 0 .. Len(log)
        /\ observed \in {"unknown", "failed", "recovered"} /\ exists \in BOOLEAN
        /\ gone \subseteq DOMAIN log
    BY <1>1, LogFacts DEF NInv, LogInv
  <2>2. conditions \in [FailureCategories ->
           [event : 0 .. MaxEvents, notified : BOOLEAN, window : 0 .. SustainedAfter]]
    BY <1>1, ConditionsType DEF ConditionRecord
  <2>3. DOMAIN destination = Destinations /\ DOMAIN deliveries \subseteq DeliveryIds
    BY <1>1, SeenKeys DEF NInv, DestinationsInv
  <2>4. \A k \in DOMAIN deliveries :
           deliveries[k] \in [state : {"pending", "delivered", "failed", "cancelled"},
                              tried : BOOLEAN, attached : BOOLEAN]
    BY <1>1 DEF NInv, OutboxInv, RowInv, DeliveryRecord, DeliveryStates
  <2>5. \A s \in sources : s[1].category = "recovery" /\ s[2].category \in FailureCategories
    BY <1>1 DEF NInv, SourcesInv
  <2>6. /\ worker.result \in {"idle", "claimed", "delivered", "retry", "rejected"}
        /\ worker # Idle => worker.delivery \in DeliveryIds
    BY <1>1 DEF NInv, WorkerInv, WorkerRecord, WorkingInv
  <2>. QED
    BY <2>1, <2>2, <2>3, <2>4, <2>5, <2>6 DEF NTypeOK
<1>2. ASSUME NInv, NEW r \in InState({"pending"}), r.category = "recovery", ~deliveries[r].tried
      PROVE  Sources(r) # {}
  <2>1. PICK s \in sources : s[1] = r
    BY <1>2 DEF NInv, OutboxInv, RowInv, InState
  <2>2. s[2] \in Sources(r)
    BY <2>1 DEF Sources
  <2>. QED
    BY <2>2
<1>3. NInv => RecoveryKeepsItsFailures
  BY <1>1, <1>2 DEF RecoveryKeepsItsFailures
<1>. QED
  BY <1>3, NotificationsInvariant, PTL

\* A receiver that got the recovery of an incident is never posted its alert
\* again, by an automatic retry, a retry by hand or after a crash.
THEOREM NotificationsAlertIsNotReplayed == Spec => AlertIsNotReplayed
<1>. DEFINE Replayed ==
        \E r \in inbox : /\ r[1] = worker.receiver /\ r[2].name = worker.delivery.name
                         /\ r[2].category = "recovery"
                         /\ Cleared(worker.delivery, r[2].event)
            Step == worker.result = "claimed" /\ worker'.result \in DOMAIN OutcomeOf
                      /\ worker.delivery.category \in FailureCategories /\ exists
                      => ~Replayed
<1>1. NInv => Step
  <2>. SUFFICES ASSUME NInv, worker.result = "claimed", exists,
                       worker.delivery.category \in FailureCategories
       PROVE  ~Replayed
    OBVIOUS
  <2>1. ClaimInv(worker.delivery)
    BY DEF NInv, WorkerInv, WorkingInv
  <2>. QED
    BY <2>1 DEF ClaimInv
<1>2. NInv /\ [Next]_vars => [Step]_vars
  BY <1>1
<1>3. AlertIsNotReplayed <=> [][Step]_vars
  BY Zenon DEF AlertIsNotReplayed
<1>. HIDE DEF Step
<1>. QED
  BY <1>2, <1>3, NotificationsInvariant, PTL DEF Spec

==============================================================================
