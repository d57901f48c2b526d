-------------------------- MODULE BridgeRecordProofs --------------------------
(***************************************************************************)
(* What the bridge answers, and what becomes of the deliveries it has      *)
(* answered.  AlertBridgeProofs shows where the holder of the lock may     *)
(* write; here the records it reads are shown to be the ones it takes them *)
(* for, so that no delivery meets an unreadable session or is rejected,    *)
(* and a held delivery is followed to its session.                         *)
(***************************************************************************)
EXTENDS AlertBridgeProofs

-----------------------------------------------------------------------------
(* The records of the sessions *)

\* The occurrences Alertmanager reports.
Starts == {id[2] : id \in Alerts}

\* A delivery that was sent, received by time at.
Received(d, at) == d.receivedAt <= at /\ DeliveryId(d) \in Alerts

\* The record of occurrence t of the followed alert, as of time at.
RecordOf(s, t, at) ==
    /\ Sound(s, at)
    /\ s.fingerprint = Fingerprint
    /\ s.alertId = AlertId
    /\ s.startsAt = t
    /\ t \in Starts

\* Whatever is still to be applied was received by now.
DeliveriesStamped ==
    /\ \A d \in requests : Received(d, now)
    /\ \A i \in DOMAIN agenda : Received(agenda[i], now)
    /\ \A c \in memory.checkpoint \cup disk.checkpoint : Received(c.delivery, now)

\* Every session and every write to one, given up on or not, is the record of
\* its occurrence, the holder's write the one of the delivery in hand.
RecordInv ==
    /\ \A t \in DOMAIN sessions : RecordOf(sessions[t], t, now)
    /\ \A p \in patch \cup late : RecordOf(p.state, p.occurrence, now)
    /\ \A p \in patch : p.occurrence = Current.startsAt
    /\ DeliveriesStamped
    /\ outcome \notin {"consistency", "rejected"}

-----------------------------------------------------------------------------
(* Held deliveries *)

\* At most one delivery is held, a firing one of another occurrence than the
\* one that blocks it.
OneIsHeld(state) ==
    /\ \A c1, c2 \in state.checkpoint : c1 = c2
    /\ \A c \in state.checkpoint : /\ c.delivery.alertStatus = "firing"
                                   /\ c.delivery.startsAt # c.blockedBy

\* The held delivery is replayed before the request's own; when that is over,
\* it has its session or still waits for the attempt in flight, and then the
\* request's own delivery does not move the route.
ReplayedFirst ==
    /\ Len(agenda) = 2 => /\ memory.checkpoint # {}
                          /\ \A c \in memory.checkpoint : c.delivery = agenda[1]
    /\ Len(agenda) = 1 /\ step \in Working =>
          \A c \in memory.checkpoint :
              \/ c.delivery.startsAt \in DOMAIN sessions
              \/ /\ HasRunningAttempt(sessions[memory.route])
                 /\ step = "advance" => Current.startsAt <= memory.route

\* No session is newer than the route, but for the one just written.
NewestRouted ==
    \A t \in DOMAIN sessions :
        \/ t <= memory.route
        \/ step = "advance" /\ t = Current.startsAt

\* While nothing fails and the agent's writers keep out of the bridge's way.
QuietInv ==
    /\ disk = memory
    /\ ~sweeping
    /\ step # "down"
    /\ late = {}
    /\ ReplayedFirst
    /\ NewestRouted
    /\ NoAlertVanishes

\* Whatever fails: the file holds a delivery only under the route in use.
HeldInv ==
    /\ OneIsHeld(memory) /\ OneIsHeld(disk)
    /\ disk.checkpoint # {} => memory.route = disk.route

-----------------------------------------------------------------------------
(* Lemmas about one record *)

\* A record of the followed alert decodes, is the one its key says and never
\* rejects a delivery; what the decision says of the occurrences.
LEMMA DecisionOnRecord ==
    ASSUME NEW s \in Incidents, NEW t \in Time, NEW at, RecordOf(s, t, at),
           NEW d \in AlertDeliveries
    PROVE  /\ ValidIncident(s) /\ OccurrenceId(s) = <<Fingerprint, t>>
           /\ Decision(s, d) # "rejected"
           /\ Decision(s, d) \in {"updated", "duplicate", "stale_refire"} =>
                 d.startsAt = t
           /\ Decision(s, d) \in {"new_occurrence", "deferred_new_occurrence"} =>
                 d.startsAt # t /\ d.alertStatus = "firing"
           /\ Decision(s, d) = "deferred_new_occurrence" => HasRunningAttempt(s)
           /\ Decision(s, d) = "orphan_resolved" => d.alertStatus = "resolved"
<1>1. ValidIncident(s) /\ s.startsAt = t /\ s.fingerprint = Fingerprint /\ s.alertId = AlertId
  BY SoundDecodes DEF RecordOf
<1>2. ValidDelivery(d) /\ d.fingerprint = Fingerprint /\ d.alertId = AlertId
      /\ d.alertStatus \in {"firing", "resolved"}
  BY DEF AlertDeliveries
<1> QED BY <1>1, <1>2 DEF Decision, DecisionOtherOccurrence, OccurrenceId

\* The reducer keeps the identity of the record and its soundness.
LEMMA DeliveryKeepsRecord ==
    ASSUME NEW s \in Incidents, NEW t \in Time, NEW at \in Time, RecordOf(s, t, at),
           NEW d \in AlertDeliveries, Received(d, at)
    PROVE  RecordOf(Reduced(s, d), t, at)
<1>1. Sound(Reduced(s, d), at)
  BY BridgeConstants, DeliveryKeepsSound DEF RecordOf, Received
<1>2. /\ Reduced(s, d).fingerprint = s.fingerprint
      /\ Reduced(s, d).alertId = s.alertId
      /\ Reduced(s, d).startsAt = s.startsAt
  BY DEF Reduced, Counted, Remembered, Incidents
<1> QED BY <1>1, <1>2 DEF RecordOf

\* The record a firing delivery creates is the one of its occurrence.
LEMMA CreatedIsRecord ==
    ASSUME NEW d \in AlertDeliveries, d.alertStatus = "firing",
           NEW at \in Time, Received(d, at)
    PROVE  RecordOf(CreateIncident(d), d.startsAt, at)
<1>1. d \in Deliveries /\ d.endsAt = None /\ d.startsAt <= d.receivedAt /\ d.receivedAt \in Int
  <2>1. d \in Deliveries /\ ValidDelivery(d)
    BY BridgeConstants
  <2> QED BY <2>1, ConstantTypes DEF ValidDelivery, Deliveries
<1>2. CreateIncident(d) \in Incidents /\ Sound(CreateIncident(d), d.receivedAt)
  BY <1>1, CreatedIsSound, CreateIncidentType
<1>3. Sound(CreateIncident(d), at)
  BY <1>1, <1>2, SoundLater, ConstantTypes DEF Received
<1>4. /\ CreateIncident(d).fingerprint = Fingerprint
      /\ CreateIncident(d).alertId = AlertId
      /\ CreateIncident(d).startsAt = d.startsAt
  BY DEF CreateIncident, AlertDeliveries
<1>5. d.startsAt \in Starts
  <2>1. DeliveryId(d)[2] = d.startsAt
    BY DEF DeliveryId
  <2> QED BY <2>1 DEF Received, Starts
<1> QED BY <1>3, <1>4, <1>5 DEF RecordOf

\* Time may pass.
LEMMA RecordLater ==
    ASSUME NEW s \in Incidents, NEW t, NEW at \in Time, NEW later \in Time,
           at <= later, RecordOf(s, t, at)
    PROVE  RecordOf(s, t, later)
BY SoundLater, ConstantTypes DEF RecordOf

\* The agent's way to an approved remediation, at one instant.
LEMMA AuthorizeKeepsRecord ==
    ASSUME NEW s \in Incidents, NEW t, NEW at \in Time, RecordOf(s, t, at),
           CanRecordMetricEvidence(s)
    PROVE  RecordOf(RecordApprovalDecision(RecordRemediationProposal(
                        RecordMetricEvidence(s, TRUE, at), at), TRUE, at), t, at)
<1> DEFINE c == RecordMetricEvidence(s, TRUE, at)
           q == RecordRemediationProposal(c, at)
           r == RecordApprovalDecision(q, TRUE, at)
<1>1. /\ c \in Incidents /\ c.stage = "diagnosis" /\ at \in c.evidence
      /\ c.fingerprint = s.fingerprint /\ c.alertId = s.alertId /\ c.startsAt = s.startsAt
  BY EvidenceAndProposalType DEF RecordMetricEvidence, Incidents
<1>2. Sound(c, at)
  BY WritersKeepSound DEF RecordOf
<1> HIDE DEF c
<1>3. EvidenceAccepted(c, at)
  <2>1. at - at = 0 /\ 0 <= MaxEvidenceAge /\ 0 >= -MaxFutureSkew
    BY ConstantTypes, IncidentWorkflowAssumption
  <2>2. at - at <= MaxEvidenceAge /\ at - at >= -MaxFutureSkew
    BY <2>1
  <2> QED BY <1>1, <2>2 DEF EvidenceAccepted
<1>4. CanRecordRemediationProposal(c)
  BY <1>1 DEF CanRecordRemediationProposal, CanTransition, AllowedStageTransitions
<1>5. /\ q \in Incidents /\ q.stage = "approval" /\ q.approvalStatus = "pending"
      /\ q.fingerprint = c.fingerprint /\ q.alertId = c.alertId /\ q.startsAt = c.startsAt
  <2>1. q \in Incidents
    BY <1>1, EvidenceAndProposalType
  <2> QED BY <1>1, <1>3, <2>1 DEF RecordRemediationProposal, Incidents
<1>6. Sound(q, at)
  BY <1>1, <1>2, <1>4, WritersKeepSound
<1> HIDE DEF q
<1>7. AwaitsApproval(q)
  BY <1>5 DEF AwaitsApproval
<1>8. Sound(r, at)
  BY <1>5, <1>6, <1>7, WritersKeepSound
<1>9. r.fingerprint = q.fingerprint /\ r.alertId = q.alertId /\ r.startsAt = q.startsAt
  BY <1>5 DEF RecordApprovalDecision, Incidents
<1> HIDE DEF r
<1>10. RecordOf(r, t, at)
  BY <1>1, <1>5, <1>8, <1>9 DEF RecordOf
<1> QED BY <1>10 DEF c, q, r

\* An attempt begins and settles in the record of its occurrence.
LEMMA AttemptsKeepRecord ==
    ASSUME NEW s \in Incidents, NEW t, NEW at \in Time, RecordOf(s, t, at)
    PROVE  /\ \A key \in Keys, target \in Targets :
                 BeginDecision(s, key, target) = "started" =>
                    RecordOf(BeginAttempt(s, key, target, at), t, at)
           /\ \A status \in {"succeeded", "failed"} :
                 HasRunningAttempt(s) =>
                    RecordOf(WithAttemptSettled(s, status, at), t, at)
<1>0. Sound(s, at)
  BY DEF RecordOf
<1>1. ASSUME NEW key \in Keys, NEW target \in Targets,
             BeginDecision(s, key, target) = "started"
      PROVE  RecordOf(BeginAttempt(s, key, target, at), t, at)
  <2>1. Sound(BeginAttempt(s, key, target, at), at)
    BY <1>0, <1>1, WritersKeepSound
  <2> QED BY <2>1 DEF RecordOf, BeginAttempt, Incidents
<1>2. ASSUME NEW status \in {"succeeded", "failed"}, HasRunningAttempt(s)
      PROVE  RecordOf(WithAttemptSettled(s, status, at), t, at)
  <2>1. Sound(WithAttemptSettled(s, status, at), at)
    BY <1>0, <1>2, WritersKeepSound
  <2> QED BY <2>1 DEF RecordOf, WithAttemptSettled, Incidents
<1> QED BY <1>1, <1>2

-----------------------------------------------------------------------------
(* Answers *)

\* How a delivery ends: nothing is left to write, and what is left to apply
\* was on the agenda.
Answered(answer) ==
    /\ patch' = {}
    /\ outcome' \in {outcome, answer, "unavailable"}
    /\ \A i \in DOMAIN agenda' : \E j \in DOMAIN agenda : agenda'[i] = agenda[j]

\* The audit line, written or not, ends the delivery with its answer; so does
\* an error.
LEMMA AuditAnswers ==
    ASSUME TypeInv, step \in Working, NEW answer
    PROVE  /\ Audit(answer) => Answered(answer)
           /\ Fail(answer) => Answered(answer)
<1>1. agenda # <<>> /\ DOMAIN agenda = 1..Len(agenda)
  BY LenProperties DEF TypeInv, HolderOK
<1>2. ASSUME NEW a, Fail(a) PROVE agenda' = <<>> /\ patch' = {} /\ outcome' \in {outcome, a}
  BY <1>2 DEF Fail
<1>3. ASSUME NEW a, Fail(a), a \in {answer, "unavailable"} PROVE Answered(answer)
  <2>1. DOMAIN agenda' = {}
    BY <1>2, <1>3
  <2> QED BY <1>2, <1>3, <2>1 DEF Answered
<1>4. ASSUME Finish(answer) PROVE Answered(answer)
  <2>1. agenda' = Tail(agenda) /\ patch' = {} /\ outcome' \in {outcome, answer}
    BY <1>4 DEF Finish, answers
  <2>2. CASE Tail(agenda) = <<>>
    <3>1. DOMAIN agenda' = {}
      BY <2>1, <2>2
    <3> QED BY <2>1, <3>1 DEF Answered
  <2>3. CASE /\ Len(agenda) = 2
             /\ Tail(agenda) \in Seq(AlertDeliveries)
             /\ Len(Tail(agenda)) = 1
             /\ Head(Tail(agenda)) = agenda[2]
    <3>1. DOMAIN agenda' = {1} /\ agenda'[1] = agenda[2] /\ 2 \in DOMAIN agenda
      <4>1. DOMAIN Tail(agenda) = 1..Len(Tail(agenda))
        BY <2>3, LenProperties
      <4>2. Head(Tail(agenda)) = Tail(agenda)[1] /\ 1..1 = {1} /\ 2 \in 1..2
        BY <2>3
      <4> QED BY <1>1, <2>1, <2>3, <4>1, <4>2
    <3> QED BY <2>1, <3>1 DEF Answered
  <2> QED BY <1>1, <2>2, <2>3, AgendaTail
<1> QED BY <1>3, <1>4 DEF Audit

\* What a delivery leaves behind that the sessions do not show.
StampedMove(state) ==
    /\ memory' \in {memory, state} /\ disk' \in {disk, state}

\* A commit ends the delivery with a 2xx or an error.
LEMMA FlushAnswers ==
    ASSUME TypeInv, step \in Working, NEW state, Flush(state)
    PROVE  Answered("acked") /\ StampedMove(state)
BY AuditAnswers DEF Flush, StampedMove, Answered

\* A delivery that ends while the sessions, the queue and the clock stand
\* still leaves every record in place.
LEMMA AnsweredKeepsRecords ==
    ASSUME RecordInv, NEW answer \in {"acked", "ordering", "checkpoint_conflict", "unavailable"},
           Answered(answer), UNCHANGED <<requests, now>>, late' \subseteq late \cup patch,
           \A t \in DOMAIN sessions' : RecordOf(sessions'[t], t, now),
           \A c \in memory'.checkpoint \cup disk'.checkpoint : Received(c.delivery, now)
    PROVE  RecordInv'
<1>1. \A i \in DOMAIN agenda' : Received(agenda'[i], now)
  BY DEF Answered, RecordInv, DeliveriesStamped
<1>2. DeliveriesStamped'
  BY <1>1 DEF RecordInv, DeliveriesStamped
<1>3. outcome' \notin {"consistency", "rejected"}
  BY DEF Answered, RecordInv
<1> QED BY <1>2, <1>3 DEF RecordInv, RecordOf, Answered

\* What the proofs of the steps take from the invariants.
LEMMA RecordFacts ==
    ASSUME BridgeInv, RecordInv
    PROVE  /\ \A t \in DOMAIN sessions : /\ t \in Time /\ sessions[t] \in Incidents
                                         /\ RecordOf(sessions[t], t, now)
                                         /\ Readable(t)
           /\ now \in Time /\ TypeInv
           /\ memory.route # None => memory.route \in DOMAIN sessions
           /\ \A c \in memory.checkpoint \cup disk.checkpoint : Received(c.delivery, now)
           /\ step \in Working => /\ Current \in AlertDeliveries
                                  /\ Current.startsAt \in Time
                                  /\ Received(Current, now)
                                  /\ agenda # <<>>
<1>1. /\ now \in Time /\ TypeInv
      /\ \A t \in DOMAIN sessions : /\ t \in Time /\ sessions[t] \in Incidents
                                    /\ RecordOf(sessions[t], t, now)
  BY DEF BridgeInv, TypeInv, TypeOK, RecordInv
<1>2. \A t \in DOMAIN sessions : Readable(t)
  <2> SUFFICES ASSUME NEW t \in DOMAIN sessions PROVE Readable(t)
    OBVIOUS
  <2>1. ValidIncident(sessions[t])
    BY <1>1, SoundDecodes DEF RecordOf
  <2> QED BY <1>1, <2>1 DEF Readable, RecordOf, OccurrenceId
<1>3. memory.route # None => memory.route \in DOMAIN sessions
  BY DEF BridgeInv, RouteInv
<1>4. ASSUME step \in Working
      PROVE  /\ Current \in AlertDeliveries /\ Current.startsAt \in Time
             /\ Received(Current, now) /\ agenda # <<>>
  <2>1. agenda # <<>> /\ agenda \in Seq(AlertDeliveries)
    BY <1>4 DEF BridgeInv, TypeInv, HolderOK
  <2>2. 1 \in DOMAIN agenda
    <3>1. Len(agenda) \in Nat /\ Len(agenda) # 0 /\ DOMAIN agenda = 1..Len(agenda)
      BY <2>1, EmptySeq, LenProperties
    <3> QED BY <3>1
  <2>3. Current = agenda[1]
    BY DEF Current
  <2> QED BY <1>1, <1>4, <2>1, <2>2, <2>3, CurrentType DEF RecordInv, DeliveriesStamped
<1> QED BY <1>1, <1>2, <1>3, <1>4 DEF RecordInv, DeliveriesStamped

\* A write to the delivery's own occurrence.
LEMMA SendKeepsRecords ==
    ASSUME BridgeInv, RecordInv, step \in Working, NEW state,
           NEW t, t = Current.startsAt, RecordOf(state, t, now),
           SendNext(t, state), UNCHANGED <<gateway, requests, now>>
    PROVE  RecordInv'
<1> DEFINE p == [occurrence |-> t, state |-> state]
<1>1. patch' = {p} /\ p.occurrence = t /\ p.state = state
  BY DEF SendNext
<1> HIDE DEF p
<1>2. UNCHANGED <<agenda, memory, disk, outcome, sessions, late>> /\ Current' = Current
  BY DEF SendNext, store, answers, gateway, Current
<1>3. /\ \A x \in patch' : x.occurrence = Current.startsAt
      /\ \A x \in patch' \cup late' : RecordOf(x.state, x.occurrence, now)
  BY <1>1, <1>2 DEF RecordInv
<1>4. DeliveriesStamped'
  BY <1>2 DEF RecordInv, DeliveriesStamped
<1> QED BY <1>2, <1>3, <1>4 DEF RecordInv, RecordOf

-----------------------------------------------------------------------------
(* The steps of the holder *)

\* The delivery's own session is readable and takes the delivery, or asks for
\* the order of the receipts.
LEMMA OwnKeepsRecords ==
    ASSUME BridgeInv, RecordInv, DescribeOwn
    PROVE  RecordInv'
<1>1. step \in Working
  BY DEF DescribeOwn, Working
<1>2. UNCHANGED <<gateway, requests, now>> /\ UNCHANGED <<sessions, late>>
  BY DEF DescribeOwn, gateway
<1>3. CASE Current.startsAt \notin DOMAIN sessions
  <2>1. UNCHANGED <<agenda, patch, memory, disk, outcome>>
    BY <1>3 DEF DescribeOwn, store, answers
  <2> QED BY <1>2, <2>1 DEF RecordInv, DeliveriesStamped, RecordOf, Current
<1>4. CASE Current.startsAt \in DOMAIN sessions
  <2> DEFINE own == sessions[Current.startsAt]
  <2>1. /\ own \in Incidents /\ RecordOf(own, Current.startsAt, now)
        /\ Current \in AlertDeliveries /\ Received(Current, now) /\ now \in Time
        /\ Readable(Current.startsAt) /\ Current.startsAt \in Time /\ TypeInv
    BY <1>1, <1>4, RecordFacts
  <2>2. Decision(own, Current) # "rejected"
    BY <2>1, DecisionOnRecord
  <2>3. Throw("ordering") \/ SendNext(Current.startsAt, Reduced(own, Current))
    BY <1>4, <2>1, <2>2 DEF DescribeOwn
  <2>4. CASE Throw("ordering")
    <3>1. Answered("ordering") /\ UNCHANGED <<memory, disk>>
      BY <1>1, <2>1, <2>4, AuditAnswers DEF Throw, store
    <3> QED BY <1>2, <3>1, RecordFacts, AnsweredKeepsRecords
  <2>5. RecordOf(Reduced(own, Current), Current.startsAt, now)
    BY <2>1, DeliveryKeepsRecord
  <2> HIDE DEF own
  <2> QED BY <1>1, <1>2, <2>3, <2>4, <2>5, SendKeepsRecords
<1> QED BY <1>3, <1>4

\* What planning comes to: it never rejects and never meets an unreadable
\* session.
Planned ==
    LET s == sessions[memory.route] IN
    \/ Throw("checkpoint_conflict") \/ Throw("ordering")
    \/ Current.alertStatus = "resolved" /\ Return("acked")
    \/ /\ Current.alertStatus = "firing"
       /\ memory.route # None => /\ Current.startsAt # memory.route
                                 /\ ~HasRunningAttempt(s)
       /\ SendNext(Current.startsAt, CreateIncident(Current))
    \/ /\ memory.route # None /\ Current.startsAt = memory.route
       /\ SendNext(memory.route, Reduced(s, Current))
    \/ /\ memory.route # None /\ Current.startsAt # memory.route
       /\ Current.alertStatus = "firing" /\ HasRunningAttempt(s)
       /\ ~HoldConflicts(Current)
       /\ SetCheckpoint

LEMMA PlanIsPlanned ==
    ASSUME BridgeInv, RecordInv, Plan
    PROVE  Planned
<1>1. step \in Working
  BY DEF Plan, Working
<1>2. /\ Current \in AlertDeliveries /\ ValidDelivery(Current)
      /\ Current.alertStatus \in {"firing", "resolved"}
  BY <1>1, RecordFacts, BridgeConstants DEF AlertDeliveries
<1>3. CASE memory.route = None
  <2>1. \/ /\ Current.alertStatus = "firing" /\ DecisionMissing(Current) = "created"
        \/ /\ Current.alertStatus = "resolved"
           /\ DecisionMissing(Current) = "orphan_resolved"
    BY <1>2 DEF DecisionMissing
  <2> QED BY <1>3, <2>1 DEF Plan, Planned
<1>4. CASE memory.route # None
  <2> DEFINE s == sessions[memory.route]
             decision == Decision(s, Current)
  <2>1. /\ memory.route \in Time /\ s \in Incidents /\ RecordOf(s, memory.route, now)
        /\ Readable(memory.route)
    BY <1>4, RecordFacts
  <2>2. /\ decision # "rejected"
        /\ decision \in {"updated", "duplicate", "stale_refire"} =>
              Current.startsAt = memory.route
        /\ decision \in {"new_occurrence", "deferred_new_occurrence"} =>
              Current.startsAt # memory.route /\ Current.alertStatus = "firing"
        /\ decision = "deferred_new_occurrence" => HasRunningAttempt(s)
        /\ decision = "orphan_resolved" => Current.alertStatus = "resolved"
    BY <1>2, <2>1, DecisionOnRecord
  <2>3. decision \in {"new_occurrence", "updated", "duplicate", "stale_refire",
                      "deferred_new_occurrence", "orphan_resolved",
                      "received_at_regression", "rejected"}
    BY DEF Decision, DecisionOtherOccurrence
  <2>4. decision = "new_occurrence" => ~HasRunningAttempt(s)
    BY DEF Decision, DecisionOtherOccurrence
  <2>5. (CASE decision \in {"created", "new_occurrence"} ->
                 SendNext(Current.startsAt, CreateIncident(Current))
           [] decision \in {"updated", "duplicate", "stale_refire"} ->
                 SendNext(memory.route, Reduced(s, Current))
           [] decision = "deferred_new_occurrence" ->
                 IF HoldConflicts(Current)
                 THEN Throw("checkpoint_conflict")
                 ELSE SetCheckpoint
           [] decision = "orphan_resolved" -> Return("acked")
           [] decision = "received_at_regression" -> Throw("ordering")
           [] decision = "rejected" -> Return("rejected"))
    BY <1>4, <2>1 DEF Plan
  <2> HIDE DEF decision
  <2> QED BY <1>4, <2>2, <2>3, <2>4, <2>5 DEF Planned
<1> QED BY <1>3, <1>4

\* Planning keeps every record.
LEMMA PlanKeepsRecords ==
    ASSUME BridgeInv, RecordInv, Plan
    PROVE  RecordInv'
<1>1. step \in Working /\ UNCHANGED <<gateway, requests, now>> /\ UNCHANGED <<sessions, late>>
  BY DEF Plan, Working, gateway
<1>2. /\ Current \in AlertDeliveries /\ Received(Current, now) /\ now \in Time
      /\ Current.startsAt \in Time /\ TypeInv
      /\ \A t \in DOMAIN sessions : RecordOf(sessions[t], t, now)
      /\ \A c \in memory.checkpoint \cup disk.checkpoint : Received(c.delivery, now)
  BY <1>1, RecordFacts
<1>3. ASSUME NEW a \in {"acked", "ordering", "checkpoint_conflict"}, Throw(a) \/ Return(a)
      PROVE  RecordInv'
  <2>1. Answered(a) /\ UNCHANGED <<memory, disk>>
    BY <1>1, <1>2, <1>3, AuditAnswers DEF Throw, Return, store
  <2> QED BY <1>1, <1>2, <2>1, AnsweredKeepsRecords
<1>4. CASE Current.alertStatus = "firing" /\ SendNext(Current.startsAt, CreateIncident(Current))
  <2>1. RecordOf(CreateIncident(Current), Current.startsAt, now)
    BY <1>2, <1>4, CreatedIsRecord
  <2> QED BY <1>1, <1>4, <2>1, SendKeepsRecords
<1>5. CASE /\ memory.route # None /\ Current.startsAt = memory.route
           /\ SendNext(memory.route, Reduced(sessions[memory.route], Current))
  <2>1. /\ sessions[memory.route] \in Incidents /\ memory.route \in Time
        /\ RecordOf(sessions[memory.route], memory.route, now)
    BY <1>5, RecordFacts
  <2>2. RecordOf(Reduced(sessions[memory.route], Current), memory.route, now)
    BY <1>2, <2>1, DeliveryKeepsRecord
  <2> QED BY <1>1, <1>5, <2>2, SendKeepsRecords
<1>6. CASE SetCheckpoint
  <2> DEFINE held == {[blockedBy |-> memory.route, delivery |-> Current]}
             state == [memory EXCEPT !.checkpoint = held]
  <2>1. \A c \in held : Received(c.delivery, now)
    BY <1>2
  <2>2. state.checkpoint = held
    BY <1>2 DEF TypeInv, TypeOK, BridgeStates
  <2>3. Answered("acked") /\ StampedMove(state)
    BY <1>1, <1>2, <1>6, FlushAnswers DEF SetCheckpoint
  <2> HIDE DEF held, state
  <2>4. \A c \in memory'.checkpoint \cup disk'.checkpoint : Received(c.delivery, now)
    BY <1>2, <2>1, <2>2, <2>3 DEF StampedMove
  <2> QED BY <1>1, <1>2, <2>3, <2>4, AnsweredKeepsRecords
<1> QED BY <1>3, <1>4, <1>5, <1>6, PlanIsPlanned DEF Planned

\* The sessions after a write are still the records of their occurrences.
LEMMA PatchedRecords ==
    ASSUME BridgeInv, RecordInv, NEW p \in patch \cup late
    PROVE  \A t \in DOMAIN Patched(p) : RecordOf(Patched(p)[t], t, now)
BY DEF RecordInv, Patched

LEMMA PersistKeepsRecords ==
    ASSUME BridgeInv, RecordInv, Persist
    PROVE  RecordInv'
<1>1. PICK p \in patch :
          /\ sessions' = Patched(p)
          /\ IF memory.route = p.occurrence THEN Return("acked")
             ELSE /\ step' = "advance"
                  /\ patch' = {}
                  /\ UNCHANGED <<agenda, sweeping, answers, store, faults>>
  BY DEF Persist
<1>2. step \in Working /\ UNCHANGED <<late, requests, now>>
  BY DEF Persist, Working
<1>3. UNCHANGED <<memory, disk>>
  BY <1>1 DEF Return, store
<1>4. Answered("acked")
  <2>1. CASE Return("acked")
    BY <1>2, <2>1, AuditAnswers, RecordFacts DEF Return
  <2>2. CASE patch' = {} /\ UNCHANGED <<agenda, answers>>
    BY <2>2 DEF Answered, answers
  <2> QED BY <1>1, <2>1, <2>2
<1>5. \A t \in DOMAIN sessions' : RecordOf(sessions'[t], t, now)
  BY <1>1, PatchedRecords
<1>6. \A c \in memory'.checkpoint \cup disk'.checkpoint : Received(c.delivery, now)
  BY <1>3, RecordFacts
<1> QED BY <1>2, <1>4, <1>5, <1>6, AnsweredKeepsRecords

\* The route is readable when it is compared.
LEMMA AdvanceKeepsRecords ==
    ASSUME BridgeInv, RecordInv, AdvanceRoute
    PROVE  RecordInv'
<1>1. step \in Working /\ UNCHANGED <<sessions, late, requests, now>>
  BY DEF AdvanceRoute, Working, gateway
<1>2. /\ \A t \in DOMAIN sessions : RecordOf(sessions[t], t, now)
      /\ \A c \in memory.checkpoint \cup disk.checkpoint : Received(c.delivery, now)
      /\ TypeInv
      /\ memory.route # None => Readable(memory.route)
  BY RecordFacts
<1>3. CommitRouteAndClearCheckpoint \/ Return("acked")
  BY <1>2 DEF AdvanceRoute
<1>4. CASE Return("acked")
  <2>1. Answered("acked") /\ UNCHANGED <<memory, disk>>
    BY <1>1, <1>2, <1>4, AuditAnswers DEF Return, store
  <2> QED BY <1>1, <1>2, <2>1, AnsweredKeepsRecords
<1>5. CASE CommitRouteAndClearCheckpoint
  <2> DEFINE state == [route |-> Current.startsAt, checkpoint |-> {}]
  <2>1. Answered("acked") /\ StampedMove(state)
    BY <1>1, <1>2, <1>5, FlushAnswers DEF CommitRouteAndClearCheckpoint
  <2>2. state.checkpoint = {}
    OBVIOUS
  <2> HIDE DEF state
  <2>3. \A c \in memory'.checkpoint \cup disk'.checkpoint : Received(c.delivery, now)
    BY <1>2, <2>1, <2>2 DEF StampedMove
  <2> QED BY <1>1, <1>2, <2>1, <2>3, AnsweredKeepsRecords
<1> QED BY <1>3, <1>4, <1>5

-----------------------------------------------------------------------------
(* The steps of the others *)

\* What is replayed was received by now.
LEMMA ReplayStamped ==
    ASSUME NEW state \in BridgeStates,
           \A c \in state.checkpoint : Received(c.delivery, now)
    PROVE  \A i \in DOMAIN Replay(state) : Received(Replay(state)[i], now)
<1>1. CASE state.checkpoint = {}
  <2>1. DOMAIN Replay(state) = {}
    BY <1>1 DEF Replay
  <2> QED BY <2>1
<1>2. CASE state.checkpoint # {}
  <2> DEFINE held == CHOOSE c \in state.checkpoint : TRUE
  <2>1. held \in state.checkpoint
    BY <1>2
  <2> HIDE DEF held
  <2>2. Replay(state) = <<held.delivery>>
    BY <1>2 DEF Replay, held
  <2> QED BY <2>1, <2>2
<1> QED BY <1>1, <1>2

\* The agent's writers leave the records of the occurrences.
LEMMA AgentKeepsRecords ==
    ASSUME BridgeInv, RecordInv, Agent
    PROVE  \E t \in DOMAIN sessions : \E r :
              /\ sessions' = [sessions EXCEPT ![t] = r]
              /\ RecordOf(r, t, now)
              /\ UNCHANGED <<late, memory, disk, requests, agenda, patch, outcome, now>>
<1>1. /\ now \in Time
      /\ \A t \in DOMAIN sessions : /\ sessions[t] \in Incidents
                                    /\ RecordOf(sessions[t], t, now)
  BY RecordFacts
<1>2. ASSUME NEW t \in DOMAIN sessions, NEW r, PatchSession(t, r), RecordOf(r, t, now)
      PROVE  \E u \in DOMAIN sessions : \E x :
                /\ sessions' = [sessions EXCEPT ![u] = x]
                /\ RecordOf(x, u, now)
                /\ UNCHANGED <<late, memory, disk, requests, agenda, patch, outcome, now>>
  BY <1>2 DEF PatchSession, store, holder, answers
<1>3. ASSUME NEW t \in DOMAIN sessions, Authorize(t)
      PROVE  \E r : PatchSession(t, r) /\ RecordOf(r, t, now)
  BY <1>1, <1>3, AuthorizeKeepsRecord DEF Authorize
<1>4. ASSUME NEW t \in DOMAIN sessions, NEW key \in Keys, NEW target \in Targets,
             StartAttempt(t, key, target)
      PROVE  \E r : PatchSession(t, r) /\ RecordOf(r, t, now)
  BY <1>1, <1>4, AttemptsKeepRecord DEF StartAttempt
<1>5. ASSUME NEW t \in DOMAIN sessions, NEW key \in Keys,
             NEW status \in {"succeeded", "failed"}, FinishAttempt(t, key, status)
      PROVE  \E r : PatchSession(t, r) /\ RecordOf(r, t, now)
  BY <1>1, <1>5, AttemptsKeepRecord DEF FinishAttempt, CanFinishAttempt
<1> QED BY <1>2, <1>3, <1>4, <1>5 DEF Agent, SettleSomeAttempt

\* An RPC that fails and a crash, with the patch applied, lost or left under
\* way, leave the records; so does the start, which reads the file.
LEMMA FaultKeepsRecords ==
    ASSUME BridgeInv, RecordInv, FailRpc \/ Crash \/ Restart
    PROVE  RecordInv'
<1>1. /\ \A t \in DOMAIN sessions : RecordOf(sessions[t], t, now)
      /\ \A c \in memory.checkpoint \cup disk.checkpoint : Received(c.delivery, now)
      /\ TypeInv /\ now \in Time
  BY RecordFacts
<1>0. ASSUME AbandonPatch
      PROVE  /\ late' \subseteq late \cup patch
             /\ \A t \in DOMAIN sessions' : RecordOf(sessions'[t], t, now)
  <2>1. /\ late' \subseteq late \cup patch
        /\ sessions' = sessions \/ \E p \in patch : sessions' = Patched(p)
    BY <1>0 DEF AbandonPatch, gateway
  <2> QED BY <1>1, <2>1, PatchedRecords
<1>2. CASE FailRpc
  <2>1. step \in Working /\ UNCHANGED <<memory, disk, requests, now>>
    BY <1>2 DEF FailRpc, Working, store
  <2>2. Answered("unavailable")
    BY <1>1, <1>2, <2>1, AuditAnswers DEF FailRpc
  <2>3. \A t \in DOMAIN sessions' : RecordOf(sessions'[t], t, now)
    BY <1>0, <1>2 DEF FailRpc
  <2>4. late' \subseteq late \cup patch
    BY <1>0, <1>2 DEF FailRpc
  <2> QED BY <1>1, <2>1, <2>2, <2>3, <2>4, AnsweredKeepsRecords
<1>3. CASE Crash
  <2>1. /\ UNCHANGED <<memory, disk, outcome, now>>
        /\ agenda' = <<>> /\ patch' = {} /\ requests' = {} /\ DOMAIN agenda' = {}
        /\ late' \subseteq late \cup patch
        /\ \A t \in DOMAIN sessions' : RecordOf(sessions'[t], t, now)
    BY <1>0, <1>3 DEF Crash, store, answers
  <2>2. DeliveriesStamped'
    BY <2>1 DEF RecordInv, DeliveriesStamped
  <2> QED BY <2>1, <2>2 DEF RecordInv, RecordOf
<1>4. CASE Restart
  <2>1. /\ UNCHANGED <<sessions, late, disk, requests, outcome, now>>
        /\ memory' = disk /\ agenda' = Replay(disk) /\ patch = {} /\ patch' = {}
    BY <1>1, <1>4 DEF Restart, answers, gateway, TypeInv, HolderOK
  <2>2. \A i \in DOMAIN agenda' : Received(agenda'[i], now)
    BY <1>1, <2>1, ReplayStamped DEF TypeInv, TypeOK
  <2>3. DeliveriesStamped'
    BY <1>1, <2>1, <2>2 DEF RecordInv, DeliveriesStamped
  <2> QED BY <2>1, <2>3 DEF RecordInv, RecordOf
<1> QED BY <1>2, <1>3, <1>4

\* Arrivals, the lock, the clock and the agent.
LEMMA OtherKeepsRecords ==
    ASSUME BridgeInv, RecordInv, BridgeInv',
           \/ Tick \/ ArriveSome \/ \E d \in requests : Acquire(d)
           \/ Agent \/ LandLate \/ UNCHANGED vars
    PROVE  RecordInv'
<1>1. /\ \A t \in DOMAIN sessions : RecordOf(sessions[t], t, now) /\ sessions[t] \in Incidents
      /\ \A c \in memory.checkpoint \cup disk.checkpoint : Received(c.delivery, now)
      /\ TypeInv /\ now \in Time /\ now \in Int /\ now <= now
  <2>1. now \in Time
    BY RecordFacts
  <2>2. now \in Int /\ now <= now
    BY <2>1, ConstantTypes
  <2> QED BY <2>1, <2>2, RecordFacts
<1>2. ASSUME UNCHANGED <<sessions, late, memory, disk, agenda, patch, outcome, now>>,
             \A d \in requests' : Received(d, now)
      PROVE  RecordInv'
  BY <1>2 DEF RecordInv, DeliveriesStamped, Current, RecordOf
<1>3. CASE Tick
  <2>1. /\ UNCHANGED <<sessions, late, memory, disk, requests, agenda, patch, outcome>>
        /\ now' = now + 1
    BY <1>3 DEF Tick, store, holder, answers, gateway
  <2>2. now' \in Time /\ now' \in Int /\ now <= now'
    <3>1. now' \in Time
      BY DEF BridgeInv, TypeInv, TypeOK
    <3> QED BY <1>1, <2>1, <3>1, ConstantTypes
  <2>3. \A t \in DOMAIN sessions : RecordOf(sessions[t], t, now')
    BY <1>1, <2>2, RecordLater
  <2>4. \A p \in patch \cup late : RecordOf(p.state, p.occurrence, now')
    <3>1. \A p \in patch \cup late : p.state \in Incidents
      BY <1>1 DEF TypeInv, TypeOK
    <3> QED BY <1>1, <2>2, <3>1, RecordLater DEF RecordInv
  <2>5. ASSUME NEW d \in AlertDeliveries, Received(d, now) PROVE Received(d, now')
    <3>1. d.receivedAt \in Int
      BY ConstantTypes DEF AlertDeliveries
    <3> QED BY <1>1, <2>2, <2>5, <3>1 DEF Received
  <2>6. /\ \A d \in requests : d \in AlertDeliveries
        /\ \A i \in DOMAIN agenda : agenda[i] \in AlertDeliveries
        /\ \A c \in memory.checkpoint \cup disk.checkpoint : c.delivery \in AlertDeliveries
    BY <1>1 DEF TypeInv, TypeOK, BridgeStates, Checkpoints
  <2>7. DeliveriesStamped'
    BY <2>1, <2>5, <2>6 DEF RecordInv, DeliveriesStamped
  <2> QED BY <2>1, <2>3, <2>4, <2>7 DEF RecordInv, Current, RecordOf
<1>4. CASE ArriveSome
  <2>1. PICK d \in AlertDeliveries : Arrive(d)
    BY <1>4 DEF ArriveSome
  <2>2. \A x \in requests' : Received(x, now)
    BY <1>1, <2>1 DEF Arrive, RecordInv, DeliveriesStamped, Received
  <2> QED BY <1>2, <2>1, <2>2 DEF Arrive, store, holder, answers, gateway
<1>5. CASE \E d \in requests : Acquire(d)
  <2>1. PICK d \in requests : Acquire(d)
    BY <1>5
  <2>2. /\ UNCHANGED <<sessions, late, memory, disk, outcome, now>> /\ patch' = {}
        /\ requests' = requests \ {d} /\ agenda' = Append(Replay(memory), d)
    BY <1>1, <2>1 DEF Acquire, store, answers, gateway, TypeInv, HolderOK
  <2>3. \A i \in DOMAIN Replay(memory) : Received(Replay(memory)[i], now)
    BY <1>1, ReplayStamped DEF TypeInv, TypeOK
  <2>4. Received(d, now) /\ d \in AlertDeliveries
    BY <1>1 DEF RecordInv, DeliveriesStamped, TypeInv, TypeOK
  <2>5. \A i \in DOMAIN agenda' : Received(agenda'[i], now)
    <3>1. Replay(memory) \in Seq(AlertDeliveries)
      BY <1>1, ReplayType DEF TypeInv, TypeOK
    <3>2. /\ DOMAIN agenda' = 1..(Len(Replay(memory)) + 1)
          /\ \A i \in 1..Len(Replay(memory)) : agenda'[i] = Replay(memory)[i]
          /\ agenda'[Len(Replay(memory)) + 1] = d
          /\ DOMAIN Replay(memory) = 1..Len(Replay(memory)) /\ Len(Replay(memory)) \in Nat
      <4>1. /\ agenda' \in Seq(AlertDeliveries) /\ Len(agenda') = Len(Replay(memory)) + 1
            /\ \A i \in 1..Len(Replay(memory)) : agenda'[i] = Replay(memory)[i]
            /\ agenda'[Len(Replay(memory)) + 1] = d
        BY <2>2, <2>4, <3>1, AppendProperties
      <4> QED BY <3>1, <4>1, LenProperties
    <3>3. \A n \in Nat : \A i \in 1..(n + 1) : i \in 1..n \/ i = n + 1
      OBVIOUS
    <3> QED BY <2>3, <2>4, <3>2, <3>3
  <2>6. DeliveriesStamped'
    BY <1>1, <2>2, <2>5 DEF RecordInv, DeliveriesStamped
  <2> QED BY <2>2, <2>6 DEF RecordInv, RecordOf
<1>6. CASE Agent
  <2>1. PICK t \in DOMAIN sessions : \E r :
              /\ sessions' = [sessions EXCEPT ![t] = r]
              /\ RecordOf(r, t, now)
              /\ UNCHANGED <<late, memory, disk, requests, agenda, patch, outcome, now>>
    BY <1>6, AgentKeepsRecords
  <2>2. \A u \in DOMAIN sessions' : RecordOf(sessions'[u], u, now)
    BY <1>1, <2>1
  <2> QED BY <2>1, <2>2 DEF RecordInv, DeliveriesStamped, Current, RecordOf
<1>7. CASE LandLate
  <2>1. PICK p \in late :
            /\ sessions' = Patched(p)
            /\ late' = late \ {p}
            /\ UNCHANGED <<store, requests, holder, answers, faults, now>>
    BY <1>7 DEF LandLate
  <2>2. \A t \in DOMAIN sessions' : RecordOf(sessions'[t], t, now)
    BY <2>1, PatchedRecords
  <2>3. UNCHANGED <<memory, disk, requests, agenda, patch, outcome, now>>
    BY <2>1 DEF store, holder, answers
  <2> QED BY <2>1, <2>2, <2>3 DEF RecordInv, DeliveriesStamped, Current, RecordOf
<1>8. CASE UNCHANGED vars
  BY <1>2, <1>8 DEF vars, gateway, store, holder, answers, RecordInv, DeliveriesStamped
<1> QED BY <1>3, <1>4, <1>5, <1>6, <1>7, <1>8

\* Every step keeps the records, and the first state has none.
LEMMA RecordStep ==
    /\ Init => RecordInv
    /\ BridgeInv /\ RecordInv /\ [Next]_vars => RecordInv'
<1>1. Init => RecordInv
  <2> SUFFICES ASSUME Init PROVE RecordInv
    OBVIOUS
  <2>1. /\ DOMAIN sessions = {} /\ patch = {} /\ late = {}
        /\ requests = {} /\ DOMAIN agenda = {}
        /\ memory.checkpoint = {} /\ disk.checkpoint = {} /\ outcome = "acked"
    BY DEF Init
  <2> QED BY <2>1 DEF RecordInv, DeliveriesStamped
<1>2. ASSUME BridgeInv, RecordInv, [Next]_vars PROVE RecordInv'
  <2>1. BridgeInv'
    BY <1>2, BridgeStep
  <2>2. CASE Work
    BY <1>2, <2>2, OwnKeepsRecords, PlanKeepsRecords, PersistKeepsRecords,
       AdvanceKeepsRecords DEF Work
  <2>3. CASE FailRpc \/ Crash \/ Restart
    BY <1>2, <2>3, FaultKeepsRecords
  <2>4. CASE \/ Tick \/ ArriveSome \/ \E d \in requests : Acquire(d)
             \/ Agent \/ LandLate \/ UNCHANGED vars
    BY <1>2, <2>1, <2>4, OtherKeepsRecords
  <2> QED BY <1>2, <2>2, <2>3, <2>4 DEF Next
<1> QED BY <1>1, <1>2

\* Both invariants, in every behaviour.
LEMMA RecordsCorrect == Spec => [](BridgeInv /\ RecordInv)
<1>1. Init => BridgeInv /\ RecordInv
  BY InitInv, RecordStep
<1>2. BridgeInv /\ RecordInv /\ [Next]_vars => (BridgeInv /\ RecordInv)'
  BY BridgeStep, RecordStep
<1> QED BY <1>1, <1>2, PTL DEF Spec

-----------------------------------------------------------------------------
(* Theorems about the answers *)

\* Every route, in use or on file, leads to a session that decodes and is the
\* one of the route, so no delivery is answered with
\* consistency_check_failed, whatever crashes, fails or is patched meanwhile
\* (applyDelivery and advanceRouteIfNewer, processor.ts).
THEOREM RoutesAlwaysResolve == Spec => []RoutesResolve
<1>1. BridgeInv /\ RecordInv => RoutesResolve
  BY DEF BridgeInv, RouteInv, RecordInv, RoutesResolve
<1> QED BY RecordsCorrect, <1>1, PTL

\* No delivery is rejected by the record it meets, however the requests
\* overtake each other: a lost race ends in an error or in the reducer's
\* acceptance.
THEOREM RaceLostNeverAcknowledged == Spec => []RaceLostIsNotAcknowledged
<1>1. BridgeInv /\ RecordInv => RaceLostIsNotAcknowledged
  BY DEF RecordInv, RaceLostIsNotAcknowledged
<1> QED BY RecordsCorrect, <1>1, PTL

-----------------------------------------------------------------------------
(* What a step does to the held delivery *)

\* A delivery is held under the active occurrence, while that has an attempt
\* in flight, unless a different one is held there.
HeldMove ==
    /\ step = "plan" /\ memory.route # None
    /\ Current.startsAt # memory.route /\ Current.alertStatus = "firing"
    /\ HasRunningAttempt(sessions[memory.route])
    /\ ~HoldConflicts(Current)
    /\ Stored([memory EXCEPT !.checkpoint = {[blockedBy |-> memory.route,
                                              delivery  |-> Current]}])

\* The route moves on to a session that exists, and lets go of what was held.
RoutedMove ==
    /\ step = "advance" /\ Current.startsAt \in DOMAIN sessions
    /\ memory.route = None \/ Current.startsAt > memory.route
    /\ Stored([route |-> Current.startsAt, checkpoint |-> {}])

\* What is acknowledged in this step has its session or is held on disk.
AcksBacked ==
    \A t \in acked' \ acked :
        \/ t \in DOMAIN sessions'
        \/ \E c \in disk'.checkpoint : c.delivery.startsAt = t

\* Only a firing delivery that is not a replay is entered as acknowledged.
LEMMA AckedMoves ==
    ASSUME NEW answer
    PROVE  /\ Fail(answer) => acked' = acked
           /\ Audit(answer) =>
                 \/ acked' = acked
                 \/ /\ Current.alertStatus = "firing"
                    /\ acked' = acked \cup {Current.startsAt}
BY DEF Audit, Fail, Finish, answers

\* The holder's steps, as far as held and acknowledged deliveries can tell.
LEMMA WorkMoves ==
    ASSUME BridgeInv, RecordInv, Work
    PROVE  AcksBacked /\ (UNCHANGED store \/ HeldMove \/ RoutedMove)
<1>1. ASSUME NEW answer, Throw(answer) PROVE AcksBacked /\ UNCHANGED store
  BY <1>1, AckedMoves DEF Throw, AcksBacked, store
<1>2. ASSUME NEW answer, Return(answer),
             Current.startsAt \in DOMAIN sessions' \/ Current.alertStatus = "resolved"
      PROVE  AcksBacked /\ UNCHANGED store
  BY <1>2, AckedMoves DEF Return, AcksBacked
<1>3. ASSUME NEW t, NEW state, SendNext(t, state) PROVE AcksBacked /\ UNCHANGED store
  BY <1>3 DEF SendNext, AcksBacked, store, answers
<1>4. /\ step \in Working /\ TypeInv
      /\ memory.route # None => Readable(memory.route)
  BY RecordFacts DEF Work, DescribeOwn, Plan, Persist, AdvanceRoute, Working
<1>5. CASE DescribeOwn
  <2>1. CASE Current.startsAt \notin DOMAIN sessions
    BY <1>5, <2>1 DEF DescribeOwn, AcksBacked, store, answers
  <2>2. CASE Current.startsAt \in DOMAIN sessions
    <3>1. /\ sessions[Current.startsAt] \in Incidents /\ Current.startsAt \in Time
          /\ RecordOf(sessions[Current.startsAt], Current.startsAt, now)
          /\ Current \in AlertDeliveries /\ Readable(Current.startsAt)
      BY <1>4, <2>2, RecordFacts
    <3>2. Decision(sessions[Current.startsAt], Current) # "rejected"
      BY <3>1, DecisionOnRecord
    <3>3. \/ Throw("ordering")
          \/ SendNext(Current.startsAt, Reduced(sessions[Current.startsAt], Current))
      BY <1>5, <2>2, <3>1, <3>2 DEF DescribeOwn
    <3> QED BY <1>1, <1>3, <3>3
  <2> QED BY <2>1, <2>2
<1>6. CASE Plan
  <2>1. step = "plan" /\ sessions' = sessions
    BY <1>6 DEF Plan, gateway
  <2>2. ASSUME memory.route # None, Current.startsAt # memory.route,
               Current.alertStatus = "firing",
               HasRunningAttempt(sessions[memory.route]),
               ~HoldConflicts(Current), SetCheckpoint
        PROVE  AcksBacked /\ HeldMove
    <3> DEFINE held == {[blockedBy |-> memory.route, delivery |-> Current]}
               state == [memory EXCEPT !.checkpoint = held]
    <3>1. \E c \in held : c.delivery.startsAt = Current.startsAt
      OBVIOUS
    <3>2. state.checkpoint = held
      BY <1>4 DEF TypeInv, TypeOK, BridgeStates
    <3>3. Flush(state)
      BY <2>2 DEF SetCheckpoint
    <3> HIDE DEF held, state
    <3>4. Stored(state)
      BY <1>4, <3>3, FlushReleases
    <3>5. AcksBacked
      BY <3>1, <3>2, <3>3, AckedMoves DEF Flush, AcksBacked
    <3> QED BY <2>1, <2>2, <3>4, <3>5 DEF HeldMove, state, held
  <2> QED BY <1>1, <1>2, <1>3, <1>6, <2>2, PlanIsPlanned DEF Planned
<1>7. CASE Persist
  <2>1. PICK p \in patch :
          /\ sessions' = Patched(p)
          /\ IF memory.route = p.occurrence THEN Return("acked")
             ELSE /\ step' = "advance"
                  /\ patch' = {}
                  /\ UNCHANGED <<agenda, sweeping, answers, store, faults>>
    BY <1>7 DEF Persist
  <2>2. Current.startsAt \in DOMAIN sessions'
    BY <2>1 DEF RecordInv, Patched
  <2>3. CASE Return("acked")
    BY <1>2, <2>2, <2>3
  <2>4. CASE UNCHANGED <<agenda, sweeping, answers, store, faults>>
    BY <2>4 DEF AcksBacked, answers
  <2> QED BY <2>1, <2>3, <2>4
<1>8. CASE AdvanceRoute
  <2>1. step = "advance" /\ sessions' = sessions /\ Current.startsAt \in DOMAIN sessions
    BY <1>8 DEF AdvanceRoute, BridgeInv, HolderInv, gateway
  <2>2. ASSUME CommitRouteAndClearCheckpoint,
               memory.route = None \/ Current.startsAt > memory.route
        PROVE  AcksBacked /\ RoutedMove
    <3>1. Stored([route |-> Current.startsAt, checkpoint |-> {}])
      BY <1>4, <2>2, FlushReleases DEF CommitRouteAndClearCheckpoint
    <3>2. AcksBacked
      BY <2>1, <2>2, AckedMoves DEF CommitRouteAndClearCheckpoint, Flush, AcksBacked
    <3> QED BY <2>1, <2>2, <3>1, <3>2 DEF RoutedMove
  <2>3. CASE memory.route = None /\ CommitRouteAndClearCheckpoint
    BY <2>2, <2>3
  <2>4. CASE /\ memory.route # None
             /\ IsNewer(Current) /\ CommitRouteAndClearCheckpoint
    <3>1. Current.startsAt > memory.route
      BY <1>4, <2>4 DEF IsNewer, Readable, OccurrenceId
    <3> QED BY <2>2, <2>4, <3>1
  <2>5. CASE Return("acked")
    BY <1>2, <2>1, <2>5
  <2> QED BY <1>4, <1>8, <2>3, <2>4, <2>5 DEF AdvanceRoute
<1> QED BY <1>5, <1>6, <1>7, <1>8 DEF Work

\* Every step: the store stands still, is read again, or makes one of the
\* two moves.
LEMMA EveryMove ==
    ASSUME BridgeInv, RecordInv, [Next]_vars
    PROVE  /\ AcksBacked
           /\ DOMAIN sessions \subseteq DOMAIN sessions'
           /\ \/ UNCHANGED store
              \/ memory' = disk /\ disk' = disk
              \/ HeldMove \/ RoutedMove
<1>1. DOMAIN sessions \subseteq DOMAIN sessions'
  BY BridgeStep, SessionsStep
<1>2. CASE Work
  BY <1>1, <1>2, WorkMoves
<1>3. CASE FailRpc \/ Crash
  BY <1>1, <1>3, AckedMoves DEF FailRpc, Crash, AcksBacked, answers
<1>4. CASE Restart
  BY <1>1, <1>4 DEF Restart, AcksBacked, answers
<1>5. CASE \/ Tick \/ ArriveSome \/ \E d \in requests : Acquire(d)
           \/ UNCHANGED vars
  BY <1>1, <1>5 DEF Tick, ArriveSome, Arrive, Acquire, AcksBacked, vars, answers
<1>6. CASE Agent
  <2>1. TypeInv
    BY DEF BridgeInv
  <2>2. UNCHANGED store /\ UNCHANGED answers
    BY <1>6, <2>1, AgentStep
  <2> QED BY <1>1, <2>2 DEF AcksBacked, answers
<1>7. CASE LandLate
  BY <1>1, <1>7 DEF LandLate, AcksBacked, answers
<1> QED BY <1>2, <1>3, <1>4, <1>5, <1>6, <1>7 DEF Next

\* What is held stays alone, firing and of another occurrence than the route,
\* and the file holds something only under the route in use.
LEMMA HeldStep ==
    ASSUME BridgeInv, RecordInv, HeldInv, [Next]_vars
    PROVE  HeldInv'
<1>1. memory \in BridgeStates
  BY DEF BridgeInv, TypeInv, TypeOK
<1>2. CASE UNCHANGED store
  BY <1>2 DEF HeldInv, OneIsHeld, store
<1>3. CASE memory' = disk /\ disk' = disk
  BY <1>3 DEF HeldInv, OneIsHeld
<1>4. CASE HeldMove
  <2> DEFINE held == {[blockedBy |-> memory.route, delivery |-> Current]}
             state == [memory EXCEPT !.checkpoint = held]
  <2>1. state.checkpoint = held /\ state.route = memory.route
    BY <1>1 DEF BridgeStates
  <2>2. /\ \A c1, c2 \in held : c1 = c2
        /\ \A c \in held : /\ c.delivery.alertStatus = "firing"
                           /\ c.delivery.startsAt # c.blockedBy
    BY <1>4 DEF HeldMove
  <2>3. Stored(state)
    BY <1>4 DEF HeldMove
  <2> HIDE DEF held, state
  <2>4. OneIsHeld(state)
    BY <2>1, <2>2 DEF OneIsHeld
  <2> QED BY <2>1, <2>3, <2>4 DEF Stored, HeldInv, OneIsHeld
<1>5. CASE RoutedMove
  <2> DEFINE state == [route |-> Current.startsAt, checkpoint |-> {}]
  <2>1. state.checkpoint = {} /\ Stored(state)
    BY <1>5 DEF RoutedMove
  <2> HIDE DEF state
  <2> QED BY <2>1 DEF Stored, HeldInv, OneIsHeld
<1> QED BY <1>2, <1>3, <1>4, <1>5, EveryMove

\* The first state holds nothing.
LEMMA HeldInit == Init => HeldInv
BY DEF Init, HeldInv, OneIsHeld

LEMMA HeldCorrect == Spec => [](BridgeInv /\ RecordInv /\ HeldInv)
<1>1. BridgeInv /\ RecordInv /\ HeldInv /\ [Next]_vars => HeldInv'
  BY HeldStep
<1> QED BY RecordsCorrect, HeldInit, <1>1, PTL DEF Spec

-----------------------------------------------------------------------------
(* Two occurrences, any faults, any writers *)

\* With at most two occurrences, the route can only leave the one that holds
\* a delivery for the one that is held.
LEMMA TwoOccurrencesStep ==
    ASSUME NEW a, NEW b, Starts \subseteq {a, b},
           BridgeInv, RecordInv, HeldInv, NoAlertVanishes, [Next]_vars
    PROVE  NoAlertVanishes'
<1>1. SUFFICES ASSUME NEW t \in acked', t \notin DOMAIN sessions'
               PROVE  \E c \in disk'.checkpoint : c.delivery.startsAt = t
  BY DEF NoAlertVanishes
<1>2. CASE t \notin acked
  BY <1>1, <1>2, EveryMove DEF AcksBacked
<1>3. CASE t \in acked
  <2>1. t \notin DOMAIN sessions
    BY <1>1, EveryMove
  <2>2. PICK c \in disk.checkpoint : c.delivery.startsAt = t
    BY <1>3, <2>1 DEF NoAlertVanishes
  <2>3. /\ disk.route # None /\ memory.route = disk.route
        /\ t # memory.route /\ memory.route \in DOMAIN sessions
    BY <2>2 DEF HeldInv, OneIsHeld, BridgeInv, RouteInv, Decodes
  <2>4. t \in Starts
    <3>1. DeliveryId(c.delivery) \in Alerts
      BY <2>2, RecordFacts DEF Received
    <3> QED BY <2>2, <3>1 DEF Starts, DeliveryId
  <2>5. \A u \in DOMAIN sessions : u \in Starts
    BY DEF RecordInv, RecordOf
  <2>6. CASE disk' = disk
    BY <2>2, <2>6
  <2>7. CASE HeldMove
    <3> DEFINE held == {[blockedBy |-> memory.route, delivery |-> Current]}
               state == [memory EXCEPT !.checkpoint = held]
    <3>1. Current.startsAt \in Starts /\ Current.startsAt # memory.route
      <4>1. Received(Current, now)
        BY <2>7, RecordFacts DEF HeldMove, Working
      <4> QED BY <2>7, <4>1 DEF HeldMove, Received, Starts, DeliveryId
    <3>2. Current.startsAt = t
      BY <2>3, <2>4, <2>5, <3>1
    <3>3. state.checkpoint = held
      BY DEF BridgeInv, TypeInv, TypeOK, BridgeStates
    <3>4. \E x \in held : x.delivery.startsAt = t
      BY <3>2
    <3>5. disk' \in {disk, state}
      BY <2>7 DEF HeldMove, Stored
    <3> HIDE DEF held, state
    <3> QED BY <2>2, <3>3, <3>4, <3>5
  <2>8. CASE RoutedMove
    <3>1. Current.startsAt \in DOMAIN sessions /\ Current.startsAt > memory.route
      BY <2>3, <2>8 DEF RoutedMove
    <3>2. memory.route \in Int
      BY <2>3, RecordFacts, ConstantTypes
    <3>3. Current.startsAt # memory.route
      BY <3>1, <3>2
    <3> QED BY <2>1, <2>3, <2>4, <2>5, <3>1, <3>3
  <2> QED BY <2>6, <2>7, <2>8, EveryMove DEF store
<1> QED BY <1>2, <1>3

\* When the alert has at most two occurrences, no firing alert that got a 2xx
\* is ever without a session and not held on disk, whatever crashes, fails to
\* be written or is patched meanwhile (processor.ts, state-store.ts).
THEOREM TwoOccurrencesNeverVanish ==
    ASSUME NEW a, NEW b, Starts \subseteq {a, b}
    PROVE  Spec => []NoAlertVanishes
<1>1. Init => NoAlertVanishes
  BY DEF Init, NoAlertVanishes
<1>2. BridgeInv /\ RecordInv /\ HeldInv /\ NoAlertVanishes /\ [Next]_vars =>
        NoAlertVanishes'
  BY TwoOccurrencesStep
<1> QED BY HeldCorrect, <1>1, <1>2, PTL DEF Spec

-----------------------------------------------------------------------------
(* Any occurrences, no fault, writers that take turns with the bridge *)

\* Where the holder is after it ended a delivery: the lock is free, or the
\* replay is over and the request's own delivery begins.
Ended ==
    /\ ~sweeping'
    /\ \/ agenda' = <<>> /\ step' = "idle"
       \/ /\ Len(agenda) = 2 /\ Len(agenda') = 1
          /\ step' \in {"own", "plan"}

\* Without a fault the audit line is written and the commit succeeds.
LEMMA NothingFails ==
    ASSUME TypeInv, step \in Working, ~sweeping, faults = 0, faults' = 0
    PROVE  /\ \A a : Audit(a) => Ended
           /\ \A a : Fail(a) => Ended
           /\ \A state : Flush(state) => memory' = state /\ disk' = state /\ Ended
<1>1. agenda # <<>>
  BY DEF TypeInv, HolderOK
<1>2. faults + 1 # 0
  OBVIOUS
<1>3. ASSUME NEW a, Fail(a) PROVE Ended
  BY <1>3 DEF Fail, Ended
<1>4. ASSUME NEW a, Finish(a) PROVE Ended
  <2>1. /\ agenda' = Tail(agenda) /\ sweeping' = FALSE
        /\ step' = IF Len(agenda) = 1 THEN "idle" ELSE FirstStep(memory', agenda[2])
    BY <1>4 DEF Finish
  <2>2. FirstStep(memory', agenda[2]) \in {"own", "plan"}
    BY DEF FirstStep
  <2>3. Len(agenda) = 2 => Len(agenda) # 1
    OBVIOUS
  <2> QED BY <1>1, <2>1, <2>2, <2>3, AgendaTail DEF Ended
<1>5. ASSUME NEW a, Audit(a) PROVE Ended
  BY <1>2, <1>4, <1>5 DEF Audit
<1>6. ASSUME NEW state, Flush(state) PROVE memory' = state /\ disk' = state /\ Ended
  BY <1>2, <1>5, <1>6 DEF Flush
<1> QED BY <1>3, <1>5, <1>6

\* A held delivery goes from the file only when another with its identity is
\* held there, or its occurrence has its session.
LEMMA QuietHeld ==
    ASSUME BridgeInv, RecordInv, HeldInv, QuietInv, [Next]_vars,
           NEW c \in disk.checkpoint
    PROVE  \/ \E kept \in disk'.checkpoint :
                 DeliveryId(kept.delivery) = DeliveryId(c.delivery)
           \/ c.delivery.startsAt \in DOMAIN sessions
<1>1. c \in memory.checkpoint /\ disk = memory /\ TypeInv
  BY DEF QuietInv, BridgeInv
<1>2. CASE disk' = disk
  BY <1>2
<1>3. CASE HeldMove
  <2> DEFINE held == {[blockedBy |-> memory.route, delivery |-> Current]}
             state == [memory EXCEPT !.checkpoint = held]
  <2>1. DeliveryId(c.delivery) = DeliveryId(Current)
    BY <1>1, <1>3 DEF HeldMove, HoldConflicts
  <2>2. state.checkpoint = held
    BY <1>1 DEF TypeInv, TypeOK, BridgeStates
  <2>3. \E kept \in held : DeliveryId(kept.delivery) = DeliveryId(c.delivery)
    BY <2>1
  <2>4. disk' \in {disk, state}
    BY <1>3 DEF HeldMove, Stored
  <2> HIDE DEF held, state
  <2> QED BY <2>2, <2>3, <2>4
<1>4. CASE RoutedMove
  <2>1. memory.route # None /\ memory.route \in Int /\ Current.startsAt \in Int
    <3>1. memory.route # None
      BY <1>1 DEF BridgeInv, RouteInv, Decodes
    <3>2. memory.route \in Time /\ Current.startsAt \in Time
      BY <1>4, <3>1, RecordFacts DEF RoutedMove, Working
    <3> QED BY <3>1, <3>2, ConstantTypes
  <2>2. Current.startsAt \in DOMAIN sessions /\ Current.startsAt > memory.route
    BY <1>4, <2>1 DEF RoutedMove
  <2>3. ~(Current.startsAt <= memory.route)
    BY <2>1, <2>2
  <2>4. Len(agenda) \in {1, 2}
    <3>1. agenda # <<>>
      BY <1>1, <1>4 DEF RoutedMove, TypeInv, HolderOK, Working
    <3> QED BY <1>1, <3>1, AgendaTail
  <2>5. CASE Len(agenda) = 2
    <3>1. c.delivery = Current
      BY <1>1, <2>5 DEF QuietInv, ReplayedFirst, Current
    <3> QED BY <2>2, <3>1
  <2>6. CASE Len(agenda) = 1
    BY <1>1, <1>4, <2>3, <2>6 DEF RoutedMove, Working, QuietInv, ReplayedFirst
  <2> QED BY <2>4, <2>5, <2>6
<1> QED BY <1>1, <1>2, <1>3, <1>4, EveryMove DEF store

\* A delivery that ended: the file is what is in use, and what was replayed
\* has its session or waits for the attempt in flight.
LEMMA EndedQuiet ==
    ASSUME Ended, disk' = memory',
           Len(agenda) = 2 => \A c \in memory'.checkpoint :
                 \/ c.delivery.startsAt \in DOMAIN sessions'
                 \/ HasRunningAttempt(sessions'[memory'.route])
    PROVE  disk' = memory' /\ ~sweeping' /\ step' # "down" /\ ReplayedFirst'
<1>1. CASE agenda' = <<>> /\ step' = "idle"
  <2>1. Len(agenda') = 0
    BY <1>1, EmptySeq
  <2> QED BY <1>1, <2>1 DEF Ended, ReplayedFirst
<1>2. CASE Len(agenda) = 2 /\ Len(agenda') = 1 /\ step' \in {"own", "plan"}
  BY <1>2 DEF Ended, ReplayedFirst
<1> QED BY <1>1, <1>2 DEF Ended

\* What QuietInv says of the holder and the sessions.
HolderQuiet ==
    disk = memory /\ ~sweeping /\ step # "down" /\ ReplayedFirst /\ NewestRouted

\* The holder on its way, with the store and the agenda as they were.
LEMMA OnItsWayQuiet ==
    ASSUME QuietInv, UNCHANGED <<agenda, sweeping, store, sessions>>,
           step \in Working \ {"advance"}, step' \in {"own", "plan", "patch"}
    PROVE  HolderQuiet'
BY DEF QuietInv, HolderQuiet, ReplayedFirst, NewestRouted, store, Current, Working

\* The holder's four steps without a fault.
LEMMA QuietOwn ==
    ASSUME BridgeInv, RecordInv, QuietInv, DescribeOwn, faults = 0, faults' = 0
    PROVE  HolderQuiet'
<1>1. /\ step \in Working /\ step \in Working \ {"advance"} /\ ~sweeping /\ TypeInv
      /\ UNCHANGED <<sessions>> /\ step = "own"
  BY DEF DescribeOwn, Working, QuietInv, BridgeInv, gateway
<1>2. CASE Current.startsAt \notin DOMAIN sessions
  BY <1>1, <1>2, OnItsWayQuiet DEF DescribeOwn
<1>3. CASE Current.startsAt \in DOMAIN sessions
  <2> DEFINE own == sessions[Current.startsAt]
  <2>1. /\ own \in Incidents /\ Current.startsAt \in Time
        /\ RecordOf(own, Current.startsAt, now)
        /\ Current \in AlertDeliveries /\ Readable(Current.startsAt)
    BY <1>1, <1>3, RecordFacts
  <2>2. Decision(own, Current) # "rejected"
    BY <2>1, DecisionOnRecord
  <2>3. \/ Throw("ordering")
        \/ SendNext(Current.startsAt, Reduced(own, Current))
    BY <1>3, <2>1, <2>2 DEF DescribeOwn
  <2>4. CASE Throw("ordering")
    <3>1. UNCHANGED store /\ Ended
      BY <1>1, <2>4, NothingFails DEF Throw
    <3>2. agenda' = <<>> /\ step' = "idle"
      BY <1>1, <2>4 DEF Throw, Fail
    <3>3. ReplayedFirst'
      <4>1. Len(agenda') = 0
        BY <3>2, EmptySeq
      <4> QED BY <3>2, <4>1 DEF ReplayedFirst, Working
    <3> QED BY <1>1, <3>1, <3>2, <3>3 DEF HolderQuiet, QuietInv, NewestRouted, store, Ended
  <2>5. CASE SendNext(Current.startsAt, Reduced(own, Current))
    <3>1. UNCHANGED <<agenda, sweeping, store>> /\ step' = "patch"
      BY <2>5 DEF SendNext
    <3> QED BY <1>1, <3>1, OnItsWayQuiet
  <2> QED BY <2>3, <2>4, <2>5
<1> QED BY <1>2, <1>3

LEMMA QuietPlan ==
    ASSUME BridgeInv, RecordInv, HeldInv, QuietInv, Plan, faults = 0, faults' = 0
    PROVE  HolderQuiet'
<1>1. /\ step \in Working /\ step \in Working \ {"advance"} /\ ~sweeping /\ TypeInv
      /\ UNCHANGED <<sessions>> /\ step = "plan" /\ disk = memory
      /\ \A t \in DOMAIN sessions : t <= memory.route
  BY DEF Plan, Working, QuietInv, NewestRouted, BridgeInv, gateway
<1>2. ASSUME NEW answer, Throw(answer) PROVE HolderQuiet'
  <2>1. /\ UNCHANGED store /\ Ended /\ agenda' = <<>> /\ step' = "idle"
    BY <1>1, <1>2, NothingFails DEF Throw, Fail
  <2>2. ReplayedFirst'
    <3>1. Len(agenda') = 0
      BY <2>1, EmptySeq
    <3> QED BY <2>1, <3>1 DEF ReplayedFirst, Working
  <2> QED BY <1>1, <2>1, <2>2 DEF HolderQuiet, NewestRouted, store, Ended
<1>3. ASSUME NEW t, NEW state, SendNext(t, state) PROVE HolderQuiet'
  <2>1. UNCHANGED <<agenda, sweeping, store>> /\ step' = "patch"
    BY <1>3 DEF SendNext
  <2> QED BY <1>1, <2>1, OnItsWayQuiet
<1>4. CASE Current.alertStatus = "resolved" /\ Return("acked")
  <2>1. UNCHANGED store /\ Ended
    BY <1>1, <1>4, NothingFails DEF Return
  <2>2. Len(agenda) = 2 => FALSE
    <3>1. SUFFICES ASSUME Len(agenda) = 2 PROVE FALSE
      OBVIOUS
    <3>2. \E c \in memory.checkpoint : c.delivery = Current
      BY <3>1 DEF QuietInv, ReplayedFirst, Current
    <3> QED BY <1>4, <3>2 DEF HeldInv, OneIsHeld
  <2>3. disk' = memory' /\ ~sweeping' /\ step' # "down" /\ ReplayedFirst'
    BY <1>1, <2>1, <2>2, EndedQuiet DEF store
  <2> QED BY <1>1, <2>1, <2>3 DEF HolderQuiet, NewestRouted, store
<1>5. CASE /\ memory.route # None /\ HasRunningAttempt(sessions[memory.route])
           /\ SetCheckpoint
  <2> DEFINE state == [memory EXCEPT !.checkpoint = {[blockedBy |-> memory.route,
                                                      delivery  |-> Current]}]
  <2>1. state.route = memory.route
    BY <1>1 DEF TypeInv, TypeOK, BridgeStates
  <2>2. Flush(state)
    BY <1>5 DEF SetCheckpoint
  <2> HIDE DEF state
  <2>3. memory' = state /\ disk' = state /\ Ended
    BY <1>1, <2>2, NothingFails
  <2>4. memory'.route = memory.route /\ HasRunningAttempt(sessions'[memory'.route])
    BY <1>1, <1>5, <2>1, <2>3
  <2>5. disk' = memory' /\ ~sweeping' /\ step' # "down" /\ ReplayedFirst'
    BY <2>3, <2>4, EndedQuiet
  <2> QED BY <1>1, <2>4, <2>5 DEF HolderQuiet, NewestRouted
<1> QED BY <1>2, <1>3, <1>4, <1>5, PlanIsPlanned DEF Planned

LEMMA QuietPersist ==
    ASSUME ~AgentConcurrent, BridgeInv, RecordInv, QuietInv, Persist,
           faults = 0, faults' = 0
    PROVE  HolderQuiet'
<1>1. PICK p \in patch :
          /\ sessions' = Patched(p)
          /\ IF memory.route = p.occurrence THEN Return("acked")
             ELSE /\ step' = "advance"
                  /\ patch' = {}
                  /\ UNCHANGED <<agenda, sweeping, answers, store, faults>>
  BY DEF Persist
<1>2. /\ step \in Working /\ ~sweeping /\ TypeInv /\ disk = memory /\ step = "patch"
      /\ \A t \in DOMAIN sessions : t <= memory.route
  BY DEF Persist, Working, QuietInv, NewestRouted, BridgeInv
<1>3. /\ p.occurrence = Current.startsAt /\ Justified(p)
      /\ DOMAIN sessions' = DOMAIN sessions \cup {p.occurrence}
      /\ \A t \in DOMAIN sessions : t # p.occurrence => sessions'[t] = sessions[t]
  BY <1>1 DEF RecordInv, BridgeInv, HolderInv, Patched
<1>4. Len(agenda) = 2 =>
        \A c \in memory.checkpoint : c.delivery.startsAt \in DOMAIN sessions'
  BY <1>3 DEF QuietInv, ReplayedFirst, Current
<1>5. CASE memory.route = p.occurrence /\ Return("acked")
  <2>1. UNCHANGED store /\ Ended
    BY <1>2, <1>5, NothingFails DEF Return
  <2>2. disk' = memory' /\ ~sweeping' /\ step' # "down" /\ ReplayedFirst'
    BY <1>2, <1>4, <2>1, EndedQuiet DEF store
  <2>3. DOMAIN sessions' = DOMAIN sessions
    <3>1. memory.route # None => memory.route \in DOMAIN sessions
      BY RecordFacts
    <3>2. memory.route # None
      BY <1>2, <1>5, BridgeConstants DEF TypeInv, TypeOK
    <3> QED BY <1>3, <1>5, <3>1, <3>2
  <2> QED BY <1>2, <2>1, <2>2, <2>3 DEF HolderQuiet, NewestRouted, store
<1>6. CASE /\ memory.route # p.occurrence /\ step' = "advance"
           /\ UNCHANGED <<agenda, sweeping, answers, store, faults>>
  <2>1. UNCHANGED <<agenda, memory, disk, sweeping>> /\ Current' = Current
    BY <1>6 DEF store, Current
  <2>2. NewestRouted'
    BY <1>2, <1>3, <1>6, <2>1 DEF NewestRouted
  <2>3. ASSUME Len(agenda) = 1, NEW c \in memory.checkpoint,
               c.delivery.startsAt \notin DOMAIN sessions
        PROVE  /\ HasRunningAttempt(sessions'[memory.route])
               /\ Current.startsAt <= memory.route
    <3>1. HasRunningAttempt(sessions[memory.route])
      BY <1>2, <2>3 DEF QuietInv, ReplayedFirst
    <3>2. memory.route # None /\ memory.route \in DOMAIN sessions
      BY <2>3 DEF BridgeInv, RouteInv, Decodes
    <3>3. p.occurrence \in DOMAIN sessions
      BY <1>3, <3>1, <3>2 DEF Justified
    <3> QED BY <1>2, <1>3, <1>6, <3>1, <3>2, <3>3
  <2>4. ReplayedFirst'
    BY <1>3, <2>1, <2>3 DEF QuietInv, ReplayedFirst
  <2> QED BY <1>2, <1>6, <2>1, <2>2, <2>4 DEF HolderQuiet
<1> QED BY <1>1, <1>5, <1>6

LEMMA QuietAdvance ==
    ASSUME BridgeInv, RecordInv, QuietInv, AdvanceRoute, faults = 0, faults' = 0
    PROVE  HolderQuiet'
<1>1. /\ step \in Working /\ ~sweeping /\ TypeInv /\ disk = memory
      /\ sessions' = sessions /\ Current.startsAt \in DOMAIN sessions
      /\ \A t \in DOMAIN sessions : t <= memory.route \/ t = Current.startsAt
  BY DEF AdvanceRoute, Working, QuietInv, NewestRouted, BridgeInv, HolderInv, gateway
<1>2. /\ \A t \in DOMAIN sessions : t \in Int
      /\ memory.route \in Int /\ Current.startsAt \in Int
      /\ memory.route # None => Readable(memory.route)
      /\ memory.route = None => memory.route <= Current.startsAt
  <2>1. /\ \A t \in DOMAIN sessions : t \in Time
        /\ memory.route # None => Readable(memory.route)
    BY RecordFacts
  <2>2. memory.route \in OptionalTime
    BY <1>1 DEF TypeInv, TypeOK, BridgeStates
  <2>3. \A t \in Time : None <= t
    BY ConstantTypes DEF Time, None
  <2> QED BY <1>1, <2>1, <2>2, <2>3, ConstantTypes
<1>3. CASE /\ CommitRouteAndClearCheckpoint
           /\ memory.route <= Current.startsAt
  <2> DEFINE state == [route |-> Current.startsAt, checkpoint |-> {}]
  <2>1. state.route = Current.startsAt /\ state.checkpoint = {} /\ Flush(state)
    BY <1>3 DEF CommitRouteAndClearCheckpoint
  <2> HIDE DEF state
  <2>2. memory' = state /\ disk' = state /\ Ended
    BY <1>1, <2>1, NothingFails
  <2>3. disk' = memory' /\ ~sweeping' /\ step' # "down" /\ ReplayedFirst'
    BY <2>1, <2>2, EndedQuiet
  <2>4. \A t \in DOMAIN sessions : t <= Current.startsAt
    BY <1>1, <1>2, <1>3
  <2> QED BY <1>1, <2>1, <2>2, <2>3, <2>4 DEF HolderQuiet, NewestRouted
<1>4. CASE Return("acked") /\ memory.route # None /\ ~IsNewer(Current)
  <2>1. Current.startsAt <= memory.route
    BY <1>2, <1>4 DEF IsNewer, Readable, OccurrenceId
  <2>2. UNCHANGED store /\ Ended
    BY <1>1, <1>4, NothingFails DEF Return
  <2>3. Len(agenda) = 2 =>
          \A c \in memory.checkpoint : c.delivery.startsAt \in DOMAIN sessions'
    BY <1>1 DEF QuietInv, ReplayedFirst, Current
  <2>4. disk' = memory' /\ ~sweeping' /\ step' # "down" /\ ReplayedFirst'
    BY <1>1, <2>2, <2>3, EndedQuiet DEF store
  <2> QED BY <1>1, <2>1, <2>2, <2>4 DEF HolderQuiet, NewestRouted, store
<1>5. IsNewer(Current) /\ memory.route # None => memory.route <= Current.startsAt
  BY <1>2 DEF IsNewer, Readable, OccurrenceId
<1> QED BY <1>2, <1>3, <1>4, <1>5 DEF AdvanceRoute

\* The others, without a fault.
LEMMA QuietOthers ==
    ASSUME ~AgentConcurrent, BridgeInv, RecordInv, HeldInv, QuietInv,
           \/ Tick \/ ArriveSome \/ \E d \in requests : Acquire(d)
           \/ Agent \/ UNCHANGED vars
    PROVE  HolderQuiet'
<1>1. TypeInv /\ disk = memory /\ ~sweeping /\ step # "down"
  BY DEF QuietInv, BridgeInv
<1>2. ASSUME UNCHANGED <<agenda, sweeping, step, store, sessions>> PROVE HolderQuiet'
  BY <1>1, <1>2 DEF QuietInv, HolderQuiet, ReplayedFirst, NewestRouted, store, Current
<1>3. CASE Tick \/ ArriveSome \/ UNCHANGED vars
  BY <1>2, <1>3 DEF Tick, ArriveSome, Arrive, vars, holder, gateway
<1>4. CASE \E d \in requests : Acquire(d)
  <2>1. PICK d \in requests : Acquire(d)
    BY <1>4
  <2>2. /\ step = "idle" /\ step' \in {"own", "plan"}
        /\ agenda' = Append(Replay(memory), d)
        /\ UNCHANGED <<sessions, memory, disk, sweeping>>
    BY <2>1 DEF Acquire, FirstStep, store, gateway
  <2>3. NewestRouted'
    BY <2>2 DEF QuietInv, NewestRouted
  <2>4. ReplayedFirst'
    <3>1. CASE memory.checkpoint = {}
      <4>1. Replay(memory) = <<>>
        BY <3>1 DEF Replay
      <4>2. Len(agenda') = 1
        BY <2>2, <4>1
      <4> QED BY <2>2, <3>1, <4>2 DEF ReplayedFirst
    <3>2. CASE memory.checkpoint # {}
      <4> DEFINE held == CHOOSE c \in memory.checkpoint : TRUE
      <4>1. held \in memory.checkpoint
        BY <3>2
      <4> HIDE DEF held
      <4>2. Replay(memory) = <<held.delivery>>
        BY <3>2 DEF Replay, held
      <4>3. Len(agenda') = 2 /\ agenda'[1] = held.delivery
        BY <2>2, <4>2
      <4>4. \A c \in memory.checkpoint : c = held
        BY <4>1 DEF HeldInv, OneIsHeld
      <4> QED BY <2>2, <3>2, <4>3, <4>4 DEF ReplayedFirst
    <3> QED BY <3>1, <3>2
  <2> QED BY <1>1, <2>2, <2>3, <2>4 DEF HolderQuiet
<1>5. CASE Agent
  <2>1. AgentPatched /\ UNCHANGED <<store, holder>>
    BY <1>1, <1>5, AgentStep
  <2>2. /\ DOMAIN sessions' = DOMAIN sessions /\ step \in {"idle", "down"}
        /\ UNCHANGED <<agenda, sweeping, step, memory, disk>>
    BY <2>1 DEF AgentPatched, store, holder
  <2> QED BY <1>1, <2>2 DEF QuietInv, HolderQuiet, ReplayedFirst, NewestRouted, Working
<1> QED BY <1>3, <1>4, <1>5

\* Without a fault and with writers that take turns, every step stays quiet.
LEMMA QuietStep ==
    ASSUME ~AgentConcurrent, BridgeInv, RecordInv, HeldInv, QuietInv,
           faults = 0, faults' = 0, [Next]_vars
    PROVE  QuietInv'
<1>1. faults + 1 # 0 /\ step # "down" /\ late = {}
  BY DEF QuietInv
<1>2. HolderQuiet'
  <2>1. CASE Work
    BY <2>1, QuietOwn, QuietPlan, QuietPersist, QuietAdvance DEF Work
  <2>2. CASE FailRpc \/ Crash \/ Restart \/ LandLate
    BY <1>1, <2>2 DEF FailRpc, Crash, Restart, LandLate
  <2> QED BY <2>1, <2>2, QuietOthers DEF Next
<1>3. NoAlertVanishes'
  <2>1. SUFFICES ASSUME NEW t \in acked', t \notin DOMAIN sessions'
                 PROVE  \E c \in disk'.checkpoint : c.delivery.startsAt = t
    BY DEF NoAlertVanishes
  <2>2. CASE t \notin acked
    BY <2>1, <2>2, EveryMove DEF AcksBacked
  <2>3. CASE t \in acked
    <3>1. t \notin DOMAIN sessions
      BY <2>1, EveryMove
    <3>2. PICK c \in disk.checkpoint : c.delivery.startsAt = t
      BY <2>3, <3>1 DEF QuietInv, NoAlertVanishes
    <3>3. PICK kept \in disk'.checkpoint :
              DeliveryId(kept.delivery) = DeliveryId(c.delivery)
      BY <3>1, <3>2, QuietHeld
    <3> QED BY <3>2, <3>3 DEF DeliveryId
  <2> QED BY <2>2, <2>3
<1>4. late' = {}
  <2>1. CASE Work
    BY <1>1, <2>1 DEF Work, DescribeOwn, Plan, Persist, AdvanceRoute, gateway
  <2>2. CASE FailRpc \/ Crash \/ Restart \/ LandLate
    BY <1>1, <2>2 DEF FailRpc, Crash, Restart, LandLate
  <2>3. CASE Agent
    BY <1>1, <2>3, AgentStep DEF BridgeInv
  <2>4. CASE Tick \/ ArriveSome \/ (\E d \in requests : Acquire(d)) \/ UNCHANGED vars
    BY <1>1, <2>4 DEF Tick, ArriveSome, Arrive, Acquire, vars, gateway
  <2> QED BY <2>1, <2>2, <2>3, <2>4 DEF Next
<1> QED BY <1>2, <1>3, <1>4 DEF QuietInv, HolderQuiet

LEMMA QuietInit == Init => QuietInv
<1> SUFFICES ASSUME Init PROVE QuietInv
  OBVIOUS
<1>1. /\ agenda = <<>> /\ DOMAIN sessions = {} /\ memory.checkpoint = {}
      /\ acked = {} /\ step = "idle" /\ disk = memory /\ ~sweeping /\ late = {}
  BY DEF Init
<1>2. Len(agenda) = 0
  BY <1>1, EmptySeq
<1> QED BY <1>1, <1>2 DEF QuietInv, ReplayedFirst, NewestRouted, NoAlertVanishes

LEMMA QuietCorrect ==
    ASSUME ~AgentConcurrent
    PROVE  Spec /\ [](faults = 0) => []QuietInv
<1>1. BridgeInv /\ RecordInv /\ HeldInv /\ QuietInv /\ faults = 0 /\ (faults = 0)'
         /\ [Next]_vars => QuietInv'
  BY QuietStep
<1> QED BY HeldCorrect, QuietInit, <1>1, PTL DEF Spec

\* While no fault happens and the writers take turns with the bridge, no
\* firing alert that got a 2xx vanishes, however many occurrences follow each
\* other.
THEOREM QuietAlertsNeverVanish ==
    ASSUME ~AgentConcurrent
    PROVE  Spec /\ [](faults = 0) => []NoAlertVanishes
<1>1. QuietInv => NoAlertVanishes
  BY DEF QuietInv
<1> QED BY QuietCorrect, <1>1, PTL

\* Nor is a held delivery given up before its occurrence has its session
\* (drainPendingCheckpoint before the request's own delivery, processor.ts).
THEOREM QuietHeldNeverDiscarded ==
    ASSUME ~AgentConcurrent
    PROVE  Spec /\ [](faults = 0) => HeldDeliveryNotDiscarded
<1>1. BridgeInv /\ RecordInv /\ HeldInv /\ QuietInv /\ [Next]_vars =>
        [\A c \in disk.checkpoint :
          \/ \E kept \in disk'.checkpoint :
                DeliveryId(kept.delivery) = DeliveryId(c.delivery)
          \/ c.delivery.startsAt \in DOMAIN sessions]_vars
  BY QuietHeld
<1> QED BY HeldCorrect, QuietCorrect, <1>1, PTL DEF Spec, HeldDeliveryNotDiscarded
=============================================================================
