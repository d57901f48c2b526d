-------------------------- MODULE IncidentLifecycle --------------------------
(***************************************************************************)
(* The life of one incident occurrence: alert deliveries, the agent's      *)
(* evidence and proposal, the human decision, remediation attempts, the    *)
(* recovery check and the restart reconciliation, in every order.  Each    *)
(* action is one call that reads the record, computes the next one and     *)
(* patches it; a call that throws or is rejected patches nothing.          *)
(*                                                                         *)
(* Every timestamp is an argument of the code's functions.  Deliveries are *)
(* stamped by the bridge before they queue, so receivedAt may be any past  *)
(* instant.  The other callers pass a timestamp that may lag the moment of *)
(* the patch by at most MaxLag: a Prometheus sample's own time, the        *)
(* decidedAt and startedAt an approval entry fixed before the human        *)
(* answered, a clock behind the bridge's clock.                            *)
(***************************************************************************)
EXTENDS IncidentReducer, IncidentWorkflow, FiniteSets

CONSTANT MaxLag     \* bound: how far a caller's timestamp may lag

ASSUME IncidentLifecycleAssumption == MaxLag \in Nat

VARIABLES
    incident,       \* the record in the Gateway session
    now,            \* the current instant
    accepted        \* history: identities of the deliveries counted as new

vars == <<incident, now, accepted>>

LaggedTimes == {t \in Time : now - MaxLag <= t /\ t <= now}

-----------------------------------------------------------------------------
Init ==
    \E fp \in Fingerprints, id \in AlertIds, start \in Time, receipt \in Time :
        LET d == [fingerprint |-> fp, alertId |-> id, alertStatus |-> "firing",
                  startsAt |-> start, endsAt |-> None, receivedAt |-> receipt]
        IN  /\ DecisionMissing(d) = "created"
            /\ incident = CreateIncident(d)
            /\ now = receipt
            /\ accepted = {DeliveryId(d)}

Tick ==
    /\ now < MaxTime
    /\ now' = now + 1
    /\ UNCHANGED <<incident, accepted>>

\* reduceAlertDelivery on the record, and the patch of what it returns
ReceiveDelivery(d) ==
    /\ ValidDelivery(d)
    /\ d.receivedAt <= now
    /\ incident' = Reduced(incident, d)
    /\ accepted' = IF Decision(incident, d) \in {"updated", "stale_refire"}
                   THEN accepted \cup {DeliveryId(d)}
                   ELSE accepted
    /\ UNCHANGED now

CollectEvidence(fromPrometheus, at) ==
    /\ CanRecordMetricEvidence(incident)
    /\ incident' = RecordMetricEvidence(incident, fromPrometheus, at)
    /\ UNCHANGED <<now, accepted>>

Propose(at) ==
    /\ CanRecordRemediationProposal(incident)
    /\ incident' = RecordRemediationProposal(incident, at)
    /\ UNCHANGED <<now, accepted>>

DecideApproval(approved, at) ==
    /\ AwaitsApproval(incident)
    /\ incident' = RecordApprovalDecision(incident, approved, at)
    /\ UNCHANGED <<now, accepted>>

StartAttempt(key, target, at) ==
    /\ BeginDecision(incident, key, target) = "started"
    /\ incident' = BeginAttempt(incident, key, target, at)
    /\ UNCHANGED <<now, accepted>>

FinishAttempt(key, status, at) ==
    /\ CanFinishAttempt(incident, key, status, at)
    /\ incident' = WithAttemptSettled(incident, status, at)
    /\ UNCHANGED <<now, accepted>>

VerifyRecovery(key, healthy, at) ==
    /\ CanVerifyRecovery(incident, key, at)
    /\ incident' = RecordRecoveryCheck(incident, healthy, at)
    /\ UNCHANGED <<now, accepted>>

\* reconcileIncidentOnRestart with each outcome of the external reconciler;
\* without a running attempt it returns the record unchanged.
Reconcile(outcome, at) ==
    /\ CanReconcile(incident, at)
    /\ HasRunningAttempt(incident)
    /\ incident' = CASE outcome = "confirmed_succeeded" ->
                            SettleAttempt(incident, "succeeded", at)
                     [] outcome = "confirmed_failed" ->
                            SettleAttempt(incident, "failed", at)
                     [] outcome = "unknown" ->
                            BlockForManualReview(incident, at)
    /\ UNCHANGED <<now, accepted>>

ReceiveSomeDelivery ==
    \E fp \in Fingerprints, id \in AlertIds, status \in {"firing", "resolved"},
       start \in Time, end \in OptionalTime, receipt \in Time :
        ReceiveDelivery([fingerprint |-> fp, alertId |-> id,
                         alertStatus |-> status, startsAt |-> start,
                         endsAt |-> end, receivedAt |-> receipt])

Workflow ==
    \E at \in LaggedTimes :
        \/ \E fromPrometheus \in BOOLEAN : CollectEvidence(fromPrometheus, at)
        \/ Propose(at)
        \/ \E approved \in BOOLEAN : DecideApproval(approved, at)
        \/ \E key \in Keys, target \in Targets : StartAttempt(key, target, at)
        \/ \E key \in Keys, status \in {"succeeded", "failed"} :
              FinishAttempt(key, status, at)
        \/ \E key \in Keys, healthy \in BOOLEAN :
              VerifyRecovery(key, healthy, at)
        \/ \E outcome \in {"confirmed_succeeded", "confirmed_failed", "unknown"} :
              Reconcile(outcome, at)

Next == Tick \/ ReceiveSomeDelivery \/ Workflow

Spec == Init /\ [][Next]_vars

-----------------------------------------------------------------------------
(* Properties *)

\* The session holds a record with every field, counter and timestamp in range.
TypeOK ==
    /\ incident \in Incidents
    /\ now \in Time
    /\ accepted \subseteq DeliveryIds

\* Every reader of the session decodes what the last writer left, whoever it
\* was: the combination of delivery times, attempt times, counters and stage
\* passes readIncidentStateV3.  Needs callers whose timestamps do not lag.
StateStaysReadable == ValidIncident(incident)

\* The part of the decoder's rules that does not compare timestamps, which
\* holds however far callers' timestamps lag: bounded unique history, a
\* single running attempt and only under an approval.
StructureStaysSound ==
    /\ DeliveriesCounted(incident)
    /\ AttemptsBounded(incident)
    /\ RunningAttemptAuthorized(incident)

\* Whatever happened since, an incident with a remediation attempt is one
\* that a human approved after its evidence passed the policy.
AttemptsAuthorized ==
    incident.remediationAttempts # <<>> =>
        /\ incident.proposedAction
        /\ incident.approvalStatus = "approved"
        /\ incident.evidenceValidation = "passed"

\* An incident in the remediation stage can move: an attempt is running or
\* the budget allows another.  Neither a failed attempt nor a failed recovery
\* check nor a reconciliation may leave it there with nothing left to try.
BudgetNotStranded ==
    incident.stage = "remediation" =>
        \/ HasRunningAttempt(incident)
        \/ Len(incident.remediationAttempts) < MaxAttempts

\* Recovery is checked, and an incident completed, only on top of an attempt
\* recorded as succeeded, and with none in flight.
RecoveryFollowsSuccess ==
    incident.stage \in {"recovery_check", "completed"} =>
        LET n == Len(incident.remediationAttempts) IN
        /\ n > 0
        /\ incident.remediationAttempts[n].status = "succeeded"
        /\ ~HasRunningAttempt(incident)

\* Blocked always has a cause a person can act on: the human denied, the
\* outcome of an attempt is unknown, or the budget is spent.
BlockedIsExplained ==
    incident.stage = "blocked" =>
        \/ incident.approvalStatus = "denied"
        \/ IsManualReview(incident)
        \/ Len(incident.remediationAttempts) = MaxAttempts

\* Until the retained window overflows, every distinct delivery counts
\* exactly once, whatever the order, the retries and the work in between.
DistinctDeliveriesCountOnce ==
    Cardinality(accepted) <= MaxRecentDeliveryIds =>
        /\ incident.nonDuplicateDeliveryCount = Cardinality(accepted)
        /\ accepted = {incident.recentDeliveryIds[i] :
                          i \in DOMAIN incident.recentDeliveryIds}

\* "Attempt history is never pruned": no step removes an attempt, rewrites
\* its identity or touches one already settled.
AttemptHistoryPreserved ==
    [][\A i \in DOMAIN incident.remediationAttempts :
          LET old == incident.remediationAttempts[i]
              new == incident'.remediationAttempts[i]
          IN  /\ i \in DOMAIN incident'.remediationAttempts
              /\ new.key = old.key
              /\ new.target = old.target
              /\ new.startedAt = old.startedAt
              /\ old.status # "running" => new = old]_vars

\* A completed incident stays completed; a blocked one leaves blocked only
\* in the step that settles its running attempt.
TerminalStagesHold ==
    [][/\ incident.stage = "completed" => incident'.stage = "completed"
       /\ incident.stage = "blocked" /\ incident'.stage # "blocked" =>
             HasRunningAttempt(incident) /\ ~HasRunningAttempt(incident')]_vars

\* updatedAt is the incident's logical clock and never goes back.
UpdatedAtNeverRegresses ==
    [][incident.updatedAt <= incident'.updatedAt]_vars

\* A resolved occurrence is never reopened by a late firing delivery.
ResolvedNeverReopens ==
    [][incident.alertStatus = "resolved" =>
          incident'.alertStatus = "resolved"]_vars
=============================================================================
