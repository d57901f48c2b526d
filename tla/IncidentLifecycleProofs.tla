----------------------- MODULE IncidentLifecycleProofs -----------------------
(***************************************************************************)
(* Theorems about the incident lifecycle for every budget of retries, size *)
(* of the delivery window, set of keys and targets, and lag of callers.    *)
(***************************************************************************)
EXTENDS IncidentLifecycle, IncidentOperatorLemmas, FiniteSetTheorems

-----------------------------------------------------------------------------
(* Type correctness *)

\* Every call of the reducer or of the workflow turns a record into a record.
LEMMA TypeStep ==
    ASSUME TypeOK, [Next]_vars
    PROVE  TypeOK'
<1> USE DEF TypeOK
<1>1. CASE Tick
  BY <1>1, ConstantTypes DEF Tick, Time
<1>2. CASE ReceiveSomeDelivery
  <2> SUFFICES ASSUME NEW fp \in Fingerprints, NEW id \in AlertIds,
                      NEW status \in {"firing", "resolved"},
                      NEW start \in Time, NEW end \in OptionalTime,
                      NEW receipt \in Time,
                      ReceiveDelivery([fingerprint |-> fp, alertId |-> id,
                                       alertStatus |-> status, startsAt |-> start,
                                       endsAt |-> end, receivedAt |-> receipt])
               PROVE  TypeOK'
    BY <1>2 DEF ReceiveSomeDelivery
  <2> DEFINE d == [fingerprint |-> fp, alertId |-> id,
                   alertStatus |-> status, startsAt |-> start,
                   endsAt |-> end, receivedAt |-> receipt]
  <2>1. d \in Deliveries
    BY DEF Deliveries
  <2> HIDE DEF d
  <2>2. ReceiveDelivery(d)
    BY DEF d
  <2> QED BY <2>1, <2>2, ReducedType, DeliveryIdType DEF ReceiveDelivery
<1>3. CASE Workflow
  <2> SUFFICES ASSUME NEW at \in Time,
                      \/ \E fromPrometheus \in BOOLEAN :
                            CollectEvidence(fromPrometheus, at)
                      \/ Propose(at)
                      \/ \E approved \in BOOLEAN : DecideApproval(approved, at)
                      \/ \E key \in Keys, target \in Targets :
                            StartAttempt(key, target, at)
                      \/ \E key \in Keys, status \in {"succeeded", "failed"} :
                            FinishAttempt(key, status, at)
                      \/ \E key \in Keys, healthy \in BOOLEAN :
                            VerifyRecovery(key, healthy, at)
                      \/ \E outcome \in {"confirmed_succeeded",
                                         "confirmed_failed", "unknown"} :
                            Reconcile(outcome, at)
               PROVE  TypeOK'
    BY <1>3 DEF Workflow, LaggedTimes
  <2>1. ASSUME NEW fromPrometheus \in BOOLEAN, CollectEvidence(fromPrometheus, at)
        PROVE  TypeOK'
    BY <2>1, EvidenceAndProposalType DEF CollectEvidence
  <2>2. CASE Propose(at)
    BY <2>2, EvidenceAndProposalType DEF Propose
  <2>3. ASSUME NEW approved \in BOOLEAN, DecideApproval(approved, at)
        PROVE  TypeOK'
    BY <2>3, DecisionAndCheckType DEF DecideApproval
  <2>4. ASSUME NEW key \in Keys, NEW target \in Targets,
               StartAttempt(key, target, at)
        PROVE  TypeOK'
    BY <2>4, BeginAttemptType DEF StartAttempt
  <2>5. ASSUME NEW key \in Keys, NEW status \in {"succeeded", "failed"},
               FinishAttempt(key, status, at)
        PROVE  TypeOK'
    BY <2>5, WithAttemptSettledType DEF FinishAttempt, CanFinishAttempt
  <2>6. ASSUME NEW key \in Keys, NEW healthy \in BOOLEAN,
               VerifyRecovery(key, healthy, at)
        PROVE  TypeOK'
    BY <2>6, DecisionAndCheckType DEF VerifyRecovery
  <2>7. ASSUME NEW outcome \in {"confirmed_succeeded", "confirmed_failed",
                                "unknown"},
               Reconcile(outcome, at)
        PROVE  TypeOK'
    BY <2>7, WithAttemptSettledType, DecisionAndCheckType
       DEF Reconcile, SettleAttempt
  <2> QED BY <2>1, <2>2, <2>3, <2>4, <2>5, <2>6, <2>7
<1>4. CASE UNCHANGED vars
  BY <1>4 DEF vars
<1> QED BY <1>1, <1>2, <1>3, <1>4 DEF Next

\* The session always holds an incident record: no sequence of deliveries,
\* agent calls, decisions and restarts takes a field out of its range.
THEOREM TypeCorrect == Spec => []TypeOK
<1>1. Init => TypeOK
  <2> SUFFICES ASSUME NEW fp \in Fingerprints, NEW id \in AlertIds,
                      NEW start \in Time, NEW receipt \in Time,
                      LET d == [fingerprint |-> fp, alertId |-> id,
                                alertStatus |-> "firing", startsAt |-> start,
                                endsAt |-> None, receivedAt |-> receipt]
                      IN  /\ incident = CreateIncident(d)
                          /\ now = receipt
                          /\ accepted = {DeliveryId(d)}
               PROVE  TypeOK
    BY DEF Init
  <2> DEFINE d == [fingerprint |-> fp, alertId |-> id,
                   alertStatus |-> "firing", startsAt |-> start,
                   endsAt |-> None, receivedAt |-> receipt]
  <2>1. d \in Deliveries
    BY ConstantTypes DEF Deliveries
  <2>2. CreateIncident(d) \in Incidents /\ DeliveryId(d) \in DeliveryIds
    BY <2>1, CreateIncidentType, DeliveryIdType
  <2> QED BY <2>2 DEF TypeOK
<1>2. TypeOK /\ [Next]_vars => TypeOK'
  BY TypeStep
<1> QED BY <1>1, <1>2, PTL DEF Spec

-----------------------------------------------------------------------------
(* What a step does to the record, one disjunct per writer *)

WorkflowSound == WorkflowInv(incident)

ByDelivery == \E d \in Deliveries : incident' = Reduced(incident, d)

ByEarlyWriter(at, yes) ==
    \/ /\ CanRecordMetricEvidence(incident)
       /\ incident' = RecordMetricEvidence(incident, yes, at)
    \/ /\ CanRecordRemediationProposal(incident)
       /\ incident' = RecordRemediationProposal(incident, at)
    \/ /\ AwaitsApproval(incident)
       /\ incident' = RecordApprovalDecision(incident, yes, at)

ByBegin(at) ==
    \E key \in Keys, target \in Targets :
        /\ BeginDecision(incident, key, target) = "started"
        /\ incident' = BeginAttempt(incident, key, target, at)

BySettlement(at) ==
    /\ HasRunningAttempt(incident)
    /\ \E status \in {"succeeded", "failed"} :
          incident' = WithAttemptSettled(incident, status, at)

ByLateWriter(at, yes) ==
    \/ /\ incident.stage = "recovery_check"
       /\ incident' = RecordRecoveryCheck(incident, yes, at)
    \/ /\ HasRunningAttempt(incident)
       /\ incident' = BlockForManualReview(incident, at)

\* Every step leaves the record alone or is the step of one writer.
LEMMA StepWriters ==
    ASSUME [Next]_vars
    PROVE  \/ incident' = incident
           \/ ByDelivery
           \/ \E at \in Time, yes \in BOOLEAN :
                 \/ ByEarlyWriter(at, yes)
                 \/ ByBegin(at)
                 \/ BySettlement(at)
                 \/ ByLateWriter(at, yes)
<1>1. CASE Tick \/ UNCHANGED vars
  BY <1>1 DEF Tick, vars
<1>2. CASE ReceiveSomeDelivery
  <2> PICK fp \in Fingerprints, id \in AlertIds,
           status \in {"firing", "resolved"}, start \in Time,
           end \in OptionalTime, receipt \in Time :
           ReceiveDelivery([fingerprint |-> fp, alertId |-> id,
                            alertStatus |-> status, startsAt |-> start,
                            endsAt |-> end, receivedAt |-> receipt])
    BY <1>2 DEF ReceiveSomeDelivery
  <2> DEFINE d == [fingerprint |-> fp, alertId |-> id,
                   alertStatus |-> status, startsAt |-> start,
                   endsAt |-> end, receivedAt |-> receipt]
  <2>1. d \in Deliveries /\ incident' = Reduced(incident, d)
    BY DEF Deliveries, ReceiveDelivery
  <2> QED BY <2>1 DEF ByDelivery
<1>3. CASE Workflow
  <2> PICK at \in Time :
           \/ \E fromPrometheus \in BOOLEAN : CollectEvidence(fromPrometheus, at)
           \/ Propose(at)
           \/ \E approved \in BOOLEAN : DecideApproval(approved, at)
           \/ \E key \in Keys, target \in Targets :
                 StartAttempt(key, target, at)
           \/ \E key \in Keys, status \in {"succeeded", "failed"} :
                 FinishAttempt(key, status, at)
           \/ \E key \in Keys, healthy \in BOOLEAN :
                 VerifyRecovery(key, healthy, at)
           \/ \E outcome \in {"confirmed_succeeded", "confirmed_failed",
                               "unknown"} : Reconcile(outcome, at)
    BY <1>3 DEF Workflow, LaggedTimes
  <2>1. ASSUME NEW outcome \in {"confirmed_succeeded", "confirmed_failed",
                                "unknown"},
               Reconcile(outcome, at)
        PROVE  BySettlement(at) \/ ByLateWriter(at, TRUE)
    BY <2>1 DEF Reconcile, SettleAttempt, BySettlement, ByLateWriter
  <2>2. ASSUME NEW key \in Keys, NEW status \in {"succeeded", "failed"},
               FinishAttempt(key, status, at)
        PROVE  BySettlement(at)
    BY <2>2 DEF FinishAttempt, CanFinishAttempt, BySettlement
  <2>3. ASSUME NEW key \in Keys, NEW healthy \in BOOLEAN,
               VerifyRecovery(key, healthy, at)
        PROVE  ByLateWriter(at, healthy)
    BY <2>3 DEF VerifyRecovery, CanVerifyRecovery, ByLateWriter
  <2>4. ASSUME NEW key \in Keys, NEW target \in Targets,
               StartAttempt(key, target, at)
        PROVE  ByBegin(at)
    BY <2>4 DEF StartAttempt, ByBegin
  <2>5. ASSUME NEW yes \in BOOLEAN,
               \/ CollectEvidence(yes, at)
               \/ Propose(at)
               \/ DecideApproval(yes, at)
        PROVE  ByEarlyWriter(at, yes)
    BY <2>5 DEF CollectEvidence, Propose, DecideApproval, ByEarlyWriter
  <2> QED BY <2>1, <2>2, <2>3, <2>4, <2>5
<1> QED BY <1>1, <1>2, <1>3 DEF Next

\* No writer breaks the workflow invariant.
LEMMA WorkflowStep ==
    ASSUME TypeOK, WorkflowSound, [Next]_vars
    PROVE  WorkflowSound'
<1> DEFINE s == incident
<1>1. s \in Incidents /\ WorkflowInv(s)
  BY DEF TypeOK, WorkflowSound
<1>2. SUFFICES WorkflowInv(incident')
  BY DEF WorkflowSound
<1>3. CASE incident' = incident
  BY <1>1, <1>3
<1>4. CASE ByDelivery
  BY <1>1, <1>4, ReducedKeepsWorkflow, WorkflowFieldsDecide DEF ByDelivery
<1>5. ASSUME NEW at \in Time, NEW yes \in BOOLEAN, ByEarlyWriter(at, yes)
      PROVE  WorkflowInv(incident')
  BY <1>1, <1>5, EarlyWorkflowSteps DEF ByEarlyWriter
<1>6. ASSUME NEW at \in Time, ByBegin(at)
      PROVE  WorkflowInv(incident')
  BY <1>1, <1>6, BeginKeepsWorkflow DEF ByBegin
<1>7. ASSUME NEW at \in Time, BySettlement(at)
      PROVE  WorkflowInv(incident')
  BY <1>1, <1>7, SettleKeepsWorkflow DEF BySettlement
<1>8. ASSUME NEW at \in Time, NEW yes \in BOOLEAN, ByLateWriter(at, yes)
      PROVE  WorkflowInv(incident')
  BY <1>1, <1>8, LateWorkflowSteps DEF ByLateWriter
<1> QED BY <1>3, <1>4, <1>5, <1>6, <1>7, <1>8, StepWriters

\* The workflow invariant holds in every reachable state.
THEOREM WorkflowCorrect == Spec => []WorkflowSound
<1>1. Init => WorkflowSound
  <2> SUFFICES ASSUME NEW d, incident = CreateIncident(d)
               PROVE  WorkflowInv(incident)
    BY DEF Init, WorkflowSound
  <2>1. incident.stage = "alert_received" /\ incident.remediationAttempts = <<>>
    BY DEF CreateIncident
  <2>2. RunningAttempts(incident) = {} /\ Len(incident.remediationAttempts) = 0
    BY <2>1 DEF RunningAttempts
  <2> QED BY <2>1, <2>2, ConstantTypes DEF WorkflowInv, HasRunningAttempt
<1>2. TypeOK /\ WorkflowSound /\ [Next]_vars => WorkflowSound'
  BY WorkflowStep
<1> QED BY <1>1, <1>2, TypeCorrect, PTL DEF Spec

\* No attempt without a proposal a human approved on accepted evidence.
THEOREM AttemptsAlwaysAuthorized == Spec => []AttemptsAuthorized
<1>1. WorkflowSound => AttemptsAuthorized
  BY DEF WorkflowSound, WorkflowInv, AttemptsAuthorized, Authorized
<1> QED BY <1>1, WorkflowCorrect, PTL

\* The remediation stage always has an attempt in flight or one left.
THEOREM BudgetNeverStranded == Spec => []BudgetNotStranded
<1>1. WorkflowSound => BudgetNotStranded
  BY DEF WorkflowSound, WorkflowInv, BudgetNotStranded
<1> QED BY <1>1, WorkflowCorrect, PTL

\* Completion and the recovery check stand on a succeeded last attempt.
THEOREM RecoveryAlwaysFollowsSuccess == Spec => []RecoveryFollowsSuccess
<1>1. WorkflowSound => RecoveryFollowsSuccess
  BY DEF WorkflowSound, WorkflowInv, RecoveryFollowsSuccess
<1> QED BY <1>1, WorkflowCorrect, PTL

\* A blocked incident always has one of the three causes.
THEOREM BlockedAlwaysExplained == Spec => []BlockedIsExplained
<1>1. WorkflowSound => BlockedIsExplained
  BY DEF WorkflowSound, WorkflowInv, BlockedIsExplained
<1> QED BY <1>1, WorkflowCorrect, PTL

-----------------------------------------------------------------------------
(* Action properties *)

\* One record extends the attempt history of another: nothing is removed,
\* no identity rewritten, no settled attempt touched.
HistoryKept(s, r) ==
    \A i \in DOMAIN s.remediationAttempts :
        LET old == s.remediationAttempts[i]
            new == r.remediationAttempts[i]
        IN  /\ i \in DOMAIN r.remediationAttempts
            /\ new.key = old.key
            /\ new.target = old.target
            /\ new.startedAt = old.startedAt
            /\ old.status # "running" => new = old

\* Beginning and settling an attempt keep the history.
LEMMA AttemptWritersKeepHistory ==
    ASSUME NEW s \in Incidents, NEW at \in Time
    PROVE  /\ \A key \in Keys, target \in Targets :
                 HistoryKept(s, BeginAttempt(s, key, target, at))
           /\ \A status \in {"succeeded", "failed"} :
                 HasRunningAttempt(s) =>
                    HistoryKept(s, WithAttemptSettled(s, status, at))
<1> DEFINE n == Len(s.remediationAttempts)
<1>1. s.remediationAttempts \in Seq(Attempts) /\ n \in Nat
      /\ DOMAIN s.remediationAttempts = 1..n
  BY LenProperties DEF Incidents
<1>2. ASSUME NEW key \in Keys, NEW target \in Targets
      PROVE  HistoryKept(s, BeginAttempt(s, key, target, at))
  <2> DEFINE r == BeginAttempt(s, key, target, at)
  <2>1. /\ r \in Incidents
        /\ Len(r.remediationAttempts) = n + 1
        /\ \A i \in 1..n : r.remediationAttempts[i] = s.remediationAttempts[i]
    BY BeginAttemptType, Zenon
  <2> HIDE DEF r
  <2>2. DOMAIN r.remediationAttempts = 1..(n + 1)
    BY <2>1, LenProperties DEF Incidents
  <2>3. HistoryKept(s, r)
    BY <1>1, <2>1, <2>2 DEF HistoryKept
  <2> QED BY <2>3 DEF r
<1>3. ASSUME NEW status \in {"succeeded", "failed"}, HasRunningAttempt(s)
      PROVE  HistoryKept(s, WithAttemptSettled(s, status, at))
  <2> DEFINE r == WithAttemptSettled(s, status, at)
             k == RunningIndex(s)
  <2>1. /\ r \in Incidents
        /\ Len(r.remediationAttempts) = n
        /\ \A i \in 1..n : i # k =>
              r.remediationAttempts[i] = s.remediationAttempts[i]
        /\ r.remediationAttempts[k] =
              SettledAttempt(s.remediationAttempts[k], status, at)
    BY <1>3, WithAttemptSettledType, Zenon
  <2>2. /\ k \in 1..n /\ s.remediationAttempts[k] \in Attempts
        /\ s.remediationAttempts[k].status = "running"
    BY <1>3, RunningIndexType
  <2>3. DOMAIN r.remediationAttempts = 1..n
    BY <2>1, LenProperties DEF Incidents
  <2>4. /\ r.remediationAttempts[k].key = s.remediationAttempts[k].key
        /\ r.remediationAttempts[k].target = s.remediationAttempts[k].target
        /\ r.remediationAttempts[k].startedAt
              = s.remediationAttempts[k].startedAt
    BY <2>1, <2>2 DEF SettledAttempt, Attempts
  <2> HIDE DEF r, k
  <2>5. HistoryKept(s, r)
    BY <1>1, <2>1, <2>2, <2>3, <2>4 DEF HistoryKept
  <2> QED BY <2>5 DEF r
<1> QED BY <1>2, <1>3

\* The history of attempts is append-only: no step removes one, changes whose
\* key, target or start it records, or touches a settled one.
THEOREM AttemptHistoryAlwaysPreserved == Spec => AttemptHistoryPreserved
<1>1. ASSUME TypeOK, [Next]_vars
      PROVE  HistoryKept(incident, incident')
  <2> DEFINE s == incident
  <2>1. s \in Incidents
    BY <1>1 DEF TypeOK
  <2>2. ASSUME NEW r, r.remediationAttempts = s.remediationAttempts
        PROVE  HistoryKept(s, r)
    BY <2>2 DEF HistoryKept
  <2>3. CASE incident' = incident
    BY <2>2, <2>3
  <2>4. CASE ByDelivery
    BY <2>1, <2>2, <2>4, ReducedKeepsWorkflow DEF ByDelivery
  <2>5. ASSUME NEW at \in Time, NEW yes \in BOOLEAN,
               ByEarlyWriter(at, yes) \/ ByLateWriter(at, yes)
        PROVE  HistoryKept(s, incident')
    BY <2>1, <2>2, <2>5, OtherWritersKeepHistory DEF ByEarlyWriter, ByLateWriter
  <2>6. ASSUME NEW at \in Time, ByBegin(at) \/ BySettlement(at)
        PROVE  HistoryKept(s, incident')
    BY <2>1, <2>6, AttemptWritersKeepHistory DEF ByBegin, BySettlement
  <2> QED BY <1>1, <2>3, <2>4, <2>5, <2>6, StepWriters
<1>2. HistoryKept(incident, incident') =>
        \A i \in DOMAIN incident.remediationAttempts :
            LET old == incident.remediationAttempts[i]
                new == incident'.remediationAttempts[i]
            IN  /\ i \in DOMAIN incident'.remediationAttempts
                /\ new.key = old.key
                /\ new.target = old.target
                /\ new.startedAt = old.startedAt
                /\ old.status # "running" => new = old
  BY DEF HistoryKept
<1> QED BY <1>1, <1>2, TypeCorrect, PTL DEF Spec, AttemptHistoryPreserved

\* Completed is final, and only settling the attempt whose outcome was
\* unknown takes an incident out of blocked.
THEOREM TerminalStagesAlwaysHold == Spec => TerminalStagesHold
<1> DEFINE Holds ==
        /\ incident.stage = "completed" => incident'.stage = "completed"
        /\ incident.stage = "blocked" /\ incident'.stage # "blocked" =>
              HasRunningAttempt(incident) /\ ~HasRunningAttempt(incident')
<1>1. ASSUME TypeOK, WorkflowSound, WorkflowSound', [Next]_vars
      PROVE  Holds
  <2> DEFINE s == incident
  <2>1. s \in Incidents /\ WorkflowInv(s) /\ WorkflowInv(incident')
    BY <1>1 DEF TypeOK, WorkflowSound
  <2>2. s.stage = "completed" => ~HasRunningAttempt(s)
    BY <2>1 DEF WorkflowInv
  <2>3. CASE incident' = incident \/ ByDelivery
    BY <2>1, <2>3, ReducedKeepsWorkflow DEF ByDelivery
  <2>4. ASSUME NEW at \in Time, NEW yes \in BOOLEAN, ByEarlyWriter(at, yes)
        PROVE  s.stage \notin {"completed", "blocked"}
    BY <2>4 DEF ByEarlyWriter, CanRecordMetricEvidence, AwaitsApproval,
                CanRecordRemediationProposal, CanTransition,
                AllowedStageTransitions
  <2>5. ASSUME NEW at \in Time, ByBegin(at)
        PROVE  s.stage = "remediation"
    BY <2>5 DEF ByBegin, BeginDecision
  <2>6. ASSUME NEW at \in Time, BySettlement(at)
        PROVE  Holds
    <3>1. PICK status \in {"succeeded", "failed"} :
               incident' = WithAttemptSettled(s, status, at)
      BY <2>6 DEF BySettlement
    <3>2. HasRunningAttempt(s)
      BY <2>6 DEF BySettlement
    <3>3. RunningAttempts(incident') = {}
      BY <2>1, <3>1, <3>2, SettledLeavesNoneRunning
    <3> QED BY <2>2, <3>2, <3>3 DEF HasRunningAttempt
  <2>7. ASSUME NEW at \in Time, NEW yes \in BOOLEAN, ByLateWriter(at, yes)
        PROVE  \/ s.stage = "recovery_check"
               \/ HasRunningAttempt(s) /\ incident'.stage = "blocked"
    BY <2>1, <2>7 DEF ByLateWriter, BlockForManualReview, Incidents
  <2> QED BY <1>1, <2>2, <2>3, <2>4, <2>5, <2>6, <2>7, StepWriters
<1> QED BY <1>1, TypeCorrect, WorkflowCorrect, PTL DEF Spec, TerminalStagesHold

\* Once resolved, an occurrence stays resolved.
THEOREM ResolvedAlwaysStays == Spec => ResolvedNeverReopens
<1>1. ASSUME TypeOK, [Next]_vars, incident.alertStatus = "resolved"
      PROVE  incident'.alertStatus = "resolved"
  <2>1. incident \in Incidents
    BY <1>1 DEF TypeOK
  <2>2. CASE ByDelivery
    <3>1. PICK d \in Deliveries : incident' = Reduced(incident, d)
      BY <2>2 DEF ByDelivery
    <3>2. Decision(incident, d) = "updated" => d.alertStatus = "resolved"
      BY <1>1 DEF Decision, DecisionOtherOccurrence, Deliveries
    <3> QED BY <1>1, <2>1, <3>1, <3>2 DEF Reduced, Remembered, Counted, Incidents
  <2>3. ASSUME NEW at \in Time, NEW yes \in BOOLEAN,
               \/ ByEarlyWriter(at, yes) \/ ByBegin(at)
               \/ BySettlement(at) \/ ByLateWriter(at, yes)
        PROVE  incident'.alertStatus = incident.alertStatus
    BY <2>1, <2>3
       DEF ByEarlyWriter, ByBegin, BySettlement, ByLateWriter,
           RecordMetricEvidence, RecordRemediationProposal,
           RecordApprovalDecision, BeginAttempt, WithAttemptSettled,
           RecordRecoveryCheck, BlockForManualReview, Incidents
  <2> QED BY <1>1, <2>2, <2>3, StepWriters
<1> QED BY <1>1, TypeCorrect, PTL DEF Spec, ResolvedNeverReopens

-----------------------------------------------------------------------------
(* The structure the decoder demands *)

\* The part of the decoder's rules that follows from nothing else.
RecordSound == DeliveriesCounted(incident) /\ AttemptsRecorded(incident)

\* However far callers' timestamps lag, the record keeps the structure its
\* decoder demands.
THEOREM StructureAlwaysSound == Spec => []StructureStaysSound
<1>1. Init => RecordSound
  <2> SUFFICES ASSUME NEW fp \in Fingerprints, NEW id \in AlertIds,
                      NEW start \in Time, NEW receipt \in Time,
                      incident = CreateIncident(
                         [fingerprint |-> fp, alertId |-> id,
                          alertStatus |-> "firing", startsAt |-> start,
                          endsAt |-> None, receivedAt |-> receipt])
               PROVE  RecordSound
    BY DEF Init
  <2>1. /\ Len(incident.recentDeliveryIds) = 1
        /\ DOMAIN incident.recentDeliveryIds = {1}
        /\ incident.deliveryCount = 1
        /\ incident.nonDuplicateDeliveryCount = 1
        /\ incident.remediationAttempts = <<>>
    BY DEF CreateIncident
  <2>2. DOMAIN incident.remediationAttempts = {}
    BY <2>1
  <2>3. DeliveriesCounted(incident)
    <3> DEFINE n == Len(incident.recentDeliveryIds)
    <3>1. 1 <= MaxRecentDeliveryIds /\ 1 <= 1
      BY ConstantTypes
    <3>2. \A i, j \in DOMAIN incident.recentDeliveryIds : i = j
      BY <2>1
    <3>3. n <= MaxRecentDeliveryIds
      BY <2>1, <3>1, Zenon
    <3>4. /\ n <= incident.nonDuplicateDeliveryCount
          /\ incident.nonDuplicateDeliveryCount <= incident.deliveryCount
      BY <2>1, <3>1, Zenon
    <3> QED BY <3>2, <3>3, <3>4 DEF DeliveriesCounted
  <2>4. AttemptsRecorded(incident)
    BY <2>2 DEF AttemptsRecorded
  <2> QED BY <2>3, <2>4 DEF RecordSound
<1>2. ASSUME TypeOK, RecordSound, [Next]_vars
      PROVE  RecordSound'
  <2> DEFINE s == incident
  <2>1. /\ s \in Incidents
        /\ DeliveriesCounted(s)
        /\ AttemptsRecorded(s)
    BY <1>2 DEF TypeOK, RecordSound
  <2>2. SUFFICES DeliveriesCounted(incident') /\ AttemptsRecorded(incident')
    BY DEF RecordSound
  <2>3. ASSUME NEW r, r.remediationAttempts = s.remediationAttempts
        PROVE  AttemptsRecorded(r)
    BY <2>1, <2>3 DEF AttemptsRecorded
  <2>4. CASE incident' = incident
    BY <2>1, <2>4
  <2>5. CASE ByDelivery
    BY <2>1, <2>3, <2>5, ReducedKeepsCounts, ReducedKeepsWorkflow DEF ByDelivery
  <2>6. ASSUME NEW at \in Time, NEW yes \in BOOLEAN,
               ByEarlyWriter(at, yes) \/ ByLateWriter(at, yes)
        PROVE  DeliveriesCounted(incident') /\ AttemptsRecorded(incident')
    <3>1. incident' \in {RecordMetricEvidence(s, yes, at),
                         RecordRemediationProposal(s, at),
                         RecordApprovalDecision(s, yes, at),
                         RecordRecoveryCheck(s, yes, at),
                         BlockForManualReview(s, at)}
      BY <2>6 DEF ByEarlyWriter, ByLateWriter
    <3> QED BY <2>1, <2>3, <3>1, WorkflowKeepsCounts, OtherWritersKeepHistory
  <2>7. ASSUME NEW at \in Time, ByBegin(at) \/ BySettlement(at)
        PROVE  DeliveriesCounted(incident') /\ AttemptsRecorded(incident')
    BY <2>1, <2>7, WorkflowKeepsCounts, AttemptWritersKeepRecorded
       DEF ByBegin, BySettlement
  <2> QED BY <1>2, <2>4, <2>5, <2>6, <2>7, StepWriters
<1>3. TypeOK /\ WorkflowSound /\ RecordSound => StructureStaysSound
  <2> SUFFICES ASSUME TypeOK, WorkflowSound, RecordSound
               PROVE  StructureStaysSound
    OBVIOUS
  <2>1. incident \in Incidents /\ WorkflowInv(incident)
    BY DEF TypeOK, WorkflowSound
  <2>2. AttemptsBounded(incident)
    BY <2>1 DEF RecordSound, AttemptsRecorded, AttemptsBounded, WorkflowInv
  <2>3. HasRunningAttempt(incident) => Authorized(incident)
    BY <2>1, RunningIsLast
  <2>4. RunningAttemptAuthorized(incident)
    BY <2>1, <2>3 DEF RunningAttemptAuthorized, WorkflowInv, Authorized
  <2> QED BY <2>2, <2>4 DEF StructureStaysSound, RecordSound
<1> QED BY <1>1, <1>2, <1>3, TypeCorrect, WorkflowCorrect, PTL DEF Spec

-----------------------------------------------------------------------------
(* The times, when no caller's clock lags *)

\* When no caller's clock lags, every call stamps the present instant.
LEMMA WritersNow ==
    ASSUME MaxLag = 0, now \in Time, [Next]_vars
    PROVE  \/ incident' = incident /\ now' \in Nat /\ now <= now'
           \/ /\ now' = now
              /\ \/ \E d \in Deliveries :
                       /\ ValidDelivery(d) /\ d.receivedAt <= now
                       /\ incident' = Reduced(incident, d)
                 \/ \E yes \in BOOLEAN :
                       incident' \in {RecordMetricEvidence(incident, yes, now),
                                      RecordRemediationProposal(incident, now),
                                      RecordApprovalDecision(incident, yes, now),
                                      RecordRecoveryCheck(incident, yes, now),
                                      BlockForManualReview(incident, now)}
                 \/ \E key \in Keys, target \in Targets :
                       incident' = BeginAttempt(incident, key, target, now)
                 \/ /\ HasRunningAttempt(incident)
                    /\ \E status \in {"succeeded", "failed"} :
                          incident' = WithAttemptSettled(incident, status, now)
<1>1. CASE Tick \/ UNCHANGED vars
  BY <1>1, ConstantTypes DEF Tick, vars
<1>2. CASE ReceiveSomeDelivery
  <2> PICK fp \in Fingerprints, id \in AlertIds,
           status \in {"firing", "resolved"}, start \in Time,
           end \in OptionalTime, receipt \in Time :
           ReceiveDelivery([fingerprint |-> fp, alertId |-> id,
                            alertStatus |-> status, startsAt |-> start,
                            endsAt |-> end, receivedAt |-> receipt])
    BY <1>2 DEF ReceiveSomeDelivery
  <2> DEFINE d == [fingerprint |-> fp, alertId |-> id,
                   alertStatus |-> status, startsAt |-> start,
                   endsAt |-> end, receivedAt |-> receipt]
  <2>1. /\ d \in Deliveries /\ ValidDelivery(d) /\ d.receivedAt <= now
        /\ incident' = Reduced(incident, d) /\ now' = now
    BY DEF Deliveries, ReceiveDelivery
  <2> HIDE DEF d
  <2> QED BY <2>1
<1>3. CASE Workflow
  <2>1. \A at \in LaggedTimes : at = now
    <3>1. now - 0 = now /\ \A at \in Time : now <= at /\ at <= now => at = now
      BY ConstantTypes
    <3> QED BY <3>1 DEF LaggedTimes
  <2>2. \/ \E fromPrometheus \in BOOLEAN : CollectEvidence(fromPrometheus, now)
        \/ Propose(now)
        \/ \E approved \in BOOLEAN : DecideApproval(approved, now)
        \/ \E key \in Keys, target \in Targets : StartAttempt(key, target, now)
        \/ \E key \in Keys, status \in {"succeeded", "failed"} :
              FinishAttempt(key, status, now)
        \/ \E key \in Keys, healthy \in BOOLEAN :
              VerifyRecovery(key, healthy, now)
        \/ \E outcome \in {"confirmed_succeeded", "confirmed_failed", "unknown"} :
              Reconcile(outcome, now)
    BY <1>3, <2>1 DEF Workflow
  <2> QED BY <2>2
          DEF CollectEvidence, Propose, DecideApproval, StartAttempt,
              FinishAttempt, CanFinishAttempt, VerifyRecovery, Reconcile,
              SettleAttempt
<1> QED BY <1>1, <1>2, <1>3 DEF Next

\* No step puts the record's times out of order or takes its clock back.
LEMMA TimesStep ==
    ASSUME MaxLag = 0, TypeOK, TimesInv(incident, now), [Next]_vars
    PROVE  TimesInv(incident, now)' /\ incident.updatedAt <= incident'.updatedAt
<1> DEFINE s == incident
<1>1. s \in Incidents /\ now \in Time /\ s.updatedAt \in Int /\ now \in Int
  BY ConstantTypes DEF TypeOK, Incidents
<1>2. CASE incident' = incident /\ now' \in Nat /\ now <= now'
  BY <1>1, <1>2 DEF TimesInv
<1>3. ASSUME now' = now, NEW d \in Deliveries, ValidDelivery(d), d.receivedAt <= now,
             incident' = Reduced(incident, d)
      PROVE  TimesInv(incident, now)' /\ incident.updatedAt <= incident'.updatedAt
  BY <1>1, <1>3, DeliveryKeepsTimes
<1>4. ASSUME now' = now, NEW r, incident' = r,
             \/ \E yes \in BOOLEAN :
                   r \in {RecordMetricEvidence(s, yes, now),
                         RecordRemediationProposal(s, now),
                         RecordApprovalDecision(s, yes, now),
                         RecordRecoveryCheck(s, yes, now),
                         BlockForManualReview(s, now)}
             \/ \E key \in Keys, target \in Targets :
                   r = BeginAttempt(s, key, target, now)
             \/ /\ HasRunningAttempt(s)
                /\ \E status \in {"succeeded", "failed"} :
                      r = WithAttemptSettled(s, status, now)
      PROVE  TimesInv(incident, now)' /\ incident.updatedAt <= incident'.updatedAt
  BY <1>1, <1>4, WritersKeepTimes
<1> QED BY <1>1, <1>2, <1>3, <1>4, WritersNow

\* The times of the first record are in order, and the present is not before
\* them; no step changes that.
LEMMA TimesCorrect ==
    ASSUME MaxLag = 0
    PROVE  Spec => []TimesInv(incident, now)
<1>1. Init => TimesInv(incident, now)
  <2> SUFFICES ASSUME NEW fp \in Fingerprints, NEW id \in AlertIds,
                      NEW start \in Time, NEW receipt \in Time,
                      NEW d,
                      d = [fingerprint |-> fp, alertId |-> id,
                           alertStatus |-> "firing", startsAt |-> start,
                           endsAt |-> None, receivedAt |-> receipt],
                      DecisionMissing(d) = "created",
                      incident = CreateIncident(d), now = receipt
               PROVE  TimesInv(incident, now)
    BY DEF Init
  <2>1. /\ incident.startsAt = start /\ incident.lastReceivedAt = receipt
        /\ incident.updatedAt = receipt /\ incident.endsAt = None
        /\ incident.alertStatus = "firing"
        /\ incident.remediationAttempts = <<>>
    BY DEF CreateIncident
  <2>2. start <= receipt /\ receipt <= receipt
    <3>1. start <= receipt
      BY DEF DecisionMissing, ValidDelivery
    <3> QED BY <3>1, ConstantTypes
  <2>3. DOMAIN incident.remediationAttempts = {}
    BY <2>1
  <2> QED BY <2>1, <2>2, <2>3 DEF TimesInv, TimesOrdered, AttemptTimesOrdered
<1>2. TypeOK /\ TimesInv(incident, now) /\ [Next]_vars => TimesInv(incident, now)'
  BY TimesStep
<1> QED BY <1>1, <1>2, TypeCorrect, PTL DEF Spec

\* When no caller's clock lags, every reader of the session decodes what the
\* last writer left (readIncidentStateV3).
THEOREM StateAlwaysReadable ==
    ASSUME MaxLag = 0
    PROVE  Spec => []StateStaysReadable
<1>1. TimesInv(incident, now) /\ StructureStaysSound => StateStaysReadable
  BY DEF TimesInv, StructureStaysSound, StateStaysReadable, ValidIncident
<1> QED BY <1>1, TimesCorrect, StructureAlwaysSound, PTL

\* Nor does updatedAt go back then.
THEOREM UpdatedAtAlwaysForward ==
    ASSUME MaxLag = 0
    PROVE  Spec => UpdatedAtNeverRegresses
<1>1. TypeOK /\ TimesInv(incident, now) /\ [Next]_vars =>
        [incident.updatedAt <= incident'.updatedAt]_vars
  BY TimesStep
<1> QED BY <1>1, TypeCorrect, TimesCorrect, PTL DEF Spec, UpdatedAtNeverRegresses

-----------------------------------------------------------------------------
(* Deliveries that count once *)

\* The calls of the workflow leave what is counted of deliveries alone.
LEMMA WorkflowLeavesDeliveries ==
    ASSUME TypeOK, Workflow
    PROVE  /\ accepted' = accepted
           /\ incident'.recentDeliveryIds = incident.recentDeliveryIds
           /\ incident'.nonDuplicateDeliveryCount = incident.nonDuplicateDeliveryCount
<1>1. incident \in Incidents
  BY DEF TypeOK
<1>2. PICK at \in LaggedTimes :
         \/ \E fromPrometheus \in BOOLEAN : CollectEvidence(fromPrometheus, at)
         \/ Propose(at)
         \/ \E approved \in BOOLEAN : DecideApproval(approved, at)
         \/ \E key \in Keys, target \in Targets : StartAttempt(key, target, at)
         \/ \E key \in Keys, status \in {"succeeded", "failed"} :
               FinishAttempt(key, status, at)
         \/ \E key \in Keys, healthy \in BOOLEAN :
               VerifyRecovery(key, healthy, at)
         \/ \E outcome \in {"confirmed_succeeded", "confirmed_failed", "unknown"} :
               Reconcile(outcome, at)
  BY DEF Workflow
<1>3. /\ accepted' = accepted
      /\ \/ \E yes \in BOOLEAN :
               incident' \in {RecordMetricEvidence(incident, yes, at),
                              RecordRemediationProposal(incident, at),
                              RecordApprovalDecision(incident, yes, at),
                              RecordRecoveryCheck(incident, yes, at),
                              BlockForManualReview(incident, at)}
         \/ \E key \in Keys, target \in Targets :
               incident' = BeginAttempt(incident, key, target, at)
         \/ \E status \in {"succeeded", "failed"} :
               incident' = WithAttemptSettled(incident, status, at)
  BY <1>2 DEF CollectEvidence, Propose, DecideApproval, StartAttempt,
              FinishAttempt, VerifyRecovery, Reconcile, SettleAttempt
<1> QED BY <1>1, <1>3
        DEF RecordMetricEvidence, RecordRemediationProposal,
            RecordApprovalDecision, BeginAttempt, WithAttemptSettled,
            RecordRecoveryCheck, BlockForManualReview, Incidents

WindowOf(s) == {s.recentDeliveryIds[i] : i \in DOMAIN s.recentDeliveryIds}

\* While the window has room, a new identity joins it and is counted.
LEMMA RememberedOnce ==
    ASSUME NEW s \in Incidents, DeliveriesCounted(s), NEW d \in Deliveries,
           Decision(s, d) \in {"updated", "stale_refire"},
           s.nonDuplicateDeliveryCount < MaxRecentDeliveryIds
    PROVE  /\ DeliveryId(d) \notin WindowOf(s)
           /\ WindowOf(Reduced(s, d)) = WindowOf(s) \cup {DeliveryId(d)}
           /\ Reduced(s, d).nonDuplicateDeliveryCount
                 = s.nonDuplicateDeliveryCount + 1
<1> DEFINE ids == s.recentDeliveryIds
           id == DeliveryId(d)
           r == Reduced(s, d)
<1>1. /\ ids \in Seq(DeliveryIds) /\ Len(ids) \in Nat /\ id \in DeliveryIds
      /\ s.nonDuplicateDeliveryCount \in 0..MaxCount
      /\ Len(ids) <= s.nonDuplicateDeliveryCount
  BY LenProperties, DeliveryIdType DEF Incidents, DeliveriesCounted
<1>2. ~IsRecentDelivery(s, d)
  BY DEF Decision, DecisionOtherOccurrence
<1>3. /\ Len(Append(ids, id)) = Len(ids) + 1
      /\ Append(ids, id) \in Seq(DeliveryIds)
      /\ \A i \in 1..Len(ids) : Append(ids, id)[i] = ids[i]
      /\ Append(ids, id)[Len(ids) + 1] = id
  BY <1>1, AppendProperties
<1>4. ~(Len(Append(ids, id)) > MaxRecentDeliveryIds)
  BY <1>1, <1>3, ConstantTypes
<1>5. AppendRecentDeliveryId(ids, id) = Append(ids, id)
  BY <1>4 DEF AppendRecentDeliveryId
<1>6. /\ r.recentDeliveryIds = Append(ids, id)
      /\ r.nonDuplicateDeliveryCount = CountUp(s.nonDuplicateDeliveryCount)
  BY <1>5 DEF Reduced, Remembered, Counted, Incidents
<1>7. CountUp(s.nonDuplicateDeliveryCount) = s.nonDuplicateDeliveryCount + 1
  BY <1>1, ConstantTypes DEF CountUp
<1>8. DOMAIN ids = 1..Len(ids) /\ DOMAIN Append(ids, id) = 1..(Len(ids) + 1)
  BY <1>1, <1>3, LenProperties
<1>9. WindowOf(r) = WindowOf(s) \cup {id}
  <2>1. \A i \in 1..(Len(ids) + 1) : i \in 1..Len(ids) \/ i = Len(ids) + 1
    BY <1>1
  <2>2. 1..Len(ids) \subseteq 1..(Len(ids) + 1) /\ Len(ids) + 1 \in 1..(Len(ids) + 1)
    BY <1>1
  <2> HIDE DEF r, ids, id
  <2>3. s.recentDeliveryIds = ids
    BY DEF ids
  <2>4. \A x \in WindowOf(r) : x \in WindowOf(s) \cup {id}
    BY <1>3, <1>6, <1>8, <2>1, <2>3 DEF WindowOf
  <2>5. \A x \in WindowOf(s) \cup {id} : x \in WindowOf(r)
    BY <1>3, <1>6, <1>8, <2>2, <2>3 DEF WindowOf
  <2> QED BY <2>4, <2>5
<1> QED BY <1>2, <1>6, <1>7, <1>9 DEF WindowOf, IsRecentDelivery

\* Until the window overflows, every distinct delivery counts exactly once.
THEOREM DistinctDeliveriesAlwaysCountOnce == Spec => []DistinctDeliveriesCountOnce
<1> DEFINE Inv == IsFiniteSet(accepted) /\ DistinctDeliveriesCountOnce
<1>1. Init => Inv
  <2> SUFFICES ASSUME NEW d, incident = CreateIncident(d), accepted = {DeliveryId(d)}
               PROVE  Inv
    BY DEF Init
  <2>1. /\ incident.recentDeliveryIds = <<DeliveryId(d)>>
        /\ incident.nonDuplicateDeliveryCount = 1
    BY DEF CreateIncident
  <2>2. IsFiniteSet(accepted) /\ Cardinality(accepted) = 1
    BY FS_Singleton
  <2>3. WindowOf(incident) = accepted
    BY <2>1 DEF WindowOf
  <2> QED BY <2>1, <2>2, <2>3 DEF DistinctDeliveriesCountOnce, WindowOf
<1>2. ASSUME TypeOK, StructureStaysSound, Inv, [Next]_vars
      PROVE  Inv'
  <2> DEFINE s == incident
  <2>1. s \in Incidents /\ DeliveriesCounted(s)
    BY <1>2 DEF TypeOK, StructureStaysSound
  <2>2. ASSUME accepted' = accepted,
               incident'.recentDeliveryIds = s.recentDeliveryIds,
               incident'.nonDuplicateDeliveryCount = s.nonDuplicateDeliveryCount
        PROVE  Inv'
    BY <1>2, <2>2 DEF DistinctDeliveriesCountOnce
  <2>3. CASE Tick \/ UNCHANGED vars
    BY <2>2, <2>3 DEF Tick, vars
  <2>4. CASE Workflow
    BY <1>2, <2>2, <2>4, WorkflowLeavesDeliveries
  <2>5. CASE ReceiveSomeDelivery
    <3>1. PICK fp \in Fingerprints, id \in AlertIds,
               status \in {"firing", "resolved"}, start \in Time,
               end \in OptionalTime, receipt \in Time :
               ReceiveDelivery([fingerprint |-> fp, alertId |-> id,
                                alertStatus |-> status, startsAt |-> start,
                                endsAt |-> end, receivedAt |-> receipt])
      BY <2>5 DEF ReceiveSomeDelivery
    <3> DEFINE d == [fingerprint |-> fp, alertId |-> id,
                     alertStatus |-> status, startsAt |-> start,
                     endsAt |-> end, receivedAt |-> receipt]
    <3>2. /\ d \in Deliveries /\ incident' = Reduced(s, d)
          /\ accepted' = IF Decision(s, d) \in {"updated", "stale_refire"}
                         THEN accepted \cup {DeliveryId(d)} ELSE accepted
      BY <3>1 DEF Deliveries, ReceiveDelivery
    <3> HIDE DEF d
    <3>3. CASE Decision(s, d) \notin {"updated", "stale_refire"}
      <4>1. /\ Reduced(s, d).recentDeliveryIds = s.recentDeliveryIds
            /\ Reduced(s, d).nonDuplicateDeliveryCount = s.nonDuplicateDeliveryCount
        BY <2>1, <3>3 DEF Reduced, Counted, Incidents
      <4> QED BY <2>2, <3>2, <3>3, <4>1
    <3>4. CASE Decision(s, d) \in {"updated", "stale_refire"}
      <4>1. /\ accepted' = accepted \cup {DeliveryId(d)}
            /\ IsFiniteSet(accepted) /\ Cardinality(accepted) \in Nat
        BY <1>2, <3>2, <3>4, FS_CardinalityType
      <4>2. /\ IsFiniteSet(accepted')
            /\ Cardinality(accepted') = IF DeliveryId(d) \in accepted
                                        THEN Cardinality(accepted)
                                        ELSE Cardinality(accepted) + 1
        BY <4>1, FS_AddElement
      <4>3. ASSUME Cardinality(accepted') <= MaxRecentDeliveryIds
            PROVE  /\ incident'.nonDuplicateDeliveryCount = Cardinality(accepted')
                   /\ accepted' = WindowOf(incident')
        <5>1. Cardinality(accepted) <= MaxRecentDeliveryIds
          BY <4>1, <4>2, <4>3, ConstantTypes
        <5>2. /\ s.nonDuplicateDeliveryCount = Cardinality(accepted)
              /\ accepted = WindowOf(s)
          BY <1>2, <5>1 DEF DistinctDeliveriesCountOnce, WindowOf
        <5>3. DeliveryId(d) \notin WindowOf(s)
          BY <3>4 DEF Decision, DecisionOtherOccurrence, IsRecentDelivery, WindowOf
        <5>4. s.nonDuplicateDeliveryCount < MaxRecentDeliveryIds
          BY <4>1, <4>2, <4>3, <5>2, <5>3, ConstantTypes
        <5> QED BY <2>1, <3>2, <3>4, <4>1, <4>2, <5>2, <5>3, <5>4, RememberedOnce
      <4> QED BY <4>2, <4>3 DEF DistinctDeliveriesCountOnce, WindowOf
    <3> QED BY <3>3, <3>4
  <2> QED BY <1>2, <2>3, <2>4, <2>5 DEF Next
<1>3. Inv => DistinctDeliveriesCountOnce
  OBVIOUS
<1> HIDE DEF Inv
<1>4. TypeOK /\ StructureStaysSound /\ Inv /\ [Next]_vars => Inv'
  BY <1>2
<1> QED BY <1>1, <1>3, <1>4, TypeCorrect, StructureAlwaysSound, PTL DEF Spec
=============================================================================
