------------------------ MODULE IncidentOperatorLemmas ------------------------
(***************************************************************************)
(* What the pure functions of the reducer and of the workflow return, for  *)
(* every record and every value of the constants.  The theorems about the  *)
(* components cite these lemmas by name.                                   *)
(***************************************************************************)
EXTENDS IncidentReducer, IncidentWorkflow, SequenceTheorems, TLAPS

-----------------------------------------------------------------------------
(* Facts about the constants and the small types *)

\* The constants are numbers of the expected size.
LEMMA ConstantTypes ==
    /\ MaxTime \in Nat
    /\ MaxRetries \in Nat
    /\ MaxAttempts \in Nat \ {0}
    /\ MaxRecentDeliveryIds \in Nat \ {0}
    /\ MaxCount \in Nat
    /\ MaxCount >= MaxRecentDeliveryIds
    /\ Time \subseteq Nat
    /\ OptionalTime \subseteq Int
    /\ Time \subseteq OptionalTime
    /\ None \in OptionalTime
    /\ None \notin Time
BY IncidentStateAssumption DEF MaxAttempts, Time, OptionalTime, None

\* The identity of a delivery is one of the identities a record remembers.
LEMMA DeliveryIdType ==
    ASSUME NEW d \in Deliveries
    PROVE  DeliveryId(d) \in DeliveryIds
BY DEF Deliveries, DeliveryId, DeliveryIds

\* A counter stays in its range however often it counts.
LEMMA CountUpType ==
    ASSUME NEW n \in 0..MaxCount
    PROVE  /\ CountUp(n) \in 0..MaxCount
           /\ n <= CountUp(n)
BY ConstantTypes DEF CountUp

\* updatedAt moves to one of the two instants, the later one.
LEMMA MonotonicUpdatedAtType ==
    ASSUME NEW previous \in Time, NEW candidate \in Time
    PROVE  /\ MonotonicUpdatedAt(previous, candidate) \in Time
           /\ previous <= MonotonicUpdatedAt(previous, candidate)
           /\ candidate <= MonotonicUpdatedAt(previous, candidate)
BY DEF MonotonicUpdatedAt, Time

\* The window of identities stays a sequence of identities of bounded length.
LEMMA AppendRecentDeliveryIdType ==
    ASSUME NEW ids \in Seq(DeliveryIds), NEW id \in DeliveryIds
    PROVE  /\ AppendRecentDeliveryId(ids, id) \in Seq(DeliveryIds)
           /\ Len(AppendRecentDeliveryId(ids, id)) <= MaxRecentDeliveryIds
           /\ Len(AppendRecentDeliveryId(ids, id)) <= Len(ids) + 1
<1> DEFINE all == Append(ids, id)
           m == Len(all) - MaxRecentDeliveryIds + 1
<1>1. all \in Seq(DeliveryIds) /\ Len(all) = Len(ids) + 1 /\ Len(all) \in Nat
  BY AppendProperties, LenProperties
<1>2. CASE Len(all) > MaxRecentDeliveryIds
  <2>1. /\ m \in Int /\ Len(all) \in Int /\ m >= 1
    BY <1>1, <1>2, ConstantTypes
  <2>2. \A i \in m .. Len(all) : all[i] \in DeliveryIds
    BY <1>1, <2>1, ElementOfSeq
  <2>3. /\ SubSeq(all, m, Len(all)) \in Seq(DeliveryIds)
        /\ Len(SubSeq(all, m, Len(all)))
              = IF m <= Len(all) THEN Len(all) - m + 1 ELSE 0
    BY <2>1, <2>2, SubSeqProperties
  <2> QED BY <1>1, <1>2, <2>1, <2>3, ConstantTypes DEF AppendRecentDeliveryId
<1>3. CASE ~(Len(all) > MaxRecentDeliveryIds)
  BY <1>1, <1>3, ConstantTypes DEF AppendRecentDeliveryId
<1> QED BY <1>2, <1>3

\* A new identity keeps the window free of repetitions.
LEMMA AppendRecentDeliveryIdDistinct ==
    ASSUME NEW ids \in Seq(DeliveryIds), NEW id \in DeliveryIds,
           \A i, j \in DOMAIN ids : ids[i] = ids[j] => i = j,
           \A i \in DOMAIN ids : ids[i] # id
    PROVE  LET r == AppendRecentDeliveryId(ids, id)
           IN  \A i, j \in DOMAIN r : r[i] = r[j] => i = j
<1> DEFINE all == Append(ids, id)
           m == Len(all) - MaxRecentDeliveryIds + 1
           r == AppendRecentDeliveryId(ids, id)
<1>1. /\ all \in Seq(DeliveryIds) /\ Len(all) = Len(ids) + 1
      /\ Len(ids) \in Nat /\ DOMAIN ids = 1..Len(ids)
      /\ DOMAIN all = 1..Len(all)
      /\ \A i \in 1..Len(ids) : all[i] = ids[i]
      /\ all[Len(ids) + 1] = id
  BY AppendProperties, LenProperties
<1> HIDE DEF all
<1>2. \A i, j \in 1..Len(all) : all[i] = all[j] => i = j
  BY <1>1
<1>3. CASE Len(all) > MaxRecentDeliveryIds
  <2>1. /\ m \in Int /\ Len(all) \in Int /\ m >= 1 /\ m <= Len(all)
    BY <1>1, <1>3, ConstantTypes
  <2>2. \A i \in m .. Len(all) : all[i] \in DeliveryIds
    BY <1>1, <2>1, ElementOfSeq
  <2>3. /\ r = SubSeq(all, m, Len(all))
        /\ SubSeq(all, m, Len(all)) \in Seq(DeliveryIds)
        /\ Len(SubSeq(all, m, Len(all))) = Len(all) - m + 1
        /\ \A i \in 1 .. Len(all) - m + 1 :
              SubSeq(all, m, Len(all))[i] = all[m + i - 1]
    <3> HIDE DEF m
    <3>1. r = SubSeq(all, m, Len(all))
      BY <1>3 DEF AppendRecentDeliveryId, all, m
    <3> HIDE DEF r
    <3>2. /\ SubSeq(all, m, Len(all)) \in Seq(DeliveryIds)
          /\ Len(SubSeq(all, m, Len(all)))
                = IF m <= Len(all) THEN Len(all) - m + 1 ELSE 0
          /\ \A i \in 1 .. Len(all) - m + 1 :
                SubSeq(all, m, Len(all))[i] = all[m + i - 1]
      BY <2>1, <2>2, SubSeqProperties
    <3> QED BY <2>1, <3>1, <3>2
  <2> HIDE DEF m, r
  <2>4. DOMAIN r = 1 .. Len(all) - m + 1
    BY <2>3, LenProperties
  <2>5. \A i \in DOMAIN r :
           /\ i \in Int /\ r[i] = all[m + i - 1]
           /\ m + i - 1 \in 1..Len(all)
    BY <2>1, <2>3, <2>4
  <2>6. ASSUME NEW i \in DOMAIN r, NEW j \in DOMAIN r, r[i] = r[j]
        PROVE  i = j
    <3>1. m + i - 1 = m + j - 1
      BY <1>2, <2>5, <2>6
    <3> QED BY <2>1, <2>5, <3>1
  <2> QED BY <2>6 DEF r
<1>4. CASE ~(Len(all) > MaxRecentDeliveryIds)
  BY <1>1, <1>2, <1>4 DEF AppendRecentDeliveryId, all
<1> QED BY <1>3, <1>4

-----------------------------------------------------------------------------
(* The reducer returns records *)

\* The record of a new occurrence.
LEMMA CreateIncidentType ==
    ASSUME NEW d \in Deliveries
    PROVE  CreateIncident(d) \in Incidents
<1>1. <<DeliveryId(d)>> \in Seq(DeliveryIds)
  BY DeliveryIdType
<1>2. 1 \in 0..MaxCount
  BY ConstantTypes
<1>3. <<>> \in Seq(Attempts)
  BY EmptySeq
<1>4. {} \in SUBSET Time
  OBVIOUS
<1> QED BY <1>1, <1>2, <1>3, <1>4, ConstantTypes
        DEF CreateIncident, Incidents, Deliveries, Stages

\* Counting a delivery keeps the record a record.
LEMMA CountedType ==
    ASSUME NEW s \in Incidents, NEW d \in Deliveries
    PROVE  Counted(s, d) \in Incidents
<1>1. CountUp(s.deliveryCount) \in 0..MaxCount
  BY CountUpType DEF Incidents
<1>2. MonotonicUpdatedAt(s.updatedAt, d.receivedAt) \in Time
  BY MonotonicUpdatedAtType DEF Incidents, Deliveries
<1> QED BY <1>1, <1>2 DEF Counted, Incidents, Deliveries

\* So does remembering its identity.
LEMMA RememberedType ==
    ASSUME NEW s \in Incidents, NEW d \in Deliveries
    PROVE  Remembered(s, d) \in Incidents
<1>1. Counted(s, d) \in Incidents
  BY CountedType
<1>2. CountUp(s.nonDuplicateDeliveryCount) \in 0..MaxCount
  BY CountUpType DEF Incidents
<1>3. AppendRecentDeliveryId(s.recentDeliveryIds, DeliveryId(d)) \in Seq(DeliveryIds)
  BY AppendRecentDeliveryIdType, DeliveryIdType DEF Incidents
<1>4. /\ Counted(s, d).nonDuplicateDeliveryCount = s.nonDuplicateDeliveryCount
      /\ Counted(s, d).recentDeliveryIds = s.recentDeliveryIds
  BY DEF Counted, Incidents
<1> QED BY <1>1, <1>2, <1>3, <1>4 DEF Remembered, Incidents

\* Whatever the decision, the reducer hands back a record.
LEMMA ReducedType ==
    ASSUME NEW s \in Incidents, NEW d \in Deliveries
    PROVE  Reduced(s, d) \in Incidents
<1>1. Counted(s, d) \in Incidents /\ Remembered(s, d) \in Incidents
  BY CountedType, RememberedType
<1>2. [Remembered(s, d) EXCEPT !.alertStatus = d.alertStatus,
                               !.endsAt      = d.endsAt] \in Incidents
  BY <1>1 DEF Incidents, Deliveries
<1> QED BY <1>1, <1>2 DEF Reduced

-----------------------------------------------------------------------------
(* The workflow functions return records *)

\* Evidence and the proposal on it.
LEMMA EvidenceAndProposalType ==
    ASSUME NEW s \in Incidents, NEW at \in Time, NEW fromPrometheus \in BOOLEAN
    PROVE  /\ RecordMetricEvidence(s, fromPrometheus, at) \in Incidents
           /\ RecordRemediationProposal(s, at) \in Incidents
BY DEF RecordMetricEvidence, RecordRemediationProposal, Incidents, Stages

\* The human decision, the recovery check and the block for manual review.
LEMMA DecisionAndCheckType ==
    ASSUME NEW s \in Incidents, NEW at \in Time, NEW yes \in BOOLEAN
    PROVE  /\ RecordApprovalDecision(s, yes, at) \in Incidents
           /\ RecordRecoveryCheck(s, yes, at) \in Incidents
           /\ BlockForManualReview(s, at) \in Incidents
BY DEF RecordApprovalDecision, RecordRecoveryCheck, RecoveryStage,
       BlockForManualReview, Incidents, Stages

\* An attempt that begins: the record, and its history extended by one
\* running attempt.
LEMMA BeginAttemptType ==
    ASSUME NEW s \in Incidents, NEW key \in Keys, NEW target \in Targets,
           NEW at \in Time
    PROVE  LET r == BeginAttempt(s, key, target, at)
               n == Len(s.remediationAttempts)
           IN  /\ r \in Incidents
               /\ Len(r.remediationAttempts) = n + 1
               /\ \A i \in 1..n :
                     r.remediationAttempts[i] = s.remediationAttempts[i]
               /\ r.remediationAttempts[n + 1] =
                     [key |-> key, target |-> target, status |-> "running",
                      startedAt |-> at, finishedAt |-> None]
               /\ r.stage = s.stage
               /\ r.approvalStatus = s.approvalStatus
<1> DEFINE new == [key |-> key, target |-> target, status |-> "running",
                   startedAt |-> at, finishedAt |-> None]
           history == Append(s.remediationAttempts, new)
<1>1. s.remediationAttempts \in Seq(Attempts)
  BY DEF Incidents
<1>2. new \in Attempts
  BY ConstantTypes DEF Attempts
<1>3. /\ history \in Seq(Attempts)
      /\ Len(history) = Len(s.remediationAttempts) + 1
      /\ \A i \in 1..Len(s.remediationAttempts) :
            history[i] = s.remediationAttempts[i]
      /\ history[Len(s.remediationAttempts) + 1] = new
  BY <1>1, <1>2, AppendProperties
<1> HIDE DEF history
<1>4. BeginAttempt(s, key, target, at) =
        [s EXCEPT !.remediationAttempts = history, !.updatedAt = at]
  BY DEF BeginAttempt, history, Incidents
<1> QED BY <1>3, <1>4 DEF Incidents

\* The running index of a record with an attempt in flight points at it.
LEMMA RunningIndexType ==
    ASSUME NEW s \in Incidents, HasRunningAttempt(s)
    PROVE  /\ RunningIndex(s) \in 1..Len(s.remediationAttempts)
           /\ s.remediationAttempts[RunningIndex(s)] \in Attempts
           /\ s.remediationAttempts[RunningIndex(s)].status = "running"
<1>1. RunningIndex(s) \in RunningAttempts(s)
  BY DEF HasRunningAttempt, RunningIndex
<1>2. /\ s.remediationAttempts \in Seq(Attempts)
      /\ DOMAIN s.remediationAttempts = 1..Len(s.remediationAttempts)
  BY LenProperties DEF Incidents
<1> QED BY <1>1, <1>2, ElementOfSeq DEF RunningAttempts

\* An attempt that settles: the record, and the history changed at that one
\* attempt's status and finish time.
LEMMA WithAttemptSettledType ==
    ASSUME NEW s \in Incidents, HasRunningAttempt(s), NEW at \in Time,
           NEW status \in {"succeeded", "failed"}
    PROVE  LET r == WithAttemptSettled(s, status, at)
               n == Len(s.remediationAttempts)
           IN  /\ r \in Incidents
               /\ Len(r.remediationAttempts) = n
               /\ \A i \in 1..n : i # RunningIndex(s) =>
                     r.remediationAttempts[i] = s.remediationAttempts[i]
               /\ r.remediationAttempts[RunningIndex(s)] =
                     SettledAttempt(s.remediationAttempts[RunningIndex(s)],
                                    status, at)
               /\ r.stage = StageAfter(s, status)
               /\ r.approvalStatus = s.approvalStatus
<1> DEFINE k == RunningIndex(s)
           settled == SettledAttempt(s.remediationAttempts[k], status, at)
           history == SettledAttempts(s, status, at)
<1>1. /\ s.remediationAttempts \in Seq(Attempts)
      /\ k \in 1..Len(s.remediationAttempts)
      /\ s.remediationAttempts[k] \in Attempts
  BY RunningIndexType DEF Incidents
<1>2. settled \in Attempts
  BY <1>1, ConstantTypes DEF Attempts, SettledAttempt
<1>3. history = [s.remediationAttempts EXCEPT ![k] = settled]
  BY <1>1 DEF SettledAttempts
<1> HIDE DEF k, settled, history
<1>4. /\ history \in Seq(Attempts)
      /\ Len(history) = Len(s.remediationAttempts)
      /\ \A i \in 1..Len(s.remediationAttempts) :
            history[i] = IF i = k THEN settled ELSE s.remediationAttempts[i]
  BY <1>1, <1>2, <1>3, ExceptSeq
<1>5. StageAfter(s, status) \in Stages
  BY DEF StageAfter, Stages
<1>6. WithAttemptSettled(s, status, at) =
        [s EXCEPT !.remediationAttempts = history,
                  !.stage               = StageAfter(s, status),
                  !.updatedAt           = at]
  BY DEF WithAttemptSettled, history
<1> QED
  <2> DEFINE r == WithAttemptSettled(s, status, at)
  <2>1. /\ r \in Incidents
        /\ r.remediationAttempts = history
        /\ r.stage = StageAfter(s, status)
        /\ r.approvalStatus = s.approvalStatus
    BY <1>4, <1>5, <1>6 DEF Incidents
  <2> QED BY <1>1, <1>4, <2>1 DEF k, settled

-----------------------------------------------------------------------------
(* The workflow invariant.  AttemptsAuthorized and the other properties of  *)
(* the workflow fields are not inductive one by one: that a remediation     *)
(* stage is authorized needs that the approval stage holds a proposal with  *)
(* accepted evidence, and that a success leads to recovery_check needs that *)
(* the running attempt is the last of the history.                          *)

Authorized(s) == /\ s.proposedAction
                 /\ s.approvalStatus = "approved"
                 /\ s.evidenceValidation = "passed"

WorkflowInv(s) ==
    /\ s.stage \in {"alert_received", "evidence_collection", "diagnosis",
                    "validation", "approval"} => s.remediationAttempts = <<>>
    /\ s.stage = "approval" =>
          s.proposedAction /\ s.evidenceValidation = "passed"
    /\ s.stage \in {"remediation", "recovery_check", "completed"} =>
          Authorized(s)
    /\ s.remediationAttempts # <<>> => Authorized(s)
    /\ Len(s.remediationAttempts) <= MaxAttempts
    /\ RunningAttempts(s) \subseteq {Len(s.remediationAttempts)}
    /\ HasRunningAttempt(s) => s.stage \in {"remediation", "blocked"}
    /\ s.stage = "remediation" =>
          HasRunningAttempt(s) \/ Len(s.remediationAttempts) < MaxAttempts
    /\ s.stage \in {"recovery_check", "completed"} =>
          /\ Len(s.remediationAttempts) > 0
          /\ s.remediationAttempts[Len(s.remediationAttempts)].status
                = "succeeded"
          /\ ~HasRunningAttempt(s)
    /\ s.stage = "blocked" =>
          \/ s.approvalStatus = "denied"
          \/ IsManualReview(s)
          \/ Len(s.remediationAttempts) = MaxAttempts

\* The workflow fields decide the workflow invariant.
LEMMA WorkflowFieldsDecide ==
    ASSUME NEW s, NEW r,
           r.stage = s.stage,
           r.proposedAction = s.proposedAction,
           r.approvalStatus = s.approvalStatus,
           r.evidenceValidation = s.evidenceValidation,
           r.remediationAttempts = s.remediationAttempts
    PROVE  WorkflowInv(s) => WorkflowInv(r)
<1>1. RunningAttempts(r) = RunningAttempts(s)
  BY DEF RunningAttempts
<1>2. HasRunningAttempt(r) = HasRunningAttempt(s)
  BY <1>1 DEF HasRunningAttempt
<1>3. Authorized(r) = Authorized(s) /\ IsManualReview(r) = IsManualReview(s)
  BY <1>1 DEF Authorized, IsManualReview
<1> QED BY <1>1, <1>2, <1>3 DEF WorkflowInv

\* Deliveries leave the workflow fields of their occurrence's record alone.
LEMMA ReducedKeepsWorkflow ==
    ASSUME NEW s \in Incidents, NEW d \in Deliveries
    PROVE  LET r == Reduced(s, d)
           IN  /\ r.stage = s.stage
               /\ r.proposedAction = s.proposedAction
               /\ r.approvalStatus = s.approvalStatus
               /\ r.evidenceValidation = s.evidenceValidation
               /\ r.remediationAttempts = s.remediationAttempts
BY DEF Reduced, Remembered, Counted, Incidents

\* The writers before an attempt keep the invariant.
LEMMA EarlyWorkflowSteps ==
    ASSUME NEW s \in Incidents, WorkflowInv(s), NEW at \in Time,
           NEW yes \in BOOLEAN
    PROVE  /\ CanRecordMetricEvidence(s) =>
                 WorkflowInv(RecordMetricEvidence(s, yes, at))
           /\ CanRecordRemediationProposal(s) =>
                 WorkflowInv(RecordRemediationProposal(s, at))
           /\ AwaitsApproval(s) =>
                 WorkflowInv(RecordApprovalDecision(s, yes, at))
<1>1. ASSUME NEW r, r.remediationAttempts = <<>>
      PROVE  RunningAttempts(r) = {} /\ Len(r.remediationAttempts) = 0
  BY <1>1 DEF RunningAttempts
<1>2. ASSUME CanRecordMetricEvidence(s)
      PROVE  WorkflowInv(RecordMetricEvidence(s, yes, at))
  <2> DEFINE r == RecordMetricEvidence(s, yes, at)
  <2>1. s.remediationAttempts = <<>>
    BY <1>2 DEF CanRecordMetricEvidence, CanTransition,
                AllowedStageTransitions, WorkflowInv, Incidents, Stages
  <2>2. r.stage = "diagnosis" /\ r.remediationAttempts = <<>>
    BY <2>1 DEF RecordMetricEvidence, Incidents
  <2> HIDE DEF r
  <2>3. WorkflowInv(r)
    BY <1>1, <2>2, ConstantTypes DEF WorkflowInv, HasRunningAttempt
  <2> QED BY <2>3 DEF r
<1>3. ASSUME CanRecordRemediationProposal(s)
      PROVE  WorkflowInv(RecordRemediationProposal(s, at))
  <2> DEFINE r == RecordRemediationProposal(s, at)
  <2>1. s.remediationAttempts = <<>>
    BY <1>3 DEF CanRecordRemediationProposal, CanTransition,
                AllowedStageTransitions, WorkflowInv, Incidents, Stages
  <2>2. /\ r.remediationAttempts = <<>>
        /\ \/ r.stage = "evidence_collection"
           \/ /\ r.stage = "approval" /\ r.proposedAction
              /\ r.evidenceValidation = "passed"
    BY <2>1 DEF RecordRemediationProposal, Incidents
  <2> HIDE DEF r
  <2>3. WorkflowInv(r)
    BY <1>1, <2>2, ConstantTypes DEF WorkflowInv, HasRunningAttempt
  <2> QED BY <2>3 DEF r
<1>4. ASSUME AwaitsApproval(s)
      PROVE  WorkflowInv(RecordApprovalDecision(s, yes, at))
  <2> DEFINE r == RecordApprovalDecision(s, yes, at)
  <2>1. /\ s.remediationAttempts = <<>>
        /\ s.proposedAction /\ s.evidenceValidation = "passed"
    BY <1>4 DEF AwaitsApproval, WorkflowInv
  <2>2. /\ r.remediationAttempts = <<>>
        /\ r.proposedAction /\ r.evidenceValidation = "passed"
        /\ \/ r.stage = "remediation" /\ r.approvalStatus = "approved"
           \/ r.stage = "blocked" /\ r.approvalStatus = "denied"
    BY <2>1 DEF RecordApprovalDecision, Incidents
  <2> HIDE DEF r
  <2>3. WorkflowInv(r)
    BY <1>1, <2>2, ConstantTypes DEF WorkflowInv, HasRunningAttempt, Authorized
  <2> QED BY <2>3 DEF r
<1> QED BY <1>2, <1>3, <1>4

\* The running attempt of a sound record is the last of its history.
LEMMA RunningIsLast ==
    ASSUME NEW s \in Incidents, WorkflowInv(s), HasRunningAttempt(s)
    PROVE  /\ RunningIndex(s) = Len(s.remediationAttempts)
           /\ RunningAttempts(s) = {Len(s.remediationAttempts)}
           /\ Len(s.remediationAttempts) \in 1..MaxAttempts
           /\ Authorized(s)
<1>1. RunningIndex(s) \in RunningAttempts(s)
  BY DEF HasRunningAttempt, RunningIndex
<1>2. RunningAttempts(s) \subseteq {Len(s.remediationAttempts)}
  BY DEF WorkflowInv
<1>3. RunningIndex(s) \in 1..Len(s.remediationAttempts)
  BY RunningIndexType
<1>4. s.remediationAttempts \in Seq(Attempts)
  BY DEF Incidents
<1>5. s.remediationAttempts # <<>>
  BY <1>3, <1>4, EmptySeq
<1>6. Len(s.remediationAttempts) \in Nat /\ Len(s.remediationAttempts) <= MaxAttempts
  BY <1>4, LenProperties DEF WorkflowInv
<1> QED BY <1>1, <1>2, <1>3, <1>5, <1>6, ConstantTypes DEF WorkflowInv

\* An attempt that begins keeps it: the approved stage had none running and
\* budget left.
LEMMA BeginKeepsWorkflow ==
    ASSUME NEW s \in Incidents, WorkflowInv(s), NEW key \in Keys,
           NEW target \in Targets, NEW at \in Time,
           BeginDecision(s, key, target) = "started"
    PROVE  WorkflowInv(BeginAttempt(s, key, target, at))
<1> DEFINE r == BeginAttempt(s, key, target, at)
           n == Len(s.remediationAttempts)
<1>1. /\ s.stage = "remediation"
      /\ ~HasRunningAttempt(s)
      /\ ~(n >= MaxAttempts)
  BY DEF BeginDecision
<1>2. s.remediationAttempts \in Seq(Attempts) /\ n \in Nat
  BY LenProperties DEF Incidents
<1>3. /\ r \in Incidents
      /\ Len(r.remediationAttempts) = n + 1
      /\ \A i \in 1..n : r.remediationAttempts[i] = s.remediationAttempts[i]
      /\ r.remediationAttempts[n + 1] =
            [key |-> key, target |-> target, status |-> "running",
             startedAt |-> at, finishedAt |-> None]
      /\ r.stage = s.stage
      /\ r.approvalStatus = s.approvalStatus
  BY BeginAttemptType, Zenon
<1>4. /\ r.proposedAction = s.proposedAction
      /\ r.evidenceValidation = s.evidenceValidation
  BY DEF BeginAttempt, Incidents
<1> HIDE DEF r
<1>5. r.remediationAttempts \in Seq(Attempts)
      /\ DOMAIN r.remediationAttempts = 1..(n + 1)
  BY <1>3, LenProperties DEF Incidents
<1>6. DOMAIN s.remediationAttempts = 1..n
  BY <1>2, LenProperties
<1>7. RunningAttempts(r) = {n + 1}
  BY <1>1, <1>2, <1>3, <1>5, <1>6 DEF RunningAttempts, HasRunningAttempt
<1>8. Authorized(r)
  BY <1>1, <1>3, <1>4 DEF WorkflowInv, Authorized
<1>9. r.stage = "remediation" /\ n + 1 <= MaxAttempts
  BY <1>1, <1>2, <1>3, ConstantTypes
<1> QED BY <1>3, <1>7, <1>8, <1>9, <1>5 DEF WorkflowInv, HasRunningAttempt, r

\* Settling the last attempt leaves none running and its outcome recorded.
LEMMA SettledLeavesNoneRunning ==
    ASSUME NEW s \in Incidents, WorkflowInv(s), HasRunningAttempt(s),
           NEW at \in Time, NEW status \in {"succeeded", "failed"}
    PROVE  LET r == WithAttemptSettled(s, status, at)
               n == Len(s.remediationAttempts)
           IN  /\ RunningAttempts(r) = {}
               /\ Len(r.remediationAttempts) = n
               /\ r.remediationAttempts[n].status = status
               /\ r.stage = StageAfter(s, status)
               /\ r.approvalStatus = s.approvalStatus
<1> DEFINE r == WithAttemptSettled(s, status, at)
           n == Len(s.remediationAttempts)
<1>1. /\ RunningIndex(s) = n /\ RunningAttempts(s) = {n}
      /\ n \in 1..MaxAttempts
  BY RunningIsLast
<1>2. /\ r \in Incidents
      /\ Len(r.remediationAttempts) = n
      /\ \A i \in 1..n : i # RunningIndex(s) =>
            r.remediationAttempts[i] = s.remediationAttempts[i]
      /\ r.remediationAttempts[RunningIndex(s)] =
            SettledAttempt(s.remediationAttempts[RunningIndex(s)], status, at)
      /\ r.stage = StageAfter(s, status)
      /\ r.approvalStatus = s.approvalStatus
  BY WithAttemptSettledType, Zenon
<1>3. s.remediationAttempts[n] \in Attempts
  BY <1>1, RunningIndexType
<1> HIDE DEF r
<1>4. r.remediationAttempts[n].status = status
  BY <1>1, <1>2, <1>3 DEF Attempts, SettledAttempt
<1>5. /\ DOMAIN r.remediationAttempts = 1..n
      /\ DOMAIN s.remediationAttempts = 1..n
  BY <1>2, LenProperties DEF Incidents
<1>6. RunningAttempts(r) = {}
  <2> SUFFICES ASSUME NEW i \in 1..n,
                      r.remediationAttempts[i].status = "running"
               PROVE  FALSE
    BY <1>5 DEF RunningAttempts
  <2>1. i # n
    BY <1>4
  <2>2. s.remediationAttempts[i].status = "running"
    BY <1>1, <1>2, <2>1
  <2> QED BY <1>1, <1>5, <2>1, <2>2 DEF RunningAttempts
<1> QED BY <1>2, <1>4, <1>6 DEF r

\* So does an attempt that settles, whichever of the two paths settles it.
LEMMA SettleKeepsWorkflow ==
    ASSUME NEW s \in Incidents, WorkflowInv(s), HasRunningAttempt(s),
           NEW at \in Time, NEW status \in {"succeeded", "failed"}
    PROVE  WorkflowInv(WithAttemptSettled(s, status, at))
<1> DEFINE r == WithAttemptSettled(s, status, at)
           n == Len(s.remediationAttempts)
<1>1. n \in 1..MaxAttempts /\ Authorized(s)
  BY RunningIsLast
<1>2. /\ RunningAttempts(r) = {}
      /\ Len(r.remediationAttempts) = n
      /\ r.remediationAttempts[n].status = status
      /\ r.stage = StageAfter(s, status)
      /\ r.approvalStatus = s.approvalStatus
  BY SettledLeavesNoneRunning, Zenon
<1>3. /\ r.proposedAction = s.proposedAction
      /\ r.evidenceValidation = s.evidenceValidation
  BY DEF WithAttemptSettled, Incidents
<1> HIDE DEF r
<1>4. Authorized(r)
  BY <1>1, <1>2, <1>3 DEF Authorized
<1>5. /\ n > 0 /\ n <= MaxAttempts
      /\ \/ r.stage = "recovery_check" /\ status = "succeeded"
         \/ r.stage = "blocked" /\ n = MaxAttempts
         \/ r.stage = "remediation" /\ n < MaxAttempts
  BY <1>1, <1>2, ConstantTypes DEF StageAfter
<1> QED BY <1>2, <1>4, <1>5 DEF WorkflowInv, HasRunningAttempt, r

\* The recovery check and the block for manual review.
LEMMA LateWorkflowSteps ==
    ASSUME NEW s \in Incidents, WorkflowInv(s), NEW at \in Time
    PROVE  /\ \A healthy \in BOOLEAN :
                 s.stage = "recovery_check" =>
                    WorkflowInv(RecordRecoveryCheck(s, healthy, at))
           /\ HasRunningAttempt(s) => WorkflowInv(BlockForManualReview(s, at))
<1>1. ASSUME NEW healthy \in BOOLEAN, s.stage = "recovery_check"
      PROVE  WorkflowInv(RecordRecoveryCheck(s, healthy, at))
  <2> DEFINE r == RecordRecoveryCheck(s, healthy, at)
             n == Len(s.remediationAttempts)
  <2>1. /\ r.remediationAttempts = s.remediationAttempts
        /\ r.proposedAction = s.proposedAction
        /\ r.approvalStatus = s.approvalStatus
        /\ r.evidenceValidation = s.evidenceValidation
        /\ r.stage = RecoveryStage(s, healthy)
    BY DEF RecordRecoveryCheck, Incidents
  <2> HIDE DEF r
  <2>2. /\ RunningAttempts(r) = RunningAttempts(s)
        /\ Authorized(r) = Authorized(s)
    BY <2>1 DEF RunningAttempts, Authorized
  <2>3. n \in Nat
    BY LenProperties DEF Incidents
  <2>4. /\ n > 0 /\ n <= MaxAttempts
        /\ s.remediationAttempts[n].status = "succeeded"
        /\ RunningAttempts(s) = {}
        /\ Authorized(s)
    BY <1>1 DEF WorkflowInv, HasRunningAttempt
  <2>5. \/ r.stage = "completed"
        \/ r.stage = "blocked" /\ n = MaxAttempts
        \/ r.stage = "remediation" /\ n < MaxAttempts
    BY <2>1, <2>3, <2>4, ConstantTypes DEF RecoveryStage
  <2> QED BY <2>1, <2>2, <2>4, <2>5 DEF WorkflowInv, HasRunningAttempt, r
<1>2. ASSUME HasRunningAttempt(s)
      PROVE  WorkflowInv(BlockForManualReview(s, at))
  <2> DEFINE r == BlockForManualReview(s, at)
  <2>1. /\ r.remediationAttempts = s.remediationAttempts
        /\ r.proposedAction = s.proposedAction
        /\ r.approvalStatus = s.approvalStatus
        /\ r.evidenceValidation = s.evidenceValidation
        /\ r.stage = "blocked"
    BY DEF BlockForManualReview, Incidents
  <2> HIDE DEF r
  <2>2. /\ RunningAttempts(r) = RunningAttempts(s)
        /\ Authorized(r) = Authorized(s)
    BY <2>1 DEF RunningAttempts, Authorized
  <2>3. /\ RunningAttempts(s) = {Len(s.remediationAttempts)}
        /\ Authorized(s)
    BY <1>2, RunningIsLast
  <2>4. IsManualReview(r)
    BY <2>1, <2>2, <2>3 DEF IsManualReview, Authorized
  <2> QED BY <2>1, <2>2, <2>3, <2>4 DEF WorkflowInv, HasRunningAttempt, r
<1> QED BY <1>1, <1>2

-----------------------------------------------------------------------------
(* The structure the decoder demands *)

\* Every other writer returns the history it was given.
LEMMA OtherWritersKeepHistory ==
    ASSUME NEW s \in Incidents, NEW at \in Time, NEW yes \in BOOLEAN
    PROVE  /\ RecordMetricEvidence(s, yes, at).remediationAttempts
                 = s.remediationAttempts
           /\ RecordRemediationProposal(s, at).remediationAttempts
                 = s.remediationAttempts
           /\ RecordApprovalDecision(s, yes, at).remediationAttempts
                 = s.remediationAttempts
           /\ RecordRecoveryCheck(s, yes, at).remediationAttempts
                 = s.remediationAttempts
           /\ BlockForManualReview(s, at).remediationAttempts
                 = s.remediationAttempts
BY DEF RecordMetricEvidence, RecordRemediationProposal, RecordApprovalDecision,
       RecordRecoveryCheck, BlockForManualReview, Incidents

AttemptsRecorded(s) ==
    /\ \A i, j \in DOMAIN s.remediationAttempts :
          s.remediationAttempts[i].key = s.remediationAttempts[j].key => i = j
    /\ \A i \in DOMAIN s.remediationAttempts :
          s.remediationAttempts[i].status = "running"
             <=> s.remediationAttempts[i].finishedAt = None

\* Counting and remembering a delivery keep the counters and the window in
\* step, also when a counter has reached the largest value it can take.
LEMMA ReducedKeepsCounts ==
    ASSUME NEW s \in Incidents, DeliveriesCounted(s), NEW d \in Deliveries
    PROVE  DeliveriesCounted(Reduced(s, d))
<1> DEFINE ids == s.recentDeliveryIds
           r == Reduced(s, d)
           new == AppendRecentDeliveryId(ids, DeliveryId(d))
<1>1. /\ ids \in Seq(DeliveryIds) /\ Len(ids) \in Nat
      /\ s.deliveryCount \in 0..MaxCount
      /\ s.nonDuplicateDeliveryCount \in 0..MaxCount
  BY LenProperties DEF Incidents
<1>2. /\ Len(ids) <= MaxRecentDeliveryIds
      /\ Len(ids) <= s.nonDuplicateDeliveryCount
      /\ s.nonDuplicateDeliveryCount <= s.deliveryCount
  BY DEF DeliveriesCounted
<1>3. CASE r = s
  BY <1>3
<1>4. CASE Decision(s, d) = "duplicate"
  <2>1. /\ r.recentDeliveryIds = ids
        /\ r.nonDuplicateDeliveryCount = s.nonDuplicateDeliveryCount
        /\ r.deliveryCount = CountUp(s.deliveryCount)
    BY <1>4 DEF Reduced, Counted, Incidents
  <2>2. s.nonDuplicateDeliveryCount <= CountUp(s.deliveryCount)
    BY <1>1, <1>2, ConstantTypes DEF CountUp
  <2> HIDE DEF r
  <2>3. DeliveriesCounted(r)
    BY <2>1, <2>2 DEF DeliveriesCounted
  <2> QED BY <2>3 DEF r
<1>5. CASE Decision(s, d) \in {"stale_refire", "updated"}
  <2>1. /\ r.recentDeliveryIds = new
        /\ r.nonDuplicateDeliveryCount = CountUp(s.nonDuplicateDeliveryCount)
        /\ r.deliveryCount = CountUp(s.deliveryCount)
    BY <1>5 DEF Reduced, Remembered, Counted, Incidents
  <2>2. ~IsRecentDelivery(s, d)
    BY <1>5 DEF Decision, DecisionOtherOccurrence
  <2>3. \A i, j \in DOMAIN new : new[i] = new[j] => i = j
    BY <1>1, <2>2, DeliveryIdType, AppendRecentDeliveryIdDistinct
       DEF IsRecentDelivery, DeliveriesCounted
  <2>4. /\ new \in Seq(DeliveryIds) /\ Len(new) \in Nat
        /\ Len(new) <= MaxRecentDeliveryIds
        /\ Len(new) <= Len(ids) + 1
    BY <1>1, DeliveryIdType, AppendRecentDeliveryIdType, LenProperties
  <2> HIDE DEF new, r
  <2>5. /\ Len(new) <= CountUp(s.nonDuplicateDeliveryCount)
        /\ CountUp(s.nonDuplicateDeliveryCount) <= CountUp(s.deliveryCount)
    BY <1>1, <1>2, <2>4, ConstantTypes DEF CountUp
  <2>6. DeliveriesCounted(r)
    BY <2>1, <2>3, <2>4, <2>5 DEF DeliveriesCounted
  <2> QED BY <2>6 DEF r
<1>6. \/ Decision(s, d) \in {"duplicate", "stale_refire", "updated"}
      \/ r = s
  BY DEF Reduced
<1> QED BY <1>3, <1>4, <1>5, <1>6

\* An attempt begins under a key no earlier attempt has, and a settled one
\* has a finish time.
LEMMA AttemptWritersKeepRecorded ==
    ASSUME NEW s \in Incidents, AttemptsRecorded(s), NEW at \in Time
    PROVE  /\ \A key \in Keys, target \in Targets :
                 BeginDecision(s, key, target) = "started" =>
                    AttemptsRecorded(BeginAttempt(s, key, target, at))
           /\ \A status \in {"succeeded", "failed"} :
                 HasRunningAttempt(s) =>
                    AttemptsRecorded(WithAttemptSettled(s, status, at))
<1> DEFINE n == Len(s.remediationAttempts)
<1>1. /\ s.remediationAttempts \in Seq(Attempts) /\ n \in Nat
      /\ DOMAIN s.remediationAttempts = 1..n
  BY LenProperties DEF Incidents
<1>2. ASSUME NEW key \in Keys, NEW target \in Targets,
             BeginDecision(s, key, target) = "started"
      PROVE  AttemptsRecorded(BeginAttempt(s, key, target, at))
  <2> DEFINE r == BeginAttempt(s, key, target, at)
  <2>1. /\ r \in Incidents
        /\ Len(r.remediationAttempts) = n + 1
        /\ \A i \in 1..n : r.remediationAttempts[i] = s.remediationAttempts[i]
        /\ r.remediationAttempts[n + 1] =
              [key |-> key, target |-> target, status |-> "running",
               startedAt |-> at, finishedAt |-> None]
    BY BeginAttemptType, Zenon
  <2>2. \A i \in 1..n : s.remediationAttempts[i].key # key
    BY <1>1, <1>2 DEF BeginDecision, AttemptsWithKey
  <2> HIDE DEF r
  <2>3. /\ r.remediationAttempts[n + 1].key = key
        /\ r.remediationAttempts[n + 1].status = "running"
        /\ r.remediationAttempts[n + 1].finishedAt = None
    BY <2>1
  <2>4. DOMAIN r.remediationAttempts = 1..(n + 1)
    BY <2>1, LenProperties DEF Incidents
  <2>5. \A i \in 1..(n + 1) : i \in 1..n \/ i = n + 1
    BY <1>1
  <2>6. AttemptsRecorded(r)
    BY <1>1, <2>1, <2>2, <2>3, <2>4, <2>5 DEF AttemptsRecorded
  <2> QED BY <2>6 DEF r
<1>3. ASSUME NEW status \in {"succeeded", "failed"}, HasRunningAttempt(s)
      PROVE  AttemptsRecorded(WithAttemptSettled(s, status, at))
  <2> DEFINE r == WithAttemptSettled(s, status, at)
             k == RunningIndex(s)
  <2>1. /\ r \in Incidents
        /\ Len(r.remediationAttempts) = n
        /\ \A i \in 1..n : i # k =>
              r.remediationAttempts[i] = s.remediationAttempts[i]
        /\ r.remediationAttempts[k] =
              SettledAttempt(s.remediationAttempts[k], status, at)
    BY <1>3, WithAttemptSettledType, Zenon
  <2>2. k \in 1..n /\ s.remediationAttempts[k] \in Attempts
    BY <1>3, RunningIndexType
  <2> HIDE DEF r, k
  <2>3. DOMAIN r.remediationAttempts = 1..n
    BY <2>1, LenProperties DEF Incidents
  <2>4. /\ r.remediationAttempts[k].key = s.remediationAttempts[k].key
        /\ r.remediationAttempts[k].status = status
        /\ r.remediationAttempts[k].finishedAt = at
    BY <2>1, <2>2 DEF SettledAttempt, Attempts
  <2>5. at # None
    BY ConstantTypes
  <2>6. AttemptsRecorded(r)
    BY <1>1, <2>1, <2>2, <2>3, <2>4, <2>5 DEF AttemptsRecorded
  <2> QED BY <2>6 DEF r
<1> QED BY <1>2, <1>3

\* Writers of workflow fields do not touch what is counted of deliveries.
LEMMA WorkflowKeepsCounts ==
    ASSUME NEW s \in Incidents, NEW at \in Time, DeliveriesCounted(s),
           NEW r,
           \/ \E yes \in BOOLEAN :
                 r \in {RecordMetricEvidence(s, yes, at),
                       RecordRemediationProposal(s, at),
                       RecordApprovalDecision(s, yes, at),
                       RecordRecoveryCheck(s, yes, at),
                       BlockForManualReview(s, at)}
           \/ \E key \in Keys, target \in Targets :
                 r = BeginAttempt(s, key, target, at)
           \/ \E status \in {"succeeded", "failed"} :
                 r = WithAttemptSettled(s, status, at)
    PROVE  DeliveriesCounted(r)
<1>1. /\ r.recentDeliveryIds = s.recentDeliveryIds
      /\ r.deliveryCount = s.deliveryCount
      /\ r.nonDuplicateDeliveryCount = s.nonDuplicateDeliveryCount
  BY DEF RecordMetricEvidence, RecordRemediationProposal,
         RecordApprovalDecision, RecordRecoveryCheck, BlockForManualReview,
         BeginAttempt, WithAttemptSettled, Incidents
<1> QED BY <1>1 DEF DeliveriesCounted

-----------------------------------------------------------------------------
(* The times of a record *)

\* The record's times are in order, and none is after t.
TimesInv(s, t) ==
    /\ TimesOrdered(s)
    /\ AttemptTimesOrdered(s)
    /\ s.updatedAt <= t

\* The times of an attempt.
LEMMA AttemptTimes ==
    ASSUME NEW s \in Incidents, NEW i \in DOMAIN s.remediationAttempts
    PROVE  /\ s.remediationAttempts[i] \in Attempts
           /\ s.remediationAttempts[i].startedAt \in Int
           /\ s.remediationAttempts[i].finishedAt \in Int
<1>1. s.remediationAttempts[i] \in Attempts
  BY LenProperties, ElementOfSeq DEF Incidents
<1> QED BY <1>1, ConstantTypes DEF Attempts

\* A delivery is applied at a time the record has reached, or reaches with it.
LEMMA DeliveryKeepsTimes ==
    ASSUME NEW s \in Incidents, NEW t \in Time, TimesInv(s, t),
           NEW d \in Deliveries, ValidDelivery(d), d.receivedAt <= t
    PROVE  /\ TimesInv(Reduced(s, d), t)
           /\ s.updatedAt <= Reduced(s, d).updatedAt
<1> DEFINE r == Reduced(s, d)
           decision == Decision(s, d)
<1>1. /\ s.startsAt \in Int /\ s.lastReceivedAt \in Int /\ s.updatedAt \in Int
      /\ s.endsAt \in Int /\ d.receivedAt \in Int /\ t \in Int
      /\ s.updatedAt \in Time /\ d.receivedAt \in Time
  BY ConstantTypes DEF Incidents, Deliveries
<1>2. /\ TimesOrdered(s) /\ AttemptTimesOrdered(s) /\ s.updatedAt <= t
  BY DEF TimesInv
<1>3. CASE r = s
  BY <1>1, <1>2, <1>3 DEF TimesInv
<1>4. CASE decision \in {"duplicate", "stale_refire", "updated"}
  <2> DEFINE u == MonotonicUpdatedAt(s.updatedAt, d.receivedAt)
  <2>1. /\ u \in Int /\ s.updatedAt <= u /\ d.receivedAt <= u /\ u <= t
    BY <1>1, <1>2 DEF MonotonicUpdatedAt
  <2>2. s.startsAt <= d.receivedAt
    BY <1>4 DEF Decision, DecisionOtherOccurrence, ValidDelivery
  <2>3. /\ r.startsAt = s.startsAt /\ r.lastReceivedAt = d.receivedAt
        /\ r.updatedAt = u
        /\ r.remediationAttempts = s.remediationAttempts
    BY <1>4 DEF Reduced, Remembered, Counted, Incidents
  <2>4. /\ r.alertStatus = "firing" <=> r.endsAt = None
        /\ r.endsAt # None => r.startsAt <= r.endsAt
    <3>1. CASE decision = "updated"
      <4>1. /\ r.alertStatus = d.alertStatus /\ r.endsAt = d.endsAt
            /\ d.startsAt = s.startsAt /\ r.startsAt = s.startsAt
        BY <3>1 DEF Reduced, Remembered, Counted, Incidents, Decision,
                    DecisionOtherOccurrence
      <4> QED BY <4>1 DEF ValidDelivery, Deliveries
    <3>2. CASE decision \in {"duplicate", "stale_refire"}
      <4>1. /\ r.alertStatus = s.alertStatus /\ r.endsAt = s.endsAt
            /\ r.startsAt = s.startsAt
        BY <3>2 DEF Reduced, Remembered, Counted, Incidents
      <4> QED BY <1>2, <4>1 DEF TimesOrdered
    <3> QED BY <1>4, <3>1, <3>2
  <2> HIDE DEF r, u
  <2>5. TimesOrdered(r)
    BY <1>1, <2>1, <2>2, <2>3, <2>4 DEF TimesOrdered
  <2>6. AttemptTimesOrdered(r)
    <3> SUFFICES ASSUME NEW i \in DOMAIN s.remediationAttempts
                 PROVE  LET a == s.remediationAttempts[i] IN
                        /\ s.startsAt <= a.startedAt
                        /\ a.startedAt <= u
                        /\ a.finishedAt # None => /\ a.startedAt <= a.finishedAt
                                                  /\ a.finishedAt <= u
      BY <2>3 DEF AttemptTimesOrdered
    <3> DEFINE a == s.remediationAttempts[i]
    <3>1. a.startedAt \in Int /\ a.finishedAt \in Int
      BY AttemptTimes
    <3>2. /\ s.startsAt <= a.startedAt /\ a.startedAt <= s.updatedAt
          /\ a.finishedAt # None => /\ a.startedAt <= a.finishedAt
                                    /\ a.finishedAt <= s.updatedAt
      BY <1>2 DEF AttemptTimesOrdered
    <3> HIDE DEF a
    <3> QED BY <1>1, <2>1, <3>1, <3>2 DEF a
  <2>7. TimesInv(r, t) /\ s.updatedAt <= r.updatedAt
    BY <2>1, <2>3, <2>5, <2>6 DEF TimesInv
  <2> QED BY <2>7 DEF r
<1>5. r = s \/ decision \in {"duplicate", "stale_refire", "updated"}
  BY DEF Reduced
<1> QED BY <1>3, <1>4, <1>5

\* A record written at t, whose attempts are those of before or begin or end
\* at t.
LEMMA WrittenNow ==
    ASSUME NEW s \in Incidents, NEW t \in Time, TimesInv(s, t),
           NEW r \in Incidents,
           r.startsAt = s.startsAt, r.lastReceivedAt = s.lastReceivedAt,
           r.alertStatus = s.alertStatus, r.endsAt = s.endsAt, r.updatedAt = t,
           \A i \in DOMAIN r.remediationAttempts :
              LET a == r.remediationAttempts[i] IN
              \/ i \in DOMAIN s.remediationAttempts /\ a = s.remediationAttempts[i]
              \/ a.startedAt = t /\ a.finishedAt = None
              \/ /\ i \in DOMAIN s.remediationAttempts
                 /\ a.startedAt = s.remediationAttempts[i].startedAt
                 /\ a.finishedAt = t
    PROVE  TimesInv(r, t) /\ s.updatedAt <= r.updatedAt
<1>1. /\ s.startsAt \in Int /\ s.lastReceivedAt \in Int /\ s.updatedAt \in Int
      /\ s.endsAt \in Int /\ t \in Int
  BY ConstantTypes DEF Incidents
<1>2. /\ TimesOrdered(s) /\ AttemptTimesOrdered(s) /\ s.updatedAt <= t
  BY DEF TimesInv
<1>3. s.startsAt <= t /\ s.lastReceivedAt <= t
  BY <1>1, <1>2 DEF TimesOrdered
<1>4. TimesOrdered(r)
  BY <1>2, <1>3 DEF TimesOrdered
<1>5. ASSUME NEW i \in DOMAIN s.remediationAttempts
      PROVE  LET a == s.remediationAttempts[i] IN
             /\ s.startsAt <= a.startedAt /\ a.startedAt <= t
             /\ a.finishedAt # None => /\ a.startedAt <= a.finishedAt
                                       /\ a.finishedAt <= t
  <2> DEFINE a == s.remediationAttempts[i]
  <2>1. a.startedAt \in Int /\ a.finishedAt \in Int
    BY AttemptTimes
  <2>2. /\ s.startsAt <= a.startedAt /\ a.startedAt <= s.updatedAt
        /\ a.finishedAt # None => /\ a.startedAt <= a.finishedAt
                                  /\ a.finishedAt <= s.updatedAt
    BY <1>2 DEF AttemptTimesOrdered
  <2> HIDE DEF a
  <2> QED BY <1>1, <1>2, <2>1, <2>2 DEF a
<1>6. t <= t
  BY <1>1
<1>7. AttemptTimesOrdered(r)
  <2> SUFFICES ASSUME NEW i \in DOMAIN r.remediationAttempts
               PROVE  LET a == r.remediationAttempts[i] IN
                      /\ s.startsAt <= a.startedAt
                      /\ a.startedAt <= t
                      /\ a.finishedAt # None => /\ a.startedAt <= a.finishedAt
                                                /\ a.finishedAt <= t
    BY DEF AttemptTimesOrdered
  <2> DEFINE a == r.remediationAttempts[i]
  <2>1. CASE i \in DOMAIN s.remediationAttempts /\ a = s.remediationAttempts[i]
    BY <1>5, <2>1
  <2>2. CASE a.startedAt = t /\ a.finishedAt = None
    BY <1>3, <1>6, <2>2
  <2>3. CASE /\ i \in DOMAIN s.remediationAttempts
             /\ a.startedAt = s.remediationAttempts[i].startedAt
             /\ a.finishedAt = t
    BY <1>5, <1>6, <2>3
  <2> QED BY <2>1, <2>2, <2>3
<1>8. r.updatedAt <= t /\ s.updatedAt <= r.updatedAt
  BY <1>2, <1>6
<1> QED BY <1>4, <1>7, <1>8 DEF TimesInv

\* Whatever the workflow writes at a time the record has reached, its times
\* stay in order.
LEMMA WritersKeepTimes ==
    ASSUME NEW s \in Incidents, NEW t \in Time, TimesInv(s, t), NEW r,
           \/ \E yes \in BOOLEAN :
                 r \in {RecordMetricEvidence(s, yes, t),
                       RecordRemediationProposal(s, t),
                       RecordApprovalDecision(s, yes, t),
                       RecordRecoveryCheck(s, yes, t),
                       BlockForManualReview(s, t)}
           \/ \E key \in Keys, target \in Targets :
                 r = BeginAttempt(s, key, target, t)
           \/ /\ HasRunningAttempt(s)
              /\ \E status \in {"succeeded", "failed"} :
                    r = WithAttemptSettled(s, status, t)
    PROVE  TimesInv(r, t) /\ s.updatedAt <= r.updatedAt
<1> DEFINE n == Len(s.remediationAttempts)
           k == RunningIndex(s)
<1>1. n \in Nat /\ DOMAIN s.remediationAttempts = 1..n
  BY LenProperties DEF Incidents
<1>2. CASE \E yes \in BOOLEAN :
              r \in {RecordMetricEvidence(s, yes, t),
                    RecordRemediationProposal(s, t),
                    RecordApprovalDecision(s, yes, t),
                    RecordRecoveryCheck(s, yes, t),
                    BlockForManualReview(s, t)}
  <2> PICK yes \in BOOLEAN :
         r \in {RecordMetricEvidence(s, yes, t),
               RecordRemediationProposal(s, t),
               RecordApprovalDecision(s, yes, t),
               RecordRecoveryCheck(s, yes, t),
               BlockForManualReview(s, t)}
    BY <1>2
  <2>1. r \in Incidents
    BY EvidenceAndProposalType, DecisionAndCheckType
  <2>2. /\ r.startsAt = s.startsAt /\ r.lastReceivedAt = s.lastReceivedAt
        /\ r.alertStatus = s.alertStatus /\ r.endsAt = s.endsAt
        /\ r.updatedAt = t /\ r.remediationAttempts = s.remediationAttempts
    BY DEF RecordMetricEvidence, RecordRemediationProposal,
           RecordApprovalDecision, RecordRecoveryCheck, BlockForManualReview,
           Incidents
  <2> QED BY <2>1, <2>2, WrittenNow
<1>3. ASSUME NEW key \in Keys, NEW target \in Targets,
             r = BeginAttempt(s, key, target, t)
      PROVE  TimesInv(r, t) /\ s.updatedAt <= r.updatedAt
  <2>1. /\ r \in Incidents
        /\ Len(r.remediationAttempts) = n + 1
        /\ \A i \in 1..n : r.remediationAttempts[i] = s.remediationAttempts[i]
        /\ r.remediationAttempts[n + 1] =
              [key |-> key, target |-> target, status |-> "running",
               startedAt |-> t, finishedAt |-> None]
    BY <1>3, BeginAttemptType, Zenon
  <2>2. /\ r.startsAt = s.startsAt /\ r.lastReceivedAt = s.lastReceivedAt
        /\ r.alertStatus = s.alertStatus /\ r.endsAt = s.endsAt
        /\ r.updatedAt = t
    BY <1>3 DEF BeginAttempt, Incidents
  <2>3. /\ r.remediationAttempts[n + 1].startedAt = t
        /\ r.remediationAttempts[n + 1].finishedAt = None
    BY <2>1
  <2>4. DOMAIN r.remediationAttempts = 1..(n + 1)
    BY <2>1, LenProperties DEF Incidents
  <2>5. \A i \in 1..(n + 1) : i \in 1..n \/ i = n + 1
    BY <1>1
  <2>6. \A i \in DOMAIN r.remediationAttempts :
           \/ /\ i \in DOMAIN s.remediationAttempts
              /\ r.remediationAttempts[i] = s.remediationAttempts[i]
           \/ /\ r.remediationAttempts[i].startedAt = t
              /\ r.remediationAttempts[i].finishedAt = None
    BY <1>1, <2>1, <2>3, <2>4, <2>5
  <2> QED BY <2>1, <2>2, <2>6, WrittenNow
<1>4. ASSUME HasRunningAttempt(s), NEW status \in {"succeeded", "failed"},
             r = WithAttemptSettled(s, status, t)
      PROVE  TimesInv(r, t) /\ s.updatedAt <= r.updatedAt
  <2>1. /\ r \in Incidents
        /\ Len(r.remediationAttempts) = n
        /\ \A i \in 1..n : i # k =>
              r.remediationAttempts[i] = s.remediationAttempts[i]
        /\ r.remediationAttempts[k] =
              SettledAttempt(s.remediationAttempts[k], status, t)
    BY <1>4, WithAttemptSettledType, Zenon
  <2>2. k \in 1..n /\ s.remediationAttempts[k] \in Attempts
    BY <1>4, RunningIndexType
  <2>3. /\ r.startsAt = s.startsAt /\ r.lastReceivedAt = s.lastReceivedAt
        /\ r.alertStatus = s.alertStatus /\ r.endsAt = s.endsAt
        /\ r.updatedAt = t
    BY <1>4 DEF WithAttemptSettled, Incidents
  <2> HIDE DEF k
  <2>4. /\ r.remediationAttempts[k].startedAt = s.remediationAttempts[k].startedAt
        /\ r.remediationAttempts[k].finishedAt = t
    BY <2>1, <2>2 DEF SettledAttempt, Attempts
  <2>5. DOMAIN r.remediationAttempts = 1..n
    BY <2>1, LenProperties DEF Incidents
  <2>6. \A i \in DOMAIN r.remediationAttempts :
           /\ i \in DOMAIN s.remediationAttempts
           /\ \/ r.remediationAttempts[i] = s.remediationAttempts[i]
              \/ /\ r.remediationAttempts[i].startedAt =
                       s.remediationAttempts[i].startedAt
                 /\ r.remediationAttempts[i].finishedAt = t
    BY <1>1, <2>1, <2>2, <2>4, <2>5
  <2> QED BY <2>1, <2>3, <2>6, WrittenNow
<1> QED BY <1>2, <1>3, <1>4

-----------------------------------------------------------------------------
(* Sound records *)

\* What every writer takes for granted of the record it starts from, at time t.
Sound(s, t) ==
    /\ WorkflowInv(s)
    /\ DeliveriesCounted(s)
    /\ AttemptsRecorded(s)
    /\ TimesInv(s, t)

\* A sound record decodes.
LEMMA SoundDecodes ==
    ASSUME NEW s \in Incidents, NEW t, Sound(s, t)
    PROVE  ValidIncident(s)
<1>1. AttemptsBounded(s)
  BY DEF Sound, AttemptsRecorded, AttemptsBounded, WorkflowInv
<1>2. HasRunningAttempt(s) => Authorized(s)
  BY RunningIsLast DEF Sound
<1>3. RunningAttemptAuthorized(s)
  BY <1>2 DEF Sound, RunningAttemptAuthorized, WorkflowInv, Authorized
<1> QED BY <1>1, <1>3 DEF Sound, TimesInv, ValidIncident

\* Time may pass.
LEMMA SoundLater ==
    ASSUME NEW s \in Incidents, NEW t \in Int, NEW u \in Int, t <= u, Sound(s, t)
    PROVE  Sound(s, u)
<1>1. s.updatedAt \in Int
  BY ConstantTypes DEF Incidents
<1> QED BY <1>1 DEF Sound, TimesInv

\* It is as sound at any time it has reached.
LEMMA SoundEarlier ==
    ASSUME NEW s \in Incidents, NEW t, NEW u, s.updatedAt <= u, Sound(s, t)
    PROVE  Sound(s, u)
BY DEF Sound, TimesInv

\* The first record is sound.
LEMMA CreatedIsSound ==
    ASSUME NEW d \in Deliveries, d.alertStatus = "firing", d.endsAt = None,
           d.startsAt <= d.receivedAt
    PROVE  Sound(CreateIncident(d), d.receivedAt)
<1> DEFINE s == CreateIncident(d)
<1>1. /\ s.startsAt = d.startsAt /\ s.lastReceivedAt = d.receivedAt
      /\ s.updatedAt = d.receivedAt /\ s.endsAt = None
      /\ s.alertStatus = "firing" /\ s.remediationAttempts = <<>>
      /\ s.stage = "alert_received"
      /\ Len(s.recentDeliveryIds) = 1 /\ DOMAIN s.recentDeliveryIds = {1}
      /\ s.deliveryCount = 1 /\ s.nonDuplicateDeliveryCount = 1
  BY DEF CreateIncident
<1>2. DOMAIN s.remediationAttempts = {} /\ Len(s.remediationAttempts) = 0
  BY <1>1
<1> HIDE DEF s
<1>3. RunningAttempts(s) = {} /\ ~HasRunningAttempt(s)
  BY <1>2 DEF RunningAttempts, HasRunningAttempt
<1>4. 1 <= MaxRecentDeliveryIds /\ 1 <= 1 /\ 0 <= MaxAttempts
  BY ConstantTypes
<1>5. DeliveriesCounted(s)
  BY <1>1, <1>4 DEF DeliveriesCounted
<1>6. WorkflowInv(s)
  BY <1>1, <1>2, <1>3, <1>4 DEF WorkflowInv
<1>7. AttemptsRecorded(s) /\ AttemptTimesOrdered(s)
  BY <1>2 DEF AttemptsRecorded, AttemptTimesOrdered
<1>8. d.receivedAt <= d.receivedAt
  <2>1. d.receivedAt \in Int
    BY ConstantTypes DEF Deliveries
  <2> QED BY <2>1
<1>9. TimesInv(s, d.receivedAt)
  BY <1>1, <1>7, <1>8 DEF TimesInv, TimesOrdered
<1> QED BY <1>5, <1>6, <1>7, <1>9 DEF Sound, s

\* A delivery leaves a sound record sound.
LEMMA DeliveryKeepsSound ==
    ASSUME NEW s \in Incidents, NEW t \in Time, Sound(s, t),
           NEW d \in Deliveries, ValidDelivery(d), d.receivedAt <= t
    PROVE  Sound(Reduced(s, d), t)
<1> DEFINE r == Reduced(s, d)
<1>1. DeliveriesCounted(r) /\ TimesInv(r, t)
  BY ReducedKeepsCounts, DeliveryKeepsTimes DEF Sound
<1>2. /\ r.stage = s.stage
      /\ r.proposedAction = s.proposedAction
      /\ r.approvalStatus = s.approvalStatus
      /\ r.evidenceValidation = s.evidenceValidation
      /\ r.remediationAttempts = s.remediationAttempts
  BY ReducedKeepsWorkflow
<1> HIDE DEF r
<1>3. AttemptsRecorded(r)
  BY <1>2 DEF Sound, AttemptsRecorded
<1>4. WorkflowInv(r)
  BY <1>2, WorkflowFieldsDecide DEF Sound
<1> QED BY <1>1, <1>3, <1>4 DEF Sound, r

\* So does every writer of the workflow behind its guard.
LEMMA WritersKeepSound ==
    ASSUME NEW s \in Incidents, NEW t \in Time, Sound(s, t), NEW r,
           \/ \E yes \in BOOLEAN :
                 \/ /\ CanRecordMetricEvidence(s)
                    /\ r = RecordMetricEvidence(s, yes, t)
                 \/ /\ AwaitsApproval(s)
                    /\ r = RecordApprovalDecision(s, yes, t)
                 \/ /\ s.stage = "recovery_check"
                    /\ r = RecordRecoveryCheck(s, yes, t)
           \/ /\ CanRecordRemediationProposal(s)
              /\ r = RecordRemediationProposal(s, t)
           \/ /\ HasRunningAttempt(s)
              /\ r = BlockForManualReview(s, t)
           \/ \E key \in Keys, target \in Targets :
                 /\ BeginDecision(s, key, target) = "started"
                 /\ r = BeginAttempt(s, key, target, t)
           \/ /\ HasRunningAttempt(s)
              /\ \E status \in {"succeeded", "failed"} :
                    r = WithAttemptSettled(s, status, t)
    PROVE  Sound(r, t)
<1>1. /\ WorkflowInv(s) /\ DeliveriesCounted(s)
      /\ AttemptsRecorded(s) /\ TimesInv(s, t)
  BY DEF Sound
<1>2. TimesInv(r, t)
  BY <1>1, WritersKeepTimes
<1>3. DeliveriesCounted(r)
  BY <1>1, WorkflowKeepsCounts
<1>4. ASSUME r.remediationAttempts = s.remediationAttempts
      PROVE  AttemptsRecorded(r)
  BY <1>1, <1>4 DEF AttemptsRecorded
<1>5. CASE \E yes \in BOOLEAN :
              \/ /\ CanRecordMetricEvidence(s)
                 /\ r = RecordMetricEvidence(s, yes, t)
              \/ /\ AwaitsApproval(s)
                 /\ r = RecordApprovalDecision(s, yes, t)
              \/ /\ s.stage = "recovery_check"
                 /\ r = RecordRecoveryCheck(s, yes, t)
  BY <1>1, <1>2, <1>3, <1>4, <1>5, OtherWritersKeepHistory, EarlyWorkflowSteps,
     LateWorkflowSteps DEF Sound
<1>6. CASE \/ /\ CanRecordRemediationProposal(s)
              /\ r = RecordRemediationProposal(s, t)
           \/ /\ HasRunningAttempt(s)
              /\ r = BlockForManualReview(s, t)
  <2>1. r.remediationAttempts = s.remediationAttempts
    BY <1>6, OtherWritersKeepHistory
  <2>2. WorkflowInv(r)
    BY <1>1, <1>6, EarlyWorkflowSteps, LateWorkflowSteps
  <2> QED BY <1>2, <1>3, <1>4, <2>1, <2>2 DEF Sound
<1>7. CASE \E key \in Keys, target \in Targets :
              /\ BeginDecision(s, key, target) = "started"
              /\ r = BeginAttempt(s, key, target, t)
  BY <1>1, <1>2, <1>3, <1>7, BeginKeepsWorkflow, AttemptWritersKeepRecorded DEF Sound
<1>8. CASE /\ HasRunningAttempt(s)
           /\ \E status \in {"succeeded", "failed"} :
                 r = WithAttemptSettled(s, status, t)
  BY <1>1, <1>2, <1>3, <1>8, SettleKeepsWorkflow, AttemptWritersKeepRecorded DEF Sound
<1> QED BY <1>5, <1>6, <1>7, <1>8
=============================================================================
