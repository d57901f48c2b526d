--------------------------- MODULE IncidentWorkflow ---------------------------
(***************************************************************************)
(* The pure workflow functions on one incident record                      *)
(* (src/src/state/incident-workflow.ts), the evidence policy they consult  *)
(* (src/src/policy/evidence-policy.ts) and the settlement functions of the *)
(* restart reconciliation (src/src/state/restart-reconciliation.ts).       *)
(*                                                                         *)
(* Each function has a guard Can... (the call neither throws nor returns   *)
(* a rejecting decision) and an operator with the record it returns.       *)
(***************************************************************************)
EXTENDS IncidentState

CONSTANTS
    MaxEvidenceAge,      \* DEFAULT_EVIDENCE_MAX_AGE_MS
    MaxFutureSkew        \* maxFutureSkewMs

ASSUME IncidentWorkflowAssumption ==
    /\ MaxEvidenceAge \in Nat
    /\ MaxFutureSkew \in Nat

\* evaluateIncidentEvidence with DEFAULT_EVIDENCE_POLICY: at least one
\* prometheus entry, and one of them fresh.  (minCount is 1, so a matching
\* entry satisfies it.)
EvidenceAccepted(s, checkedAt) ==
    \E t \in s.evidence : /\ checkedAt - t <= MaxEvidenceAge
                          /\ checkedAt - t >= -MaxFutureSkew

-----------------------------------------------------------------------------
(* recordMetricEvidence: into evidence_collection and on to diagnosis *)

\* Mutant: evidence is accepted at any stage.
CanRecordMetricEvidenceAnytime(s) == TRUE

CanRecordMetricEvidence(s) == CanTransition(s.stage, "evidence_collection")

RecordMetricEvidence(s, fromPrometheus, observedAt) ==
    [s EXCEPT !.stage              = "diagnosis",
              !.evidence           = IF fromPrometheus THEN @ \cup {observedAt}
                                                       ELSE @,
              !.evidenceValidation = "not_checked",
              !.updatedAt          = observedAt]

-----------------------------------------------------------------------------
(* recordRemediationProposal: through validation to approval or back *)

CanRecordRemediationProposal(s) == CanTransition(s.stage, "validation")

RecordRemediationProposal(s, proposedAt) ==
    IF EvidenceAccepted(s, proposedAt)
    THEN [s EXCEPT !.stage              = "approval",
                   !.proposedAction     = TRUE,
                   !.approvalStatus     = "pending",
                   !.evidenceValidation = "passed",
                   !.updatedAt          = proposedAt]
    ELSE [s EXCEPT !.stage              = "evidence_collection",
                   !.evidenceValidation = "failed",
                   !.updatedAt          = proposedAt]

-----------------------------------------------------------------------------
(* recordApprovalDecision, behind the guard of its only caller in src/,    *)
(* authorizeRemediationWithLobster.                                        *)

AwaitsApproval(s) == s.stage = "approval" /\ s.approvalStatus = "pending"

\* Mutant: a denial is written into the stage, which has no such value.
RecordApprovalDecisionInStage(s, approved, decidedAt) ==
    [s EXCEPT !.stage          = IF approved THEN "remediation" ELSE "denied",
              !.approvalStatus = IF approved THEN "approved" ELSE "denied",
              !.updatedAt      = decidedAt]

RecordApprovalDecision(s, approved, decidedAt) ==
    [s EXCEPT !.stage          = IF approved THEN "remediation" ELSE "blocked",
              !.approvalStatus = IF approved THEN "approved" ELSE "denied",
              !.updatedAt      = decidedAt]

-----------------------------------------------------------------------------
(* beginRemediationAttempt, its decisions in the code's order *)

AttemptsWithKey(s, key) ==
    {i \in DOMAIN s.remediationAttempts : s.remediationAttempts[i].key = key}

\* Mutant: the approval alone lets an attempt start, whatever the stage.
BeginDecisionAnyStage(s, key, target) ==
    IF \/ AttemptsWithKey(s, key) # {}
       \/ HasRunningAttempt(s)
       \/ Len(s.remediationAttempts) >= MaxAttempts
       \/ s.approvalStatus # "approved"
    THEN "rejected" ELSE "started"

BeginDecision(s, key, target) ==
    CASE AttemptsWithKey(s, key) # {} ->
            IF \E i \in AttemptsWithKey(s, key) :
                  s.remediationAttempts[i].target = target
            THEN "duplicate" ELSE "idempotency_conflict"
      [] AttemptsWithKey(s, key) = {} /\ HasRunningAttempt(s) ->
            "running_attempt_exists"
      [] /\ AttemptsWithKey(s, key) = {} /\ ~HasRunningAttempt(s)
         /\ Len(s.remediationAttempts) >= MaxAttempts ->
            "attempt_limit_reached"
      [] OTHER -> IF s.approvalStatus = "approved" /\ s.stage = "remediation"
                  THEN "started" ELSE "rejected"

\* Mutant: the new attempt replaces the history.
BeginAttemptPruning(s, key, target, startedAt) ==
    [s EXCEPT !.remediationAttempts = <<[key        |-> key,
                                         target     |-> target,
                                         status     |-> "running",
                                         startedAt  |-> startedAt,
                                         finishedAt |-> None]>>,
              !.updatedAt = startedAt]

BeginAttempt(s, key, target, startedAt) ==
    [s EXCEPT !.remediationAttempts =
                  Append(@, [key        |-> key,
                             target     |-> target,
                             status     |-> "running",
                             startedAt  |-> startedAt,
                             finishedAt |-> None]),
              !.updatedAt = startedAt]

-----------------------------------------------------------------------------
(* finishRemediationAttempt and the settlement it shares its shape with *)

\* Mutant: the budget check is off by one.
StageAfterOffByOne(s, status) ==
    IF status = "succeeded" THEN "recovery_check"
    ELSE IF Len(s.remediationAttempts) > MaxAttempts THEN "blocked"
    ELSE "remediation"

StageAfter(s, status) ==
    IF status = "succeeded" THEN "recovery_check"
    ELSE IF Len(s.remediationAttempts) >= MaxAttempts THEN "blocked"
    ELSE "remediation"

SettledAttempt(a, status, at) ==
    [a EXCEPT !.status = status, !.finishedAt = at]

SettledAttempts(s, status, at) ==
    [s.remediationAttempts EXCEPT
        ![RunningIndex(s)] = SettledAttempt(@, status, at)]

WithAttemptSettled(s, status, at) ==
    [s EXCEPT !.remediationAttempts = SettledAttempts(s, status, at),
              !.stage               = StageAfter(s, status),
              !.updatedAt           = at]

CanFinishAttempt(s, key, status, finishedAt) ==
    /\ HasRunningAttempt(s)
    /\ s.remediationAttempts[RunningIndex(s)].key = key
    /\ s.remediationAttempts[RunningIndex(s)].startedAt <= finishedAt
    /\ CanTransition(s.stage, StageAfter(s, status))

-----------------------------------------------------------------------------
(* recordRecoveryCheck *)

\* Mutant: an unhealthy check blocks with budget left.
RecoveryStageGivingUp(s, healthy) == IF healthy THEN "completed" ELSE "blocked"

RecoveryStage(s, healthy) ==
    IF healthy THEN "completed"
    ELSE IF Len(s.remediationAttempts) >= MaxAttempts THEN "blocked"
    ELSE "remediation"

RecordRecoveryCheck(s, healthy, checkedAt) ==
    [s EXCEPT !.stage     = RecoveryStage(s, healthy),
              !.updatedAt = checkedAt]

\* The checks persistDeploymentRecoveryVerification makes on the record it
\* has just read; key is the key the caller binds the result to.
CanVerifyRecovery(s, key, checkedAt) ==
    LET n == Len(s.remediationAttempts) IN
    /\ ValidIncident(s)
    /\ s.stage = "recovery_check"
    /\ s.approvalStatus = "approved"
    /\ n > 0
    /\ s.remediationAttempts[n].key = key
    /\ s.remediationAttempts[n].status = "succeeded"
    /\ s.remediationAttempts[n].finishedAt <= checkedAt
    /\ s.updatedAt <= checkedAt

-----------------------------------------------------------------------------
(* reconcileIncidentOnRestart *)

CanReconcile(s, reconciledAt) ==
    s.updatedAt <= reconciledAt /\ s.startsAt <= reconciledAt

\* confirmed_succeeded and confirmed_failed assign the stage directly,
\* without consulting the allowed transitions.
SettleAttempt(s, status, reconciledAt) ==
    WithAttemptSettled(s, status, reconciledAt)

BlockForManualReview(s, reconciledAt) ==
    [s EXCEPT !.stage = "blocked", !.updatedAt = reconciledAt]

IsManualReview(s) ==
    /\ s.stage = "blocked"
    /\ s.approvalStatus = "approved"
    /\ \E i \in RunningAttempts(s) : RunningAttempts(s) = {i}
=============================================================================
