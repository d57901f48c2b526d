----------------------- MODULE DeploymentRollbackProofs -----------------------
(***************************************************************************)
(* Theorems about the Deployment rollback for every set of incidents, keys *)
(* and targets, any number of overlapping calls, any controller and every  *)
(* value of the bounds.                                                    *)
(***************************************************************************)
EXTENDS DeploymentRollback, IncidentOperatorLemmas, FiniteSetTheorems

-----------------------------------------------------------------------------
(* Types *)

\* What is used of a target and of the bounds.
LEMMA RollbackTypes ==
    /\ \A t \in Targets : t \in RollbackTargets
    /\ Revisions \subseteq 1..MaxRevision
    /\ MaxVersion \in Nat
    /\ MaxRevision \in Nat
    /\ MaxUid \in Nat
    /\ 1 \in Uids
    /\ 0 \in Time
BY DeploymentRollbackAssumption, ConstantTypes
   DEF Revisions, Uids, Time

\* The audit of a call is one of the audits a Deployment carries.
LEMMA AuditOfType ==
    ASSUME NEW key \in Keys, NEW target \in Targets
    PROVE  AuditOf(key, target) \in Audits
BY RollbackTypes DEF AuditOf, Audits, RollbackTargets

\* The incidents of the initial states are records without attempts.
LEMMA InitType == Init => TypeOK
<1> SUFFICES ASSUME Init PROVE TypeOK
  OBVIOUS
<1>1. sessions \in [Fingerprints -> Incidents]
  <2> SUFFICES ASSUME NEW f \in Fingerprints
               PROVE  LET d == [fingerprint |-> f, alertId |-> AlertId,
                                alertStatus |-> "firing", startsAt |-> 0,
                                endsAt |-> None, receivedAt |-> 0]
                          collected == RecordMetricEvidence(CreateIncident(d),
                                                            TRUE, 0)
                      IN  RecordApprovalDecision(
                              RecordRemediationProposal(collected, 0), TRUE, 0)
                              \in Incidents
    BY DEF Init
  <2> DEFINE d == [fingerprint |-> f, alertId |-> AlertId,
                   alertStatus |-> "firing", startsAt |-> 0,
                   endsAt |-> None, receivedAt |-> 0]
             collected == RecordMetricEvidence(CreateIncident(d), TRUE, 0)
             proposed == RecordRemediationProposal(collected, 0)
  <2>1. d \in Deliveries
    BY DeploymentRollbackAssumption, ConstantTypes, RollbackTypes
       DEF Deliveries
  <2>2. CreateIncident(d) \in Incidents
    BY <2>1, CreateIncidentType
  <2>3. collected \in Incidents
    BY <2>2, RollbackTypes, EvidenceAndProposalType
  <2> HIDE DEF collected
  <2>4. proposed \in Incidents
    BY <2>3, RollbackTypes, EvidenceAndProposalType
  <2> HIDE DEF proposed
  <2>5. RecordApprovalDecision(proposed, TRUE, 0) \in Incidents
    BY <2>4, RollbackTypes, DecisionAndCheckType
  <2> QED BY <2>5 DEF proposed, collected
<1>2. replicaSets \subseteq ReplicaSets
  BY RollbackTypes DEF Init, ReplicaSets
<1>3. deployment \in Deployments /\ \A a, b \in deployment.audit : a = b
  BY RollbackTypes DEF Init, Deployments, Revisions, Uids
<1>4. DOMAIN calls = {} /\ landed = {}
  BY DEF Init
<1> QED BY <1>1, <1>2, <1>3, <1>4 DEF TypeOK

\* The three ways sessions change: an attempt starts, a call's outcome or a
\* reconciliation settles one, or the incident is blocked.
LEMMA SessionsType ==
    ASSUME TypeOK, [Next]_vars
    PROVE  sessions' \in [Fingerprints -> Incidents]
<1> USE DEF TypeOK
<1>1. CASE UNCHANGED sessions
  BY <1>1
<1>2. ASSUME NEW f \in Fingerprints, NEW key \in Keys, NEW target \in Targets,
             StartAttempt(f, key, target)
      PROVE  sessions' \in [Fingerprints -> Incidents]
  BY <1>2, RollbackTypes, BeginAttemptType DEF StartAttempt
<1>3. ASSUME NEW c \in DOMAIN calls, RecordOutcome(c)
      PROVE  sessions' \in [Fingerprints -> Incidents]
  BY <1>3, RollbackTypes, WithAttemptSettledType
     DEF RecordOutcome, ToolCalls, CanFinishAttempt
<1>4. ASSUME NEW f \in Fingerprints, NEW readable \in BOOLEAN,
             Reconcile(f, readable)
      PROVE  sessions' \in [Fingerprints -> Incidents]
  BY <1>4, RollbackTypes, WithAttemptSettledType, DecisionAndCheckType
     DEF Reconcile, SettleAttempt
<1> QED
  BY <1>1, <1>2, <1>3, <1>4
     DEF Next, Guardian, Cluster, Invoke, ReadDeployment, ListReplicaSets,
         LandPatch, LoseAnswer, RestartGateway, NumberReplicaSet,
         AnnotateRevision, UpdateStatus, Redeploy, Recreate, vars

\* The Deployment, its history and the patches change only when a patch lands
\* on its preconditions or the cluster moves.
LEMMA DeploymentStep ==
    ASSUME [Next]_vars
    PROVE  \/ UNCHANGED <<deployment, replicaSets, landed>>
           \/ \E c \in DOMAIN calls : LandPatch(c) /\ Preconditions(calls[c])
           \/ Cluster
BY DEF Next, Guardian, StartAttempt, Invoke, ReadDeployment, ListReplicaSets,
       LandPatch, LoseAnswer, RecordOutcome, RestartGateway, Reconcile, vars

\* A patch writes a Deployment with one audit, and is remembered.
LEMMA LandPatchType ==
    ASSUME TypeOK, NEW c \in DOMAIN calls, LandPatch(c), Preconditions(calls[c])
    PROVE  /\ deployment' \in Deployments
           /\ \A a, b \in deployment'.audit : a = b
           /\ landed' \subseteq [key : Keys, target : Targets,
                                 version : 0..MaxVersion]
<1>1. /\ calls[c] \in ToolCalls
      /\ deployment \in Deployments
      /\ landed \subseteq [key : Keys, target : Targets, version : 0..MaxVersion]
  BY DEF TypeOK
<1>2. /\ calls[c].key \in Keys
      /\ calls[c].target \in Targets
      /\ calls[c].target \in RollbackTargets
  BY <1>1, RollbackTypes DEF ToolCalls
<1>3. AuditOf(calls[c].key, calls[c].target) \in Audits
  BY <1>2, AuditOfType
<1>4. /\ deployment' = RolledBack(calls[c])
      /\ deployment.version < MaxVersion
      /\ landed' = landed \cup {[key     |-> calls[c].key,
                                 target  |-> calls[c].target,
                                 version |-> deployment.version]}
  BY DEF LandPatch
<1>5. deployment.version + 1 \in 0..MaxVersion
  BY <1>1, <1>4, RollbackTypes DEF Deployments
<1>6. calls[c].target.toTemplate \in Templates
  BY <1>2 DEF RollbackTargets
<1>7. calls[c].target.fromRevision \in 0..MaxRevision
  <2>1. calls[c].target.fromRevision \in Revisions
    BY <1>2 DEF RollbackTargets
  <2> QED BY <2>1, DeploymentRollbackAssumption DEF Revisions
<1>8. deployment.version \in 0..MaxVersion
  BY <1>1 DEF Deployments
<1>9. /\ deployment' \in Deployments
      /\ deployment'.audit = {AuditOf(calls[c].key, calls[c].target)}
  <2> DEFINE version == deployment.version + 1
             template == calls[c].target.toTemplate
             revision == calls[c].target.fromRevision
             audit == {AuditOf(calls[c].key, calls[c].target)}
             written == [deployment EXCEPT !.version  = version,
                                           !.template = template,
                                           !.revision = revision,
                                           !.audit    = audit]
  <2>1. /\ version \in 0..MaxVersion
        /\ template \in Templates
        /\ revision \in 0..MaxRevision
        /\ audit \in SUBSET Audits
    BY <1>3, <1>5, <1>6, <1>7
  <2>2. deployment' = written
    BY <1>4 DEF RolledBack
  <2> HIDE DEF version, template, revision, audit
  <2>3. written \in Deployments
    BY <1>1, <2>1 DEF Deployments
  <2>4. written.audit = audit
    BY <1>1, <2>1 DEF Deployments
  <2> QED BY <2>2, <2>3, <2>4 DEF audit
<1> QED BY <1>1, <1>2, <1>4, <1>8, <1>9

\* The cluster's own steps keep the types and the audit, or start afresh.
LEMMA ClusterType ==
    ASSUME TypeOK, Cluster
    PROVE  /\ deployment' \in Deployments
           /\ deployment'.audit \in {deployment.audit, {}}
           /\ replicaSets' \subseteq ReplicaSets
           /\ UNCHANGED <<sessions, calls, landed>>
<1>1. deployment \in Deployments /\ replicaSets \subseteq ReplicaSets
  BY DEF TypeOK
<1>2. CASE NumberReplicaSet
  BY <1>1, <1>2 DEF NumberReplicaSet, ReplicaSets, Deployments
<1>3. CASE AnnotateRevision
  <2>1. PICK s \in Owned :
           deployment' = [deployment EXCEPT !.version  = @ + 1,
                                            !.revision = s.revision]
    BY <1>3 DEF AnnotateRevision
  <2>2. s.revision \in 0..MaxRevision
    BY <1>1, <2>1, RollbackTypes DEF Owned, ReplicaSets
  <2>3. deployment.version + 1 \in 0..MaxVersion
    BY <1>1, <1>3, RollbackTypes DEF AnnotateRevision, Deployments
  <2>4. deployment' \in Deployments /\ deployment'.audit = deployment.audit
    BY <1>1, <2>1, <2>2, <2>3 DEF Deployments
  <2> QED BY <1>1, <1>3, <2>4 DEF AnnotateRevision
<1>4. CASE UpdateStatus
  BY <1>1, <1>4, RollbackTypes DEF UpdateStatus, Deployments
<1>5. ASSUME NEW template \in Templates, Redeploy(template)
      PROVE  /\ deployment' \in Deployments
             /\ deployment'.audit = deployment.audit
             /\ UNCHANGED <<sessions, replicaSets, calls, landed>>
  <2>1. deployment.version + 1 \in 0..MaxVersion
    BY <1>1, <1>5, RollbackTypes DEF Redeploy, Deployments
  <2>2. deployment' = [deployment EXCEPT !.version  = @ + 1,
                                         !.template = template]
    BY <1>5 DEF Redeploy
  <2>3. deployment' \in Deployments /\ deployment'.audit = deployment.audit
    BY <1>1, <2>1, <2>2 DEF Deployments
  <2> QED BY <1>5, <2>3 DEF Redeploy
<1>6. ASSUME NEW template \in Templates, Recreate(template)
      PROVE  /\ deployment' \in Deployments
             /\ deployment'.audit = {}
             /\ replicaSets' = {}
             /\ UNCHANGED <<sessions, calls, landed>>
  BY <1>1, <1>6, RollbackTypes DEF Recreate, Deployments, Uids
<1> QED BY <1>1, <1>2, <1>3, <1>4, <1>5, <1>6 DEF Cluster

\* Whatever becomes of the calls, each is one of the calls before with its
\* incident, key and target, or one the gate has just let pass.
LEMMA CallsStep ==
    ASSUME TypeOK, [Next]_vars, NEW c \in DOMAIN calls'
    PROVE  /\ c \in CallIds
           /\ calls'[c] \in ToolCalls
           /\ \/ /\ c \in DOMAIN calls
                 /\ calls'[c].incident = calls[c].incident
                 /\ calls'[c].key = calls[c].key
                 /\ calls'[c].target = calls[c].target
              \/ /\ c \notin DOMAIN calls
                 /\ calls'[c].step = "read"
                 /\ calls'[c].decision = "none"
                 /\ GateAllows(sessions[calls'[c].incident], calls'[c].key,
                               calls'[c].target)
                 /\ UNCHANGED <<sessions, deployment, landed>>
<1> DEFINE Same(d) == /\ d \in DOMAIN calls
                      /\ calls'[d] \in ToolCalls
                      /\ calls'[d].incident = calls[d].incident
                      /\ calls'[d].key = calls[d].key
                      /\ calls'[d].target = calls[d].target
<1>1. /\ DOMAIN calls \subseteq CallIds
      /\ \A d \in DOMAIN calls : calls[d] \in ToolCalls
      /\ deployment \in Deployments
  BY DEF TypeOK
<1>2. CASE UNCHANGED calls
  BY <1>1, <1>2
<1>3. ASSUME NEW d \in CallIds, NEW f \in Fingerprints, NEW key \in Keys,
             NEW target \in Targets, Invoke(d, f, key, target), c # d
      PROVE  Same(c)
  BY <1>1, <1>3 DEF Invoke, WithCall
<1>4. ASSUME NEW d \in CallIds, NEW f \in Fingerprints, NEW key \in Keys,
             NEW target \in Targets, Invoke(d, f, key, target), c = d
      PROVE  /\ calls'[c] \in ToolCalls
             /\ c \notin DOMAIN calls
             /\ calls'[c].step = "read"
             /\ calls'[c].decision = "none"
             /\ GateAllows(sessions[calls'[c].incident], calls'[c].key,
                           calls'[c].target)
             /\ UNCHANGED <<sessions, deployment, landed>>
  <2>1. calls'[c] = [incident |-> f, key |-> key, target |-> target,
                     version |-> 0, step |-> "read", decision |-> "none"]
    BY <1>4 DEF Invoke, WithCall
  <2> QED BY <1>4, <2>1, RollbackTypes DEF Invoke, ToolCalls
<1>5. ASSUME NEW d \in DOMAIN calls,
             NEW decision \in Successes \cup Refusals, Answer(d, decision)
      PROVE  Same(c)
  BY <1>1, <1>5 DEF Answer, ToolCalls
<1>6. ASSUME NEW d \in DOMAIN calls, calls' = WithoutCall(d)
      PROVE  Same(c)
  BY <1>1, <1>6 DEF WithoutCall
<1>7. ASSUME NEW d \in DOMAIN calls, ReadDeployment(d)
      PROVE  Same(c)
  <2>1. ReadDecision(calls[d].key, calls[d].target)
           \in {"none"} \cup Successes \cup Refusals
    BY DEF ReadDecision, ReplayDecision, Successes, Refusals
  <2>2. CASE ReadDecision(calls[d].key, calls[d].target) # "none"
    BY <1>5, <1>7, <2>1, <2>2 DEF ReadDeployment
  <2>3. CASE ReadDecision(calls[d].key, calls[d].target) = "none"
    <3> DEFINE read == [calls[d] EXCEPT !.step    = "list",
                                        !.version = deployment.version]
    <3>1. calls' = [calls EXCEPT ![d] = read]
      BY <1>7, <2>3 DEF ReadDeployment
    <3>2. /\ read \in ToolCalls
          /\ read.incident = calls[d].incident
          /\ read.key = calls[d].key
          /\ read.target = calls[d].target
      BY <1>1 DEF ToolCalls, Deployments
    <3> HIDE DEF read
    <3> QED BY <1>1, <3>1, <3>2
  <2> QED BY <2>2, <2>3
<1>8. ASSUME NEW d \in DOMAIN calls, ListReplicaSets(d)
      PROVE  Same(c)
  <2>1. CASE HistoryAgrees(calls[d].target)
    BY <1>1, <1>8, <2>1 DEF ListReplicaSets, ToolCalls
  <2>2. CASE ~HistoryAgrees(calls[d].target)
    BY <1>5, <1>8, <2>2 DEF ListReplicaSets, Refusals
  <2> QED BY <2>1, <2>2
<1>9. ASSUME NEW d \in DOMAIN calls, LandPatch(d)
      PROVE  Same(c)
  <2>1. CASE calls[d].step = "late"
    BY <1>6, <1>9, <2>1 DEF LandPatch
  <2>2. CASE calls[d].step # "late"
    BY <1>5, <1>9, <2>2 DEF LandPatch, Successes, Refusals
  <2> QED BY <2>1, <2>2
<1>10. ASSUME NEW d \in DOMAIN calls, LoseAnswer(d)
       PROVE  Same(c)
  BY <1>1, <1>6, <1>10 DEF LoseAnswer, ToolCalls
<1>11. ASSUME NEW d \in DOMAIN calls, RecordOutcome(d)
       PROVE  Same(c)
  BY <1>6, <1>11 DEF RecordOutcome
<1>12. CASE RestartGateway
  BY <1>1, <1>12 DEF RestartGateway, ToolCalls
<1> HIDE DEF Same
<1>13. CASE Guardian
  BY <1>1, <1>2, <1>3, <1>4, <1>7, <1>8, <1>9, <1>10, <1>11, <1>12, <1>13
     DEF Guardian, StartAttempt, Reconcile, Same
<1>14. CASE Cluster
  BY <1>2, <1>14
     DEF Cluster, NumberReplicaSet, AnnotateRevision, UpdateStatus, Redeploy,
         Recreate
<1> QED BY <1>2, <1>13, <1>14 DEF Next, vars

\* Every step keeps the types.
LEMMA TypeStep ==
    ASSUME TypeOK, [Next]_vars
    PROVE  TypeOK'
<1>1. /\ sessions' \in [Fingerprints -> Incidents]
      /\ DOMAIN calls' \subseteq CallIds
      /\ \A c \in DOMAIN calls' : calls'[c] \in ToolCalls
  BY SessionsType, CallsStep
<1>2. CASE UNCHANGED <<deployment, replicaSets, landed>>
  BY <1>1, <1>2 DEF TypeOK
<1>3. ASSUME NEW c \in DOMAIN calls, LandPatch(c), Preconditions(calls[c])
      PROVE  TypeOK'
  BY <1>1, <1>3, LandPatchType DEF TypeOK, LandPatch
<1>4. CASE Cluster
  BY <1>1, <1>4, ClusterType DEF TypeOK
<1> QED BY <1>2, <1>3, <1>4, DeploymentStep

\* Sessions, calls, Deployment, history and patches keep their types, and the
\* Deployment never carries the audits of two rollbacks.
THEOREM RollbackTypeCorrect == Spec => []TypeOK
BY InitType, TypeStep, PTL DEF Spec

-----------------------------------------------------------------------------
(* The inductive invariant of the safety properties.  SucceededWasApplied    *)
(* needs that the audit on the live Deployment was left by a patch, that a   *)
(* call that was answered with a success speaks of one, and that the key     *)
(* tells a call's own attempt from the others.  OnlyApprovedChanges needs     *)
(* what a call has read of the version it will test for.                     *)

\* An attempt on record has this key and this target.
OnRecord(s, key, target) ==
    \E i \in 1..Len(s.remediationAttempts) :
        /\ s.remediationAttempts[i].key = key
        /\ s.remediationAttempts[i].target = target

KeysDistinct(s) ==
    \A i, j \in 1..Len(s.remediationAttempts) :
        s.remediationAttempts[i].key = s.remediationAttempts[j].key => i = j

\* A call belongs to an approved attempt of its incident.
CallsApproved ==
    \A c \in DOMAIN calls :
        /\ sessions[calls[c].incident].approvalStatus = "approved"
        /\ OnRecord(sessions[calls[c].incident], calls[c].key, calls[c].target)

\* The Deployment a call has read is the one its target leaves, and stays so
\* as long as the version does.
CallsSawTarget ==
    \A c \in DOMAIN calls : calls[c].step \in {"list", "patch", "late"} =>
        /\ calls[c].version <= deployment.version
        /\ /\ deployment.uid = calls[c].target.uid
           /\ deployment.version = calls[c].version
           => /\ deployment.revision = calls[c].target.fromRevision
              /\ deployment.template = calls[c].target.fromTemplate

AuditVouched ==
    \A a \in deployment.audit : \E l \in landed :
        l.target.uid = deployment.uid /\ AuditOf(l.key, l.target) = a

\* Applied, of any set of patches.
AppliedIn(patches, key, target) ==
    \E a \in patches : /\ a.target.uid = target.uid
                       /\ AuditOf(a.key, a.target) = AuditOf(key, target)

AnswersTrue ==
    \A c \in DOMAIN calls : calls[c].decision \in Successes =>
        AppliedIn(landed, calls[c].key, calls[c].target)

\* The history knows the revision the Deployment is annotated with.
RevisionKnown ==
    deployment.revision = 0 \/ \E s \in Owned : deployment.revision <= s.revision

RollbackInv ==
    /\ \A f \in Fingerprints : KeysDistinct(sessions[f])
    /\ CallsApproved
    /\ CallsSawTarget
    /\ AuditVouched
    /\ AnswersTrue
    /\ RevisionKnown
    /\ SucceededWasApplied

-----------------------------------------------------------------------------
(* What the steps do *)

\* The indices of a history are the numbers up to its length.
LEMMA HistoryDomain ==
    ASSUME NEW s \in Incidents
    PROVE  /\ DOMAIN s.remediationAttempts = 1..Len(s.remediationAttempts)
           /\ Len(s.remediationAttempts) \in Nat
BY LenProperties DEF Incidents

\* What a step may do to the history of one incident: settle attempts, or
\* append one that runs and whose key is new.
Extends(s, r) ==
    /\ r.approvalStatus = s.approvalStatus
    /\ Len(r.remediationAttempts) \in {Len(s.remediationAttempts),
                                       Len(s.remediationAttempts) + 1}
    /\ \A i \in 1..Len(s.remediationAttempts) :
          /\ r.remediationAttempts[i].key = s.remediationAttempts[i].key
          /\ r.remediationAttempts[i].target = s.remediationAttempts[i].target
    /\ Len(r.remediationAttempts) = Len(s.remediationAttempts) + 1 =>
          LET new == r.remediationAttempts[Len(s.remediationAttempts) + 1] IN
          /\ new.status = "running"
          /\ \A i \in 1..Len(s.remediationAttempts) :
                s.remediationAttempts[i].key # new.key

\* Settling the running attempt extends the history.
LEMMA SettledExtends ==
    ASSUME NEW s \in Incidents, HasRunningAttempt(s),
           NEW status \in {"succeeded", "failed"}
    PROVE  Extends(s, WithAttemptSettled(s, status, 0))
<1> DEFINE r == WithAttemptSettled(s, status, 0)
           k == RunningIndex(s)
<1>1. /\ Len(r.remediationAttempts) = Len(s.remediationAttempts)
      /\ \A i \in 1..Len(s.remediationAttempts) : i # k =>
            r.remediationAttempts[i] = s.remediationAttempts[i]
      /\ r.remediationAttempts[k] =
            SettledAttempt(s.remediationAttempts[k], status, 0)
      /\ r.approvalStatus = s.approvalStatus
  BY RollbackTypes, WithAttemptSettledType
<1>2. s.remediationAttempts[k] \in Attempts
  BY RunningIndexType
<1>3. /\ r.remediationAttempts[k].key = s.remediationAttempts[k].key
      /\ r.remediationAttempts[k].target = s.remediationAttempts[k].target
  BY <1>1, <1>2 DEF SettledAttempt, Attempts
<1> HIDE DEF r, k
<1>4. Len(s.remediationAttempts) \in Nat
  BY HistoryDomain
<1>5. Extends(s, r)
  BY <1>1, <1>3, <1>4 DEF Extends
<1> QED BY <1>5 DEF r

\* Blocking an incident, or leaving it alone, extends its history.
LEMMA BlockedExtends ==
    ASSUME NEW s \in Incidents
    PROVE  Extends(s, s) /\ Extends(s, BlockForManualReview(s, 0))
BY HistoryDomain DEF Extends, BlockForManualReview, Incidents

\* An attempt that starts extends the history.
LEMMA StartedExtends ==
    ASSUME NEW s \in Incidents, NEW key \in Keys, NEW target \in Targets,
           BeginDecision(s, key, target) = "started"
    PROVE  Extends(s, BeginAttempt(s, key, target, 0))
<1> DEFINE r == BeginAttempt(s, key, target, 0)
           n == Len(s.remediationAttempts)
           new == [key |-> key, target |-> target, status |-> "running",
                   startedAt |-> 0, finishedAt |-> None]
<1>1. /\ Len(r.remediationAttempts) = n + 1
      /\ \A i \in 1..n : r.remediationAttempts[i] = s.remediationAttempts[i]
      /\ r.remediationAttempts[n + 1] = new
      /\ r.approvalStatus = s.approvalStatus
  BY RollbackTypes, BeginAttemptType
<1>2. AttemptsWithKey(s, key) = {}
  BY DEF BeginDecision
<1>3. \A i \in 1..n : s.remediationAttempts[i].key # key
  BY <1>2, HistoryDomain DEF AttemptsWithKey
<1>4. new.key = key /\ new.status = "running"
  OBVIOUS
<1>5. n \in Nat
  BY HistoryDomain
<1> HIDE DEF r, new, n
<1>6. Extends(s, r)
  BY <1>1, <1>3, <1>4, <1>5 DEF Extends, n
<1> QED BY <1>6 DEF r

\* Every step extends the history of every incident.
LEMMA SessionsStep ==
    ASSUME TypeOK, [Next]_vars, NEW g \in Fingerprints
    PROVE  Extends(sessions[g], sessions'[g])
<1>1. sessions \in [Fingerprints -> Incidents]
  BY DEF TypeOK
<1>2. CASE UNCHANGED sessions
  BY <1>1, <1>2, BlockedExtends
<1>3. ASSUME NEW f \in Fingerprints, NEW key \in Keys, NEW target \in Targets,
             StartAttempt(f, key, target)
      PROVE  Extends(sessions[g], sessions'[g])
  BY <1>1, <1>3, BlockedExtends, StartedExtends DEF StartAttempt
<1>4. ASSUME NEW c \in DOMAIN calls, RecordOutcome(c)
      PROVE  Extends(sessions[g], sessions'[g])
  BY <1>1, <1>4, BlockedExtends, SettledExtends
     DEF RecordOutcome, CanFinishAttempt
<1>5. ASSUME NEW f \in Fingerprints, NEW readable \in BOOLEAN,
             Reconcile(f, readable)
      PROVE  Extends(sessions[g], sessions'[g])
  BY <1>1, <1>5, BlockedExtends, SettledExtends DEF Reconcile, SettleAttempt
<1> QED
  BY <1>2, <1>3, <1>4, <1>5
     DEF Next, Guardian, Cluster, Invoke, ReadDeployment, ListReplicaSets,
         LandPatch, LoseAnswer, RestartGateway, NumberReplicaSet,
         AnnotateRevision, UpdateStatus, Redeploy, Recreate, vars

\* An extended history keeps its attempts, and its keys distinct.
LEMMA ExtendsKeeps ==
    ASSUME NEW s \in Incidents, NEW r \in Incidents, Extends(s, r)
    PROVE  /\ KeysDistinct(s) => KeysDistinct(r)
           /\ \A key, target : OnRecord(s, key, target) => OnRecord(r, key, target)
<1>1. Len(s.remediationAttempts) \in Nat
  BY HistoryDomain
<1>2. ASSUME KeysDistinct(s) PROVE KeysDistinct(r)
  <2> DEFINE n == Len(s.remediationAttempts)
             m == Len(r.remediationAttempts)
  <2>1. /\ n \in Nat
        /\ m \in {n, n + 1}
        /\ \A i \in 1..n :
              r.remediationAttempts[i].key = s.remediationAttempts[i].key
        /\ m = n + 1 =>
              \A i \in 1..n : s.remediationAttempts[i].key
                               # r.remediationAttempts[n + 1].key
        /\ \A i, j \in 1..n : s.remediationAttempts[i].key
                               = s.remediationAttempts[j].key => i = j
    BY <1>1, <1>2 DEF KeysDistinct, Extends
  <2> HIDE DEF n, m
  <2> SUFFICES ASSUME NEW i \in 1..m, NEW j \in 1..m,
                      r.remediationAttempts[i].key = r.remediationAttempts[j].key
               PROVE  i = j
    BY DEF KeysDistinct, m
  <2>2. (i \in 1..n \/ (i = n + 1 /\ m = n + 1))
        /\ (j \in 1..n \/ (j = n + 1 /\ m = n + 1))
    BY <2>1
  <2>3. CASE i \in 1..n /\ j \in 1..n
    BY <2>1, <2>3
  <2>4. CASE i \in 1..n /\ j = n + 1 /\ m = n + 1
    BY <2>1, <2>4
  <2>5. CASE j \in 1..n /\ i = n + 1 /\ m = n + 1
    BY <2>1, <2>5
  <2> QED BY <2>2, <2>3, <2>4, <2>5
<1>3. \A key, target : OnRecord(s, key, target) => OnRecord(r, key, target)
  BY <1>1 DEF OnRecord, Extends
<1> QED BY <1>2, <1>3

\* Patches are never forgotten, and every write to the Deployment counts its
\* version up.
LEMMA DeploymentMoves ==
    ASSUME TypeOK, [Next]_vars
    PROVE  /\ landed \subseteq landed'
           /\ deployment' = deployment \/ deployment'.version = deployment.version + 1
<1>1. deployment \in Deployments
  BY DEF TypeOK
<1>2. ASSUME NEW c \in DOMAIN calls, LandPatch(c), Preconditions(calls[c])
      PROVE  /\ landed \subseteq landed'
             /\ deployment'.version = deployment.version + 1
  BY <1>1, <1>2 DEF LandPatch, RolledBack, Deployments
<1>3. CASE Cluster
  <2>1. CASE NumberReplicaSet
    BY <2>1 DEF NumberReplicaSet
  <2>2. CASE AnnotateRevision
    BY <1>1, <2>2 DEF AnnotateRevision, Deployments
  <2>3. CASE UpdateStatus
    BY <1>1, <2>3 DEF UpdateStatus, Deployments
  <2>4. ASSUME NEW template \in Templates, Redeploy(template)
        PROVE  /\ landed' = landed
               /\ deployment'.version = deployment.version + 1
    BY <1>1, <2>4 DEF Redeploy, Deployments
  <2>5. ASSUME NEW template \in Templates, Recreate(template)
        PROVE  /\ landed' = landed
               /\ deployment'.version = deployment.version + 1
    BY <1>1, <2>5 DEF Recreate
  <2> QED BY <1>3, <2>1, <2>2, <2>3, <2>4, <2>5 DEF Cluster
<1> QED BY <1>2, <1>3, DeploymentStep

\* What has been applied stays applied.
LEMMA AppliedStays ==
    ASSUME TypeOK, [Next]_vars, NEW key, NEW target, AppliedIn(landed, key, target)
    PROVE  AppliedIn(landed', key, target)
BY DeploymentMoves DEF AppliedIn

\* A call past its read either was there before, at the version it had read,
\* or has just read the Deployment its target leaves.
LEMMA CallsPastRead ==
    ASSUME TypeOK, [Next]_vars, NEW c \in DOMAIN calls',
           calls'[c].step \in {"list", "patch", "late"}
    PROVE  /\ c \in DOMAIN calls
           /\ \/ /\ calls[c].step \in {"list", "patch", "late"}
                 /\ calls'[c].version = calls[c].version
              \/ /\ deployment' = deployment
                 /\ calls'[c].version = deployment.version
                 /\ deployment.revision = calls[c].target.fromRevision
                 /\ deployment.template = calls[c].target.fromTemplate
                 /\ ~KeyRecorded(calls[c].key)
<1> DEFINE Past(d) ==
        /\ d \in DOMAIN calls
        /\ \/ /\ calls[d].step \in {"list", "patch", "late"}
              /\ calls'[d].version = calls[d].version
           \/ /\ deployment' = deployment
              /\ calls'[d].version = deployment.version
              /\ deployment.revision = calls[d].target.fromRevision
              /\ deployment.template = calls[d].target.fromTemplate
              /\ ~KeyRecorded(calls[d].key)
<1>1. \A d \in DOMAIN calls : calls[d] \in ToolCalls
  BY DEF TypeOK
<1>2. CASE UNCHANGED calls
  BY <1>2
<1>3. ASSUME NEW d \in CallIds, NEW f \in Fingerprints, NEW key \in Keys,
             NEW target \in Targets, Invoke(d, f, key, target)
      PROVE  Past(c)
  BY <1>3 DEF Invoke, WithCall
<1>4. ASSUME NEW d \in DOMAIN calls, NEW decision, Answer(d, decision)
      PROVE  Past(c)
  BY <1>1, <1>4 DEF Answer, ToolCalls
<1>5. ASSUME NEW d \in DOMAIN calls, calls' = WithoutCall(d)
      PROVE  Past(c)
  BY <1>5 DEF WithoutCall
<1>6. ASSUME NEW d \in DOMAIN calls, ReadDeployment(d)
      PROVE  Past(c)
  <2>1. CASE ReadDecision(calls[d].key, calls[d].target) # "none"
    BY <1>4, <1>6, <2>1 DEF ReadDeployment
  <2>2. CASE ReadDecision(calls[d].key, calls[d].target) = "none"
    <3> DEFINE read == [calls[d] EXCEPT !.step    = "list",
                                        !.version = deployment.version]
    <3>1. calls' = [calls EXCEPT ![d] = read] /\ deployment' = deployment
      BY <1>6, <2>2 DEF ReadDeployment
    <3>2. read.version = deployment.version
      BY <1>1 DEF ToolCalls
    <3>3. /\ deployment.revision = calls[d].target.fromRevision
          /\ deployment.template = calls[d].target.fromTemplate
          /\ ~KeyRecorded(calls[d].key)
      BY <2>2 DEF ReadDecision, ReplayDecision
    <3> HIDE DEF read
    <3> QED BY <3>1, <3>2, <3>3
  <2> QED BY <2>1, <2>2
<1>7. ASSUME NEW d \in DOMAIN calls, ListReplicaSets(d)
      PROVE  Past(c)
  <2>1. CASE HistoryAgrees(calls[d].target)
    BY <1>1, <1>7, <2>1 DEF ListReplicaSets, ToolCalls
  <2>2. CASE ~HistoryAgrees(calls[d].target)
    BY <1>4, <1>7, <2>2 DEF ListReplicaSets
  <2> QED BY <2>1, <2>2
<1>8. ASSUME NEW d \in DOMAIN calls, LandPatch(d)
      PROVE  Past(c)
  <2>1. CASE calls[d].step = "late"
    BY <1>5, <1>8, <2>1 DEF LandPatch
  <2>2. CASE calls[d].step # "late"
    BY <1>4, <1>8, <2>2 DEF LandPatch
  <2> QED BY <2>1, <2>2
<1>9. ASSUME NEW d \in DOMAIN calls, LoseAnswer(d)
      PROVE  Past(c)
  BY <1>1, <1>5, <1>9 DEF LoseAnswer, ToolCalls
<1>10. ASSUME NEW d \in DOMAIN calls, RecordOutcome(d)
       PROVE  Past(c)
  BY <1>5, <1>10 DEF RecordOutcome
<1>11. CASE RestartGateway
  BY <1>1, <1>11 DEF RestartGateway, ToolCalls
<1> HIDE DEF Past
<1>12. CASE Guardian
  BY <1>2, <1>3, <1>6, <1>7, <1>8, <1>9, <1>10, <1>11, <1>12
     DEF Guardian, StartAttempt, Reconcile, Past
<1>13. CASE Cluster
  BY <1>2, <1>13
     DEF Cluster, NumberReplicaSet, AnnotateRevision, UpdateStatus, Redeploy,
         Recreate
<1> QED BY <1>2, <1>12, <1>13 DEF Next, vars

\* A call that speaks of a success did so before, or has just found or left
\* its audit on the Deployment.
LEMMA CallsAnswered ==
    ASSUME TypeOK, AuditVouched, [Next]_vars, NEW c \in DOMAIN calls',
           calls'[c].decision \in Successes
    PROVE  /\ c \in DOMAIN calls
           /\ \/ calls[c].decision = calls'[c].decision
              \/ AppliedIn(landed', calls[c].key, calls[c].target)
<1> DEFINE True(d) ==
        /\ d \in DOMAIN calls
        /\ \/ calls[d].decision = calls'[d].decision
           \/ AppliedIn(landed', calls[d].key, calls[d].target)
<1>1. \A d \in DOMAIN calls : calls[d] \in ToolCalls
  BY DEF TypeOK
<1>2. CASE UNCHANGED calls
  BY <1>2
<1>3. ASSUME NEW d \in CallIds, NEW f \in Fingerprints, NEW key \in Keys,
             NEW target \in Targets, Invoke(d, f, key, target)
      PROVE  True(c)
  BY <1>3 DEF Invoke, WithCall, Successes
<1>4. ASSUME NEW d \in DOMAIN calls, NEW decision, Answer(d, decision),
             decision \in Successes =>
                AppliedIn(landed', calls[d].key, calls[d].target)
      PROVE  True(c)
  BY <1>1, <1>4 DEF Answer, ToolCalls
<1>5. ASSUME NEW d \in DOMAIN calls, calls' = WithoutCall(d)
      PROVE  True(c)
  BY <1>5 DEF WithoutCall
<1>6. ASSUME NEW d \in DOMAIN calls, ReadDeployment(d)
      PROVE  True(c)
  <2> DEFINE decision == ReadDecision(calls[d].key, calls[d].target)
  <2>1. ASSUME decision \in Successes
        PROVE  AppliedIn(landed', calls[d].key, calls[d].target)
    <3>1. /\ deployment.uid = calls[d].target.uid
          /\ AuditOf(calls[d].key, calls[d].target) \in deployment.audit
      BY <2>1 DEF ReadDecision, ReplayDecision, Successes
    <3>2. AppliedIn(landed, calls[d].key, calls[d].target)
      BY <3>1 DEF AuditVouched, AppliedIn
    <3> QED BY <3>2, AppliedStays
  <2>2. CASE decision # "none"
    BY <1>4, <1>6, <2>1, <2>2 DEF ReadDeployment
  <2>3. CASE decision = "none"
    <3> DEFINE read == [calls[d] EXCEPT !.step    = "list",
                                        !.version = deployment.version]
    <3>1. calls' = [calls EXCEPT ![d] = read]
      BY <1>6, <2>3 DEF ReadDeployment
    <3>2. read.decision = calls[d].decision
      BY <1>1 DEF ToolCalls
    <3> HIDE DEF read
    <3> QED BY <3>1, <3>2
  <2> QED BY <2>2, <2>3
<1>7. ASSUME NEW d \in DOMAIN calls, ListReplicaSets(d)
      PROVE  True(c)
  <2>1. CASE HistoryAgrees(calls[d].target)
    BY <1>1, <1>7, <2>1 DEF ListReplicaSets, ToolCalls
  <2>2. CASE ~HistoryAgrees(calls[d].target)
    BY <1>4, <1>7, <2>2 DEF ListReplicaSets, Successes
  <2> QED BY <2>1, <2>2
<1>8. ASSUME NEW d \in DOMAIN calls, LandPatch(d)
      PROVE  True(c)
  <2>1. CASE calls[d].step = "late"
    BY <1>5, <1>8, <2>1 DEF LandPatch
  <2>2. CASE calls[d].step # "late" /\ Preconditions(calls[d])
    <3>1. [key     |-> calls[d].key, target |-> calls[d].target,
           version |-> deployment.version] \in landed'
      BY <1>8, <2>2 DEF LandPatch
    <3>2. AppliedIn(landed', calls[d].key, calls[d].target)
      BY <3>1 DEF AppliedIn
    <3> QED BY <1>4, <1>8, <2>2, <3>2 DEF LandPatch
  <2>3. CASE calls[d].step # "late" /\ ~Preconditions(calls[d])
    BY <1>4, <1>8, <2>3 DEF LandPatch, Successes
  <2> QED BY <2>1, <2>2, <2>3
<1>9. ASSUME NEW d \in DOMAIN calls, LoseAnswer(d)
      PROVE  True(c)
  BY <1>1, <1>5, <1>9 DEF LoseAnswer, ToolCalls
<1>10. ASSUME NEW d \in DOMAIN calls, RecordOutcome(d)
       PROVE  True(c)
  BY <1>5, <1>10 DEF RecordOutcome
<1>11. CASE RestartGateway
  BY <1>1, <1>11 DEF RestartGateway, ToolCalls
<1> HIDE DEF True
<1>12. CASE Guardian
  BY <1>2, <1>3, <1>6, <1>7, <1>8, <1>9, <1>10, <1>11, <1>12
     DEF Guardian, StartAttempt, Reconcile, True
<1>13. CASE Cluster
  BY <1>2, <1>13
     DEF Cluster, NumberReplicaSet, AnnotateRevision, UpdateStatus, Redeploy,
         Recreate
<1> QED BY <1>2, <1>12, <1>13 DEF Next, vars, True

-----------------------------------------------------------------------------
(* The invariant is inductive *)

LEMMA InvInit == Init => RollbackInv
<1> SUFFICES ASSUME Init PROVE RollbackInv
  OBVIOUS
<1>1. DOMAIN calls = {} /\ deployment.audit = {}
  BY DEF Init
<1>2. \A f \in Fingerprints : sessions[f].remediationAttempts = <<>>
  BY DEF Init, CreateIncident, RecordMetricEvidence,
         RecordRemediationProposal, RecordApprovalDecision
<1>3. RevisionKnown
  <2>1. PICK s \in replicaSets :
           deployment = [uid |-> 1, version |-> 0, template |-> s.template,
                         revision |-> s.revision, audit |-> {}]
    BY DEF Init
  <2>2. s.owner = 1 /\ s.revision \in 1..MaxRevision
    BY RollbackTypes DEF Init
  <2> QED BY <2>1, <2>2, RollbackTypes DEF RevisionKnown, Owned
<1>4. \A f \in Fingerprints : KeysDistinct(sessions[f])
  BY <1>2 DEF KeysDistinct
<1>5. SucceededWasApplied
  BY <1>2 DEF SucceededWasApplied
<1> QED
  BY <1>1, <1>3, <1>4, <1>5
     DEF RollbackInv, CallsApproved, CallsSawTarget, AuditVouched, AnswersTrue

\* Calls stay those of approved attempts on record.
LEMMA ApprovedStep ==
    ASSUME TypeOK, TypeOK', CallsApproved, [Next]_vars
    PROVE  CallsApproved'
<1> SUFFICES ASSUME NEW c \in DOMAIN calls'
             PROVE  LET s == sessions'[calls'[c].incident]
                    IN  /\ s.approvalStatus = "approved"
                        /\ OnRecord(s, calls'[c].key, calls'[c].target)
  BY DEF CallsApproved
<1>1. /\ calls'[c] \in ToolCalls
      /\ calls'[c].incident \in Fingerprints
  BY CallsStep DEF ToolCalls
<1> DEFINE f == calls'[c].incident
<1>2. /\ sessions[f] \in Incidents
      /\ sessions'[f] \in Incidents
      /\ Extends(sessions[f], sessions'[f])
  BY <1>1, SessionsStep DEF TypeOK
<1>3. CASE /\ c \in DOMAIN calls
           /\ calls'[c].incident = calls[c].incident
           /\ calls'[c].key = calls[c].key
           /\ calls'[c].target = calls[c].target
  <2>1. /\ sessions[f].approvalStatus = "approved"
        /\ OnRecord(sessions[f], calls'[c].key, calls'[c].target)
    BY <1>3 DEF CallsApproved
  <2>2. sessions'[f].approvalStatus = "approved"
    BY <1>2, <2>1 DEF Extends
  <2>3. OnRecord(sessions'[f], calls'[c].key, calls'[c].target)
    <3> DEFINE s == sessions[f]
               r == sessions'[f]
    <3>1. s \in Incidents /\ r \in Incidents /\ Extends(s, r)
      BY <1>2
    <3> HIDE DEF s, r
    <3>2. \A key, target : OnRecord(s, key, target) => OnRecord(r, key, target)
      BY <3>1, ExtendsKeeps
    <3> QED BY <2>1, <3>2 DEF s, r
  <2> QED BY <2>2, <2>3
<1>4. CASE /\ GateAllows(sessions[f], calls'[c].key, calls'[c].target)
           /\ UNCHANGED sessions
  <2>1. /\ sessions[f].approvalStatus = "approved"
        /\ OnRecord(sessions[f], calls'[c].key, calls'[c].target)
    BY <1>2, <1>4, HistoryDomain DEF GateAllows, RunningAttempts, OnRecord
  <2> QED BY <1>4, <2>1
<1> QED BY <1>3, <1>4, CallsStep

\* What a call has read stays true of the version it has read.
LEMMA SawTargetStep ==
    ASSUME TypeOK, TypeOK', CallsSawTarget, [Next]_vars
    PROVE  CallsSawTarget'
<1> SUFFICES ASSUME NEW c \in DOMAIN calls',
                    calls'[c].step \in {"list", "patch", "late"}
             PROVE  /\ calls'[c].version <= deployment'.version
                    /\ /\ deployment'.uid = calls'[c].target.uid
                       /\ deployment'.version = calls'[c].version
                       => /\ deployment'.revision
                                = calls'[c].target.fromRevision
                          /\ deployment'.template
                                = calls'[c].target.fromTemplate
  BY DEF CallsSawTarget
<1>1. /\ deployment.version \in Nat
      /\ deployment'.version \in Nat
  BY RollbackTypes DEF TypeOK, Deployments
<1>2. c \in DOMAIN calls
  BY CallsPastRead
<1>3. calls'[c].target = calls[c].target /\ calls[c].version \in Nat
  BY <1>2, CallsStep, RollbackTypes DEF TypeOK, ToolCalls
<1>4. CASE /\ calls[c].step \in {"list", "patch", "late"}
           /\ calls'[c].version = calls[c].version
  <2>1. /\ calls[c].version <= deployment.version
        /\ /\ deployment.uid = calls[c].target.uid
           /\ deployment.version = calls[c].version
           => /\ deployment.revision = calls[c].target.fromRevision
              /\ deployment.template = calls[c].target.fromTemplate
    BY <1>2, <1>4 DEF CallsSawTarget
  <2>2. CASE deployment' = deployment
    BY <1>3, <1>4, <2>1, <2>2
  <2>3. CASE deployment'.version = deployment.version + 1
    BY <1>1, <1>3, <1>4, <2>1, <2>3
  <2> QED BY <2>2, <2>3, DeploymentMoves
<1>5. CASE /\ deployment' = deployment
           /\ calls'[c].version = deployment.version
           /\ deployment.revision = calls[c].target.fromRevision
           /\ deployment.template = calls[c].target.fromTemplate
  BY <1>1, <1>3, <1>5
<1> QED BY <1>4, <1>5, CallsPastRead

\* The audit on the Deployment stays that of a patch to it.
LEMMA AuditStep ==
    ASSUME TypeOK, AuditVouched, [Next]_vars
    PROVE  AuditVouched'
<1>1. /\ deployment \in Deployments
      /\ landed \subseteq landed'
  BY DeploymentMoves DEF TypeOK
<1>2. CASE deployment' = deployment
  BY <1>1, <1>2 DEF AuditVouched
<1>3. ASSUME NEW c \in DOMAIN calls, LandPatch(c), Preconditions(calls[c])
      PROVE  AuditVouched'
  <2> DEFINE patch == [key     |-> calls[c].key, target |-> calls[c].target,
                       version |-> deployment.version]
  <2>1. /\ deployment' = RolledBack(calls[c])
        /\ patch \in landed'
        /\ deployment.uid = calls[c].target.uid
    BY <1>3 DEF LandPatch, Preconditions
  <2>2. /\ deployment'.audit = {AuditOf(calls[c].key, calls[c].target)}
        /\ deployment'.uid = deployment.uid
    BY <1>1, <2>1 DEF RolledBack, Deployments
  <2>3. patch.target = calls[c].target /\ patch.key = calls[c].key
    OBVIOUS
  <2> HIDE DEF patch
  <2>4. /\ patch.target.uid = deployment'.uid
        /\ {AuditOf(patch.key, patch.target)} = deployment'.audit
    BY <2>1, <2>2, <2>3
  <2> QED BY <2>1, <2>4 DEF AuditVouched, AuditOf
<1>4. CASE AnnotateRevision
  BY <1>1, <1>4 DEF AnnotateRevision, AuditVouched, Deployments
<1>5. CASE UpdateStatus
  BY <1>1, <1>5 DEF UpdateStatus, AuditVouched, Deployments
<1>6. ASSUME NEW template \in Templates, Redeploy(template)
      PROVE  AuditVouched'
  BY <1>1, <1>6 DEF Redeploy, AuditVouched, Deployments
<1>7. ASSUME NEW template \in Templates, Recreate(template)
      PROVE  AuditVouched'
  BY <1>7 DEF Recreate, AuditVouched
<1> QED
  BY <1>2, <1>3, <1>4, <1>5, <1>6, <1>7, DeploymentStep
     DEF Cluster, NumberReplicaSet

\* Answers of success stay true.
LEMMA AnswersStep ==
    ASSUME TypeOK, AuditVouched, AnswersTrue, [Next]_vars
    PROVE  AnswersTrue'
<1> SUFFICES ASSUME NEW c \in DOMAIN calls', calls'[c].decision \in Successes
             PROVE  AppliedIn(landed', calls'[c].key, calls'[c].target)
  BY DEF AnswersTrue, Successes
<1>1. c \in DOMAIN calls
  BY CallsAnswered
<1>2. calls'[c].key = calls[c].key /\ calls'[c].target = calls[c].target
  BY <1>1, CallsStep
<1>3. CASE calls[c].decision = calls'[c].decision
  <2>1. AppliedIn(landed, calls[c].key, calls[c].target)
    BY <1>1, <1>3 DEF AnswersTrue
  <2> QED BY <1>2, <2>1, AppliedStays
<1> QED BY <1>2, <1>3, CallsAnswered

\* The history keeps up with the annotated revision.
LEMMA RevisionStep ==
    ASSUME TypeOK, CallsSawTarget, RevisionKnown, [Next]_vars
    PROVE  /\ RevisionKnown'
           /\ deployment'.uid = deployment.uid =>
                 deployment.revision <= deployment'.revision
<1>1. /\ deployment \in Deployments
      /\ deployment.revision \in 0..MaxRevision
      /\ replicaSets \subseteq ReplicaSets
      /\ \A s \in replicaSets : s.revision \in 1..MaxRevision
  BY RollbackTypes DEF TypeOK, Deployments, ReplicaSets
<1>2. CASE UNCHANGED <<deployment, replicaSets>>
  BY <1>1, <1>2, RollbackTypes DEF RevisionKnown, Owned
<1>3. ASSUME NEW c \in DOMAIN calls, LandPatch(c), Preconditions(calls[c])
      PROVE  /\ deployment'.revision = deployment.revision
             /\ deployment'.uid = deployment.uid
             /\ replicaSets' = replicaSets
  <2>1. deployment.revision = calls[c].target.fromRevision
    BY <1>3 DEF CallsSawTarget, LandPatch, Preconditions
  <2>2. deployment' = RolledBack(calls[c]) /\ replicaSets' = replicaSets
    BY <1>3 DEF LandPatch
  <2> QED BY <1>1, <2>1, <2>2 DEF RolledBack, Deployments
<1>4. ASSUME deployment'.revision = deployment.revision,
             deployment'.uid = deployment.uid,
             replicaSets' = replicaSets
      PROVE  /\ RevisionKnown'
             /\ deployment.revision <= deployment'.revision
  BY <1>1, <1>4, RollbackTypes DEF RevisionKnown, Owned
<1>5. CASE NumberReplicaSet
  <2>1. PICK r \in Revisions :
           /\ \A s \in Owned : s.revision < r
           /\ replicaSets' =
                 {s \in replicaSets :
                     ~(s \in Owned /\ s.template = deployment.template)}
                    \cup {[owner    |-> deployment.uid, revision |-> r,
                           template |-> deployment.template]}
    BY <1>5 DEF NumberReplicaSet
  <2> DEFINE new == [owner    |-> deployment.uid, revision |-> r,
                     template |-> deployment.template]
  <2>2. /\ new \in replicaSets'
        /\ new.owner = deployment.uid
        /\ new.revision = r
        /\ deployment' = deployment
    BY <1>5, <2>1 DEF NumberReplicaSet
  <2>3. r \in 1..MaxRevision
    BY RollbackTypes
  <2> HIDE DEF new
  <2>4. deployment.revision = 0 \/ deployment.revision <= r
    BY <1>1, <2>1, <2>3, RollbackTypes DEF RevisionKnown, Owned
  <2>5. new \in Owned'
    BY <2>2 DEF Owned
  <2>6. RevisionKnown'
    BY <2>2, <2>4, <2>5 DEF RevisionKnown
  <2> QED BY <1>1, <2>2, <2>6, RollbackTypes
<1>6. CASE AnnotateRevision
  <2>1. PICK s \in Owned :
           /\ Numbered(s)
           /\ deployment' = [deployment EXCEPT !.version  = @ + 1,
                                               !.revision = s.revision]
    BY <1>6 DEF AnnotateRevision
  <2>2. /\ deployment'.revision = s.revision
        /\ deployment'.uid = deployment.uid
        /\ replicaSets' = replicaSets
    BY <1>1, <1>6, <2>1 DEF AnnotateRevision, Deployments
  <2>3. s \in Owned' /\ s.revision \in 1..MaxRevision
    BY <1>1, <2>2 DEF Owned
  <2>4. RevisionKnown'
    BY <2>2, <2>3, RollbackTypes DEF RevisionKnown
  <2>5. \A t \in Owned : t.revision <= s.revision
    BY <2>1 DEF Numbered
  <2>6. \A t \in Owned : t.revision \in 1..MaxRevision
    BY <1>1 DEF Owned
  <2>7. deployment.revision <= s.revision
    BY <1>1, <2>3, <2>5, <2>6, RollbackTypes DEF RevisionKnown
  <2> QED BY <2>2, <2>4, <2>7
<1>7. CASE UpdateStatus
  BY <1>1, <1>4, <1>7 DEF UpdateStatus, Deployments
<1>8. ASSUME NEW template \in Templates, Redeploy(template)
      PROVE  /\ deployment'.revision = deployment.revision
             /\ deployment'.uid = deployment.uid
             /\ replicaSets' = replicaSets
  BY <1>1, <1>8 DEF Redeploy, Deployments
<1>9. ASSUME NEW template \in Templates, Recreate(template)
      PROVE  /\ RevisionKnown'
             /\ deployment'.uid # deployment.uid
  BY <1>1, <1>9, DeploymentRollbackAssumption
     DEF Recreate, RevisionKnown, Deployments, Uids
<1> QED
  BY <1>1, <1>2, <1>3, <1>4, <1>5, <1>6, <1>7, <1>8, <1>9, DeploymentStep,
     RollbackTypes
     DEF Cluster

\* Keys stay distinct.
LEMMA KeysStep ==
    ASSUME TypeOK, TypeOK', [Next]_vars,
           \A f \in Fingerprints : KeysDistinct(sessions[f])
    PROVE  \A f \in Fingerprints : KeysDistinct(sessions'[f])
<1> SUFFICES ASSUME NEW f \in Fingerprints PROVE KeysDistinct(sessions'[f])
  OBVIOUS
<1> DEFINE s == sessions[f]
           r == sessions'[f]
<1>1. s \in Incidents /\ r \in Incidents /\ Extends(s, r) /\ KeysDistinct(s)
  BY SessionsStep DEF TypeOK
<1> HIDE DEF s, r
<1>2. KeysDistinct(r)
  BY <1>1, ExtendsKeeps
<1> QED BY <1>2 DEF r

\* Of one incident: an attempt that is a success after its running attempt
\* settled was one before, or is the attempt that settled as one.
LEMMA SettledSuccess ==
    ASSUME NEW s \in Incidents, HasRunningAttempt(s),
           NEW status \in {"succeeded", "failed"},
           NEW i \in 1..Len(s.remediationAttempts),
           WithAttemptSettled(s, status, 0).remediationAttempts[i].status
              = "succeeded"
    PROVE  \/ s.remediationAttempts[i].status = "succeeded"
           \/ i = RunningIndex(s) /\ status = "succeeded"
<1> DEFINE r == WithAttemptSettled(s, status, 0)
           k == RunningIndex(s)
<1>1. /\ i # k => r.remediationAttempts[i] = s.remediationAttempts[i]
      /\ r.remediationAttempts[k] =
            SettledAttempt(s.remediationAttempts[k], status, 0)
  BY RollbackTypes, WithAttemptSettledType
<1>2. s.remediationAttempts[k] \in Attempts
  BY RunningIndexType
<1>3. r.remediationAttempts[k].status = status
  BY <1>1, <1>2 DEF SettledAttempt, Attempts
<1>4. r.remediationAttempts[i].status = "succeeded"
  OBVIOUS
<1> HIDE DEF r, k
<1> QED BY <1>1, <1>3, <1>4 DEF k

\* An attempt that is a success after a step was one before, or its target
\* was applied under its key.
LEMMA NewSuccess ==
    ASSUME TypeOK, RollbackInv, [Next]_vars, NEW f \in Fingerprints,
           NEW i \in 1..Len(sessions[f].remediationAttempts),
           sessions'[f].remediationAttempts[i].status = "succeeded"
    PROVE  LET attempt == sessions[f].remediationAttempts[i]
           IN  \/ attempt.status = "succeeded"
               \/ AppliedIn(landed, attempt.key, attempt.target)
<1> DEFINE s == sessions[f]
           attempt == s.remediationAttempts[i]
           Goal == \/ attempt.status = "succeeded"
                   \/ AppliedIn(landed, attempt.key, attempt.target)
<1>1. sessions \in [Fingerprints -> Incidents] /\ s \in Incidents
  BY DEF TypeOK
<1>2. ASSUME sessions'[f] = s PROVE Goal
  BY <1>2
<1>3. ASSUME NEW g \in Fingerprints, NEW key \in Keys, NEW target \in Targets,
             StartAttempt(g, key, target), f = g
      PROVE  Goal
  <2>1. sessions'[f] = BeginAttempt(s, key, target, 0)
    BY <1>1, <1>3 DEF StartAttempt
  <2> DEFINE r == BeginAttempt(s, key, target, 0)
  <2>2. r.remediationAttempts[i] = attempt
    BY <1>1, RollbackTypes, BeginAttemptType
  <2> QED BY <2>1, <2>2
<1>4. ASSUME NEW c \in DOMAIN calls, RecordOutcome(c), f = calls[c].incident
      PROVE  Goal
  <2> DEFINE status == IF calls[c].decision \in Successes THEN "succeeded"
                                                          ELSE "failed"
  <2>1. /\ CanFinishAttempt(s, calls[c].key, status, 0)
        /\ sessions'[f] = WithAttemptSettled(s, status, 0)
    BY <1>1, <1>4 DEF RecordOutcome
  <2>2. /\ HasRunningAttempt(s)
        /\ s.remediationAttempts[RunningIndex(s)].key = calls[c].key
    BY <2>1 DEF CanFinishAttempt
  <2>3. \/ attempt.status = "succeeded"
        \/ i = RunningIndex(s) /\ status = "succeeded"
    BY <1>1, <2>1, <2>2, SettledSuccess
  <2>4. CASE i = RunningIndex(s) /\ status = "succeeded"
    <3>1. PICK j \in 1..Len(s.remediationAttempts) :
             /\ s.remediationAttempts[j].key = calls[c].key
             /\ s.remediationAttempts[j].target = calls[c].target
      BY <1>4 DEF RollbackInv, CallsApproved, OnRecord
    <3>2. i = j
      BY <2>2, <2>4, <3>1 DEF RollbackInv, KeysDistinct
    <3>3. AppliedIn(landed, calls[c].key, calls[c].target)
      BY <2>4 DEF RollbackInv, AnswersTrue
    <3> QED BY <3>1, <3>2, <3>3
  <2> QED BY <2>3, <2>4
<1>5. ASSUME NEW g \in Fingerprints, NEW readable \in BOOLEAN,
             Reconcile(g, readable), f = g
      PROVE  Goal
  <2> DEFINE running == s.remediationAttempts[RunningIndex(s)]
             confirmed == /\ readable
                          /\ ReconcileOutcome(running.key, running.target)
                                = "confirmed_succeeded"
  <2>1. /\ HasRunningAttempt(s)
        /\ sessions'[f] = IF confirmed THEN WithAttemptSettled(s, "succeeded", 0)
                                       ELSE BlockForManualReview(s, 0)
    BY <1>1, <1>5 DEF Reconcile, SettleAttempt
  <2>2. CASE confirmed
    <3>1. \/ attempt.status = "succeeded"
          \/ i = RunningIndex(s)
      BY <1>1, <2>1, <2>2, SettledSuccess
    <3>2. /\ deployment.uid = running.target.uid
          /\ AuditOf(running.key, running.target) \in deployment.audit
      BY <2>2 DEF ReconcileOutcome
    <3>3. AppliedIn(landed, running.key, running.target)
      BY <3>2 DEF RollbackInv, AuditVouched, AppliedIn
    <3> QED BY <3>1, <3>3
  <2>3. CASE ~confirmed
    BY <1>1, <2>1, <2>3 DEF BlockForManualReview, Incidents
  <2> QED BY <2>2, <2>3
<1> HIDE DEF Goal
<1>6. ASSUME UNCHANGED sessions PROVE Goal
  BY <1>2, <1>6
<1>7. ASSUME NEW g \in Fingerprints, f # g,
             NEW r, sessions' = [sessions EXCEPT ![g] = r]
      PROVE  Goal
  BY <1>1, <1>2, <1>7
<1>8. ASSUME NEW g \in Fingerprints, NEW key \in Keys, NEW target \in Targets,
             StartAttempt(g, key, target)
      PROVE  Goal
  BY <1>3, <1>7, <1>8 DEF StartAttempt
<1>9. ASSUME NEW c \in DOMAIN calls, RecordOutcome(c)
      PROVE  Goal
  <2>1. PICK r : sessions' = [sessions EXCEPT ![calls[c].incident] = r]
    BY <1>9 DEF RecordOutcome
  <2>2. calls[c].incident \in Fingerprints
    BY DEF TypeOK, ToolCalls
  <2> QED BY <1>4, <1>7, <1>9, <2>1, <2>2
<1>10. ASSUME NEW g \in Fingerprints, NEW readable \in BOOLEAN,
              Reconcile(g, readable)
       PROVE  Goal
  <2>1. PICK r : sessions' = [sessions EXCEPT ![g] = r]
    BY <1>10 DEF Reconcile
  <2> QED BY <1>5, <1>7, <1>10, <2>1
<1>11. Goal
  BY <1>6, <1>8, <1>9, <1>10
     DEF Next, Guardian, Cluster, Invoke, ReadDeployment, ListReplicaSets,
         LandPatch, LoseAnswer, RestartGateway, NumberReplicaSet,
         AnnotateRevision, UpdateStatus, Redeploy, Recreate, vars
<1> QED BY <1>11 DEF Goal

\* Successes on record stay applied.
LEMMA SucceededStep ==
    ASSUME TypeOK, TypeOK', RollbackInv, [Next]_vars
    PROVE  SucceededWasApplied'
<1> SUFFICES ASSUME NEW f \in Fingerprints,
                    NEW i \in DOMAIN sessions'[f].remediationAttempts,
                    sessions'[f].remediationAttempts[i].status = "succeeded"
             PROVE  AppliedIn(landed',
                              sessions'[f].remediationAttempts[i].key,
                              sessions'[f].remediationAttempts[i].target)
  BY DEF SucceededWasApplied, Applied, AppliedIn, AuditOf
<1> DEFINE s == sessions[f]
           r == sessions'[f]
<1>1. s \in Incidents /\ r \in Incidents /\ Extends(s, r)
  BY SessionsStep DEF TypeOK
<1>2. /\ Len(s.remediationAttempts) \in Nat
      /\ DOMAIN s.remediationAttempts = 1..Len(s.remediationAttempts)
      /\ DOMAIN r.remediationAttempts = 1..Len(r.remediationAttempts)
  BY <1>1, HistoryDomain
<1>3. r.remediationAttempts[i].status = "succeeded"
  OBVIOUS
<1>4. i \in 1..Len(s.remediationAttempts)
  <2> HIDE DEF s, r
  <2> QED BY <1>1, <1>2, <1>3 DEF Extends, r
<1>5. /\ r.remediationAttempts[i].key = s.remediationAttempts[i].key
      /\ r.remediationAttempts[i].target = s.remediationAttempts[i].target
  BY <1>1, <1>4 DEF Extends
<1>6. AppliedIn(landed, s.remediationAttempts[i].key,
                s.remediationAttempts[i].target)
  <2>1. \/ s.remediationAttempts[i].status = "succeeded"
        \/ AppliedIn(landed, s.remediationAttempts[i].key,
                     s.remediationAttempts[i].target)
    BY <1>3, <1>4, NewSuccess
  <2> QED BY <1>2, <1>4, <2>1
          DEF RollbackInv, SucceededWasApplied, Applied, AppliedIn
<1>7. AppliedIn(landed', s.remediationAttempts[i].key,
                s.remediationAttempts[i].target)
  BY <1>6, AppliedStays
<1> QED BY <1>5, <1>7

LEMMA InvStep ==
    ASSUME TypeOK, RollbackInv, [Next]_vars
    PROVE  RollbackInv'
<1>1. TypeOK'
  BY TypeStep
<1>2. \A f \in Fingerprints : KeysDistinct(sessions'[f])
  BY <1>1, KeysStep DEF RollbackInv
<1>3. CallsApproved' /\ CallsSawTarget'
  BY <1>1, ApprovedStep, SawTargetStep DEF RollbackInv
<1>4. AuditVouched' /\ AnswersTrue'
  BY AuditStep, AnswersStep DEF RollbackInv
<1>5. RevisionKnown'
  BY RevisionStep DEF RollbackInv
<1>6. SucceededWasApplied'
  BY <1>1, SucceededStep
<1> QED BY <1>2, <1>3, <1>4, <1>5, <1>6 DEF RollbackInv, KeysDistinct

-----------------------------------------------------------------------------
(* The theorems *)

\* What links incidents, calls, patches and the Deployment holds however
\* calls overlap, repeat, lose their answers and arrive late.
THEOREM RollbackCorrect == Spec => []RollbackInv
<1>1. Init => TypeOK /\ RollbackInv
  BY InitType, InvInit
<1>2. TypeOK /\ RollbackInv /\ [Next]_vars => (TypeOK /\ RollbackInv)'
  BY TypeStep, InvStep
<1> QED BY <1>1, <1>2, PTL DEF Spec

\* No attempt is recorded as succeeded unless its own key put its own target
\* in place.
THEOREM SuccessAlwaysApplied == Spec => []SucceededWasApplied
<1>1. RollbackInv => SucceededWasApplied
  BY DEF RollbackInv
<1> QED BY <1>1, RollbackCorrect, PTL

\* Every change the Guardian makes leaves the state that was approved, for an
\* attempt on record.
THEOREM ChangesAlwaysApproved == Spec => OnlyApprovedChanges
<1> DEFINE Approved ==
        \A a \in landed' \ landed :
            /\ deployment.uid = a.target.uid
            /\ deployment.revision = a.target.fromRevision
            /\ deployment.template = a.target.fromTemplate
            /\ \E f \in Fingerprints :
                  \E i \in DOMAIN sessions[f].remediationAttempts :
                    /\ sessions[f].approvalStatus = "approved"
                    /\ sessions[f].remediationAttempts[i].key = a.key
                    /\ sessions[f].remediationAttempts[i].target = a.target
<1>1. ASSUME TypeOK, RollbackInv, [Next]_vars PROVE Approved
  <2>1. CASE landed' = landed
    BY <2>1
  <2>2. ASSUME NEW c \in DOMAIN calls, LandPatch(c), Preconditions(calls[c])
        PROVE  Approved
    <3> DEFINE patch == [key     |-> calls[c].key, target |-> calls[c].target,
                         version |-> deployment.version]
               f == calls[c].incident
    <3>1. landed' = landed \cup {patch}
      BY <2>2 DEF LandPatch
    <3>2. patch.key = calls[c].key /\ patch.target = calls[c].target
      OBVIOUS
    <3>3. f \in Fingerprints /\ sessions[f] \in Incidents
      BY <1>1 DEF TypeOK, ToolCalls
    <3>4. /\ deployment.uid = calls[c].target.uid
          /\ deployment.revision = calls[c].target.fromRevision
          /\ deployment.template = calls[c].target.fromTemplate
      BY <1>1, <2>2 DEF RollbackInv, CallsSawTarget, LandPatch, Preconditions
    <3>5. /\ sessions[f].approvalStatus = "approved"
          /\ OnRecord(sessions[f], calls[c].key, calls[c].target)
      BY <1>1 DEF RollbackInv, CallsApproved
    <3>6. \E i \in DOMAIN sessions[f].remediationAttempts :
             /\ sessions[f].remediationAttempts[i].key = calls[c].key
             /\ sessions[f].remediationAttempts[i].target = calls[c].target
      BY <3>3, <3>5, HistoryDomain DEF OnRecord
    <3> HIDE DEF patch, f
    <3> QED BY <3>1, <3>2, <3>3, <3>4, <3>5, <3>6
  <2>3. CASE Cluster
    BY <1>1, <2>1, <2>3, ClusterType
  <2> QED BY <1>1, <2>1, <2>2, <2>3, DeploymentStep
<1>2. ASSUME TypeOK, RollbackInv, [Next]_vars PROVE [Approved]_vars
  BY <1>1, <1>2
<1> QED
  BY <1>2, RollbackTypeCorrect, RollbackCorrect, PTL
     DEF OnlyApprovedChanges, Spec

\* No step takes the annotated revision of a Deployment back.
THEOREM RevisionNeverTakenBack == Spec => RevisionNeverRegresses
<1>1. ASSUME TypeOK, RollbackInv, [Next]_vars
      PROVE  [deployment'.uid = deployment.uid =>
                 deployment.revision <= deployment'.revision]_vars
  BY <1>1, RevisionStep DEF RollbackInv
<1> QED
  BY <1>1, RollbackTypeCorrect, RollbackCorrect, PTL
     DEF RevisionNeverRegresses, Spec


-----------------------------------------------------------------------------
(* One patch per key, until another key's audit replaces its own.  Nothing   *)
(* is asked of the controller.                                               *)

\* Another key has patched the same Deployment after this patch.
Overwritten(l) ==
    \E c \in landed : /\ c.target.uid = l.target.uid
                      /\ c.key # l.key
                      /\ l.version < c.version

\* A key that patches a Deployment for a second time does so only after
\* another key has patched it in between.
RepeatedOnlyAfterAnother ==
    \A a, b \in landed :
        /\ a.key = b.key
        /\ a.target.uid = b.target.uid
        /\ a.version < b.version
        => \E c \in landed : /\ c.target.uid = a.target.uid
                             /\ c.key # a.key
                             /\ a.version < c.version
                             /\ c.version < b.version

\* The Deployment a call has read does not carry its key, as long as the
\* version it has read is the latest.
CallsSawNoKey ==
    \A c \in DOMAIN calls :
        /\ calls[c].step \in {"list", "patch", "late"}
        /\ deployment.uid = calls[c].target.uid
        /\ deployment.version = calls[c].version
        => \A mark \in deployment.audit : mark.key # calls[c].key

\* Patches have versions of their own, all of them past.
PatchesPast ==
    /\ \A l \in landed : /\ l.version < deployment.version
                         /\ l.target.uid <= deployment.uid
    /\ \A a, b \in landed : a.version = b.version => a = b

\* The Deployment still carries the key of a patch, or another one's.
PatchesMarked ==
    \A l \in landed : l.target.uid = deployment.uid =>
        (\E mark \in deployment.audit : mark.key = l.key) \/ Overwritten(l)

RepeatInv ==
    /\ CallsSawNoKey
    /\ PatchesPast
    /\ PatchesMarked
    /\ RepeatedOnlyAfterAnother

\* What a patch that lands finds and leaves.
LEMMA PatchWritten ==
    ASSUME TypeOK, CallsSawTarget,
           NEW c \in DOMAIN calls, LandPatch(c), Preconditions(calls[c])
    PROVE  LET call == calls[c]
               patch == [key |-> call.key, target |-> call.target,
                         version |-> deployment.version]
           IN  /\ call \in ToolCalls /\ call.target \in RollbackTargets
               /\ call.target.fromRevision # call.target.toRevision
               /\ call.step \in {"patch", "late"}
               /\ deployment.uid = call.target.uid
               /\ deployment.version = call.version
               /\ deployment.revision = call.target.fromRevision
               /\ deployment.template = call.target.fromTemplate
               /\ deployment'.uid = deployment.uid
               /\ deployment'.version = deployment.version + 1
               /\ deployment'.revision = deployment.revision
               /\ deployment'.template = call.target.toTemplate
               /\ deployment'.audit = {AuditOf(call.key, call.target)}
               /\ landed' = landed \cup {patch}
               /\ replicaSets' = replicaSets
<1> DEFINE call == calls[c]
<1>1. /\ call \in ToolCalls /\ deployment \in Deployments
      /\ call.target \in Targets
  BY DEF TypeOK, ToolCalls
<1>2. /\ call.target \in RollbackTargets
      /\ call.target.fromRevision # call.target.toRevision
  BY <1>1, DeploymentRollbackAssumption
<1>3. /\ call.step \in {"patch", "late"}
      /\ deployment.uid = call.target.uid
      /\ deployment.version = call.version
      /\ deployment' = RolledBack(call)
      /\ landed' = landed \cup {[key |-> call.key, target |-> call.target,
                                 version |-> deployment.version]}
      /\ replicaSets' = replicaSets
  BY DEF LandPatch, Preconditions
<1>4. /\ deployment.revision = call.target.fromRevision
      /\ deployment.template = call.target.fromTemplate
  BY <1>3 DEF CallsSawTarget
<1> HIDE DEF call
<1>5. /\ deployment'.uid = deployment.uid
      /\ deployment'.version = deployment.version + 1
      /\ deployment'.revision = deployment.revision
      /\ deployment'.template = call.target.toTemplate
      /\ deployment'.audit = {AuditOf(call.key, call.target)}
  BY <1>1, <1>3, <1>4 DEF RolledBack, Deployments
<1> QED BY <1>1, <1>2, <1>3, <1>4, <1>5 DEF call

\* A step that lands no patch leaves the audit alone or starts afresh.
LEMMA PatchOrNot ==
    ASSUME TypeOK, [Next]_vars
    PROVE  \/ \E c \in DOMAIN calls : LandPatch(c) /\ Preconditions(calls[c])
           \/ /\ landed' = landed
              /\ deployment.version <= deployment'.version
              /\ \/ /\ deployment'.uid = deployment.uid
                    /\ deployment'.audit = deployment.audit
                 \/ deployment'.uid = deployment.uid + 1
<1>1. /\ deployment \in Deployments
      /\ deployment.version \in Nat /\ deployment.version <= deployment.version
      /\ deployment.version <= deployment.version + 1
  BY RollbackTypes DEF TypeOK, Deployments
<1>2. CASE UNCHANGED <<deployment, landed>>
  BY <1>1, <1>2
<1>3. CASE AnnotateRevision
  BY <1>1, <1>3 DEF AnnotateRevision, Deployments
<1>4. CASE UpdateStatus
  BY <1>1, <1>4 DEF UpdateStatus, Deployments
<1>5. ASSUME NEW template \in Templates, Redeploy(template)
      PROVE  /\ landed' = landed
             /\ deployment'.version = deployment.version + 1
             /\ deployment'.uid = deployment.uid
             /\ deployment'.audit = deployment.audit
  BY <1>1, <1>5 DEF Redeploy, Deployments
<1>6. ASSUME NEW template \in Templates, Recreate(template)
      PROVE  /\ landed' = landed
             /\ deployment'.version = deployment.version + 1
             /\ deployment'.uid = deployment.uid + 1
  BY <1>6 DEF Recreate
<1> QED BY <1>1, <1>2, <1>3, <1>4, <1>5, <1>6, DeploymentStep
        DEF Cluster, NumberReplicaSet

\* What is used of patches.
LEMMA LandedTypes ==
    ASSUME TypeOK
    PROVE  /\ deployment.version \in Int /\ deployment.uid \in Int
           /\ deployment.revision \in Int /\ deployment.revision >= 0
           /\ \A l \in landed : /\ l.version \in Int /\ l.key \in Keys
                                /\ l.target \in Targets
                                /\ l.target.uid \in Int
                                /\ l.target.fromRevision \in Int
                                /\ l.target.fromRevision >= 1
<1>1. /\ deployment.version \in 0..MaxVersion /\ deployment.uid \in 1..MaxUid
      /\ deployment.revision \in 0..MaxRevision
  BY DEF TypeOK, Deployments, Uids
<1>2. \A l \in landed : /\ l.version \in 0..MaxVersion /\ l.key \in Keys
                        /\ l.target \in Targets
  BY DEF TypeOK
<1>3. \A t \in Targets : t.uid \in 1..MaxUid /\ t.fromRevision \in 1..MaxRevision
  BY RollbackTypes DEF RollbackTargets, Uids, Revisions
<1> QED BY <1>1, <1>2, <1>3, RollbackTypes

\* A call's reading of the audits ages like its reading of the template.
LEMMA SawNoKeyStep ==
    ASSUME TypeOK, TypeOK', CallsSawTarget, CallsSawNoKey, [Next]_vars
    PROVE  CallsSawNoKey'
<1> SUFFICES ASSUME NEW c \in DOMAIN calls',
                    calls'[c].step \in {"list", "patch", "late"},
                    deployment'.uid = calls'[c].target.uid,
                    deployment'.version = calls'[c].version
             PROVE  \A mark \in deployment'.audit : mark.key # calls'[c].key
  BY DEF CallsSawNoKey
<1>1. c \in DOMAIN calls
  BY CallsPastRead
<1>2. /\ calls'[c].target = calls[c].target /\ calls'[c].key = calls[c].key
      /\ calls[c].version \in Nat /\ deployment.version \in Nat
  BY <1>1, CallsStep, RollbackTypes DEF TypeOK, ToolCalls, Deployments
<1>3. CASE /\ calls[c].step \in {"list", "patch", "late"}
           /\ calls'[c].version = calls[c].version
  <2>1. calls[c].version <= deployment.version
    BY <1>1, <1>3 DEF CallsSawTarget
  <2>2. deployment' = deployment
    BY <1>2, <1>3, <2>1, DeploymentMoves
  <2>3. \A mark \in deployment.audit : mark.key # calls[c].key
    BY <1>1, <1>2, <1>3, <2>2 DEF CallsSawNoKey
  <2> QED BY <1>2, <2>2, <2>3
<1>4. CASE deployment' = deployment /\ ~KeyRecorded(calls[c].key)
  BY <1>2, <1>4 DEF KeyRecorded
<1> QED BY <1>3, <1>4, CallsPastRead

\* A patch is stamped with the version it replaces and leaves its key.
LEMMA PatchKeepsRepeatInv ==
    ASSUME TypeOK, CallsSawTarget, RepeatInv,
           NEW c \in DOMAIN calls, LandPatch(c), Preconditions(calls[c])
    PROVE  PatchesPast' /\ PatchesMarked' /\ RepeatedOnlyAfterAnother'
<1> DEFINE patch == [key |-> calls[c].key, target |-> calls[c].target,
                     version |-> deployment.version]
           key == calls[c].key
           uid == deployment.uid
           version == deployment.version
<1>1. /\ patch.key = key /\ patch.target.uid = uid /\ patch.version = version
      /\ landed' = landed \cup {patch}
      /\ deployment'.uid = uid /\ deployment'.version = version + 1
      /\ deployment'.audit = {AuditOf(key, calls[c].target)}
      /\ version \in Int /\ uid \in Int
  BY PatchWritten, LandedTypes
<1>2. /\ \A l \in landed : l.version \in Int /\ l.target.uid \in Int
      /\ \A l \in landed : l.version < version /\ l.target.uid <= uid
  BY LandedTypes DEF RepeatInv, PatchesPast
<1>3. \A mark \in deployment.audit : mark.key # key
  BY PatchWritten DEF RepeatInv, CallsSawNoKey
<1>4. \E mark \in deployment'.audit : mark.key = key
  <2>1. AuditOf(key, calls[c].target).key = key
    BY DEF AuditOf
  <2> HIDE DEF key
  <2> QED BY <1>1, <2>1
<1> HIDE DEF patch, key, uid, version
<1>5. PatchesPast'
  <2>1. /\ \A l \in landed : l.version < version + 1
        /\ patch.version < version + 1 /\ patch.target.uid <= uid
    BY <1>1, <1>2
  <2>2. \A l \in landed : l.version # patch.version
    BY <1>1, <1>2
  <2> QED BY <1>1, <1>2, <2>1, <2>2 DEF RepeatInv, PatchesPast
<1>6. ASSUME NEW l \in landed, l.target.uid = uid, l.key # key
      PROVE  \E d \in landed' : /\ d.target.uid = l.target.uid
                                /\ d.key # l.key
                                /\ l.version < d.version
  BY <1>1, <1>2, <1>6
<1>7. PatchesMarked'
  <2> SUFFICES ASSUME NEW l \in landed', l.target.uid = deployment'.uid
               PROVE  \/ \E mark \in deployment'.audit : mark.key = l.key
                      \/ \E d \in landed' : /\ d.target.uid = l.target.uid
                                            /\ d.key # l.key
                                            /\ l.version < d.version
    BY DEF PatchesMarked, Overwritten
  <2>1. CASE l.key = key
    BY <1>4, <2>1
  <2>2. CASE l.key # key
    BY <1>1, <1>6, <2>2
  <2> QED BY <2>1, <2>2
<1>8. RepeatedOnlyAfterAnother'
  <2> SUFFICES ASSUME NEW a \in landed', NEW b \in landed',
                      a.key = b.key, a.target.uid = b.target.uid,
                      a.version < b.version
               PROVE  \E d \in landed' : /\ d.target.uid = a.target.uid
                                         /\ d.key # a.key
                                         /\ a.version < d.version
                                         /\ d.version < b.version
    BY DEF RepeatedOnlyAfterAnother
  <2>1. CASE a \in landed /\ b \in landed
    BY <1>1, <2>1 DEF RepeatInv, RepeatedOnlyAfterAnother
  <2>2. CASE a \in landed /\ b = patch
    <3>1. Overwritten(a)
      BY <1>1, <1>3, <2>2 DEF RepeatInv, PatchesMarked, uid
    <3> QED BY <1>1, <1>2, <2>2, <3>1 DEF Overwritten
  <2>3. CASE a = patch
    BY <1>1, <1>2, <2>3
  <2> QED BY <1>1, <2>1, <2>2, <2>3
<1> QED BY <1>5, <1>7, <1>8

LEMMA RepeatStep ==
    ASSUME TypeOK, RollbackInv, RepeatInv, [Next]_vars
    PROVE  RepeatInv'
<1>1. TypeOK' /\ CallsSawTarget
  BY TypeStep DEF RollbackInv
<1>2. CallsSawNoKey'
  BY <1>1, SawNoKeyStep DEF RepeatInv
<1>3. ASSUME NEW c \in DOMAIN calls, LandPatch(c), Preconditions(calls[c])
      PROVE  RepeatInv'
  BY <1>1, <1>2, <1>3, PatchKeepsRepeatInv DEF RepeatInv
<1>4. CASE /\ landed' = landed
           /\ deployment.version <= deployment'.version
           /\ \/ /\ deployment'.uid = deployment.uid
                 /\ deployment'.audit = deployment.audit
              \/ deployment'.uid = deployment.uid + 1
  <2>1. /\ deployment'.version \in Int /\ deployment'.uid \in Int
        /\ deployment.version \in Int /\ deployment.uid \in Int
        /\ \A l \in landed : l.version \in Int /\ l.target.uid \in Int
    <3>1. deployment'.version \in 0..MaxVersion /\ deployment'.uid \in Uids
      BY <1>1 DEF TypeOK, Deployments
    <3> QED BY <3>1, LandedTypes, RollbackTypes DEF Uids
  <2>2. /\ \A l \in landed : /\ l.version < deployment.version
                             /\ l.target.uid <= deployment.uid
        /\ \A a, b \in landed : a.version = b.version => a = b
    BY DEF RepeatInv, PatchesPast
  <2>3. \A l \in landed : /\ l.version < deployment'.version
                          /\ l.target.uid <= deployment'.uid
    BY <1>4, <2>1, <2>2
  <2>4. PatchesPast'
    BY <1>4, <2>2, <2>3 DEF PatchesPast
  <2>5. PatchesMarked'
    <3>1. CASE /\ deployment'.uid = deployment.uid
               /\ deployment'.audit = deployment.audit
      BY <1>4, <3>1 DEF RepeatInv, PatchesMarked, Overwritten
    <3>2. CASE deployment'.uid = deployment.uid + 1
      <4>1. \A l \in landed : l.target.uid # deployment'.uid
        BY <2>1, <2>2, <3>2
      <4> QED BY <1>4, <4>1 DEF PatchesMarked
    <3> QED BY <1>4, <3>1, <3>2
  <2>6. RepeatedOnlyAfterAnother'
    BY <1>4 DEF RepeatInv, RepeatedOnlyAfterAnother
  <2> QED BY <1>2, <2>4, <2>5, <2>6 DEF RepeatInv
<1> QED BY <1>3, <1>4, PatchOrNot

LEMMA RepeatCorrect == Spec => [](TypeOK /\ RollbackInv /\ RepeatInv)
<1>1. Init => RepeatInv
  <2> SUFFICES ASSUME Init PROVE RepeatInv
    OBVIOUS
  <2>1. DOMAIN calls = {} /\ landed = {}
    BY DEF Init
  <2> QED BY <2>1 DEF RepeatInv, CallsSawNoKey, PatchesPast, PatchesMarked,
                      RepeatedOnlyAfterAnother
<1> QED BY <1>1, RepeatStep, RollbackTypeCorrect, RollbackCorrect, PTL DEF Spec

\* However a call is repeated, by overlapping calls, after lost answers and
\* across restarts, and whatever the controller and other people do meanwhile:
\* a key patches a Deployment for a second time only after a rollback under
\* another key has replaced its audit (performDeploymentRollback reads the
\* audit and tests the resourceVersion it has read).
THEOREM RepeatsNeedAnotherKey == Spec => []RepeatedOnlyAfterAnother
<1>1. RepeatInv => RepeatedOnlyAfterAnother
  BY DEF RepeatInv
<1> QED BY <1>1, RepeatCorrect, PTL

\* "Mutation count stays 1" for as long as one key is in use on one Deployment,
\* under any controller (docs/kubernetes-deployment-rollback.md).
THEOREM OneKeyMutatesOnce ==
    ASSUME NEW theKey, Keys \subseteq {theKey},
           \A s, t \in Targets : s.uid = t.uid
    PROVE  Spec => []OneMutationPerKey
<1>1. ASSUME TypeOK, RepeatInv PROVE OneMutationPerKey
  <2> SUFFICES ASSUME NEW a \in landed, NEW b \in landed, a # b PROVE FALSE
    BY DEF OneMutationPerKey
  <2>1. \A l, m \in landed : l.key = m.key /\ l.target.uid = m.target.uid
    BY <1>1, LandedTypes
  <2>2. a.version # b.version /\ a.version \in Int /\ b.version \in Int
    BY <1>1, LandedTypes DEF RepeatInv, PatchesPast
  <2>3. a.version < b.version \/ b.version < a.version
    BY <2>2
  <2> QED BY <1>1, <2>1, <2>3 DEF RepeatInv, RepeatedOnlyAfterAnother
<1> QED BY <1>1, RepeatCorrect, PTL


-----------------------------------------------------------------------------
(* A rollout is rolled back once, where the controller keeps up with people. *)

\* The numbered history is that of the live Deployment, and neither numbers
\* nor templates repeat in it.
HistoryTidy ==
    /\ \A s \in replicaSets : s.owner = deployment.uid
    /\ \A s, t \in replicaSets :
          s.revision = t.revision \/ s.template = t.template => s = t

\* The number the Deployment is annotated with is somebody's.
RevisionHeld ==
    deployment.revision = 0
        \/ \E s \in replicaSets : s.revision = deployment.revision

\* Where number and template of the Deployment agree, they are the latest.
LiveIsNewest ==
    \A s \in replicaSets :
        /\ s.template = deployment.template
        /\ s.revision = deployment.revision
        => \A t \in replicaSets : t.revision <= s.revision

\* Number and template of the Deployment disagree.
Unnumbered ==
    \A s \in replicaSets :
        s.template = deployment.template => s.revision # deployment.revision

\* A call that goes on to its patch leads to a template whose number is not
\* the one on the Deployment it has read.
CallsSawHistory ==
    \A c \in DOMAIN calls :
        /\ calls[c].step \in {"patch", "late"}
        /\ deployment.uid = calls[c].target.uid
        /\ deployment.version = calls[c].version
        => \A s \in replicaSets : s.template = calls[c].target.toTemplate
                                     => s.revision # deployment.revision

\* The Deployment is past the revision a patch has left, or still carries its
\* number, with a template that the number is not of.
PatchesBehind ==
    \A l \in landed : l.target.uid = deployment.uid =>
        \/ l.target.fromRevision < deployment.revision
        \/ l.target.fromRevision = deployment.revision /\ Unnumbered

HistoryInv ==
    /\ HistoryTidy
    /\ RevisionHeld
    /\ LiveIsNewest
    /\ CallsSawHistory
    /\ PatchesBehind

\* What is used of the history.
LEMMA HistoryTypes ==
    ASSUME TypeOK
    PROVE  /\ deployment \in Deployments
           /\ deployment.revision \in Int /\ deployment.revision >= 0
           /\ \A s \in replicaSets : /\ s \in ReplicaSets
                                     /\ s.revision \in Int /\ s.revision >= 1
<1>1. deployment.revision \in 0..MaxRevision /\ replicaSets \subseteq ReplicaSets
  BY DEF TypeOK, Deployments
<1>2. \A s \in ReplicaSets : s.revision \in 1..MaxRevision
  BY RollbackTypes DEF ReplicaSets
<1> QED BY <1>1, <1>2, RollbackTypes DEF TypeOK

LEMMA OwnedIsAll ==
    ASSUME HistoryTidy
    PROVE  Owned = replicaSets
BY DEF HistoryTidy, Owned

\* What numbering a template leaves.
LEMMA NumberedNext ==
    ASSUME TypeOK, HistoryInv, NumberReplicaSet
    PROVE  \E r \in Int :
              LET fresh == [owner    |-> deployment.uid, revision |-> r,
                            template |-> deployment.template]
              IN  /\ \A s \in replicaSets : s.revision < r
                  /\ deployment.revision < r
                  /\ replicaSets' = {s \in replicaSets :
                                        s.template # deployment.template}
                                       \cup {fresh}
                  /\ UNCHANGED <<deployment, landed>>
<1>1. Owned = replicaSets
  BY OwnedIsAll DEF HistoryInv
<1>2. PICK r \in Revisions :
         /\ \A s \in Owned : s.revision < r
         /\ replicaSets' =
               {s \in replicaSets :
                   ~(s \in Owned /\ s.template = deployment.template)}
                  \cup {[owner    |-> deployment.uid, revision |-> r,
                         template |-> deployment.template]}
  BY DEF NumberReplicaSet
<1>3. r \in Int /\ r >= 1
  BY RollbackTypes
<1>4. deployment.revision < r
  BY <1>1, <1>2, <1>3 DEF HistoryInv, RevisionHeld
<1>5. {s \in replicaSets : ~(s \in Owned /\ s.template = deployment.template)}
         = {s \in replicaSets : s.template # deployment.template}
  BY <1>1
<1>6. UNCHANGED <<deployment, landed>>
  BY DEF NumberReplicaSet
<1> QED BY <1>1, <1>2, <1>3, <1>4, <1>5, <1>6

\* The controller numbers a template that has no number, or an old one.
LEMMA NumberKeepsHistory ==
    ASSUME TypeOK, HistoryInv, NumberReplicaSet
    PROVE  /\ HistoryTidy' /\ RevisionHeld' /\ LiveIsNewest' /\ PatchesBehind'
           /\ Unnumbered'
           /\ \A s \in replicaSets' : s \in replicaSets \/ s.revision # deployment.revision
<1>1. PICK r \in Int :
         LET fresh == [owner    |-> deployment.uid, revision |-> r,
                       template |-> deployment.template]
         IN  /\ \A s \in replicaSets : s.revision < r
             /\ deployment.revision < r
             /\ replicaSets' = {s \in replicaSets :
                                   s.template # deployment.template} \cup {fresh}
             /\ UNCHANGED <<deployment, landed>>
  BY NumberedNext
<1> DEFINE fresh == [owner    |-> deployment.uid, revision |-> r,
                     template |-> deployment.template]
<1>2. /\ fresh.owner = deployment.uid /\ fresh.revision = r
      /\ fresh.template = deployment.template
  OBVIOUS
<1> HIDE DEF fresh
<1>3. /\ \A s \in replicaSets : s.revision < r
      /\ deployment.revision < r
      /\ \A s : s \in replicaSets' <=> \/ s \in replicaSets
                                          /\ s.template # deployment.template
                                       \/ s = fresh
      /\ deployment' = deployment /\ landed' = landed
  BY <1>1 DEF fresh
<1>4. /\ deployment.revision \in Int
      /\ \A s \in replicaSets : s.revision \in Int
      /\ \A s \in replicaSets : s.revision # r
      /\ deployment.revision # r
  BY <1>3, HistoryTypes
<1>5. HistoryTidy'
  BY <1>2, <1>3, <1>4 DEF HistoryInv, HistoryTidy
<1>6. Unnumbered'
  BY <1>2, <1>3, <1>4 DEF Unnumbered
<1>7. RevisionHeld'
  <2>1. CASE deployment.revision = 0
    BY <1>3, <2>1 DEF RevisionHeld
  <2>2. CASE deployment.revision # 0
    <3>1. PICK s \in replicaSets : s.revision = deployment.revision
      BY <2>2 DEF HistoryInv, RevisionHeld
    <3>2. s.template # deployment.template
      <4> SUFFICES ASSUME s.template = deployment.template PROVE FALSE
        OBVIOUS
      <4>1. \A t \in replicaSets : t.revision <= s.revision
        BY <3>1 DEF HistoryInv, LiveIsNewest
      <4>2. Owned = replicaSets
        BY OwnedIsAll DEF HistoryInv
      <4> QED BY <4>1, <4>2 DEF NumberReplicaSet, Numbered
    <3> QED BY <1>3, <3>1, <3>2 DEF RevisionHeld
  <2> QED BY <2>1, <2>2
<1>8. LiveIsNewest'
  BY <1>6 DEF LiveIsNewest, Unnumbered
<1>9. PatchesBehind'
  BY <1>3, <1>6 DEF HistoryInv, PatchesBehind, Unnumbered
<1>10. \A s \in replicaSets' : s \in replicaSets \/ s.revision # deployment.revision
  BY <1>2, <1>3, <1>4
<1> QED BY <1>5, <1>6, <1>7, <1>8, <1>9, <1>10

\* The annotation moves on to the latest number.
LEMMA AnnotateKeepsHistory ==
    ASSUME TypeOK, HistoryInv, AnnotateRevision
    PROVE  HistoryTidy' /\ RevisionHeld' /\ LiveIsNewest' /\ PatchesBehind'
<1>1. Owned = replicaSets
  BY OwnedIsAll DEF HistoryInv
<1>2. PICK s \in replicaSets :
         /\ Numbered(s)
         /\ s.revision # deployment.revision
         /\ deployment' = [deployment EXCEPT !.version  = @ + 1,
                                             !.revision = s.revision]
  BY <1>1 DEF AnnotateRevision
<1>3. /\ deployment'.revision = s.revision
      /\ deployment'.uid = deployment.uid
      /\ deployment'.template = deployment.template
      /\ replicaSets' = replicaSets /\ landed' = landed
  BY <1>2, HistoryTypes DEF AnnotateRevision, Deployments
<1>4. \A t \in replicaSets : t.revision <= s.revision
  BY <1>1, <1>2 DEF Numbered
<1>5. deployment.revision < s.revision
  BY <1>2, <1>4, HistoryTypes DEF HistoryInv, RevisionHeld
<1>6. HistoryTidy' /\ RevisionHeld'
  BY <1>3 DEF HistoryInv, HistoryTidy, RevisionHeld
<1>7. LiveIsNewest'
  BY <1>3, <1>4 DEF LiveIsNewest
<1>8. ASSUME NEW l \in landed, l.target.uid = deployment.uid
      PROVE  l.target.fromRevision < s.revision
  <2>1. \/ l.target.fromRevision < deployment.revision
        \/ l.target.fromRevision = deployment.revision
    BY <1>8 DEF HistoryInv, PatchesBehind
  <2> QED BY <1>2, <1>5, <2>1, LandedTypes, HistoryTypes
<1>9. PatchesBehind'
  BY <1>3, <1>8 DEF PatchesBehind
<1> QED BY <1>6, <1>7, <1>9

\* People deploy on a Deployment that is numbered.
LEMMA RedeployKeepsHistory ==
    ASSUME PromptController, TypeOK, HistoryInv,
           NEW template \in Templates, Redeploy(template)
    PROVE  HistoryTidy' /\ RevisionHeld' /\ LiveIsNewest' /\ PatchesBehind'
<1>1. Owned = replicaSets
  BY OwnedIsAll DEF HistoryInv
<1>2. PICK s \in replicaSets : /\ Numbered(s)
                               /\ s.revision = deployment.revision
  BY <1>1 DEF Redeploy, Settled
<1>3. /\ s.template = deployment.template
      /\ \A t \in replicaSets : t.revision <= s.revision
  BY <1>1, <1>2 DEF Numbered
<1>4. /\ deployment'.revision = deployment.revision
      /\ deployment'.uid = deployment.uid
      /\ replicaSets' = replicaSets /\ landed' = landed
  BY HistoryTypes DEF Redeploy, Deployments
<1>5. HistoryTidy' /\ RevisionHeld'
  BY <1>4 DEF HistoryInv, HistoryTidy, RevisionHeld
<1>6. LiveIsNewest'
  BY <1>2, <1>3, <1>4 DEF LiveIsNewest
<1>7. ~Unnumbered
  BY <1>2, <1>3 DEF Unnumbered
<1>8. PatchesBehind'
  BY <1>4, <1>7 DEF HistoryInv, PatchesBehind
<1> QED BY <1>5, <1>6, <1>8

\* A patch leaves the number of what it replaces on what it puts in place.
LEMMA PatchKeepsHistory ==
    ASSUME TypeOK, CallsSawTarget, HistoryInv,
           NEW c \in DOMAIN calls, LandPatch(c), Preconditions(calls[c])
    PROVE  HistoryTidy' /\ RevisionHeld' /\ LiveIsNewest' /\ PatchesBehind'
<1> DEFINE patch == [key |-> calls[c].key, target |-> calls[c].target,
                     version |-> deployment.version]
           target == calls[c].target
<1>1. /\ patch.target = target
      /\ calls[c].step \in {"patch", "late"}
      /\ deployment.uid = target.uid /\ deployment.version = calls[c].version
      /\ deployment.revision = target.fromRevision
      /\ deployment'.uid = deployment.uid
      /\ deployment'.revision = deployment.revision
      /\ deployment'.template = target.toTemplate
      /\ landed' = landed \cup {patch}
      /\ replicaSets' = replicaSets
  BY PatchWritten
<1>2. Unnumbered'
  BY <1>1 DEF HistoryInv, CallsSawHistory, Unnumbered
<1> HIDE DEF patch, target
<1>3. HistoryTidy' /\ RevisionHeld'
  BY <1>1 DEF HistoryInv, HistoryTidy, RevisionHeld
<1>4. LiveIsNewest'
  BY <1>2 DEF LiveIsNewest, Unnumbered
<1>5. PatchesBehind'
  <2> SUFFICES ASSUME NEW l \in landed', l.target.uid = deployment'.uid
               PROVE  \/ l.target.fromRevision < deployment'.revision
                      \/ l.target.fromRevision = deployment'.revision
    BY <1>2 DEF PatchesBehind
  <2>1. CASE l \in landed
    BY <1>1, <2>1 DEF HistoryInv, PatchesBehind
  <2>2. CASE l = patch
    BY <1>1, <2>2
  <2> QED BY <1>1, <2>1, <2>2
<1> QED BY <1>3, <1>4, <1>5

\* A call on its way with a patch was there before, at the version it had
\* read, or has just found its target in the history.
LEMMA CallsPastList ==
    ASSUME TypeOK, [Next]_vars, NEW c \in DOMAIN calls',
           calls'[c].step \in {"patch", "late"}
    PROVE  /\ c \in DOMAIN calls
           /\ calls'[c].version = calls[c].version
           /\ \/ calls[c].step \in {"patch", "late"}
              \/ /\ calls[c].step = "list"
                 /\ HistoryAgrees(calls[c].target)
                 /\ UNCHANGED <<deployment, replicaSets>>
<1> DEFINE Past(d) ==
        /\ d \in DOMAIN calls
        /\ calls'[d].version = calls[d].version
        /\ \/ calls[d].step \in {"patch", "late"}
           \/ /\ calls[d].step = "list"
              /\ HistoryAgrees(calls[d].target)
              /\ UNCHANGED <<deployment, replicaSets>>
<1>1. \A d \in DOMAIN calls : calls[d] \in ToolCalls
  BY DEF TypeOK
<1>2. CASE UNCHANGED calls
  BY <1>2
<1>3. ASSUME NEW d \in CallIds, NEW f \in Fingerprints, NEW key \in Keys,
             NEW target \in Targets, Invoke(d, f, key, target)
      PROVE  Past(c)
  BY <1>3 DEF Invoke, WithCall
<1>4. ASSUME NEW d \in DOMAIN calls, NEW decision, Answer(d, decision)
      PROVE  Past(c)
  BY <1>1, <1>4 DEF Answer, ToolCalls
<1>5. ASSUME NEW d \in DOMAIN calls, calls' = WithoutCall(d)
      PROVE  Past(c)
  BY <1>5 DEF WithoutCall
<1>6. ASSUME NEW d \in DOMAIN calls, ReadDeployment(d)
      PROVE  Past(c)
  <2>1. CASE ReadDecision(calls[d].key, calls[d].target) # "none"
    BY <1>4, <1>6, <2>1 DEF ReadDeployment
  <2>2. CASE ReadDecision(calls[d].key, calls[d].target) = "none"
    <3> DEFINE read == [calls[d] EXCEPT !.step    = "list",
                                        !.version = deployment.version]
    <3>1. calls' = [calls EXCEPT ![d] = read]
      BY <1>6, <2>2 DEF ReadDeployment
    <3>2. read.step = "list"
      BY <1>1 DEF ToolCalls
    <3> HIDE DEF read
    <3> QED BY <3>1, <3>2
  <2> QED BY <2>1, <2>2
<1>7. ASSUME NEW d \in DOMAIN calls, ListReplicaSets(d)
      PROVE  Past(c)
  <2>1. CASE HistoryAgrees(calls[d].target)
    <3> DEFINE sent == [calls[d] EXCEPT !.step = "patch"]
    <3>1. /\ calls' = [calls EXCEPT ![d] = sent]
          /\ calls[d].step = "list"
          /\ UNCHANGED <<deployment, replicaSets>>
      BY <1>7, <2>1 DEF ListReplicaSets
    <3>2. sent.version = calls[d].version
      BY <1>1 DEF ToolCalls
    <3> HIDE DEF sent
    <3> QED BY <2>1, <3>1, <3>2
  <2>2. CASE ~HistoryAgrees(calls[d].target)
    BY <1>4, <1>7, <2>2 DEF ListReplicaSets
  <2> QED BY <2>1, <2>2
<1>8. ASSUME NEW d \in DOMAIN calls, LandPatch(d)
      PROVE  Past(c)
  <2>1. CASE calls[d].step = "late"
    BY <1>5, <1>8, <2>1 DEF LandPatch
  <2>2. CASE calls[d].step # "late"
    BY <1>4, <1>8, <2>2 DEF LandPatch
  <2> QED BY <2>1, <2>2
<1>9. ASSUME NEW d \in DOMAIN calls, LoseAnswer(d)
      PROVE  Past(c)
  BY <1>1, <1>5, <1>9 DEF LoseAnswer, ToolCalls
<1>10. ASSUME NEW d \in DOMAIN calls, RecordOutcome(d)
       PROVE  Past(c)
  BY <1>5, <1>10 DEF RecordOutcome
<1>11. CASE RestartGateway
  BY <1>1, <1>11 DEF RestartGateway, ToolCalls
<1> HIDE DEF Past
<1>12. CASE Guardian
  BY <1>2, <1>3, <1>6, <1>7, <1>8, <1>9, <1>10, <1>11, <1>12
     DEF Guardian, StartAttempt, Reconcile, Past
<1>13. CASE Cluster
  BY <1>2, <1>13
     DEF Cluster, NumberReplicaSet, AnnotateRevision, UpdateStatus, Redeploy,
         Recreate
<1> QED BY <1>2, <1>12, <1>13 DEF Next, vars, Past

\* What a target leads to, the history had under another number than the one
\* the target leaves.
LEMMA AgreedHistory ==
    ASSUME TypeOK, HistoryInv, NEW target \in Targets, HistoryAgrees(target),
           target.fromRevision = deployment.revision
    PROVE  \A s \in replicaSets :
              s.template = target.toTemplate => s.revision # deployment.revision
<1> DEFINE candidates == {s \in replicaSets : /\ s.owner = target.uid
                                              /\ s.revision = target.toRevision}
<1>1. /\ Cardinality(candidates) = 1
      /\ \A s \in candidates : s.template = target.toTemplate
  BY DEF HistoryAgrees
<1> HIDE DEF candidates
<1>2. candidates # {}
  <2> SUFFICES ASSUME candidates = {} PROVE FALSE
    OBVIOUS
  <2>1. Cardinality({}) = 0
    BY FS_EmptySet
  <2> QED BY <1>1, <2>1
<1>3. PICK s \in replicaSets : /\ s.revision = target.toRevision
                               /\ s.template = target.toTemplate
  BY <1>1, <1>2 DEF candidates
<1>4. \A t \in replicaSets : t.template = target.toTemplate => t = s
  BY <1>3 DEF HistoryInv, HistoryTidy
<1>5. target.fromRevision # target.toRevision
  BY DeploymentRollbackAssumption
<1> QED BY <1>3, <1>4, <1>5

LEMMA SawHistoryStep ==
    ASSUME TypeOK, TypeOK', CallsSawTarget, HistoryInv, [Next]_vars
    PROVE  CallsSawHistory'
<1> SUFFICES ASSUME NEW c \in DOMAIN calls',
                    calls'[c].step \in {"patch", "late"},
                    deployment'.uid = calls'[c].target.uid,
                    deployment'.version = calls'[c].version,
                    NEW s \in replicaSets',
                    s.template = calls'[c].target.toTemplate
             PROVE  s.revision # deployment'.revision
  BY DEF CallsSawHistory
<1>1. /\ c \in DOMAIN calls /\ calls'[c].version = calls[c].version
      /\ calls[c].step \in {"list", "patch", "late"}
  BY CallsPastList
<1>2. /\ calls'[c].target = calls[c].target /\ calls[c].target \in Targets
      /\ calls[c].version \in Nat /\ deployment.version \in Nat
  BY <1>1, CallsStep, RollbackTypes DEF TypeOK, ToolCalls, Deployments
<1>3. calls[c].version <= deployment.version
  BY <1>1 DEF CallsSawTarget
<1>4. deployment' = deployment
  BY <1>1, <1>2, <1>3, DeploymentMoves
<1>5. CASE calls[c].step = "list" /\ HistoryAgrees(calls[c].target)
           /\ replicaSets' = replicaSets
  <2>1. calls[c].target.fromRevision = deployment.revision
    BY <1>1, <1>2, <1>4 DEF CallsSawTarget
  <2> QED BY <1>2, <1>4, <1>5, <2>1, AgreedHistory
<1>6. CASE calls[c].step \in {"patch", "late"}
  <2>1. \A t \in replicaSets : t.template = calls[c].target.toTemplate
                                  => t.revision # deployment.revision
    BY <1>1, <1>2, <1>4, <1>6 DEF HistoryInv, CallsSawHistory
  <2>2. CASE replicaSets' = replicaSets
    BY <1>2, <1>4, <2>1, <2>2
  <2>3. CASE NumberReplicaSet
    BY <1>2, <1>4, <2>1, <2>3, NumberKeepsHistory
  <2>4. replicaSets' = replicaSets \/ NumberReplicaSet
    <3>1. ASSUME NEW d \in DOMAIN calls, LandPatch(d)
          PROVE  replicaSets' = replicaSets
      BY <3>1 DEF LandPatch
    <3>2. ASSUME NEW template \in Templates, Recreate(template)
          PROVE  FALSE
      <4>1. deployment'.version = deployment.version + 1
        BY <3>2 DEF Recreate
      <4> QED BY <1>2, <1>4, <4>1
    <3> QED BY <3>1, <3>2, DeploymentStep
            DEF Cluster, AnnotateRevision, UpdateStatus, Redeploy
  <2> QED BY <2>2, <2>3, <2>4
<1> QED BY <1>5, <1>6, CallsPastList

LEMMA HistoryStep ==
    ASSUME PromptController, TypeOK, RollbackInv, RepeatInv, HistoryInv, [Next]_vars
    PROVE  HistoryInv'
<1>1. TypeOK' /\ CallsSawTarget
  BY TypeStep DEF RollbackInv
<1>2. CallsSawHistory'
  BY <1>1, SawHistoryStep
<1>3. ASSUME deployment'.uid = deployment.uid,
             deployment'.revision = deployment.revision,
             deployment'.template = deployment.template,
             replicaSets' = replicaSets, landed' = landed
      PROVE  HistoryTidy' /\ RevisionHeld' /\ LiveIsNewest' /\ PatchesBehind'
  BY <1>3 DEF HistoryInv, HistoryTidy, RevisionHeld, LiveIsNewest,
              PatchesBehind, Unnumbered
<1>4. ASSUME UpdateStatus
      PROVE  HistoryTidy' /\ RevisionHeld' /\ LiveIsNewest' /\ PatchesBehind'
  BY <1>3, <1>4, HistoryTypes DEF UpdateStatus, Deployments
<1>5. ASSUME NEW template \in Templates, Recreate(template)
      PROVE  HistoryTidy' /\ RevisionHeld' /\ LiveIsNewest' /\ PatchesBehind'
  <2>1. /\ deployment'.uid = deployment.uid + 1 /\ deployment'.revision = 0
        /\ replicaSets' = {} /\ landed' = landed
    BY <1>5 DEF Recreate
  <2>2. \A l \in landed : l.target.uid <= deployment.uid
    BY DEF RepeatInv, PatchesPast
  <2>3. \A l \in landed : l.target.uid # deployment'.uid
    BY <2>1, <2>2, LandedTypes
  <2>4. HistoryTidy' /\ RevisionHeld'
    BY <2>1 DEF HistoryTidy, RevisionHeld
  <2>5. LiveIsNewest'
    BY <2>1 DEF LiveIsNewest
  <2>6. PatchesBehind'
    BY <2>1, <2>3 DEF PatchesBehind
  <2> QED BY <2>4, <2>5, <2>6
<1>6. HistoryTidy' /\ RevisionHeld' /\ LiveIsNewest' /\ PatchesBehind'
  <2>1. CASE UNCHANGED <<deployment, replicaSets, landed>>
    BY <1>3, <2>1
  <2>2. ASSUME NEW c \in DOMAIN calls, LandPatch(c), Preconditions(calls[c])
        PROVE  HistoryTidy' /\ RevisionHeld' /\ LiveIsNewest' /\ PatchesBehind'
    BY <1>1, <2>2, PatchKeepsHistory
  <2>3. CASE Cluster
    BY <1>4, <1>5, <2>3, NumberKeepsHistory, AnnotateKeepsHistory,
       RedeployKeepsHistory
       DEF Cluster
  <2> QED BY <2>1, <2>2, <2>3, DeploymentStep
<1> QED BY <1>2, <1>6 DEF HistoryInv

LEMMA HistoryInit == Init => HistoryInv
<1> SUFFICES ASSUME Init PROVE HistoryInv
  OBVIOUS
<1>1. DOMAIN calls = {} /\ landed = {}
  BY DEF Init
<1>2. /\ \A s \in replicaSets : s.owner = 1
      /\ \A s, t \in replicaSets :
            s.revision = t.revision \/ s.template = t.template => s = t
  BY DEF Init
<1>3. PICK s \in replicaSets :
         /\ \A t \in replicaSets : t.revision <= s.revision
         /\ deployment = [uid |-> 1, version |-> 0, template |-> s.template,
                          revision |-> s.revision, audit |-> {}]
  BY DEF Init
<1>4. HistoryTidy /\ RevisionHeld /\ LiveIsNewest
  BY <1>2, <1>3 DEF HistoryTidy, RevisionHeld, LiveIsNewest
<1> QED BY <1>1, <1>4 DEF HistoryInv, CallsSawHistory, PatchesBehind

\* Every patch was made for an attempt that is on record.
LandedOnRecord ==
    \A l \in landed : \E f \in Fingerprints :
        OnRecord(sessions[f], l.key, l.target)

LEMMA LandedStep ==
    ASSUME TypeOK, RollbackInv, LandedOnRecord, [Next]_vars
    PROVE  LandedOnRecord'
<1>1. TypeOK' /\ CallsSawTarget /\ CallsApproved
  BY TypeStep DEF RollbackInv
<1>2. ASSUME NEW f \in Fingerprints, NEW key, NEW target,
             OnRecord(sessions[f], key, target)
      PROVE  OnRecord(sessions'[f], key, target)
  <2> DEFINE s == sessions[f]
             r == sessions'[f]
  <2>1. s \in Incidents /\ r \in Incidents /\ Extends(s, r)
    BY <1>1, SessionsStep DEF TypeOK
  <2> HIDE DEF s, r
  <2>2. \A k, t : OnRecord(s, k, t) => OnRecord(r, k, t)
    BY <2>1, ExtendsKeeps
  <2> QED BY <1>2, <2>2 DEF s, r
<1>3. ASSUME NEW l \in landed
      PROVE  \E f \in Fingerprints : OnRecord(sessions'[f], l.key, l.target)
  BY <1>2 DEF LandedOnRecord
<1>4. ASSUME NEW c \in DOMAIN calls, LandPatch(c), Preconditions(calls[c])
      PROVE  LandedOnRecord'
  <2> DEFINE patch == [key |-> calls[c].key, target |-> calls[c].target,
                       version |-> deployment.version]
             f == calls[c].incident
  <2>1. /\ patch.key = calls[c].key /\ patch.target = calls[c].target
        /\ landed' = landed \cup {patch}
    BY <1>1, <1>4, PatchWritten
  <2>2. f \in Fingerprints /\ OnRecord(sessions[f], patch.key, patch.target)
    BY <1>1, <2>1 DEF TypeOK, ToolCalls, CallsApproved
  <2>3. OnRecord(sessions'[f], patch.key, patch.target)
    BY <1>2, <2>2
  <2> HIDE DEF patch, f
  <2>4. \A l \in landed' :
           \E g \in Fingerprints : OnRecord(sessions'[g], l.key, l.target)
    BY <1>3, <2>1, <2>2, <2>3
  <2> QED BY <2>4 DEF LandedOnRecord, OnRecord
<1>5. CASE landed' = landed
  <2>1. \A l \in landed' :
           \E g \in Fingerprints : OnRecord(sessions'[g], l.key, l.target)
    BY <1>3, <1>5
  <2> QED BY <2>1 DEF LandedOnRecord, OnRecord
<1> QED BY <1>4, <1>5, PatchOrNot

\* A rollback on record leaves a rollout the controller has numbered: the
\* number it leaves is of the template it leaves (discoverTarget takes both
\* from one reading of the Deployment).
RolloutsNumbered ==
    \A f \in Fingerprints : \A i \in DOMAIN sessions[f].remediationAttempts :
        LET target == sessions[f].remediationAttempts[i].target IN
        target.uid = deployment.uid =>
            \A s \in replicaSets :
                s.revision = target.fromRevision => s.template = target.fromTemplate

\* The key of an attempt tells what it leaves, as buildIdempotencyKey puts
\* uid and revisions into it.
KeysNameTheirRollback ==
    \A f, g \in Fingerprints :
        \A i \in DOMAIN sessions[f].remediationAttempts :
        \A j \in DOMAIN sessions[g].remediationAttempts :
            LET a == sessions[f].remediationAttempts[i]
                b == sessions[g].remediationAttempts[j]
            IN  a.key = b.key => /\ a.target.uid = b.target.uid
                                 /\ a.target.fromRevision = b.target.fromRevision

\* Each rollout of a Deployment is left once.
RolloutsLeftOnce ==
    \A a, b \in landed :
        /\ a.target.uid = b.target.uid
        /\ a.target.fromRevision = b.target.fromRevision
        => a = b

LEMMA LeftOnceStep ==
    ASSUME TypeOK, RollbackInv, HistoryInv, RolloutsNumbered, RolloutsLeftOnce,
           [Next]_vars
    PROVE  RolloutsLeftOnce'
<1>1. CallsSawTarget /\ CallsApproved
  BY DEF RollbackInv
<1>2. CASE landed' = landed
  BY <1>2 DEF RolloutsLeftOnce
<1>3. ASSUME NEW c \in DOMAIN calls, LandPatch(c), Preconditions(calls[c])
      PROVE  RolloutsLeftOnce'
  <2> DEFINE target == calls[c].target
             patch == [key |-> calls[c].key, target |-> target,
                       version |-> deployment.version]
             f == calls[c].incident
  <2>1. /\ patch.target = target
        /\ deployment.uid = target.uid
        /\ deployment.revision = target.fromRevision
        /\ deployment.template = target.fromTemplate
        /\ landed' = landed \cup {patch}
        /\ target \in RollbackTargets
    BY <1>1, <1>3, PatchWritten
  <2>2. PICK i \in DOMAIN sessions[f].remediationAttempts :
           sessions[f].remediationAttempts[i].target = target
    BY <1>1, HistoryDomain DEF CallsApproved, OnRecord, TypeOK, ToolCalls
  <2>3. f \in Fingerprints
    BY DEF TypeOK, ToolCalls
  <2>4. \A s \in replicaSets :
           s.revision = deployment.revision => s.template = deployment.template
    <3> HIDE DEF target, f
    <3> QED BY <2>1, <2>2, <2>3 DEF RolloutsNumbered
  <2>5. deployment.revision # 0
    BY <2>1, RollbackTypes DEF RollbackTargets
  <2>6. ~Unnumbered
    BY <2>4, <2>5 DEF HistoryInv, RevisionHeld, Unnumbered
  <2>7. \A l \in landed : l.target.uid = deployment.uid =>
           l.target.fromRevision # deployment.revision
    <3>1. \A l \in landed : l.target.uid = deployment.uid =>
             l.target.fromRevision < deployment.revision
      BY <2>6 DEF HistoryInv, PatchesBehind
    <3> QED BY <3>1, LandedTypes
  <2> HIDE DEF target, patch, f
  <2>8. \A l \in landed : ~(/\ l.target.uid = patch.target.uid
                            /\ l.target.fromRevision = patch.target.fromRevision)
    BY <2>1, <2>7
  <2> QED BY <2>1, <2>8 DEF RolloutsLeftOnce
<1> QED BY <1>2, <1>3, PatchOrNot

\* "Mutation count stays 1" with any number of incidents, keys, attempts and
\* overlapping, repeated and late calls, for keys that name what they roll
\* back, targets read off a numbered Deployment, and a controller that numbers
\* a rollout before people deploy the next (buildIdempotencyKey,
\* discoverTarget, performDeploymentRollback).
THEOREM KeysMutateOnce ==
    ASSUME PromptController
    PROVE  Spec /\ []RolloutsNumbered /\ []KeysNameTheirRollback
              => []OneMutationPerKey
<1>1. Init => HistoryInv /\ LandedOnRecord /\ RolloutsLeftOnce
  <2>1. Init => landed = {}
    BY DEF Init
  <2> QED BY <2>1, HistoryInit DEF LandedOnRecord, RolloutsLeftOnce
<1>2. /\ TypeOK /\ RollbackInv /\ RepeatInv /\ RolloutsNumbered
      /\ HistoryInv /\ LandedOnRecord /\ RolloutsLeftOnce /\ [Next]_vars
      => HistoryInv' /\ LandedOnRecord' /\ RolloutsLeftOnce'
  BY HistoryStep, LandedStep, LeftOnceStep
<1>3. ASSUME TypeOK, LandedOnRecord, RolloutsLeftOnce, KeysNameTheirRollback
      PROVE  OneMutationPerKey
  <2> SUFFICES ASSUME NEW a \in landed, NEW b \in landed, a.key = b.key
               PROVE  a = b
    BY DEF OneMutationPerKey
  <2>1. PICK f \in Fingerprints : OnRecord(sessions[f], a.key, a.target)
    BY <1>3 DEF LandedOnRecord
  <2>2. PICK g \in Fingerprints : OnRecord(sessions[g], b.key, b.target)
    BY <1>3 DEF LandedOnRecord
  <2>3. PICK i \in DOMAIN sessions[f].remediationAttempts :
           /\ sessions[f].remediationAttempts[i].key = a.key
           /\ sessions[f].remediationAttempts[i].target = a.target
    BY <1>3, <2>1, HistoryDomain DEF OnRecord, TypeOK
  <2>4. PICK j \in DOMAIN sessions[g].remediationAttempts :
           /\ sessions[g].remediationAttempts[j].key = b.key
           /\ sessions[g].remediationAttempts[j].target = b.target
    BY <1>3, <2>2, HistoryDomain DEF OnRecord, TypeOK
  <2>5. /\ a.target.uid = b.target.uid
        /\ a.target.fromRevision = b.target.fromRevision
    BY <1>3, <2>3, <2>4 DEF KeysNameTheirRollback
  <2> QED BY <1>3, <2>5 DEF RolloutsLeftOnce
<1> QED BY <1>1, <1>2, <1>3, RepeatCorrect, PTL DEF Spec
=============================================================================
