-------------------------- MODULE DeploymentRollback --------------------------
(***************************************************************************)
(* The one mutation of the system: guardian_rollback_deployment puts an    *)
(* allowlisted Deployment back on the PodTemplate of an earlier revision   *)
(* (src/src/kubernetes/deployment-rollback.ts), behind the gate on the     *)
(* persisted incident (src/src/hooks/rollback-deployment-gate.ts) and      *)
(* followed by the read-only reconciler after a restart                    *)
(* (src/src/kubernetes/deployment-rollback-reconciler.ts).                 *)
(*                                                                         *)
(* A tool call is three requests to the API server: read the Deployment,   *)
(* list the ReplicaSets, patch.  Other calls, other incidents, the         *)
(* Deployment controller, people and restarts come in between; an answer   *)
(* can be lost, and a patch can arrive after its sender gave up.           *)
(*                                                                         *)
(* Templates stand for their digests, keys for theirs.  A target that does *)
(* not decode, or lies outside the allowlist or the configured cluster, is *)
(* refused by the gate before a call exists, so Targets are those that     *)
(* pass.  Timestamps play no part: every one is 0.                         *)
(***************************************************************************)
EXTENDS IncidentReducer, IncidentWorkflow, FiniteSets

CONSTANTS
    AlertId,
    Templates,          \* PodTemplate digests
    KeysOf,             \* the idempotency keys an incident's attempts use
    CallIds,            \* tool calls that may be under way at once
    MaxUid,             \* bound: the Deployment is recreated MaxUid - 1 times
    MaxRevision,        \* bound: rollouts the controller numbers
    MaxVersion,         \* bound: writes to the Deployment
    PromptController    \* whether a rollout is numbered before the next edit

Uids == 1..MaxUid
Revisions == 1..MaxRevision
RollbackTargets == [uid : Uids, fromRevision : Revisions, toRevision : Revisions,
                    fromTemplate : Templates, toTemplate : Templates]

ASSUME DeploymentRollbackAssumption ==
    /\ AlertId \in AlertIds
    /\ KeysOf \in [Fingerprints -> SUBSET Keys]
    /\ MaxUid \in Nat \ {0}
    /\ MaxRevision \in Nat \ {0}
    /\ MaxVersion \in Nat
    /\ PromptController \in BOOLEAN
    /\ Targets \subseteq {t \in RollbackTargets : t.fromRevision # t.toRevision}

VARIABLES
    sessions,       \* fingerprint -> incident record
    deployment,     \* the allowlisted Deployment
    replicaSets,    \* its numbered history
    calls,          \* tool calls under way or answered, by id
    landed          \* history: the patches the API server applied

vars == <<sessions, deployment, replicaSets, calls, landed>>

Audits == [key : Keys, fromRevision : Revisions, toRevision : Revisions,
           template : Templates]

\* revision 0: the controller has not annotated the Deployment.  audit: the
\* four guardian annotations, written together or absent together.
Deployments == [uid : Uids, version : 0..MaxVersion, template : Templates,
                revision : 0..MaxRevision, audit : SUBSET Audits]

ReplicaSets == [owner : Uids, revision : Revisions, template : Templates]

Successes == {"rolled_back", "duplicate"}
Refusals == {"stale_target", "ambiguous_history", "key_conflict",
             "indeterminate", "resource_version_conflict"}

\* version: the resourceVersion the call read; "late": given up by its
\* caller with the patch on its way.
ToolCalls == [incident : Fingerprints, key : Keys, target : Targets,
              version : 0..MaxVersion,
              step : {"read", "list", "patch", "late", "answered"},
              decision : {"none"} \cup Successes \cup Refusals]

-----------------------------------------------------------------------------
(* The decisions of performDeploymentRollback *)

AuditOf(key, target) ==
    [key |-> key, fromRevision |-> target.fromRevision,
     toRevision |-> target.toRevision, template |-> target.toTemplate]

\* Mutant: nobody looks for the key of an earlier call.
KeyNeverRecorded(key) == FALSE

KeyRecorded(key) == \E a \in deployment.audit : a.key = key

\* Mutant: the key alone makes a replay a duplicate.
ReplayDecisionByKey(key, target) == "duplicate"

\* The Deployment carries the key already.
ReplayDecision(key, target) ==
    IF AuditOf(key, target) \notin deployment.audit THEN "key_conflict"
    ELSE IF deployment.template # target.toTemplate THEN "indeterminate"
    ELSE "duplicate"

\* What is known after the first read; "none" goes on to the history.
ReadDecision(key, target) ==
    IF deployment.uid # target.uid THEN "stale_target"
    ELSE IF KeyRecorded(key) THEN ReplayDecision(key, target)
    ELSE IF \/ deployment.revision # target.fromRevision
            \/ deployment.template # target.fromTemplate
         THEN "stale_target"
    ELSE "none"

\* selectReplicaSetForRevision finds exactly one, and it has the digest.
HistoryAgrees(target) ==
    LET candidates == {s \in replicaSets : /\ s.owner = target.uid
                                           /\ s.revision = target.toRevision}
    IN  /\ Cardinality(candidates) = 1
        /\ \A s \in candidates : s.template = target.toTemplate

\* Mutant: the patch is sent without its test of the resourceVersion.
PreconditionsOnUid(call) == deployment.uid = call.target.uid

\* The two test operations of the JSON Patch, evaluated by the API server.
Preconditions(call) ==
    /\ deployment.uid = call.target.uid
    /\ deployment.version = call.version

\* Mutant: the audit of an earlier rollback stays beside the new one.
RolledBackMerging(call) ==
    [deployment EXCEPT !.version  = @ + 1,
                       !.template = call.target.toTemplate,
                       !.revision = call.target.fromRevision,
                       !.audit    = @ \cup {AuditOf(call.key, call.target)}]

\* The patch replaces the template and the annotations as a whole, the
\* controller's revision annotation included, as it read them.
RolledBack(call) ==
    [deployment EXCEPT !.version  = @ + 1,
                       !.template = call.target.toTemplate,
                       !.revision = call.target.fromRevision,
                       !.audit    = {AuditOf(call.key, call.target)}]

\* Mutant: the gate compares the key only.
GateAllowsKey(s, key, target) ==
    \E i \in RunningAttempts(s) : s.remediationAttempts[i].key = key

\* buildRollbackDeploymentToolGateDecision
GateAllows(s, key, target) ==
    /\ ValidIncident(s)
    /\ s.approvalStatus = "approved"
    /\ s.stage = "remediation"
    /\ \E i \in RunningAttempts(s) :
          /\ RunningAttempts(s) = {i}
          /\ s.remediationAttempts[i].key = key
          /\ s.remediationAttempts[i].target = target

\* KubernetesDeploymentRollbackReconciler.reconcile, the Deployment readable
ReconcileOutcome(key, target) ==
    IF /\ deployment.uid = target.uid
       /\ AuditOf(key, target) \in deployment.audit
       /\ deployment.template = target.toTemplate
    THEN "confirmed_succeeded" ELSE "unknown"

-----------------------------------------------------------------------------
\* Every incident has just been approved; the Deployment is at its latest
\* revision and the history is numbered.
Init ==
    /\ sessions = [f \in Fingerprints |->
           LET d == [fingerprint |-> f, alertId |-> AlertId,
                     alertStatus |-> "firing", startsAt |-> 0,
                     endsAt |-> None, receivedAt |-> 0]
               collected == RecordMetricEvidence(CreateIncident(d), TRUE, 0)
           IN  RecordApprovalDecision(RecordRemediationProposal(collected, 0),
                                      TRUE, 0)]
    /\ replicaSets \in SUBSET [owner : {1}, revision : Revisions,
                               template : Templates]
    /\ \A s, t \in replicaSets :
          s.revision = t.revision \/ s.template = t.template => s = t
    /\ \A s \in replicaSets :
          s.revision = 1 \/ \E t \in replicaSets : t.revision = s.revision - 1
    /\ \E s \in replicaSets :
          /\ \A t \in replicaSets : t.revision <= s.revision
          /\ deployment = [uid |-> 1, version |-> 0, template |-> s.template,
                           revision |-> s.revision, audit |-> {}]
    /\ calls = <<>>
    /\ landed = {}

-----------------------------------------------------------------------------
(* The Guardian *)

StartAttempt(f, key, target) ==
    /\ key \in KeysOf[f]
    /\ BeginDecision(sessions[f], key, target) = "started"
    /\ sessions' = [sessions EXCEPT ![f] = BeginAttempt(@, key, target, 0)]
    /\ UNCHANGED <<deployment, replicaSets, calls, landed>>

WithCall(c, call) ==
    [d \in DOMAIN calls \cup {c} |-> IF d = c THEN call ELSE calls[d]]

WithoutCall(c) == [d \in DOMAIN calls \ {c} |-> calls[d]]

\* before_tool_call lets the call pass; the tool runs with the same arguments.
Invoke(c, f, key, target) ==
    /\ c \notin DOMAIN calls
    /\ GateAllows(sessions[f], key, target)
    /\ calls' = WithCall(c, [incident |-> f, key |-> key, target |-> target,
                             version |-> 0, step |-> "read",
                             decision |-> "none"])
    /\ UNCHANGED <<sessions, deployment, replicaSets, landed>>

Answer(c, decision) ==
    calls' = [calls EXCEPT ![c].step = "answered", ![c].decision = decision]

ReadDeployment(c) ==
    /\ calls[c].step = "read"
    /\ LET decision == ReadDecision(calls[c].key, calls[c].target)
       IN  IF decision # "none" THEN Answer(c, decision)
           ELSE calls' = [calls EXCEPT ![c].step = "list",
                                       ![c].version = deployment.version]
    /\ UNCHANGED <<sessions, deployment, replicaSets, landed>>

ListReplicaSets(c) ==
    /\ calls[c].step = "list"
    /\ IF HistoryAgrees(calls[c].target)
       THEN calls' = [calls EXCEPT ![c].step = "patch"]
       ELSE Answer(c, "ambiguous_history")
    /\ UNCHANGED <<sessions, deployment, replicaSets, landed>>

\* The patch reaches the API server; the answer comes back unless the caller
\* has given up.
LandPatch(c) ==
    /\ calls[c].step \in {"patch", "late"}
    /\ IF Preconditions(calls[c])
       THEN /\ deployment.version < MaxVersion
            /\ deployment' = RolledBack(calls[c])
            /\ landed' = landed \cup {[key     |-> calls[c].key,
                                       target  |-> calls[c].target,
                                       version |-> deployment.version]}
       ELSE UNCHANGED <<deployment, landed>>
    /\ IF calls[c].step = "late" THEN calls' = WithoutCall(c)
       ELSE Answer(c, IF Preconditions(calls[c]) THEN "rolled_back"
                      ELSE "resource_version_conflict")
    /\ UNCHANGED <<sessions, replicaSets>>

\* A request, its answer or the caller's interest in it is lost: the call
\* throws or is dropped.  A patch that was sent may still arrive.
LoseAnswer(c) ==
    /\ \/ /\ calls[c].step = "patch"
          /\ calls' = [calls EXCEPT ![c].step = "late"]
       \/ calls' = WithoutCall(c)
    /\ UNCHANGED <<sessions, deployment, replicaSets, landed>>

\* The caller records what the call decided: a success, or a definite failed
\* attempt after a refusal; an error is recorded as nothing.
RecordOutcome(c) ==
    /\ calls[c].decision \in Successes \cup Refusals
    /\ LET f == calls[c].incident
           status == IF calls[c].decision \in Successes THEN "succeeded"
                                                        ELSE "failed"
       IN  /\ CanFinishAttempt(sessions[f], calls[c].key, status, 0)
           /\ sessions' = [sessions EXCEPT
                              ![f] = WithAttemptSettled(@, status, 0)]
    /\ calls' = WithoutCall(c)
    /\ UNCHANGED <<deployment, replicaSets, landed>>

\* The Gateway stops and starts: only patches on their way are left.
RestartGateway ==
    /\ calls' = [c \in {d \in DOMAIN calls : calls[d].step \in {"patch", "late"}}
                    |-> [calls[c] EXCEPT !.step = "late"]]
    /\ UNCHANGED <<sessions, deployment, replicaSets, landed>>

\* reconcileIncidentOnRestart, at any time: nothing ties it to the restart.
\* The Deployment may be unreadable.
Reconcile(f, readable) ==
    /\ HasRunningAttempt(sessions[f])
    /\ LET attempt == sessions[f].remediationAttempts[RunningIndex(sessions[f])]
           confirmed == /\ readable
                        /\ ReconcileOutcome(attempt.key, attempt.target)
                              = "confirmed_succeeded"
       IN  sessions' = [sessions EXCEPT
               ![f] = IF confirmed THEN SettleAttempt(@, "succeeded", 0)
                                   ELSE BlockForManualReview(@, 0)]
    /\ UNCHANGED <<deployment, replicaSets, calls, landed>>

-----------------------------------------------------------------------------
(* The cluster *)

Owned == {s \in replicaSets : s.owner = deployment.uid}

\* The newest ReplicaSet of the Deployment has the live template.
Numbered(s) == /\ s \in Owned
               /\ s.template = deployment.template
               /\ \A t \in Owned : t.revision <= s.revision

Settled == \E s \in Owned : Numbered(s) /\ s.revision = deployment.revision

\* The controller creates a ReplicaSet for a new template, or renumbers the
\* one that has it.
NumberReplicaSet ==
    /\ ~ \E s \in Owned : Numbered(s)
    /\ \E r \in Revisions :
          /\ \A s \in Owned : s.revision < r
          /\ r = 1 \/ \E s \in Owned : s.revision = r - 1
          /\ replicaSets' =
                {s \in replicaSets : ~(s \in Owned /\ s.template = deployment.template)}
                   \cup {[owner    |-> deployment.uid, revision |-> r,
                          template |-> deployment.template]}
    /\ UNCHANGED <<sessions, deployment, calls, landed>>

\* ... and then copies the number to the Deployment.
AnnotateRevision ==
    /\ deployment.version < MaxVersion
    /\ \E s \in Owned :
          /\ Numbered(s)
          /\ s.revision # deployment.revision
          /\ deployment' = [deployment EXCEPT !.version  = @ + 1,
                                              !.revision = s.revision]
    /\ UNCHANGED <<sessions, replicaSets, calls, landed>>

UpdateStatus ==
    /\ deployment.version < MaxVersion
    /\ deployment' = [deployment EXCEPT !.version = @ + 1]
    /\ UNCHANGED <<sessions, replicaSets, calls, landed>>

\* Somebody deploys; annotations are kept.
Redeploy(template) ==
    /\ deployment.version < MaxVersion
    /\ template # deployment.template
    /\ PromptController => Settled
    /\ deployment' = [deployment EXCEPT !.version = @ + 1, !.template = template]
    /\ UNCHANGED <<sessions, replicaSets, calls, landed>>

\* Deleted with its ReplicaSets, and created again under the same name.
Recreate(template) ==
    /\ deployment.version < MaxVersion
    /\ deployment.uid < MaxUid
    /\ deployment' = [uid |-> deployment.uid + 1, version |-> deployment.version + 1,
                      template |-> template, revision |-> 0, audit |-> {}]
    /\ replicaSets' = {}
    /\ UNCHANGED <<sessions, calls, landed>>

-----------------------------------------------------------------------------
Guardian ==
    \/ \E f \in Fingerprints, key \in Keys, target \in Targets :
          \/ StartAttempt(f, key, target)
          \/ \E c \in CallIds : Invoke(c, f, key, target)
    \/ \E c \in DOMAIN calls :
          \/ ReadDeployment(c)
          \/ ListReplicaSets(c)
          \/ LandPatch(c)
          \/ LoseAnswer(c)
          \/ RecordOutcome(c)
    \/ RestartGateway
    \/ \E f \in Fingerprints, readable \in BOOLEAN : Reconcile(f, readable)

Cluster ==
    \/ NumberReplicaSet
    \/ AnnotateRevision
    \/ UpdateStatus
    \/ \E template \in Templates : Redeploy(template) \/ Recreate(template)

Next == Guardian \/ Cluster

Spec == Init /\ [][Next]_vars

-----------------------------------------------------------------------------
(* Properties *)

\* Sessions, cluster and calls have their types, and the Deployment carries
\* the audit annotations of one rollback at most.
TypeOK ==
    /\ sessions \in [Fingerprints -> Incidents]
    /\ deployment \in Deployments
    /\ \A a, b \in deployment.audit : a = b
    /\ replicaSets \subseteq ReplicaSets
    /\ DOMAIN calls \subseteq CallIds
    /\ \A c \in DOMAIN calls : calls[c] \in ToolCalls
    /\ landed \subseteq [key : Keys, target : Targets, version : 0..MaxVersion]

\* "Mutation count stays 1": however often a call is repeated, by overlapping
\* calls, after lost answers and across restarts, one key patches the
\* Deployment at most once.
OneMutationPerKey == \A a, b \in landed : a.key = b.key => a = b

\* Some patch left the audit that a rollback of target under key leaves.  The
\* annotations do not record the template that was left.
Applied(key, target) ==
    \E a \in landed : /\ a.target.uid = target.uid
                      /\ AuditOf(a.key, a.target) = AuditOf(key, target)

\* An attempt is recorded as succeeded, by the caller or by the restart
\* reconciliation, only if its own key did put its own target in place: the
\* rollback of another incident, or of the same key with another target, does
\* not vouch for it.
SucceededWasApplied ==
    \A f \in Fingerprints : \A i \in DOMAIN sessions[f].remediationAttempts :
        LET attempt == sessions[f].remediationAttempts[i] IN
        attempt.status = "succeeded" => Applied(attempt.key, attempt.target)

\* The Guardian changes the Deployment only from the very state a person
\* approved leaving, to the one approved, for an attempt on record: never on
\* top of a newer rollout, however late the patch arrives.
OnlyApprovedChanges ==
    [][\A a \in landed' \ landed :
          /\ deployment.uid = a.target.uid
          /\ deployment.revision = a.target.fromRevision
          /\ deployment.template = a.target.fromTemplate
          /\ \E f \in Fingerprints : \E i \in DOMAIN sessions[f].remediationAttempts :
                /\ sessions[f].approvalStatus = "approved"
                /\ sessions[f].remediationAttempts[i].key = a.key
                /\ sessions[f].remediationAttempts[i].target = a.target]_vars

\* Replacing all annotations never takes back the number the controller has
\* given to a rollout in the meantime.
RevisionNeverRegresses ==
    [][deployment'.uid = deployment.uid =>
          deployment.revision <= deployment'.revision]_vars

\* "Callers may safely record these as a definite failed attempt": an attempt
\* recorded as failed did not change the Deployment.
FailedWasNotApplied ==
    \A f \in Fingerprints : \A i \in DOMAIN sessions[f].remediationAttempts :
        LET attempt == sessions[f].remediationAttempts[i] IN
        attempt.status = "failed" => ~Applied(attempt.key, attempt.target)
=============================================================================
