-------------------------- MODULE RemediationSession --------------------------
(***************************************************************************)
(* One incident session from its first alert to its completion, with every *)
(* party that writes to it: the operator's commands                        *)
(* (src/scripts/kind-prometheus-recovery-rpc.mjs), which collect evidence, *)
(* wait for a human behind Lobster, roll the Deployment back, reconcile    *)
(* and verify the recovery; the bridge, which applies deliveries; people   *)
(* and controllers, who change the Deployment and its metric.              *)
(*                                                                         *)
(* A write replaces the session's record by one computed from an earlier   *)
(* read: there is no compare-and-swap.  Each step below ends at an await   *)
(* of the code.  Commands run one at a time, as the proof scripts start    *)
(* them; a command can throw or die at any await, and takes its snapshot   *)
(* with it.  The steps of the rollback itself are in DeploymentRollback,   *)
(* those of the bridge in AlertBridge.                                     *)
(***************************************************************************)
EXTENDS IncidentReducer, IncidentWorkflow, RecoveryInspection, LobsterGate,
        FiniteSets

CONSTANTS
    Fingerprint, Alert,     \* the occurrence of this session
    AlertName,              \* its occurrence id, as Lobster's alert_id
    LiveName,               \* the Deployment that runs
    Templates,              \* PodTemplate digests
    Uids,
    FirstTemplate, FirstUid,\* the Deployment the alert is about
    KeyOf,                  \* buildIdempotencyKey, by target
    Key,                    \* the state Lobster keeps for the session's run
    Leftovers,              \* states other pipelines left in the directory
    ConfigsTried,           \* configurations an administrator may have written
    SampleValues,           \* values of the metric
    DegradedValue,          \* the one the evidence step insists on
    MaxGeneration,          \* bound: writes to the Deployment's spec
    QuietUntilPatched,      \* bound: nothing happens to the Deployment earlier
    Endings,                \* bound: when an alert may have ended
    MaxReplicas             \* bound: replicas people ask for

RollbackTargets == [cluster : Clusters, name : DeploymentNames, uid : Uids,
                    fromTemplate : Templates, toTemplate : Templates]

ASSUME RemediationSessionAssumption ==
    /\ Fingerprint \in Fingerprints /\ Alert \in AlertIds
    /\ AlertName \in AlertNames /\ LiveName \in DeploymentNames
    /\ Key \in StateKeys
    /\ FirstTemplate \in Templates /\ FirstUid \in Uids /\ Endings \subseteq Time
    /\ Targets \subseteq RollbackTargets
    /\ KeyOf \in [Targets -> Keys]
    /\ ConfigsTried \subseteq Configs
    /\ Leftovers \subseteq PausedRuns
    /\ \A run \in Leftovers : /\ run.key # Key
                             /\ \A twin \in Leftovers :
                                   run.key = twin.key => run = twin
    /\ DegradedValue \in SampleValues /\ SampleValues \subseteq Int
    /\ QuietUntilPatched \in BOOLEAN
    /\ MaxGeneration \in Nat \ {0} /\ MaxReplicas \in Nat \ {0}

VARIABLES
    incident,       \* the record in the Gateway session
    now,            \* the current instant
    config,         \* the plugin's configuration
    live,           \* the Deployment
    sample,         \* the sample Prometheus answers with
    paused,         \* the states in Lobster's directory
    command,        \* the operator's command under way
    admitted,       \* others' resumes the gate let through, not yet carried out
    resume,         \* the file that hands key and target to later commands
    ambiguous,      \* the file that names the session for reconcile-ambiguous
    bridge,         \* the delivery the bridge is applying
    answers,        \* history: resumes Lobster carried out
    acknowledged,   \* history: deliveries acknowledged as applied
    patched,        \* history: rollbacks that changed a Deployment
    basis,          \* history: what the completing verification had read
    announced,      \* history: a verification reported the incident completed
    overlapped      \* history: a write was computed beside another writer

world == <<config, live, sample>>
histories == <<answers, acknowledged, patched, basis, announced, overlapped>>
files == <<resume, ambiguous>>
lobster == <<paused, admitted>>
vars == <<incident, now, world, lobster, command, files, bridge, histories>>

FiringAt(receipt) ==
    [fingerprint |-> Fingerprint, alertId |-> Alert, alertStatus |-> "firing",
     startsAt |-> 0, endsAt |-> None, receivedAt |-> receipt]

FirstRecord == CreateIncident(FiringAt(0))
NoSample == [value |-> DegradedValue, at |-> 0]

\* of: the template the controller had before it when it wrote the status.
Statuses == [observed : 1..MaxGeneration, updated : 0..MaxReplicas,
             available : 0..MaxReplicas, unavailable : 0..MaxReplicas,
             of : Templates]
LiveDeployments == [uid : Uids, template : Templates,
                    audit : SUBSET [key : Keys, target : Targets],
                    generation : 1..MaxGeneration, desired : 0..MaxReplicas,
                    status : Statuses]
Samples == [value : SampleValues, at : Time]

\* Rolled out and ready
FirstLive == [uid |-> FirstUid, template |-> FirstTemplate, audit |-> {},
              generation |-> 1, desired |-> MaxReplicas,
              status |-> [observed |-> 1, updated |-> MaxReplicas,
                          available |-> MaxReplicas, unavailable |-> 0,
                          of |-> FirstTemplate]]

Locations == {"idle",
              "collect", "collected", "propose", "authorize", "run", "resume",
              "admitted", "decide", "start", "started",
              "reconcile", "settle",
              "verify", "query", "inspect", "describe", "patch", "readback"}

-----------------------------------------------------------------------------
(* Commands: a program counter and what the process holds *)

Commands == [at : Locations, state : Incidents, target : SUBSET Targets,
             time : Time, answer : BOOLEAN, sample : Samples,
             live : SUBSET LiveDeployments]

Idle == [at |-> "idle", state |-> FirstRecord, target |-> {}, time |-> 0,
         answer |-> FALSE, sample |-> NoSample, live |-> {}]

\* A command holds a snapshot it will write back.
Holds(c) == c.at \in {"collect", "collected", "propose", "authorize", "run",
                      "resume", "admitted", "decide", "start", "reconcile",
                      "settle", "patch"}

\* It takes the snapshot while the bridge is between its read and its patch.
NoteCommandSnapshot ==
    /\ overlapped' = (overlapped \/ bridge # <<>>)
    /\ UNCHANGED <<answers, acknowledged, patched, basis, announced>>

\* The command throws, gives up at its deadline, or its process dies.
Fail ==
    /\ command.at # "idle"
    /\ command' = Idle
    /\ UNCHANGED <<incident, now, world, lobster, files, bridge, histories>>

\* discoverTarget: the live Deployment could go back like this.
Discovered(target) ==
    /\ target.uid = live.uid
    /\ target.fromTemplate = live.template

Begin(target) ==
    /\ command.at = "idle"
    /\ ValidIncident(incident)
    /\ command' = [Idle EXCEPT !.at = "collect", !.state = incident,
                               !.target = {target}]
    /\ NoteCommandSnapshot
    /\ UNCHANGED <<incident, now, world, lobster, files, bridge>>

\* prepare-http, denied-approval and prepare-ambiguous: createHttpIncident ends
\* with the record the bridge has just created; readState throws on one that
\* does not decode.
BeginPrepare(target) ==
    /\ Discovered(target)
    /\ target.name = LiveName
    /\ Begin(target)

\* off-target puts another Deployment into the target it found, and has that
\* approved.
BeginOffTarget(target) ==
    /\ Discovered(target)
    /\ target.name # LiveName
    /\ Begin(target)

\* Mutant: whatever Prometheus answers is taken.
SampleUsableAtOnce(state, answer) == answer.value = DegradedValue

\* The loop asks again until the sample is no older than the record.
SampleUsable(state, answer) ==
    /\ answer.at >= state.updatedAt
    /\ answer.value = DegradedValue

\* guardian_query_prometheus and guardian_inspect_metric_snapshot
QueryEvidence ==
    /\ command.at = "collect"
    /\ SampleUsable(command.state, sample)
    /\ command' = [command EXCEPT !.at = "collected", !.sample = sample]
    /\ UNCHANGED <<incident, now, world, lobster, files, bridge, histories>>

PersistEvidence ==
    /\ command.at = "collected"
    /\ CanRecordMetricEvidence(command.state)
    /\ LET next == RecordMetricEvidence(command.state, TRUE, command.sample.at)
       IN  /\ incident' = next
           /\ command' = [command EXCEPT !.at = "propose", !.state = next,
                                         !.sample = NoSample]
    /\ UNCHANGED <<now, world, lobster, files, bridge, histories>>

\* guardian_propose_remediation; a proposal whose evidence has gone stale is
\* persisted too, and ends the command.
PersistProposal ==
    /\ command.at = "propose"
    /\ CanRecordRemediationProposal(command.state)
    /\ LET next == RecordRemediationProposal(command.state, now)
       IN  /\ incident' = next
           /\ command' = IF next.stage = "approval"
                         THEN [command EXCEPT !.at = "authorize", !.state = next]
                         ELSE Idle
    /\ UNCHANGED <<now, world, lobster, files, bridge, histories>>

\* authorizeRemediationWithLobster fixes decidedAt and startedAt now, before
\* anybody is asked, and persists the state it was given.
EnterAuthorization ==
    /\ command.at = "authorize"
    /\ AwaitsApproval(command.state)
    /\ incident' = command.state
    /\ command' = [command EXCEPT !.at = "run", !.time = now]
    /\ UNCHANGED <<now, world, lobster, files, bridge, histories>>

\* buildLobsterApprovalRunRequest and buildLobsterApprovalResumeRequest
RunRequest == [caller |-> "operator", pipeline |-> IncidentWorkflow,
               wellFormed |-> TRUE, alertId |-> AlertName,
               action |-> "rollback_latest_release"]

ResumeRequest(caller, key, approve) ==
    [caller |-> caller, wellFormed |-> TRUE, key |-> key, approve |-> approve]

RunLobster ==
    /\ command.at = "run"
    /\ LobsterRunPasses(RunRequest)
    /\ paused' = paused \cup {PausedRun(RunRequest, Key)}
    /\ command' = [command EXCEPT !.at = "resume"]
    /\ UNCHANGED <<incident, now, world, admitted, files, bridge, histories>>

\* Lobster carries out a resume the gate has let through, on what the key names
\* by then: the state is used up, an approval executes the rest of the
\* workflow, and whoever else was let through with the key comes too late.
CarryOut(request) ==
    /\ \E run \in paused :
          /\ run.key = request.key
          /\ paused' = paused \ {run}
          /\ answers' = answers \cup {[run |-> run, caller |-> request.caller,
                                       approve |-> request.approve]}
    /\ admitted' = {r \in admitted : r.key # request.key}

\* The human answers the command's question, and the gate reads the state.
AdmitResume(approve) ==
    /\ command.at = "resume"
    /\ LobsterResumePasses(ResumeRequest("operator", Key, approve), paused)
    /\ command' = [command EXCEPT !.at = "admitted", !.answer = approve]
    /\ UNCHANGED <<incident, now, world, lobster, files, bridge, histories>>

ResumeLobster ==
    /\ command.at = "admitted"
    /\ CarryOut(ResumeRequest("operator", Key, command.answer))
    /\ command' = [command EXCEPT !.at = "decide"]
    /\ UNCHANGED <<incident, now, world, files, bridge, acknowledged, patched,
                   basis, announced, overlapped>>

\* Mutant: an answer is taken for a yes.
DecisionAlwaysApproved(c) == TRUE

Decided(c) == c.answer

PersistDecision ==
    /\ command.at = "decide"
    /\ LET next == RecordApprovalDecision(command.state, Decided(command),
                                          command.time)
       IN  /\ incident' = next
           /\ command' = IF Decided(command)
                         THEN [command EXCEPT !.at = "start", !.state = next]
                         ELSE Idle
    /\ UNCHANGED <<now, world, lobster, files, bridge, histories>>

PersistStart ==
    /\ command.at = "start"
    /\ \E target \in command.target :
          /\ BeginDecision(command.state, KeyOf[target], target) = "started"
          /\ incident' = BeginAttempt(command.state, KeyOf[target], target,
                                      command.time)
          /\ command' = [Idle EXCEPT !.at = "started", !.target = {target}]
    /\ UNCHANGED <<now, world, lobster, files, bridge, histories>>

\* prepare-http hands key and target on ...
WriteResume ==
    /\ command.at = "started"
    /\ \A target \in command.target : target.name = LiveName
    /\ resume' = command.target
    /\ command' = Idle
    /\ UNCHANGED <<incident, now, world, lobster, ambiguous, bridge, histories>>

\* ... prepare-ambiguous the session alone, so that nobody rolls back.
WriteAmbiguous ==
    /\ command.at = "started"
    /\ \A target \in command.target : target.name = LiveName
    /\ ambiguous' = TRUE
    /\ command' = Idle
    /\ UNCHANGED <<incident, now, world, lobster, resume, bridge, histories>>

-----------------------------------------------------------------------------
(* The rollback *)

\* The part of buildRollbackDeploymentToolGateDecision that reads the
\* configuration.
RollbackGatePasses(target) ==
    /\ ConfigResolves(config)
    /\ target.cluster \in config.clusterId
    /\ IsAllowlisted(config, target.name)

\* ... and the part that reads the incident.
AttemptRuns(s, target) ==
    /\ ValidIncident(s)
    /\ s.approvalStatus = "approved"
    /\ s.stage = "remediation"
    /\ HasRunningAttempt(s)
    /\ s.remediationAttempts[RunningIndex(s)].key = KeyOf[target]
    /\ s.remediationAttempts[RunningIndex(s)].target = target

AuditOf(target) == [key |-> KeyOf[target], target |-> target]

\* The rollback and replay-rollback commands go by the file; off-target, which
\* writes none, calls the tool itself and fails.
MayRollBack(target) ==
    \/ command.at = "idle" /\ target \in resume
    \/ command.at = "started" /\ target \in command.target /\ target.name # LiveName

\* The gate, and the mutation as a whole.  A Deployment that carries the key,
\* or has moved on, is left alone; another Deployment than the live one is out
\* of the picture once patched.
Rollback(target) ==
    /\ MayRollBack(target)
    /\ RollbackGatePasses(target) /\ ClientConnects(config)
    /\ AttemptRuns(incident, target)
    /\ target.name = LiveName => /\ AuditOf(target) \notin live.audit
                                 /\ Discovered(target)
                                 /\ live.generation < MaxGeneration
    /\ live' = IF target.name # LiveName THEN live
               ELSE [live EXCEPT !.template   = target.toTemplate,
                                 !.audit      = {AuditOf(target)},
                                 !.generation = @ + 1]
    /\ patched' = patched \cup {target}
    /\ UNCHANGED <<incident, now, config, sample, lobster, command, files, bridge,
                   answers, acknowledged, basis, announced, overlapped>>

-----------------------------------------------------------------------------
(* Restart reconciliation: reconcile and reconcile-ambiguous *)

BeginReconcile ==
    /\ command.at = "idle"
    /\ resume # {} \/ ambiguous
    /\ ValidIncident(incident) /\ HasRunningAttempt(incident)
    /\ CanReconcile(incident, now)
    /\ ConfigResolves(config)
    /\ command' = [Idle EXCEPT !.at = "reconcile", !.state = incident, !.time = now]
    /\ NoteCommandSnapshot
    /\ UNCHANGED <<incident, now, world, lobster, files, bridge>>

\* KubernetesDeploymentRollbackReconciler.reconcile
RollbackConfirmed(attempt) ==
    /\ attempt.target.cluster \in config.clusterId
    /\ IsAllowlisted(config, attempt.target.name)
    /\ ClientConnects(config) /\ attempt.target.name = LiveName
    /\ live.uid = attempt.target.uid
    /\ live.template = attempt.target.toTemplate
    /\ [key |-> attempt.key, target |-> attempt.target] \in live.audit

ReadOutcome(readable) ==
    /\ command.at = "reconcile"
    /\ LET s == command.state
       IN  command' = [command EXCEPT !.at = "settle",
              !.answer = readable /\ RollbackConfirmed(
                             s.remediationAttempts[RunningIndex(s)])]
    /\ UNCHANGED <<incident, now, world, lobster, files, bridge, histories>>

\* reconcile insists on a rollback that is confirmed, reconcile-ambiguous on one
\* that is not; either throws before it writes otherwise.
PersistReconciled ==
    /\ command.at = "settle"
    /\ IF command.answer THEN resume # {} ELSE ambiguous
    /\ incident' = IF command.answer
                   THEN SettleAttempt(command.state, "succeeded", command.time)
                   ELSE BlockForManualReview(command.state, command.time)
    /\ command' = Idle
    /\ UNCHANGED <<now, world, lobster, files, bridge, histories>>

-----------------------------------------------------------------------------
(* Recovery verification *)

LastAttempt(s) == s.remediationAttempts[Len(s.remediationAttempts)]

\* verify-recovery and verify-negative-recovery read the record for the time
\* the attempt finished at.
BeginVerify(target) ==
    /\ command.at = "idle"
    /\ target \in resume
    /\ ValidIncident(incident)
    /\ incident.remediationAttempts # <<>>
    /\ LastAttempt(incident).key = KeyOf[target]
    /\ LastAttempt(incident).status = "succeeded"
    /\ command' = [Idle EXCEPT !.at = "verify", !.state = incident,
                               !.target = {target}]
    /\ UNCHANGED <<incident, now, world, lobster, files, bridge, histories>>

\* buildVerifyDeploymentRecoveryToolGateDecision lets a call pass.
VerificationPasses(s, target, notBefore) ==
    /\ ValidIncident(s)
    /\ s.approvalStatus = "approved"
    /\ s.stage = "recovery_check"
    /\ s.remediationAttempts # <<>>
    /\ LastAttempt(s).key = KeyOf[target]
    /\ LastAttempt(s).status = "succeeded"
    /\ LastAttempt(s).target = target
    /\ LastAttempt(s).finishedAt = notBefore
    /\ ConfigResolves(config)
    /\ target.cluster \in config.clusterId
    /\ RecoveryPolicies(config, target.name) # {}

NotBefore(c) == LastAttempt(c.state).finishedAt

\* The gate, and the tool as far as its first await: checkedAt is fixed before
\* anything is read.
InvokeVerification ==
    /\ command.at = "verify"
    /\ \A target \in command.target :
          VerificationPasses(incident, target, NotBefore(command))
    /\ now >= NotBefore(command)
    /\ command' = [command EXCEPT !.at = "query", !.time = now]
    /\ UNCHANGED <<incident, now, world, lobster, files, bridge, histories>>

QueryMetric ==
    /\ command.at = "query"
    /\ ClientConnects(config)
    /\ command' = [command EXCEPT !.at = "inspect", !.sample = sample]
    /\ UNCHANGED <<incident, now, world, lobster, files, bridge, histories>>

\* The Deployment is read last.  Without a recovery the command asks again.
InspectDeployment ==
    /\ command.at = "inspect"
    /\ \E target \in command.target :
       \E policy \in RecoveryPolicies(config, target.name) :
          /\ target.name = LiveName
          /\ command' = IF Recovered(live, command.sample, policy, KeyOf[target],
                                     target, NotBefore(command), command.time)
                        THEN [command EXCEPT !.at = "describe", !.live = {live}]
                        ELSE [command EXCEPT !.at = "verify", !.time = 0,
                                             !.sample = NoSample]
    /\ UNCHANGED <<incident, now, world, lobster, files, bridge, histories>>

\* Mutant: the result is put into the record the poll began with.
RecordOfTheStart(c) == c.state

\* persistDeploymentRecoveryVerification reads the record again.
RecordToComplete(c) == incident

DescribeForCompletion ==
    /\ command.at = "describe"
    /\ LET s == RecordToComplete(command)
       IN  /\ \A target \in command.target :
                 /\ CanVerifyRecovery(s, KeyOf[target], command.time)
                 /\ LastAttempt(s).target = target
                 /\ LastAttempt(s).finishedAt = NotBefore(command)
           /\ command' = [command EXCEPT !.at = "patch", !.state = s]
    /\ NoteCommandSnapshot
    /\ UNCHANGED <<incident, now, world, lobster, files, bridge>>

PersistCompletion ==
    /\ command.at = "patch"
    /\ LET next == RecordRecoveryCheck(command.state, TRUE, command.time)
       IN  /\ incident' = next
           /\ command' = [command EXCEPT !.at = "readback", !.state = next]
    /\ basis' = {[sample |-> command.sample, live |-> seen] : seen \in command.live}
    /\ UNCHANGED <<now, world, lobster, files, bridge, answers, acknowledged,
                   patched, announced, overlapped>>

\* Mutant: what was written is taken to be there.
AssumesWritten(c) == TRUE

IsThere(c) == incident = c.state

\* The entry returns only what it reads back.
ReadBack ==
    /\ command.at = "readback"
    /\ IsThere(command)
    /\ announced' = TRUE
    /\ command' = Idle
    /\ UNCHANGED <<incident, now, world, lobster, files, bridge, answers,
                   acknowledged, patched, basis, overlapped>>

-----------------------------------------------------------------------------
(* The other parties *)

Tick ==
    /\ now < MaxTime
    /\ now' = now + 1
    /\ UNCHANGED <<incident, world, lobster, command, files, bridge, histories>>

\* The bridge reads the record (MaxCount bounds how often it is asked to) ...
DescribeForDelivery(d) ==
    /\ bridge = <<>>
    /\ ValidDelivery(d)
    /\ incident.deliveryCount < MaxCount
    /\ bridge' = <<[delivery |-> d, state |-> incident]>>
    /\ overlapped' = (overlapped \/ Holds(command))
    /\ UNCHANGED <<incident, now, world, lobster, command, files, answers,
                   acknowledged, patched, basis, announced>>

\* ... and patches what the reducer makes of it.
PatchDelivery ==
    /\ bridge # <<>>
    /\ LET d == bridge[1].delivery
           s == bridge[1].state
           applied == Decision(s, d) \in {"updated", "duplicate", "stale_refire"}
       IN  /\ incident' = IF applied THEN Reduced(s, d) ELSE incident
           /\ acknowledged' = IF applied THEN acknowledged \cup {DeliveryId(d)}
                                         ELSE acknowledged
    /\ bridge' = <<>>
    /\ UNCHANGED <<now, world, lobster, command, files, answers, patched, basis,
                   announced, overlapped>>

\* The server has stamped the delivery before it waited for its turn.
ReceiveDelivery ==
    \E receipt \in 0..now :
       \/ DescribeForDelivery(FiringAt(receipt))
       \/ \E end \in Endings :
             /\ end <= receipt
             /\ DescribeForDelivery([FiringAt(receipt) EXCEPT
                                        !.alertStatus = "resolved", !.endsAt = end])

\* Somebody else's request to Lobster, with whatever token they have, at the
\* gate ...
OtherAdmitted(caller, key, approve) ==
    LET request == ResumeRequest(caller, key, approve)
    IN  /\ LobsterResumePasses(request, paused)
        /\ admitted' = admitted \cup {request}
        /\ UNCHANGED <<incident, now, world, paused, command, files, bridge,
                       histories>>

\* ... and behind it
OtherResume(request) ==
    /\ request \in admitted
    /\ CarryOut(request)
    /\ UNCHANGED <<incident, now, world, command, files, bridge, acknowledged,
                   patched, basis, announced, overlapped>>

Scrape(value) ==
    /\ sample' = [value |-> value, at |-> now]
    /\ UNCHANGED <<incident, now, config, live, lobster, command, files, bridge,
                   histories>>

MayChange == QuietUntilPatched => patched # {}

\* People deploy or scale.
Edit(edited) ==
    /\ MayChange
    /\ live.generation < MaxGeneration
    /\ edited # live
    /\ live' = [edited EXCEPT !.generation = @ + 1]
    /\ UNCHANGED <<incident, now, config, sample, lobster, command, files, bridge,
                   histories>>

\* The controller writes the status of the spec it has in hand.
UpdateStatus(updated, available) ==
    /\ MayChange
    /\ updated <= live.desired /\ available <= live.desired
    /\ live' = [live EXCEPT !.status =
                   [observed |-> live.generation, updated |-> updated,
                    available |-> available,
                    unavailable |-> live.desired - available,
                    of |-> live.template]]
    /\ UNCHANGED <<incident, now, config, sample, lobster, command, files, bridge,
                   histories>>

-----------------------------------------------------------------------------
Init ==
    /\ incident = FirstRecord
    /\ now = 0
    /\ config \in ConfigsTried
    /\ live = FirstLive
    /\ sample = NoSample
    /\ paused = Leftovers
    /\ command = Idle
    /\ admitted = {}
    /\ resume = {}
    /\ ambiguous = FALSE
    /\ bridge = <<>>
    /\ answers = {}
    /\ acknowledged = {DeliveryId(FiringAt(0))}
    /\ patched = {}
    /\ basis = {}
    /\ announced = FALSE
    /\ overlapped = FALSE

CommandStep ==
    \/ \E target \in Targets : \/ BeginPrepare(target) \/ BeginOffTarget(target)
                               \/ Rollback(target)
                               \/ BeginVerify(target)
    \/ QueryEvidence \/ PersistEvidence \/ PersistProposal
    \/ EnterAuthorization \/ RunLobster
    \/ \E approve \in BOOLEAN : AdmitResume(approve)
    \/ ResumeLobster
    \/ PersistDecision \/ PersistStart \/ WriteResume \/ WriteAmbiguous
    \/ BeginReconcile \/ \E readable \in BOOLEAN : ReadOutcome(readable)
    \/ PersistReconciled
    \/ InvokeVerification \/ QueryMetric \/ InspectDeployment
    \/ DescribeForCompletion \/ PersistCompletion \/ ReadBack
    \/ Fail

OtherStep ==
    \/ Tick \/ ReceiveDelivery \/ PatchDelivery
    \/ \E caller \in Callers, key \in StateKeys, approve \in BOOLEAN :
          OtherAdmitted(caller, key, approve)
    \/ \E request \in admitted : OtherResume(request)
    \/ \E value \in SampleValues : Scrape(value)
    \/ \E template \in Templates : Edit([live EXCEPT !.template = template])
    \/ \E replicas \in 0..MaxReplicas : Edit([live EXCEPT !.desired = replicas])
    \/ \E updated, available \in 0..MaxReplicas : UpdateStatus(updated, available)

Next == CommandStep \/ OtherStep

Spec == Init /\ [][Next]_vars

-----------------------------------------------------------------------------
(* Properties *)

\* Whatever a command, the bridge or Lobster leaves behind has the shape the
\* other parties expect.
TypeOK ==
    /\ incident \in Incidents
    /\ now \in Time
    /\ config \in ConfigsTried
    /\ live \in LiveDeployments
    /\ sample \in Samples
    /\ paused \subseteq PausedRuns
    /\ command \in Commands
    /\ admitted \subseteq ResumeRequests
    /\ resume \subseteq Targets
    /\ ambiguous \in BOOLEAN
    /\ bridge = <<>> \/ /\ bridge[1].delivery \in Deliveries
                        /\ bridge[1].state \in Incidents
    /\ answers \subseteq [run : PausedRuns, caller : Callers, approve : BOOLEAN]
    /\ acknowledged \subseteq DeliveryIds
    /\ patched \subseteq Targets
    /\ {announced, overlapped} \subseteq BOOLEAN

\* However old the snapshots and timestamps the writers computed with, the
\* next reader decodes the record.
RecordAlwaysDecodes == ValidIncident(incident)

\* Lobster goes on with the incident workflow only, in its own root, about
\* what its prepare step was about, and on an operator's word, whatever
\* paused runs other pipelines left in the directory they share.
OnlyTheIncidentWorkflowResumes ==
    PolicyEnabled =>
        \A a \in answers : /\ a.caller = "operator"
                           /\ a.run.file = IncidentWorkflow
                           /\ a.run.root = GuardianRoot
                           /\ a.run.prepared = a.run.alertId

HumanApproved ==
    \E a \in answers : a.approve /\ a.run = PausedRun(RunRequest, Key)

\* An attempt is stored, and a Deployment changed, only after a human has
\* approved this occurrence in Lobster: not after a denial, not from a
\* command that died, and not from a record an older writer brought back.
AttemptsWereApproved ==
    incident.remediationAttempts # <<>> \/ patched # {} => HumanApproved

\* What may be done: what the file names, and what the command that has stored
\* its attempt still holds.
Authorised == resume \cup (IF command.at = "started" THEN command.target ELSE {})

\* The session with all its snapshots keeps the promise of GatedRemediation:
\* only a change on record as authorised is made, after a person has agreed,
\* and completion is reported for such a change alone, as the record has it.
Promise == INSTANCE GatedRemediation WITH
    Changes <- Targets, approved <- HumanApproved, authorised <- Authorised,
    changed <- patched, recorded <- incident.stage = "completed",
    completed <- announced

PromiseKept == Promise!Spec

\* An incident is completed only on a Deployment whose controller had rolled
\* out the template of the rollback that this incident made, not on what an
\* earlier rollout left in the status.
CompletedOnItsRollout ==
    incident.stage = "completed" =>
        /\ basis # {}
        /\ \A b \in basis :
              LET attempt == LastAttempt(incident) IN
              /\ b.live.audit = {[key |-> attempt.key, target |-> attempt.target]}
              /\ b.live.status.of = attempt.target.toTemplate
              /\ b.live.status.available > 0

\* ... and only on a sample taken after the attempt had finished that passes
\* the administrator's threshold for its target.
CompletedOnFreshMetric ==
    incident.stage = "completed" =>
        /\ basis # {}
        /\ \A b \in basis :
              /\ b.sample.at >= LastAttempt(incident).finishedAt
              /\ \E policy \in RecoveryPolicies(config, LastAttempt(incident).target.name) :
                    MeetsThreshold(b.sample.value, policy)

RecordedIds ==
    {incident.recentDeliveryIds[i] : i \in DOMAIN incident.recentDeliveryIds}

\* Without compare-and-swap a write can undo another one.  It does so only
\* in the windows the code leaves open: between a bridge's read and its
\* patch, while a command holds the snapshot it will write back.  As long as
\* those two never meet, every acknowledged delivery stays recorded while
\* recentDeliveryIds has room for them all, and an announced completion stays
\* completed, through any polling in between.
NothingLostWithoutOverlap ==
    ~overlapped =>
        /\ Cardinality(acknowledged) <= MaxRecentDeliveryIds =>
              acknowledged \subseteq RecordedIds
        /\ announced => incident.stage = "completed"
=============================================================================
