----------------------- MODULE RemediationSessionProofs -----------------------
(***************************************************************************)
(* Theorems about one incident session with all its writers, for every     *)
(* configuration, any targets, paused runs and clocks.                     *)
(***************************************************************************)
EXTENDS RemediationSession, IncidentOperatorLemmas

-----------------------------------------------------------------------------
(* Constants, and what the first record is *)

\* The constants as the assumptions give them.
LEMMA SessionConstants ==
    /\ Fingerprint \in Fingerprints /\ Alert \in AlertIds
    /\ PausedRun(RunRequest, Key) \in PausedRuns
    /\ Key \in StateKeys
    /\ Targets \subseteq RollbackTargets
    /\ \A target \in Targets : /\ KeyOf[target] \in Keys
                               /\ AuditOf(target) \in [key : Keys, target : Targets]
                               /\ target.toTemplate \in Templates
    /\ Leftovers \subseteq PausedRuns
    /\ DegradedValue \in SampleValues
    /\ MaxGeneration \in Nat \ {0} /\ MaxReplicas \in Nat \ {0}
    /\ FirstTemplate \in Templates /\ FirstUid \in Uids
    /\ Endings \subseteq Time
BY RemediationSessionAssumption, LobsterGateAssumption
   DEF PausedRun, RunRequest, PausedRuns, AllowedRemediationActions, AuditOf,
       RollbackTargets

\* The firing delivery of the occurrence, whenever it is received.
LEMMA FiringAtType ==
    ASSUME NEW t \in Time
    PROVE  FiringAt(t) \in Deliveries
BY SessionConstants, ConstantTypes DEF FiringAt, Deliveries, Time

\* The record the bridge creates, and the command that has not begun.
LEMMA FirstTypes ==
    /\ FirstRecord \in Incidents
    /\ FirstRecord.approvalStatus = "not_requested"
    /\ FirstRecord.remediationAttempts = <<>>
    /\ NoSample \in Samples
    /\ Idle \in Commands
    /\ DeliveryId(FiringAt(0)) \in DeliveryIds
<1>1. 0 \in Time
  BY ConstantTypes DEF Time
<1>2. FiringAt(0) \in Deliveries
  BY <1>1, FiringAtType
<1>3. FirstRecord \in Incidents
  BY <1>2, CreateIncidentType DEF FirstRecord
<1>4. /\ FirstRecord.approvalStatus = "not_requested"
      /\ FirstRecord.remediationAttempts = <<>>
  BY DEF FirstRecord, CreateIncident
<1>5. NoSample \in Samples
  BY <1>1, SessionConstants DEF NoSample, Samples
<1>6. Idle \in Commands
  BY <1>1, <1>3, <1>5 DEF Idle, Commands, Locations
<1>7. DeliveryId(FiringAt(0)) \in DeliveryIds
  BY <1>2, DeliveryIdType
<1> QED BY <1>3, <1>4, <1>5, <1>6, <1>7

-----------------------------------------------------------------------------
(* Type correctness *)

\* A command that reconciles holds a record with an attempt in flight.
SettlesRunning ==
    command.at \in {"reconcile", "settle"} => HasRunningAttempt(command.state)

TypeInv == TypeOK /\ SettlesRunning

\* The initial state has its type.
LEMMA InitTypeInv == Init => TypeInv
<1> SUFFICES ASSUME Init PROVE TypeInv
  OBVIOUS
<1>1. incident \in Incidents /\ sample \in Samples /\ command \in Commands
  BY FirstTypes DEF Init
<1>2. now \in Time /\ config \in ConfigsTried
  BY ConstantTypes DEF Init, Time
<1>3. live \in LiveDeployments
  <2>1. [observed |-> 1, updated |-> MaxReplicas, available |-> MaxReplicas,
         unavailable |-> 0, of |-> FirstTemplate] \in Statuses
    BY SessionConstants DEF Statuses
  <2>2. 1 \in 1..MaxGeneration /\ MaxReplicas \in 0..MaxReplicas
    BY SessionConstants
  <2> QED BY <2>1, <2>2, SessionConstants DEF Init, FirstLive, LiveDeployments
<1>4. /\ paused \subseteq PausedRuns /\ resume \subseteq Targets
      /\ admitted = {} /\ ambiguous \in BOOLEAN
      /\ bridge = <<>> /\ answers = {} /\ patched = {}
      /\ acknowledged \subseteq DeliveryIds
      /\ {announced, overlapped} \subseteq BOOLEAN
  BY SessionConstants, FirstTypes DEF Init
<1>5. SettlesRunning
  BY DEF Init, SettlesRunning, Idle
<1> QED BY <1>1, <1>2, <1>3, <1>4, <1>5 DEF TypeOK, TypeInv

\* The steps of a command up to the human's answer.
LEMMA PreparationType ==
    ASSUME TypeInv,
           \/ \E target \in Targets : BeginPrepare(target) \/ BeginOffTarget(target)
           \/ QueryEvidence \/ PersistEvidence \/ PersistProposal
           \/ EnterAuthorization \/ RunLobster \/ Fail
    PROVE  TypeInv'
<1> USE DEF TypeInv, TypeOK, SettlesRunning, world, histories, files, lobster
<1>1. ASSUME NEW target \in Targets, Begin(target) PROVE TypeInv'
  <2>1. command' \in Commands /\ command'.at = "collect"
    BY <1>1, FirstTypes DEF Begin, Idle, Commands, Locations
  <2> QED BY <1>1, <2>1 DEF Begin, NoteCommandSnapshot
<1>2. CASE QueryEvidence
  <2>1. command' \in Commands /\ command'.at = "collected"
    BY <1>2 DEF QueryEvidence, Commands, Locations
  <2> QED BY <1>2, <2>1 DEF QueryEvidence
<1>3. CASE PersistEvidence
  <2> DEFINE next == RecordMetricEvidence(command.state, TRUE, command.sample.at)
  <2>1. next \in Incidents
    BY EvidenceAndProposalType DEF Commands, Samples
  <2> HIDE DEF next
  <2>2. /\ incident' = next
        /\ command' = [command EXCEPT !.at = "propose", !.state = next,
                                      !.sample = NoSample]
    BY <1>3 DEF PersistEvidence, next
  <2>3. command' \in Commands /\ command'.at = "propose"
    BY <2>1, <2>2, FirstTypes DEF Commands, Locations
  <2> QED BY <1>3, <2>1, <2>2, <2>3 DEF PersistEvidence
<1>4. CASE PersistProposal
  <2> DEFINE next == RecordRemediationProposal(command.state, now)
  <2>1. next \in Incidents
    BY EvidenceAndProposalType DEF Commands
  <2> HIDE DEF next
  <2>2. /\ incident' = next
        /\ \/ command' = [command EXCEPT !.at = "authorize", !.state = next]
           \/ command' = Idle
    BY <1>4 DEF PersistProposal, next
  <2>3. command' \in Commands /\ command'.at \in {"authorize", "idle"}
    BY <2>1, <2>2, FirstTypes DEF Commands, Locations, Idle
  <2> QED BY <1>4, <2>1, <2>2, <2>3 DEF PersistProposal
<1>5. CASE EnterAuthorization
  <2>1. command' \in Commands /\ command'.at = "run"
    BY <1>5 DEF EnterAuthorization, Commands, Locations
  <2>2. incident' \in Incidents
    BY <1>5 DEF EnterAuthorization, Commands
  <2> QED BY <1>5, <2>1, <2>2 DEF EnterAuthorization
<1>6. CASE RunLobster
  <2>1. command' \in Commands /\ command'.at = "resume"
    BY <1>6 DEF RunLobster, Commands, Locations
  <2>2. paused' \subseteq PausedRuns
    BY <1>6, SessionConstants DEF RunLobster
  <2> QED BY <1>6, <2>1, <2>2 DEF RunLobster
<1>7. CASE Fail
  <2>1. command' \in Commands /\ command'.at = "idle"
    BY <1>7, FirstTypes DEF Fail, Idle
  <2> QED BY <1>7, <2>1 DEF Fail
<1> QED BY <1>1, <1>2, <1>3, <1>4, <1>5, <1>6, <1>7 DEF BeginPrepare, BeginOffTarget

\* What is asked of Lobster is a request.
LEMMA ResumeRequestType ==
    ASSUME NEW caller \in Callers, NEW key \in StateKeys, NEW approve \in BOOLEAN
    PROVE  ResumeRequest(caller, key, approve) \in ResumeRequests
BY DEF ResumeRequest, ResumeRequests

\* Lobster uses up one of the states it keeps, for whoever asks.
LEMMA CarryOutType ==
    ASSUME TypeOK, NEW request \in ResumeRequests, CarryOut(request)
    PROVE  /\ paused' \subseteq PausedRuns
           /\ admitted' \subseteq ResumeRequests
           /\ answers' \subseteq [run : PausedRuns, caller : Callers,
                                  approve : BOOLEAN]
<1>1. PICK run \in paused :
         /\ paused' = paused \ {run}
         /\ answers' = answers \cup {[run |-> run, caller |-> request.caller,
                                      approve |-> request.approve]}
  BY DEF CarryOut
<1>2. request.caller \in Callers /\ request.approve \in BOOLEAN
  BY DEF ResumeRequests
<1>3. admitted' \subseteq admitted
  BY DEF CarryOut
<1> QED BY <1>1, <1>2, <1>3 DEF TypeOK

\* The human's answer, and what the command makes of it.
LEMMA AuthorizationType ==
    ASSUME TypeInv,
           \/ \E approve \in BOOLEAN : AdmitResume(approve)
           \/ ResumeLobster
           \/ PersistDecision \/ PersistStart \/ WriteResume \/ WriteAmbiguous
    PROVE  TypeInv'
<1> USE DEF TypeInv, TypeOK, SettlesRunning, world, histories, files, lobster
<1>0. ASSUME NEW approve \in BOOLEAN, AdmitResume(approve) PROVE TypeInv'
  <2>1. command' \in Commands /\ command'.at = "admitted"
    BY <1>0 DEF AdmitResume, Commands, Locations
  <2> QED BY <1>0, <2>1 DEF AdmitResume
<1>1. CASE ResumeLobster
  <2>1. command' \in Commands /\ command'.at = "decide"
    BY <1>1 DEF ResumeLobster, Commands, Locations
  <2>2. /\ paused' \subseteq PausedRuns /\ admitted' \subseteq ResumeRequests
        /\ answers' \subseteq [run : PausedRuns, caller : Callers,
                               approve : BOOLEAN]
    <3>1. /\ CarryOut(ResumeRequest("operator", Key, command.answer))
          /\ command.answer \in BOOLEAN
      BY <1>1 DEF ResumeLobster, Commands
    <3>2. ResumeRequest("operator", Key, command.answer) \in ResumeRequests
      BY <3>1, SessionConstants DEF ResumeRequest, ResumeRequests, Callers
    <3> QED BY <3>1, <3>2, CarryOutType
  <2> QED BY <1>1, <2>1, <2>2 DEF ResumeLobster
<1>2. CASE PersistDecision
  <2> DEFINE next == RecordApprovalDecision(command.state, Decided(command),
                                            command.time)
  <2>1. next \in Incidents
    BY DecisionAndCheckType DEF Commands, Decided
  <2> HIDE DEF next
  <2>2. /\ incident' = next
        /\ \/ command' = [command EXCEPT !.at = "start", !.state = next]
           \/ command' = Idle
    BY <1>2 DEF PersistDecision, next
  <2>3. command' \in Commands /\ command'.at \in {"start", "idle"}
    BY <2>1, <2>2, FirstTypes DEF Commands, Locations, Idle
  <2> QED BY <1>2, <2>1, <2>2, <2>3 DEF PersistDecision
<1>3. CASE PersistStart
  <2>1. PICK target \in command.target :
           /\ incident' = BeginAttempt(command.state, KeyOf[target], target,
                                       command.time)
           /\ command' = [Idle EXCEPT !.at = "started", !.target = {target}]
    BY <1>3 DEF PersistStart
  <2>2. /\ target \in Targets /\ KeyOf[target] \in Keys
        /\ command.state \in Incidents /\ command.time \in Time
    BY SessionConstants DEF Commands
  <2>3. incident' \in Incidents
    BY <2>1, <2>2, BeginAttemptType
  <2>4. command' \in Commands /\ command'.at = "started"
    BY <2>1, <2>2, FirstTypes DEF Idle, Commands, Locations
  <2> QED BY <1>3, <2>2, <2>3, <2>4 DEF PersistStart
<1>4. CASE WriteResume \/ WriteAmbiguous
  <2>0. command' = Idle
    BY <1>4 DEF WriteResume, WriteAmbiguous
  <2>1. command' \in Commands /\ command'.at = "idle"
    BY <2>0, FirstTypes DEF Idle
  <2>2. resume' \subseteq Targets /\ ambiguous' \in BOOLEAN
    BY <1>4 DEF WriteResume, WriteAmbiguous, Commands
  <2> QED BY <1>4, <2>1, <2>2 DEF WriteResume, WriteAmbiguous
<1> QED BY <1>0, <1>1, <1>2, <1>3, <1>4

\* The rollback leaves a Deployment.
LEMMA RollbackType ==
    ASSUME TypeInv, NEW target \in Targets, Rollback(target)
    PROVE  TypeInv'
<1> USE DEF TypeInv, TypeOK, SettlesRunning, world, histories, files, lobster
<1>1. live' \in LiveDeployments
  <2>1. CASE target.name # LiveName
    BY <2>1 DEF Rollback
  <2>2. CASE target.name = LiveName
    <3> DEFINE generation == live.generation + 1
               audit == {AuditOf(target)}
    <3>1. generation \in 1..MaxGeneration
      BY <2>2, SessionConstants DEF Rollback, LiveDeployments
    <3>2. audit \subseteq [key : Keys, target : Targets]
      BY SessionConstants
    <3>3. live' = [live EXCEPT !.template = target.toTemplate, !.audit = audit,
                               !.generation = generation]
      BY <2>2 DEF Rollback
    <3> HIDE DEF generation, audit
    <3> QED BY <3>1, <3>2, <3>3, SessionConstants DEF LiveDeployments
  <2> QED BY <2>1, <2>2
<1>2. patched' \subseteq Targets
  BY DEF Rollback
<1> QED BY <1>1, <1>2 DEF Rollback

\* Reconciliation writes the record with its attempt settled, or blocked.
LEMMA ReconciliationType ==
    ASSUME TypeInv,
           \/ BeginReconcile \/ PersistReconciled
           \/ \E readable \in BOOLEAN : ReadOutcome(readable)
    PROVE  TypeInv'
<1> USE DEF TypeInv, TypeOK, SettlesRunning, world, histories, files, lobster
<1>1. CASE BeginReconcile
  <2>1. /\ command' = [Idle EXCEPT !.at = "reconcile", !.state = incident,
                                   !.time = now]
        /\ HasRunningAttempt(incident)
    BY <1>1 DEF BeginReconcile
  <2>2. command' \in Commands /\ command'.state = incident
    BY <2>1, FirstTypes DEF Idle, Commands, Locations
  <2> QED BY <1>1, <2>1, <2>2 DEF BeginReconcile, NoteCommandSnapshot
<1>2. CASE PersistReconciled
  <2>1. incident' \in Incidents
    <3>1. /\ command.state \in Incidents /\ command.time \in Time
          /\ HasRunningAttempt(command.state)
      BY <1>2 DEF PersistReconciled, Commands
    <3>2. /\ SettleAttempt(command.state, "succeeded", command.time) \in Incidents
          /\ BlockForManualReview(command.state, command.time) \in Incidents
      BY <3>1, WithAttemptSettledType, DecisionAndCheckType DEF SettleAttempt
    <3> QED BY <1>2, <3>2 DEF PersistReconciled
  <2>2. command' \in Commands /\ command'.at = "idle"
    BY <1>2, FirstTypes DEF PersistReconciled, Idle
  <2> QED BY <1>2, <2>1, <2>2 DEF PersistReconciled
<1>3. ASSUME NEW readable \in BOOLEAN, ReadOutcome(readable) PROVE TypeInv'
  <2> DEFINE outcome == readable /\ RollbackConfirmed(
                 command.state.remediationAttempts[RunningIndex(command.state)])
  <2>1. outcome \in BOOLEAN
    BY DEF RollbackConfirmed
  <2>2. command' = [command EXCEPT !.at = "settle", !.answer = outcome]
    BY <1>3 DEF ReadOutcome
  <2> HIDE DEF outcome
  <2>3. command' \in Commands /\ command'.state = command.state
    BY <2>1, <2>2 DEF Commands, Locations
  <2>4. command.at = "reconcile"
    BY <1>3 DEF ReadOutcome
  <2> QED BY <1>3, <2>3, <2>4 DEF ReadOutcome
<1> QED BY <1>1, <1>2, <1>3

\* Verification, with its snapshot and its read-back.
LEMMA VerificationType ==
    ASSUME TypeInv,
           \/ \E target \in Targets : BeginVerify(target)
           \/ InvokeVerification \/ QueryMetric \/ InspectDeployment
           \/ DescribeForCompletion \/ PersistCompletion \/ ReadBack
    PROVE  TypeInv'
<1> USE DEF TypeInv, TypeOK, SettlesRunning, world, histories, files, lobster
<1>1. ASSUME NEW target \in Targets, BeginVerify(target) PROVE TypeInv'
  <2>1. command' \in Commands /\ command'.at = "verify"
    BY <1>1, FirstTypes DEF BeginVerify, Idle, Commands, Locations
  <2> QED BY <1>1, <2>1 DEF BeginVerify
<1>2. CASE InvokeVerification
  <2>1. command' \in Commands /\ command'.at = "query"
    BY <1>2 DEF InvokeVerification, Commands, Locations
  <2> QED BY <1>2, <2>1 DEF InvokeVerification
<1>3. CASE QueryMetric
  <2>1. command' \in Commands /\ command'.at = "inspect"
    BY <1>3 DEF QueryMetric, Commands, Locations
  <2> QED BY <1>3, <2>1 DEF QueryMetric
<1>4. CASE InspectDeployment
  <2>1. \/ command' = [command EXCEPT !.at = "describe", !.live = {live}]
        \/ command' = [command EXCEPT !.at = "verify", !.time = 0,
                                      !.sample = NoSample]
    BY <1>4 DEF InspectDeployment
  <2>2. 0 \in Time
    BY ConstantTypes DEF Time
  <2>3. command' \in Commands /\ command'.at \in {"describe", "verify"}
    <3>1. CASE command' = [command EXCEPT !.at = "describe", !.live = {live}]
      BY <3>1 DEF Commands, Locations
    <3>2. CASE command' = [command EXCEPT !.at = "verify", !.time = 0,
                                          !.sample = NoSample]
      BY <2>2, <3>2, FirstTypes DEF Commands, Locations
    <3> QED BY <2>1, <3>1, <3>2
  <2> QED BY <1>4, <2>3 DEF InspectDeployment
<1>5. CASE DescribeForCompletion
  <2>1. command' = [command EXCEPT !.at = "patch", !.state = incident]
    BY <1>5 DEF DescribeForCompletion, RecordToComplete
  <2>2. command' \in Commands /\ command'.at = "patch"
    BY <2>1 DEF Commands, Locations
  <2> QED BY <1>5, <2>2 DEF DescribeForCompletion, NoteCommandSnapshot
<1>6. CASE PersistCompletion
  <2> DEFINE next == RecordRecoveryCheck(command.state, TRUE, command.time)
  <2>1. next \in Incidents
    BY DecisionAndCheckType DEF Commands
  <2> HIDE DEF next
  <2>2. /\ incident' = next
        /\ command' = [command EXCEPT !.at = "readback", !.state = next]
    BY <1>6 DEF PersistCompletion, next
  <2>3. command' \in Commands /\ command'.at = "readback"
    BY <2>1, <2>2 DEF Commands, Locations
  <2> QED BY <1>6, <2>1, <2>2, <2>3 DEF PersistCompletion
<1>7. CASE ReadBack
  <2>1. command' \in Commands /\ command'.at = "idle"
    BY <1>7, FirstTypes DEF ReadBack, Idle
  <2> QED BY <1>7, <2>1 DEF ReadBack
<1> QED BY <1>1, <1>2, <1>3, <1>4, <1>5, <1>6, <1>7

\* The bridge takes a snapshot of the record, and patches a record.
LEMMA BridgeType ==
    ASSUME TypeInv, ReceiveDelivery \/ PatchDelivery
    PROVE  TypeInv'
<1> USE DEF TypeInv, TypeOK, SettlesRunning, world, histories, files, lobster
<1>1. ASSUME NEW d \in Deliveries, DescribeForDelivery(d) PROVE TypeInv'
  <2>1. bridge'[1].delivery \in Deliveries /\ bridge'[1].state \in Incidents
    BY <1>1 DEF DescribeForDelivery
  <2> QED BY <1>1, <2>1 DEF DescribeForDelivery
<1>2. CASE ReceiveDelivery
  <2>1. ASSUME NEW receipt \in 0..now PROVE FiringAt(receipt) \in Deliveries
    <3>1. receipt \in Time
      BY ConstantTypes DEF Time
    <3> QED BY <3>1, FiringAtType
  <2>2. ASSUME NEW receipt \in 0..now, NEW end \in Endings
        PROVE  [FiringAt(receipt) EXCEPT !.alertStatus = "resolved", !.endsAt = end]
                  \in Deliveries
    BY <2>1, SessionConstants, ConstantTypes DEF Deliveries
  <2> QED BY <1>1, <1>2, <2>1, <2>2 DEF ReceiveDelivery
<1>3. CASE PatchDelivery
  <2> DEFINE d == bridge[1].delivery
             s == bridge[1].state
  <2>1. d \in Deliveries /\ s \in Incidents
    BY <1>3 DEF PatchDelivery
  <2>2. Reduced(s, d) \in Incidents /\ DeliveryId(d) \in DeliveryIds
    BY <2>1, ReducedType, DeliveryIdType
  <2> HIDE DEF d, s
  <2>3. /\ incident' \in {Reduced(s, d), incident}
        /\ acknowledged' \subseteq acknowledged \cup {DeliveryId(d)}
        /\ bridge' = <<>>
    BY <1>3 DEF PatchDelivery, d, s
  <2> QED BY <1>3, <2>2, <2>3 DEF PatchDelivery
<1> QED BY <1>2, <1>3

\* The clock, Prometheus, other users of Lobster, people and the controller.
LEMMA WorldType ==
    ASSUME TypeInv,
           \/ Tick
           \/ \E caller \in Callers, key \in StateKeys, approve \in BOOLEAN :
                 OtherAdmitted(caller, key, approve)
           \/ \E request \in admitted : OtherResume(request)
           \/ \E value \in SampleValues : Scrape(value)
           \/ \E template \in Templates : Edit([live EXCEPT !.template = template])
           \/ \E replicas \in 0..MaxReplicas : Edit([live EXCEPT !.desired = replicas])
           \/ \E updated, available \in 0..MaxReplicas :
                 UpdateStatus(updated, available)
    PROVE  TypeInv'
<1> USE DEF TypeInv, TypeOK, SettlesRunning, world, histories, files, lobster
<1>1. CASE Tick
  BY <1>1, ConstantTypes DEF Tick, Time
<1>2. ASSUME NEW caller \in Callers, NEW key \in StateKeys,
             NEW approve \in BOOLEAN, OtherAdmitted(caller, key, approve)
      PROVE  TypeInv'
  BY <1>2, ResumeRequestType DEF OtherAdmitted
<1>8. ASSUME NEW request \in admitted, OtherResume(request) PROVE TypeInv'
  BY <1>8, CarryOutType DEF OtherResume
<1>3. ASSUME NEW value \in SampleValues, Scrape(value) PROVE TypeInv'
  BY <1>3 DEF Scrape, Samples
<1>4. ASSUME NEW edited \in LiveDeployments, Edit(edited),
             edited.generation = live.generation
      PROVE  TypeInv'
  <2>1. edited.generation + 1 \in 1..MaxGeneration
    <3>1. live.generation < MaxGeneration /\ edited.generation = live.generation
      BY <1>4 DEF Edit
    <3>2. live.generation \in 1..MaxGeneration /\ MaxGeneration \in Nat
      BY SessionConstants DEF LiveDeployments
    <3> QED BY <3>1, <3>2
  <2>2. live' = [edited EXCEPT !.generation = edited.generation + 1]
    BY <1>4 DEF Edit
  <2>3. live' \in LiveDeployments
    BY <2>1, <2>2 DEF LiveDeployments
  <2> QED BY <1>4, <2>3 DEF Edit
<1>5. ASSUME NEW template \in Templates, Edit([live EXCEPT !.template = template])
      PROVE  TypeInv'
  <2>1. /\ [live EXCEPT !.template = template] \in LiveDeployments
        /\ [live EXCEPT !.template = template].generation = live.generation
    BY DEF LiveDeployments
  <2> QED BY <1>4, <1>5, <2>1
<1>6. ASSUME NEW replicas \in 0..MaxReplicas, Edit([live EXCEPT !.desired = replicas])
      PROVE  TypeInv'
  <2>1. /\ [live EXCEPT !.desired = replicas] \in LiveDeployments
        /\ [live EXCEPT !.desired = replicas].generation = live.generation
    BY DEF LiveDeployments
  <2> QED BY <1>4, <1>6, <2>1
<1>7. ASSUME NEW updated \in 0..MaxReplicas, NEW available \in 0..MaxReplicas,
             UpdateStatus(updated, available)
      PROVE  TypeInv'
  <2> DEFINE status == [observed |-> live.generation, updated |-> updated,
                        available |-> available,
                        unavailable |-> live.desired - available,
                        of |-> live.template]
  <2>1. live.desired - available \in 0..MaxReplicas
    BY <1>7, SessionConstants DEF UpdateStatus, LiveDeployments
  <2>2. status \in Statuses
    BY <2>1 DEF Statuses, LiveDeployments
  <2>3. live' = [live EXCEPT !.status = status]
    BY <1>7 DEF UpdateStatus
  <2> HIDE DEF status
  <2>4. live' \in LiveDeployments
    BY <2>2, <2>3 DEF LiveDeployments
  <2> QED BY <1>7, <2>4 DEF UpdateStatus
<1> QED BY <1>1, <1>2, <1>3, <1>5, <1>6, <1>7, <1>8

\* Every step keeps the types.
LEMMA TypeInvStep == TypeInv /\ [Next]_vars => TypeInv'
<1> SUFFICES ASSUME TypeInv, [Next]_vars PROVE TypeInv'
  OBVIOUS
<1>1. CASE CommandStep
  BY <1>1, PreparationType, AuthorizationType, RollbackType, ReconciliationType,
     VerificationType DEF CommandStep
<1>2. CASE OtherStep
  BY <1>2, BridgeType, WorldType DEF OtherStep
<1>3. CASE UNCHANGED vars
  BY <1>3 DEF vars, world, histories, files, lobster, TypeInv, TypeOK, SettlesRunning
<1> QED BY <1>1, <1>2, <1>3 DEF Next

\* Type correctness, in TypeOK's words: what a command, the bridge or Lobster
\* leaves behind has the shape the other parties expect.
THEOREM SessionTypeCorrect == Spec => []TypeOK
<1>1. Spec => []TypeInv
  BY InitTypeInv, TypeInvStep, PTL DEF Spec
<1>2. TypeInv => TypeOK
  BY DEF TypeInv
<1> QED BY <1>1, <1>2, PTL

-----------------------------------------------------------------------------
(* Approval comes first *)

\* The record bears a trace of an approval.
Approved(s) == s.approvalStatus = "approved" \/ s.remediationAttempts # <<>>

\* No record, snapshot, answer or Deployment bears one.
Untouched ==
    /\ ~Approved(incident)
    /\ ~Approved(command.state)
    /\ bridge # <<>> => ~Approved(bridge[1].state)
    /\ ~(command.at = "decide" /\ command.answer)
    /\ patched = {}

\* The session's key names the session's own run.
KeyIsOurs == \A run \in paused : run.key = Key => run = PausedRun(RunRequest, Key)

ApprovalInv ==
    /\ KeyIsOurs
    /\ HumanApproved \/ Untouched

\* Only an approval makes a record approved, and only an approved record gets
\* an attempt.
LEMMA UnapprovedFunctions ==
    ASSUME NEW s \in Incidents, NEW at, ~Approved(s)
    PROVE  /\ ~Approved(RecordMetricEvidence(s, TRUE, at))
           /\ ~Approved(RecordRemediationProposal(s, at))
           /\ ~Approved(RecordApprovalDecision(s, FALSE, at))
           /\ ~Approved(RecordRecoveryCheck(s, TRUE, at))
           /\ ~Approved(BlockForManualReview(s, at))
           /\ ~HasRunningAttempt(s)
           /\ \A key, target : BeginDecision(s, key, target) # "started"
<1>1. s.approvalStatus # "approved" /\ s.remediationAttempts = <<>>
  BY DEF Approved
<1>2. /\ ~Approved(RecordMetricEvidence(s, TRUE, at))
      /\ ~Approved(RecordApprovalDecision(s, FALSE, at))
      /\ ~Approved(RecordRecoveryCheck(s, TRUE, at))
      /\ ~Approved(BlockForManualReview(s, at))
  BY <1>1 DEF Approved, RecordMetricEvidence, RecordApprovalDecision,
              RecordRecoveryCheck, BlockForManualReview, Incidents
<1>3. ~Approved(RecordRemediationProposal(s, at))
  BY <1>1 DEF Approved, RecordRemediationProposal, Incidents
<1>4. DOMAIN s.remediationAttempts = {}
  BY <1>1
<1>5. ~HasRunningAttempt(s)
  BY <1>4 DEF HasRunningAttempt, RunningAttempts
<1>6. \A key, target : BeginDecision(s, key, target) # "started"
  BY <1>1 DEF BeginDecision
<1> QED BY <1>2, <1>3, <1>5, <1>6

\* A delivery touches neither the approval nor the attempts.
LEMMA ReducedKeepsApproval ==
    ASSUME NEW s \in Incidents, NEW d \in Deliveries
    PROVE  /\ Reduced(s, d).approvalStatus = s.approvalStatus
           /\ Reduced(s, d).remediationAttempts = s.remediationAttempts
<1>1. /\ Counted(s, d) \in Incidents
      /\ Counted(s, d).approvalStatus = s.approvalStatus
      /\ Counted(s, d).remediationAttempts = s.remediationAttempts
  BY CountedType DEF Counted, Incidents
<1>2. /\ Remembered(s, d) \in Incidents
      /\ Remembered(s, d).approvalStatus = s.approvalStatus
      /\ Remembered(s, d).remediationAttempts = s.remediationAttempts
  BY <1>1, RememberedType DEF Remembered, Incidents
<1>3. LET r == [Remembered(s, d) EXCEPT !.alertStatus = d.alertStatus,
                                        !.endsAt      = d.endsAt]
      IN  /\ r.approvalStatus = s.approvalStatus
          /\ r.remediationAttempts = s.remediationAttempts
  BY <1>2 DEF Incidents
<1> QED BY <1>1, <1>2, <1>3 DEF Reduced

\* Lobster's part in a step: answers accumulate, and an approval given for the
\* session's key was given for the session's run.
LEMMA AnswersAccumulate ==
    ASSUME KeyIsOurs, NEW request, CarryOut(request)
    PROVE  /\ answers \subseteq answers'
           /\ paused' \subseteq paused
           /\ request.key = Key /\ request.approve = TRUE => HumanApproved'
<1>1. PICK run \in paused :
         /\ run.key = request.key
         /\ paused' = paused \ {run}
         /\ answers' = answers \cup {[run |-> run, caller |-> request.caller,
                                      approve |-> request.approve]}
  BY DEF CarryOut
<1>2. ASSUME request.key = Key, request.approve = TRUE PROVE HumanApproved'
  <2>1. run = PausedRun(RunRequest, Key)
    BY <1>1, <1>2 DEF KeyIsOurs
  <2> DEFINE answer == [run |-> run, caller |-> request.caller,
                        approve |-> request.approve]
  <2>2. answer \in answers' /\ answer.approve /\ answer.run = run
    BY <1>1, <1>2
  <2> HIDE DEF answer
  <2> QED BY <2>1, <2>2 DEF HumanApproved, PausedRun, RunRequest
<1> QED BY <1>1, <1>2

\* An answer once given is not taken back, whatever the step.
LEMMA HumanApprovedStays ==
    ASSUME HumanApproved, answers \subseteq answers' PROVE HumanApproved'
BY DEF HumanApproved, PausedRun, RunRequest

\* Without a person's yes the steps up to the question leave no trace of one.
LEMMA PreparationUntouched ==
    ASSUME TypeInv, Untouched,
           \/ \E target \in Targets : BeginPrepare(target) \/ BeginOffTarget(target)
           \/ QueryEvidence \/ PersistEvidence \/ PersistProposal
           \/ EnterAuthorization \/ RunLobster \/ Fail
           \/ \E approve \in BOOLEAN : AdmitResume(approve)
    PROVE  Untouched'
<1> USE DEF Untouched, world, histories, files, lobster
<1>0. /\ command.state \in Incidents /\ command \in Commands
      /\ ~Approved(FirstRecord) /\ Idle.at # "decide" /\ Idle.state = FirstRecord
  BY FirstTypes DEF TypeInv, TypeOK, Commands, Approved, Idle
<1>1. ASSUME NEW target \in Targets, Begin(target) PROVE Untouched'
  <2>1. command'.state = incident /\ command'.at = "collect"
    BY <1>1 DEF Begin, Idle
  <2> QED BY <1>1, <2>1 DEF Begin, NoteCommandSnapshot
<1>2. CASE QueryEvidence
  <2>1. command'.state = command.state /\ command'.at = "collected"
    BY <1>0, <1>2 DEF QueryEvidence, Commands
  <2> QED BY <1>2, <2>1 DEF QueryEvidence
<1>3. CASE PersistEvidence
  <2> DEFINE next == RecordMetricEvidence(command.state, TRUE, command.sample.at)
  <2>1. ~Approved(next)
    BY <1>0, UnapprovedFunctions
  <2> HIDE DEF next
  <2>2. /\ incident' = next
        /\ command' = [command EXCEPT !.at = "propose", !.state = next,
                                      !.sample = NoSample]
    BY <1>3 DEF PersistEvidence, next
  <2>3. command'.state = next /\ command'.at = "propose"
    BY <1>0, <2>2 DEF Commands
  <2> QED BY <1>3, <2>1, <2>2, <2>3 DEF PersistEvidence
<1>4. CASE PersistProposal
  <2> DEFINE next == RecordRemediationProposal(command.state, now)
  <2>1. ~Approved(next)
    BY <1>0, UnapprovedFunctions
  <2> HIDE DEF next
  <2>2. /\ incident' = next
        /\ \/ command' = [command EXCEPT !.at = "authorize", !.state = next]
           \/ command' = Idle
    BY <1>4 DEF PersistProposal, next
  <2>3. ~Approved(command'.state) /\ command'.at # "decide"
    BY <1>0, <2>1, <2>2 DEF Commands
  <2> QED BY <1>4, <2>1, <2>2, <2>3 DEF PersistProposal
<1>5. CASE EnterAuthorization
  <2>1. command'.state = command.state /\ command'.at = "run"
    BY <1>0, <1>5 DEF EnterAuthorization, Commands
  <2> QED BY <1>5, <2>1 DEF EnterAuthorization
<1>6. CASE RunLobster
  <2>1. command'.state = command.state /\ command'.at = "resume"
    BY <1>0, <1>6 DEF RunLobster, Commands
  <2> QED BY <1>6, <2>1 DEF RunLobster
<1>7. CASE Fail
  BY <1>0, <1>7 DEF Fail
<1>8. ASSUME NEW approve \in BOOLEAN, AdmitResume(approve) PROVE Untouched'
  <2>1. command'.state = command.state /\ command'.at = "admitted"
    BY <1>0, <1>8 DEF AdmitResume, Commands
  <2> QED BY <1>8, <2>1 DEF AdmitResume
<1> QED BY <1>1, <1>2, <1>3, <1>4, <1>5, <1>6, <1>7, <1>8
        DEF BeginPrepare, BeginOffTarget

\* Nothing after the question happens without a yes: no decision for it, no
\* attempt, no rollback, no settlement and no completion.
LEMMA RemediationUntouched ==
    ASSUME TypeInv, Untouched,
           \/ PersistDecision \/ PersistStart \/ WriteResume \/ WriteAmbiguous
           \/ \E target \in Targets : Rollback(target)
           \/ BeginReconcile \/ PersistReconciled
           \/ \E readable \in BOOLEAN : ReadOutcome(readable)
    PROVE  Untouched'
<1> USE DEF Untouched, world, histories, files, lobster
<1>0. /\ command.state \in Incidents /\ command \in Commands
      /\ incident \in Incidents
      /\ ~Approved(FirstRecord) /\ Idle.at # "decide" /\ Idle.state = FirstRecord
  BY FirstTypes DEF TypeInv, TypeOK, Commands, Approved, Idle
<1>1. CASE PersistDecision
  <2>1. Decided(command) = FALSE
    BY <1>0, <1>1 DEF PersistDecision, Decided, Commands
  <2>2. /\ incident' = RecordApprovalDecision(command.state, FALSE, command.time)
        /\ command' = Idle
    BY <1>1, <2>1 DEF PersistDecision
  <2> QED BY <1>0, <1>1, <2>2, UnapprovedFunctions DEF PersistDecision
<1>2. CASE PersistStart
  BY <1>0, <1>2, UnapprovedFunctions DEF PersistStart
<1>3. ASSUME NEW target \in Targets, Rollback(target) PROVE FALSE
  BY <1>3 DEF Rollback, AttemptRuns, Approved
<1>4. CASE BeginReconcile
  BY <1>0, <1>4, UnapprovedFunctions DEF BeginReconcile
<1>5. CASE PersistReconciled
  BY <1>0, <1>5, UnapprovedFunctions
     DEF PersistReconciled, TypeInv, SettlesRunning
<1>6. ASSUME NEW readable \in BOOLEAN, ReadOutcome(readable) PROVE FALSE
  BY <1>0, <1>6, UnapprovedFunctions DEF ReadOutcome, TypeInv, SettlesRunning
<1>7. CASE WriteResume \/ WriteAmbiguous
  BY <1>0, <1>7 DEF WriteResume, WriteAmbiguous
<1> QED BY <1>1, <1>2, <1>3, <1>4, <1>5, <1>6, <1>7

\* Verification writes no approval into a record either.
LEMMA VerificationUntouched ==
    ASSUME TypeInv, Untouched,
           \/ \E target \in Targets : BeginVerify(target)
           \/ InvokeVerification \/ QueryMetric \/ InspectDeployment
           \/ DescribeForCompletion \/ PersistCompletion \/ ReadBack
    PROVE  Untouched'
<1> USE DEF Untouched, world, histories, files, lobster
<1>0. /\ command.state \in Incidents /\ command \in Commands
      /\ ~Approved(FirstRecord) /\ Idle.at # "decide" /\ Idle.state = FirstRecord
  BY FirstTypes DEF TypeInv, TypeOK, Commands, Approved, Idle
<1>1. ASSUME NEW target \in Targets, BeginVerify(target) PROVE Untouched'
  BY <1>1 DEF BeginVerify, Approved
<1>2. CASE InvokeVerification
  <2>1. command'.state = command.state /\ command'.at = "query"
    BY <1>0, <1>2 DEF InvokeVerification, Commands
  <2> QED BY <1>2, <2>1 DEF InvokeVerification
<1>3. CASE QueryMetric
  <2>1. command'.state = command.state /\ command'.at = "inspect"
    BY <1>0, <1>3 DEF QueryMetric, Commands
  <2> QED BY <1>3, <2>1 DEF QueryMetric
<1>4. CASE InspectDeployment
  <2>1. \/ command' = [command EXCEPT !.at = "describe", !.live = {live}]
        \/ command' = [command EXCEPT !.at = "verify", !.time = 0,
                                      !.sample = NoSample]
    BY <1>4 DEF InspectDeployment
  <2>2. command'.state = command.state /\ command'.at # "decide"
    BY <1>0, <2>1 DEF Commands
  <2> QED BY <1>4, <2>2 DEF InspectDeployment
<1>5. CASE DescribeForCompletion
  <2>1. command' = [command EXCEPT !.at = "patch", !.state = incident]
    BY <1>5 DEF DescribeForCompletion, RecordToComplete
  <2>2. command'.state = incident /\ command'.at = "patch"
    BY <1>0, <2>1 DEF Commands
  <2> QED BY <1>5, <2>2 DEF DescribeForCompletion, NoteCommandSnapshot
<1>6. CASE PersistCompletion
  <2> DEFINE next == RecordRecoveryCheck(command.state, TRUE, command.time)
  <2>1. ~Approved(next)
    BY <1>0, UnapprovedFunctions
  <2> HIDE DEF next
  <2>2. /\ incident' = next
        /\ command' = [command EXCEPT !.at = "readback", !.state = next]
    BY <1>6 DEF PersistCompletion, next
  <2>3. command'.state = next /\ command'.at = "readback"
    BY <1>0, <2>2 DEF Commands
  <2> QED BY <1>6, <2>1, <2>2, <2>3 DEF PersistCompletion
<1>7. CASE ReadBack
  BY <1>0, <1>7 DEF ReadBack
<1> QED BY <1>1, <1>2, <1>3, <1>4, <1>5, <1>6, <1>7

\* Deliveries, other users of Lobster and the cluster write none.
LEMMA OthersUntouched ==
    ASSUME TypeInv, Untouched, OtherStep
    PROVE  Untouched'
<1> USE DEF Untouched, world, histories, files, lobster
<1>1. CASE PatchDelivery
  <2> DEFINE d == bridge[1].delivery
             s == bridge[1].state
  <2>1. d \in Deliveries /\ s \in Incidents /\ ~Approved(s)
    BY <1>1 DEF PatchDelivery, TypeInv, TypeOK
  <2>2. ~Approved(Reduced(s, d))
    BY <2>1, ReducedKeepsApproval DEF Approved
  <2> HIDE DEF d, s
  <2>3. incident' \in {Reduced(s, d), incident} /\ bridge' = <<>>
    BY <1>1 DEF PatchDelivery, d, s
  <2> QED BY <1>1, <2>2, <2>3 DEF PatchDelivery
<1>2. ASSUME NEW d, DescribeForDelivery(d) PROVE Untouched'
  <2>1. bridge'[1].state = incident
    BY <1>2 DEF DescribeForDelivery
  <2> QED BY <1>2, <2>1 DEF DescribeForDelivery
<1>3. CASE ReceiveDelivery
  BY <1>2, <1>3 DEF ReceiveDelivery
<1>4. CASE Tick
  BY <1>4 DEF Tick
<1>5. ASSUME NEW caller, NEW key, NEW approve, OtherAdmitted(caller, key, approve)
      PROVE  Untouched'
  BY <1>5 DEF OtherAdmitted
<1>9. ASSUME NEW request, OtherResume(request) PROVE Untouched'
  BY <1>9 DEF OtherResume
<1>6. ASSUME NEW value, Scrape(value) PROVE Untouched'
  BY <1>6 DEF Scrape
<1>7. ASSUME NEW edited, Edit(edited) PROVE Untouched'
  BY <1>7 DEF Edit
<1>8. ASSUME NEW updated, NEW available, UpdateStatus(updated, available)
      PROVE  Untouched'
  BY <1>8 DEF UpdateStatus
<1> QED BY <1>1, <1>3, <1>4, <1>5, <1>6, <1>7, <1>8, <1>9 DEF OtherStep

\* Lobster's directory and the answers change in three actions only.
LEMMA LobsterFrame ==
    ASSUME [Next]_vars
    PROVE  \/ UNCHANGED <<paused, answers>>
           \/ RunLobster
           \/ ResumeLobster
           \/ \E request \in admitted : OtherResume(request)
<1> USE DEF histories, lobster
<1>1. ASSUME NEW target, BeginPrepare(target) \/ BeginOffTarget(target)
      PROVE  UNCHANGED <<paused, answers>>
  BY <1>1 DEF BeginPrepare, BeginOffTarget, Begin, NoteCommandSnapshot
<1>2. ASSUME NEW target, Rollback(target) PROVE UNCHANGED <<paused, answers>>
  BY <1>2 DEF Rollback
<1>3. ASSUME NEW target, BeginVerify(target) PROVE UNCHANGED <<paused, answers>>
  BY <1>3 DEF BeginVerify
<1>4. CASE QueryEvidence \/ PersistEvidence \/ PersistProposal \/ EnterAuthorization
  BY <1>4 DEF QueryEvidence, PersistEvidence, PersistProposal, EnterAuthorization
<1>5. CASE PersistDecision \/ PersistStart \/ PersistReconciled \/ Fail
  BY <1>5 DEF PersistDecision, PersistStart, PersistReconciled, Fail
<1>17. CASE \/ \E approve \in BOOLEAN : AdmitResume(approve)
            \/ WriteResume \/ WriteAmbiguous
  BY <1>17 DEF AdmitResume, WriteResume, WriteAmbiguous
<1>18. ASSUME NEW caller, NEW key, NEW approve, OtherAdmitted(caller, key, approve)
       PROVE  UNCHANGED <<paused, answers>>
  BY <1>18 DEF OtherAdmitted
<1>6. CASE BeginReconcile \/ \E readable \in BOOLEAN : ReadOutcome(readable)
  BY <1>6 DEF BeginReconcile, ReadOutcome, NoteCommandSnapshot
<1>7. CASE InvokeVerification \/ QueryMetric \/ InspectDeployment
  BY <1>7 DEF InvokeVerification, QueryMetric, InspectDeployment
<1>8. CASE DescribeForCompletion \/ PersistCompletion \/ ReadBack
  BY <1>8 DEF DescribeForCompletion, PersistCompletion, ReadBack,
              NoteCommandSnapshot
<1>9. ASSUME NEW d, DescribeForDelivery(d) PROVE UNCHANGED <<paused, answers>>
  BY <1>9 DEF DescribeForDelivery
<1>10. CASE Tick \/ ReceiveDelivery \/ PatchDelivery
  BY <1>9, <1>10 DEF Tick, ReceiveDelivery, PatchDelivery
<1>11. ASSUME NEW edited, Edit(edited) PROVE UNCHANGED <<paused, answers>>
  BY <1>11 DEF Edit
<1>12. ASSUME NEW value, Scrape(value) PROVE UNCHANGED <<paused, answers>>
  BY <1>12 DEF Scrape
<1>13. ASSUME NEW updated, NEW available, UpdateStatus(updated, available)
       PROVE  UNCHANGED <<paused, answers>>
  BY <1>13 DEF UpdateStatus
<1>14. CASE CommandStep
  BY <1>1, <1>2, <1>3, <1>4, <1>5, <1>6, <1>7, <1>8, <1>14, <1>17 DEF CommandStep
<1>15. CASE OtherStep
  BY <1>10, <1>11, <1>12, <1>13, <1>15, <1>18 DEF OtherStep
<1>16. CASE UNCHANGED vars
  BY <1>16 DEF vars
<1> QED BY <1>14, <1>15, <1>16 DEF Next

\* The gate alone adds to the requests of others that were let through.
LEMMA AdmittedFrame ==
    ASSUME [Next]_vars
    PROVE  \/ admitted' \subseteq admitted
           \/ \E caller \in Callers, key \in StateKeys, approve \in BOOLEAN :
                 OtherAdmitted(caller, key, approve)
<1> USE DEF histories, lobster
<1> DEFINE Kept == admitted' \subseteq admitted
<1>1. ASSUME NEW target, BeginPrepare(target) \/ BeginOffTarget(target) PROVE Kept
  BY <1>1 DEF BeginPrepare, BeginOffTarget, Begin, NoteCommandSnapshot
<1>2. ASSUME NEW target, Rollback(target) \/ BeginVerify(target) PROVE Kept
  BY <1>2 DEF Rollback, BeginVerify
<1>3. CASE QueryEvidence \/ PersistEvidence \/ PersistProposal \/ EnterAuthorization
  BY <1>3 DEF QueryEvidence, PersistEvidence, PersistProposal, EnterAuthorization
<1>4. CASE \/ RunLobster \/ ResumeLobster
           \/ \E approve \in BOOLEAN : AdmitResume(approve)
  BY <1>4 DEF RunLobster, ResumeLobster, AdmitResume, CarryOut
<1>5. CASE \/ PersistDecision \/ PersistStart \/ PersistReconciled \/ Fail
           \/ WriteResume \/ WriteAmbiguous
  BY <1>5 DEF PersistDecision, PersistStart, PersistReconciled, Fail, WriteResume,
              WriteAmbiguous
<1>6. CASE BeginReconcile \/ \E readable \in BOOLEAN : ReadOutcome(readable)
  BY <1>6 DEF BeginReconcile, ReadOutcome, NoteCommandSnapshot
<1>7. CASE InvokeVerification \/ QueryMetric \/ InspectDeployment
  BY <1>7 DEF InvokeVerification, QueryMetric, InspectDeployment
<1>8. CASE DescribeForCompletion \/ PersistCompletion \/ ReadBack
  BY <1>8 DEF DescribeForCompletion, PersistCompletion, ReadBack,
              NoteCommandSnapshot
<1>9. ASSUME NEW d, DescribeForDelivery(d) PROVE Kept
  BY <1>9 DEF DescribeForDelivery
<1>10. CASE Tick \/ ReceiveDelivery \/ PatchDelivery
  BY <1>9, <1>10 DEF Tick, ReceiveDelivery, PatchDelivery
<1>11. ASSUME NEW edited, Edit(edited) PROVE Kept
  BY <1>11 DEF Edit
<1>12. ASSUME NEW value, Scrape(value) PROVE Kept
  BY <1>12 DEF Scrape
<1>13. ASSUME NEW updated, NEW available, UpdateStatus(updated, available) PROVE Kept
  BY <1>13 DEF UpdateStatus
<1>14. ASSUME NEW request, OtherResume(request) PROVE Kept
  BY <1>14 DEF OtherResume, CarryOut
<1>15. CASE CommandStep
  BY <1>1, <1>2, <1>3, <1>4, <1>5, <1>6, <1>7, <1>8, <1>15 DEF CommandStep
<1>16. CASE OtherStep
  BY <1>10, <1>11, <1>12, <1>13, <1>14, <1>16 DEF OtherStep
<1>17. CASE UNCHANGED vars
  BY <1>17 DEF vars
<1> QED BY <1>15, <1>16, <1>17 DEF Next

\* The session's key goes on naming the session's run, and answers accumulate.
LEMMA KeyIsOursStep ==
    ASSUME KeyIsOurs, [Next]_vars
    PROVE  KeyIsOurs' /\ answers \subseteq answers'
<1>1. CASE UNCHANGED <<paused, answers>>
  BY <1>1 DEF KeyIsOurs
<1>2. CASE RunLobster
  BY <1>2 DEF RunLobster, KeyIsOurs, histories, PausedRun, RunRequest
<1>3. CASE ResumeLobster
  <2>1. answers \subseteq answers' /\ paused' \subseteq paused
    BY <1>3, AnswersAccumulate DEF ResumeLobster
  <2> QED BY <2>1 DEF KeyIsOurs, PausedRun, RunRequest
<1>4. ASSUME NEW request, OtherResume(request)
      PROVE  KeyIsOurs' /\ answers \subseteq answers'
  <2>1. answers \subseteq answers' /\ paused' \subseteq paused
    BY <1>4, AnswersAccumulate DEF OtherResume
  <2> QED BY <2>1 DEF KeyIsOurs, PausedRun, RunRequest
<1> QED BY <1>1, <1>2, <1>3, <1>4, LobsterFrame

\* The initial state bears no trace of an approval.
LEMMA InitApprovalInv == Init => ApprovalInv
<1> SUFFICES ASSUME Init PROVE ApprovalInv
  OBVIOUS
<1>1. ~Approved(FirstRecord)
  BY FirstTypes DEF Approved
<1>2. Untouched
  BY <1>1 DEF Init, Untouched, Idle
<1>3. KeyIsOurs
  BY RemediationSessionAssumption DEF Init, KeyIsOurs
<1> QED BY <1>2, <1>3 DEF ApprovalInv

\* A trace of an approval appears only once a person has said yes.
LEMMA ApprovalInvStep ==
    TypeInv /\ ApprovalInv /\ [Next]_vars => ApprovalInv'
<1> SUFFICES ASSUME TypeInv, ApprovalInv, [Next]_vars PROVE ApprovalInv'
  OBVIOUS
<1>1. KeyIsOurs' /\ answers \subseteq answers'
  BY KeyIsOursStep DEF ApprovalInv
<1>2. CASE HumanApproved
  BY <1>1, <1>2, HumanApprovedStays DEF ApprovalInv
<1>3. CASE Untouched
  <2> SUFFICES HumanApproved' \/ Untouched'
    BY <1>1 DEF ApprovalInv
  <2>1. ASSUME ResumeLobster PROVE HumanApproved' \/ Untouched'
    <3> DEFINE request == ResumeRequest("operator", Key, command.answer)
    <3>1. /\ CarryOut(request)
          /\ request.key = Key /\ request.approve = command.answer
      BY <2>1 DEF ResumeLobster, ResumeRequest
    <3> HIDE DEF request
    <3>4. KeyIsOurs
      BY DEF ApprovalInv
    <3>2. CASE command.answer = TRUE
      BY <3>1, <3>2, <3>4, AnswersAccumulate
    <3>3. CASE command.answer = FALSE
      <4>1. command'.state = command.state /\ command'.answer = FALSE
        BY <2>1, <3>3 DEF ResumeLobster, TypeInv, TypeOK, Commands
      <4> QED BY <1>3, <2>1, <4>1 DEF ResumeLobster, Untouched, world
    <3> QED BY <3>2, <3>3 DEF TypeInv, TypeOK, Commands
  <2>2. CASE CommandStep
    BY <1>3, <2>1, <2>2, PreparationUntouched, RemediationUntouched,
       VerificationUntouched DEF CommandStep
  <2>3. CASE OtherStep
    BY <1>3, <2>3, OthersUntouched
  <2>4. CASE UNCHANGED vars
    BY <1>3, <2>4 DEF vars, world, histories, files, lobster, Untouched
  <2> QED BY <2>2, <2>3, <2>4 DEF Next
<1> QED BY <1>2, <1>3 DEF ApprovalInv

\* The inductive invariant: no record, snapshot or Deployment bears a trace of
\* an approval before a person has given it in Lobster.
THEOREM ApprovalCorrect == Spec => [](TypeInv /\ ApprovalInv)
BY InitTypeInv, TypeInvStep, InitApprovalInv, ApprovalInvStep, PTL DEF Spec

\* Attempts and rollbacks follow an approval (authorizeRemediationWithLobster
\* and the gate on the rollback tool): not a denial, not a command that died,
\* not a record an older writer brought back.
THEOREM AttemptsAlwaysWereApproved == Spec => []AttemptsWereApproved
<1>1. ApprovalInv => AttemptsWereApproved
  BY DEF ApprovalInv, Untouched, Approved, AttemptsWereApproved
<1> QED BY <1>1, ApprovalCorrect, PTL

-----------------------------------------------------------------------------
(* Lobster resumes the incident workflow only *)

\* A key names one paused run.
KeysAreUnique == \A run, twin \in paused : run.key = twin.key => run = twin

\* What a request that was let through finds when Lobster carries it out.
StillBound(request) ==
    PolicyEnabled => /\ request.caller = "operator"
                     /\ \A run \in paused : run.key = request.key
                                             => PersistedRunIsBound(run)

LobsterInv ==
    /\ KeyIsOurs /\ KeysAreUnique /\ OnlyTheIncidentWorkflowResumes
    /\ \A request \in admitted : StillBound(request)

\* The session's own run is one the gate lets be resumed.
LEMMA OwnRunIsBound == PersistedRunIsBound(PausedRun(RunRequest, Key))
BY DEF PersistedRunIsBound, PausedRun, RunRequest, AllowedRemediationActions

\* Removing runs does not undo what the gate has seen.
LEMMA StillBoundStays ==
    ASSUME NEW request, StillBound(request), paused' \subseteq paused
    PROVE  StillBound(request)'
<1> SUFFICES ASSUME PolicyEnabled
             PROVE  /\ request.caller = "operator"
                    /\ \A run \in paused' : run.key = request.key
                                             => PersistedRunIsBound(run)
  BY DEF StillBound, PersistedRunIsBound
<1> QED BY DEF StillBound

\* What a permitted resume request adds to the answers.
LEMMA PermittedResume ==
    ASSUME LobsterInv, NEW request, StillBound(request), CarryOut(request)
    PROVE  LobsterInv'
<1> DEFINE caller == request.caller
           approve == request.approve
<1>1. PICK run \in paused :
         /\ run.key = request.key
         /\ paused' = paused \ {run}
         /\ answers' = answers \cup {[run |-> run, caller |-> caller,
                                      approve |-> approve]}
  BY DEF CarryOut
<1>2. KeyIsOurs' /\ KeysAreUnique'
  BY <1>1 DEF LobsterInv, KeyIsOurs, KeysAreUnique, PausedRun, RunRequest
<1>3. ASSUME PolicyEnabled
      PROVE  caller = "operator" /\ PersistedRunIsBound(run)
  BY <1>1, <1>3 DEF StillBound
<1>5. \A other \in admitted' : StillBound(other)'
  <2> SUFFICES ASSUME NEW other \in admitted PROVE StillBound(other)'
    BY DEF CarryOut
  <2> QED BY <1>1, StillBoundStays DEF LobsterInv
<1> HIDE DEF caller, approve
<1>4. ASSUME PolicyEnabled, NEW a \in answers'
      PROVE  /\ a.caller = "operator"
             /\ a.run.file = IncidentWorkflow
             /\ a.run.root = GuardianRoot
             /\ a.run.prepared = a.run.alertId
  <2>1. CASE a \in answers
    BY <1>4, <2>1 DEF LobsterInv, OnlyTheIncidentWorkflowResumes
  <2>2. CASE a = [run |-> run, caller |-> caller, approve |-> approve]
    BY <1>3, <1>4, <2>2 DEF PersistedRunIsBound
  <2> QED BY <1>1, <2>1, <2>2
<1> QED BY <1>2, <1>4, <1>5 DEF LobsterInv, OnlyTheIncidentWorkflowResumes

\* Every step keeps the directory's keys unique and the answers bound.
LEMMA LobsterInvStep == LobsterInv /\ [Next]_vars => LobsterInv'
<1> SUFFICES ASSUME LobsterInv, [Next]_vars PROVE LobsterInv'
  OBVIOUS
<1>1. CASE UNCHANGED <<paused, answers>>
  <2>1. ASSUME NEW request \in admitted' PROVE StillBound(request)
    <3>1. CASE request \in admitted
      BY <3>1 DEF LobsterInv
    <3>2. CASE request \notin admitted
      <4>1. PICK caller \in Callers, key \in StateKeys, approve \in BOOLEAN :
               /\ LobsterResumePasses(ResumeRequest(caller, key, approve), paused)
               /\ admitted' = admitted \cup {ResumeRequest(caller, key, approve)}
        BY <3>2, AdmittedFrame DEF OtherAdmitted
      <4>2. LobsterResumePasses(request, paused)
        BY <3>2, <4>1
      <4> QED BY <4>2 DEF LobsterResumePasses, OperatorMayCall, ResumeIsBound,
                          StillBound, LobsterInv, KeysAreUnique
    <3> QED BY <3>1, <3>2
  <2>2. \A request \in admitted' : StillBound(request)'
    BY <1>1, <2>1, StillBoundStays
  <2> QED BY <1>1, <2>2 DEF LobsterInv, KeyIsOurs, KeysAreUnique,
                            OnlyTheIncidentWorkflowResumes
<1>2. CASE RunLobster
  <2> DEFINE ours == PausedRun(RunRequest, Key)
  <2>1. ours.key = Key
    BY DEF PausedRun
  <2> HIDE DEF ours
  <2>2. /\ paused' = paused \cup {ours} /\ answers' = answers
        /\ \A run \in paused : run.key = Key => run = ours
    BY <1>2 DEF RunLobster, LobsterInv, KeyIsOurs, histories, ours
  <2>5. \A request \in admitted' : StillBound(request)'
    <3>1. admitted' = admitted
      BY <1>2 DEF RunLobster
    <3>2. PersistedRunIsBound(ours)
      BY OwnRunIsBound DEF ours
    <3>3. ASSUME NEW request \in admitted, PolicyEnabled
          PROVE  /\ request.caller = "operator"
                 /\ \A run \in paused' : run.key = request.key
                                          => PersistedRunIsBound(run)
      BY <2>2, <3>2, <3>3 DEF LobsterInv, StillBound
    <3> QED BY <3>1, <3>3 DEF StillBound, PersistedRunIsBound
  <2>3. KeysAreUnique'
    BY <2>1, <2>2 DEF LobsterInv, KeysAreUnique
  <2>4. KeyIsOurs'
    BY <2>2 DEF KeyIsOurs, ours, PausedRun, RunRequest
  <2> QED BY <2>2, <2>3, <2>4, <2>5 DEF LobsterInv, OnlyTheIncidentWorkflowResumes
<1>3. CASE ResumeLobster
  <2> DEFINE request == ResumeRequest("operator", Key, command.answer)
  <2>1. CarryOut(request)
    BY <1>3 DEF ResumeLobster
  <2>2. StillBound(request)
    BY OwnRunIsBound DEF StillBound, ResumeRequest, LobsterInv, KeyIsOurs
  <2> QED BY <2>1, <2>2, PermittedResume
<1>4. ASSUME NEW request \in admitted, OtherResume(request) PROVE LobsterInv'
  BY <1>4, PermittedResume DEF OtherResume, LobsterInv
<1> QED BY <1>1, <1>2, <1>3, <1>4, LobsterFrame

\* While the tool policy is on, Lobster goes on with the incident workflow
\* only, whatever other pipelines left in the directory (lobster-tool-gate.ts).
THEOREM OnlyTheIncidentWorkflowEverResumes ==
    Spec => []OnlyTheIncidentWorkflowResumes
<1>1. Init => LobsterInv
  <2> SUFFICES ASSUME Init PROVE LobsterInv
    OBVIOUS
  <2>1. paused = Leftovers /\ answers = {} /\ admitted = {}
    BY DEF Init
  <2> QED BY <2>1, RemediationSessionAssumption
          DEF LobsterInv, KeyIsOurs, KeysAreUnique, OnlyTheIncidentWorkflowResumes
<1>2. LobsterInv => OnlyTheIncidentWorkflowResumes
  BY DEF LobsterInv
<1> QED BY <1>1, <1>2, LobsterInvStep, PTL DEF Spec

-----------------------------------------------------------------------------
(* The session keeps the promise *)

\* A verification is about a change on record, and past its inspection about
\* one that was made; so is every audit on the Deployment.  What is to be read
\* back is a completed record.
PromiseInv ==
    /\ command.at \in {"verify", "query", "inspect", "describe", "patch",
                       "readback"} => command.target \subseteq resume
    /\ command.at \in {"describe", "patch", "readback"} =>
          command.target \cap patched # {}
    /\ command.at = "readback" => command.state.stage = "completed"
    /\ \A a \in live.audit : a.target \in patched

\* The commands up to the stored attempt, and reconciliation, verify nothing.
LEMMA PreparationKeepsPromise ==
    ASSUME TypeInv, PromiseInv,
           \/ \E target \in Targets : BeginPrepare(target) \/ BeginOffTarget(target)
           \/ QueryEvidence \/ PersistEvidence \/ PersistProposal
           \/ EnterAuthorization \/ RunLobster \/ Fail
           \/ \E approve \in BOOLEAN : AdmitResume(approve)
           \/ ResumeLobster
           \/ PersistDecision \/ PersistStart \/ WriteResume \/ WriteAmbiguous
           \/ BeginReconcile \/ PersistReconciled
           \/ \E readable \in BOOLEAN : ReadOutcome(readable)
    PROVE  PromiseInv'
<1> USE DEF world, histories, files, lobster
<1>0. command \in Commands /\ Idle.at = "idle" /\ Idle \in Commands
  BY FirstTypes DEF TypeInv, TypeOK, Idle
<1> DEFINE Elsewhere == {"idle", "collect", "collected", "propose", "authorize",
                         "run", "resume", "admitted", "decide", "start",
                         "started", "reconcile", "settle"}
<1>1. ASSUME UNCHANGED <<patched, live>>, command'.at \in Elsewhere
      PROVE  PromiseInv'
  BY <1>1 DEF PromiseInv
<1>2. ASSUME NEW target \in Targets, BeginPrepare(target) \/ BeginOffTarget(target)
      PROVE  PromiseInv'
  <2>1. command'.at = "collect"
    BY <1>0, <1>2 DEF BeginPrepare, BeginOffTarget, Begin, Commands
  <2> QED BY <1>1, <1>2, <2>1
          DEF BeginPrepare, BeginOffTarget, Begin, NoteCommandSnapshot
<1>3. CASE QueryEvidence \/ PersistEvidence
  <2>1. command'.at \in Elsewhere
    BY <1>0, <1>3 DEF QueryEvidence, PersistEvidence, Commands
  <2> QED BY <1>1, <1>3, <2>1 DEF QueryEvidence, PersistEvidence
<1>4. CASE PersistProposal
  <2>1. command'.at \in Elsewhere
    BY <1>0, <1>4 DEF PersistProposal, Commands
  <2> QED BY <1>1, <1>4, <2>1 DEF PersistProposal
<1>5. CASE EnterAuthorization \/ RunLobster \/ Fail
  <2>1. command'.at \in Elsewhere
    BY <1>0, <1>5 DEF EnterAuthorization, RunLobster, Fail, Commands
  <2> QED BY <1>1, <1>5, <2>1 DEF EnterAuthorization, RunLobster, Fail
<1>6. CASE ResumeLobster \/ \E approve \in BOOLEAN : AdmitResume(approve)
  <2>1. command'.at \in Elsewhere
    BY <1>0, <1>6 DEF ResumeLobster, AdmitResume, Commands
  <2> QED BY <1>1, <1>6, <2>1 DEF ResumeLobster, AdmitResume
<1>7. CASE PersistDecision
  <2>1. command'.at \in Elsewhere
    BY <1>0, <1>7 DEF PersistDecision, Commands
  <2> QED BY <1>1, <1>7, <2>1 DEF PersistDecision
<1>8. CASE PersistStart \/ PersistReconciled \/ WriteResume \/ WriteAmbiguous
  <2>1. command'.at \in Elsewhere
    BY <1>0, <1>8 DEF PersistStart, PersistReconciled, WriteResume, WriteAmbiguous,
                      Commands
  <2> QED BY <1>1, <1>8, <2>1
          DEF PersistStart, PersistReconciled, WriteResume, WriteAmbiguous
<1>9. CASE BeginReconcile
  <2>1. command'.at = "reconcile"
    BY <1>0, <1>9 DEF BeginReconcile, Commands
  <2> QED BY <1>1, <1>9, <2>1 DEF BeginReconcile, NoteCommandSnapshot
<1>10. ASSUME NEW readable \in BOOLEAN, ReadOutcome(readable) PROVE PromiseInv'
  <2>1. command'.at = "settle"
    BY <1>0, <1>10 DEF ReadOutcome, Commands
  <2> QED BY <1>1, <1>10, <2>1 DEF ReadOutcome
<1> QED BY <1>2, <1>3, <1>4, <1>5, <1>6, <1>7, <1>8, <1>9, <1>10

\* The rollback is made before its audit can be read.
LEMMA RollbackKeepsPromise ==
    ASSUME PromiseInv, NEW target \in Targets, Rollback(target), TypeInv
    PROVE  PromiseInv'
<1>1. /\ command' = command /\ command.at \in {"idle", "started"}
      /\ patched' = patched \cup {target}
  BY DEF Rollback, MayRollBack
<1>2. live'.audit \subseteq live.audit \cup {AuditOf(target)}
  BY DEF Rollback, TypeInv, TypeOK, LiveDeployments
<1> QED BY <1>1, <1>2 DEF PromiseInv, AuditOf

\* A Deployment without issues carries the audit of the target's rollback.
LEMMA HealthyCarriesAudit ==
    ASSUME NEW deployment, NEW key, NEW target,
           DeploymentIssues(deployment, key, target) = {}
    PROVE  deployment.audit = {[key |-> key, target |-> target]}
<1>1. "rollback_audit_mismatch" \notin DeploymentIssues(deployment, key, target)
  OBVIOUS
<1>2. deployment.audit # {[key |-> key, target |-> target]}
        => "rollback_audit_mismatch" \in DeploymentIssues(deployment, key, target)
  BY DEF DeploymentIssues
<1> QED BY <1>1, <1>2

\* A verification passes its inspection on the audit of a change that was made.
LEMMA VerificationKeepsPromise ==
    ASSUME TypeInv, PromiseInv,
           \/ \E target \in Targets : BeginVerify(target)
           \/ InvokeVerification \/ QueryMetric \/ InspectDeployment
           \/ DescribeForCompletion \/ PersistCompletion \/ ReadBack
    PROVE  PromiseInv'
<1> USE DEF world, histories, files, lobster
<1>0. command \in Commands /\ Idle.at = "idle" /\ Idle \in Commands
  BY FirstTypes DEF TypeInv, TypeOK, Idle
<1>1. ASSUME NEW target \in Targets, BeginVerify(target) PROVE PromiseInv'
  <2>1. command'.at = "verify" /\ command'.target = {target} /\ target \in resume
    BY <1>0, <1>1 DEF BeginVerify, Commands
  <2> QED BY <1>1, <2>1 DEF BeginVerify, PromiseInv
<1>2. CASE InvokeVerification
  <2>1. command'.at = "query" /\ command'.target = command.target
    BY <1>0, <1>2 DEF InvokeVerification, Commands
  <2> QED BY <1>2, <2>1 DEF InvokeVerification, PromiseInv
<1>3. CASE QueryMetric
  <2>1. command'.at = "inspect" /\ command'.target = command.target
    BY <1>0, <1>3 DEF QueryMetric, Commands
  <2> QED BY <1>3, <2>1 DEF QueryMetric, PromiseInv
<1>4. CASE InspectDeployment
  <2>1. PICK target \in command.target :
          \E policy \in RecoveryPolicies(config, target.name) :
             command' = IF Recovered(live, command.sample, policy, KeyOf[target],
                                     target, NotBefore(command), command.time)
                        THEN [command EXCEPT !.at = "describe", !.live = {live}]
                        ELSE [command EXCEPT !.at = "verify", !.time = 0,
                                             !.sample = NoSample]
    BY <1>4 DEF InspectDeployment
  <2>2. PICK policy \in RecoveryPolicies(config, target.name) :
             command' = IF Recovered(live, command.sample, policy, KeyOf[target],
                                     target, NotBefore(command), command.time)
                        THEN [command EXCEPT !.at = "describe", !.live = {live}]
                        ELSE [command EXCEPT !.at = "verify", !.time = 0,
                                             !.sample = NoSample]
    BY <2>1
  <2>3. CASE ~Recovered(live, command.sample, policy, KeyOf[target],
                        target, NotBefore(command), command.time)
    <3>1. command'.at = "verify" /\ command'.target = command.target
      BY <1>0, <2>2, <2>3 DEF Commands
    <3> QED BY <1>4, <3>1 DEF InspectDeployment, PromiseInv
  <2>4. CASE Recovered(live, command.sample, policy, KeyOf[target],
                       target, NotBefore(command), command.time)
    <3>1. command'.at = "describe" /\ command'.target = command.target
      BY <1>0, <2>2, <2>4 DEF Commands
    <3>2. live.audit = {[key |-> KeyOf[target], target |-> target]}
      BY <2>4, HealthyCarriesAudit DEF Recovered
    <3>3. target \in patched
      BY <3>2 DEF PromiseInv
    <3> QED BY <1>4, <2>1, <3>1, <3>3 DEF InspectDeployment, PromiseInv
  <2> QED BY <2>3, <2>4
<1>5. CASE DescribeForCompletion
  <2>1. command' = [command EXCEPT !.at = "patch", !.state = incident]
    BY <1>5 DEF DescribeForCompletion, RecordToComplete
  <2>2. command'.at = "patch" /\ command'.target = command.target
    BY <1>0, <2>1 DEF Commands
  <2> QED BY <1>5, <2>2 DEF DescribeForCompletion, NoteCommandSnapshot, PromiseInv
<1>6. CASE PersistCompletion
  <2> DEFINE next == RecordRecoveryCheck(command.state, TRUE, command.time)
  <2>1. command' = [command EXCEPT !.at = "readback", !.state = next]
    BY <1>6 DEF PersistCompletion
  <2>3. next.stage = "completed"
    BY <1>0 DEF RecordRecoveryCheck, RecoveryStage, Commands, Incidents
  <2> HIDE DEF next
  <2>2. /\ command'.at = "readback" /\ command'.target = command.target
        /\ command'.state.stage = "completed"
    BY <1>0, <2>1, <2>3 DEF Commands
  <2> QED BY <1>6, <2>2 DEF PersistCompletion, PromiseInv
<1>7. CASE ReadBack
  BY <1>0, <1>7 DEF ReadBack, PromiseInv
<1> QED BY <1>1, <1>2, <1>3, <1>4, <1>5, <1>6, <1>7

\* The other parties leave audits, targets and commands alone.
LEMMA OthersKeepPromise ==
    ASSUME TypeInv, PromiseInv, OtherStep
    PROVE  PromiseInv'
<1> USE DEF world, histories, files, lobster
<1>0. live \in LiveDeployments
  BY DEF TypeInv, TypeOK
<1>1. ASSUME UNCHANGED <<command, resume, patched>>, live'.audit = live.audit
      PROVE  PromiseInv'
  BY <1>1 DEF PromiseInv
<1>2. ASSUME NEW d, DescribeForDelivery(d) PROVE PromiseInv'
  BY <1>1, <1>2 DEF DescribeForDelivery
<1>3. CASE Tick \/ ReceiveDelivery \/ PatchDelivery
  BY <1>1, <1>2, <1>3 DEF Tick, ReceiveDelivery, PatchDelivery
<1>4. ASSUME \/ \E caller, key, approve : OtherAdmitted(caller, key, approve)
             \/ \E request : OtherResume(request)
      PROVE  PromiseInv'
  BY <1>1, <1>4 DEF OtherAdmitted, OtherResume
<1>5. ASSUME NEW value, Scrape(value) PROVE PromiseInv'
  BY <1>1, <1>5 DEF Scrape
<1>6. ASSUME NEW template \in Templates, Edit([live EXCEPT !.template = template])
      PROVE  PromiseInv'
  BY <1>0, <1>1, <1>6 DEF Edit, LiveDeployments
<1>7. ASSUME NEW replicas \in 0..MaxReplicas, Edit([live EXCEPT !.desired = replicas])
      PROVE  PromiseInv'
  BY <1>0, <1>1, <1>7 DEF Edit, LiveDeployments
<1>8. ASSUME NEW updated, NEW available, UpdateStatus(updated, available)
      PROVE  PromiseInv'
  BY <1>0, <1>1, <1>8 DEF UpdateStatus, LiveDeployments
<1> QED BY <1>3, <1>4, <1>5, <1>6, <1>7, <1>8 DEF OtherStep

\* Every step keeps the invariant.
LEMMA PromiseInvStep == TypeInv /\ PromiseInv /\ [Next]_vars => PromiseInv'
<1> SUFFICES ASSUME TypeInv, PromiseInv, [Next]_vars PROVE PromiseInv'
  OBVIOUS
<1>1. CASE CommandStep
  BY <1>1, PreparationKeepsPromise, RollbackKeepsPromise, VerificationKeepsPromise
     DEF CommandStep
<1>2. CASE OtherStep
  BY <1>2, OthersKeepPromise
<1>3. CASE UNCHANGED vars
  BY <1>3 DEF vars, world, histories, files, lobster, PromiseInv
<1> QED BY <1>1, <1>2, <1>3 DEF Next

\* What the promise speaks of, the record apart, changes in few actions, and
\* only the answers change with none of them.
LEMMA PromiseFrame ==
    ASSUME TypeInv, [Next]_vars
    PROVE  \/ UNCHANGED <<Authorised, patched, announced>> /\ incident' = incident
           \/ UNCHANGED <<Authorised, patched, announced, answers>>
           \/ PersistStart \/ WriteResume \/ WriteAmbiguous \/ Fail
           \/ \E target \in Targets : Rollback(target)
           \/ ReadBack
<1> USE DEF world, histories, files, lobster
<1>0. command \in Commands /\ Idle \in Commands
  BY FirstTypes DEF TypeInv, TypeOK
<1> DEFINE Kept == UNCHANGED <<Authorised, patched, announced, answers>>
           Still == /\ UNCHANGED <<Authorised, patched, announced>>
                    /\ incident' = incident
           NotStarted == command.at # "started" /\ command'.at # "started"
<1>a. ASSUME UNCHANGED resume, NotStarted PROVE Authorised' = Authorised
  BY <1>a DEF Authorised
<1>b. ASSUME UNCHANGED <<resume, command>> PROVE Authorised' = Authorised
  BY <1>b DEF Authorised
<1>1. ASSUME NEW target \in Targets, Begin(target) PROVE Kept
  <2>1. NotStarted
    BY <1>0, <1>1 DEF Begin, Commands
  <2> QED BY <1>1, <1>a, <2>1 DEF Begin, NoteCommandSnapshot
<1>2. ASSUME NEW target \in Targets, BeginVerify(target) PROVE Kept
  <2>1. NotStarted
    BY <1>0, <1>2 DEF BeginVerify, Commands
  <2> QED BY <1>2, <1>a, <2>1 DEF BeginVerify
<1>3. ASSUME QueryEvidence \/ PersistEvidence \/ EnterAuthorization PROVE Kept
  <2>1. NotStarted
    BY <1>0, <1>3 DEF QueryEvidence, PersistEvidence, EnterAuthorization, Commands
  <2> QED BY <1>3, <1>a, <2>1 DEF QueryEvidence, PersistEvidence, EnterAuthorization
<1>4. ASSUME PersistProposal \/ PersistDecision PROVE Kept
  <2>1. NotStarted
    <3>1. CASE PersistProposal
      BY <1>0, <3>1 DEF PersistProposal, Idle, Commands
    <3>2. CASE PersistDecision
      BY <1>0, <3>2 DEF PersistDecision, Idle, Commands
    <3> QED BY <1>4, <3>1, <3>2
  <2> QED BY <1>4, <1>a, <2>1 DEF PersistProposal, PersistDecision
<1>5. ASSUME RunLobster \/ \E approve \in BOOLEAN : AdmitResume(approve) PROVE Kept
  <2>1. NotStarted
    BY <1>0, <1>5 DEF RunLobster, AdmitResume, Commands
  <2> QED BY <1>5, <1>a, <2>1 DEF RunLobster, AdmitResume
<1>6. ASSUME ResumeLobster PROVE Still
  <2>1. NotStarted
    BY <1>0, <1>6 DEF ResumeLobster, Commands
  <2> QED BY <1>6, <1>a, <2>1 DEF ResumeLobster
<1>7. ASSUME BeginReconcile \/ \E readable \in BOOLEAN : ReadOutcome(readable)
      PROVE  Kept
  <2>1. NotStarted
    BY <1>0, <1>7 DEF BeginReconcile, ReadOutcome, Commands
  <2> QED BY <1>7, <1>a, <2>1 DEF BeginReconcile, ReadOutcome, NoteCommandSnapshot
<1>8. ASSUME PersistReconciled PROVE Kept
  <2>1. NotStarted
    BY <1>0, <1>8 DEF PersistReconciled, Idle
  <2> QED BY <1>8, <1>a, <2>1 DEF PersistReconciled
<1>9. ASSUME InvokeVerification \/ QueryMetric \/ DescribeForCompletion PROVE Kept
  <2>1. NotStarted
    BY <1>0, <1>9 DEF InvokeVerification, QueryMetric, DescribeForCompletion, Commands
  <2> QED BY <1>9, <1>a, <2>1
          DEF InvokeVerification, QueryMetric, DescribeForCompletion,
              NoteCommandSnapshot
<1>10. ASSUME InspectDeployment PROVE Kept
  <2>1. /\ command.at = "inspect"
        /\ \/ command' = [command EXCEPT !.at = "describe", !.live = {live}]
           \/ command' = [command EXCEPT !.at = "verify", !.time = 0,
                                         !.sample = NoSample]
    BY <1>10 DEF InspectDeployment
  <2>2. NotStarted
    BY <1>0, <2>1 DEF Commands
  <2> QED BY <1>10, <1>a, <2>2 DEF InspectDeployment
<1>11. ASSUME PersistCompletion PROVE Kept
  <2> DEFINE next == RecordRecoveryCheck(command.state, TRUE, command.time)
  <2>1. /\ command.at = "patch"
        /\ command' = [command EXCEPT !.at = "readback", !.state = next]
    BY <1>11 DEF PersistCompletion
  <2> HIDE DEF next
  <2>2. NotStarted
    BY <1>0, <2>1 DEF Commands
  <2> QED BY <1>11, <1>a, <2>2 DEF PersistCompletion
<1>12. ASSUME NEW d, DescribeForDelivery(d) PROVE Kept
  BY <1>12, <1>b DEF DescribeForDelivery
<1>13. ASSUME Tick \/ ReceiveDelivery \/ PatchDelivery PROVE Kept
  BY <1>12, <1>13, <1>b DEF Tick, ReceiveDelivery, PatchDelivery
<1>14. ASSUME NEW edited, Edit(edited) PROVE Kept
  BY <1>14, <1>b DEF Edit
<1>15. ASSUME NEW value, Scrape(value) PROVE Kept
  BY <1>15, <1>b DEF Scrape
<1>16. ASSUME NEW updated, NEW available, UpdateStatus(updated, available) PROVE Kept
  BY <1>16, <1>b DEF UpdateStatus
<1>17. ASSUME NEW caller, NEW key, NEW approve, OtherAdmitted(caller, key, approve)
       PROVE  Kept
  BY <1>17, <1>b DEF OtherAdmitted
<1>18. ASSUME NEW request, OtherResume(request) PROVE Still
  BY <1>18, <1>b DEF OtherResume
<1>19. ASSUME UNCHANGED vars PROVE Kept
  BY <1>19, <1>b DEF vars
<1>20. ASSUME CommandStep, ~Kept
       PROVE  \/ Still \/ PersistStart \/ WriteResume \/ WriteAmbiguous \/ Fail
              \/ \E target \in Targets : Rollback(target)
              \/ ReadBack
  <2>1. ASSUME NEW target \in Targets, BeginPrepare(target) \/ BeginOffTarget(target)
        PROVE  Kept
    BY <1>1, <2>1 DEF BeginPrepare, BeginOffTarget
  <2> HIDE DEF Kept, Still
  <2> QED BY <1>2, <1>3, <1>4, <1>5, <1>7, <1>8, <1>6, <1>9, <1>10,
             <1>11, <1>20, <2>1 DEF CommandStep
<1>21. ASSUME OtherStep PROVE Kept \/ Still
  <2> HIDE DEF Kept, Still
  <2> QED BY <1>13, <1>14, <1>15, <1>16, <1>17, <1>18, <1>21 DEF OtherStep
<1> QED BY <1>19, <1>20, <1>21 DEF Next

\* Every step of the session is a step of the promise, or none.
LEMMA PromiseStep ==
    TypeInv /\ ApprovalInv /\ PromiseInv /\ [Next]_vars
        => [Promise!Next]_(Promise!promise)
<1> SUFFICES ASSUME TypeInv, ApprovalInv, PromiseInv, [Next]_vars
             PROVE  [Promise!Next]_(Promise!promise)
  OBVIOUS
<1> USE DEF Promise!Next, Promise!promise
<1> DEFINE Recorded == incident.stage = "completed"
<1>0. HumanApproved \in BOOLEAN /\ HumanApproved' \in BOOLEAN
  BY DEF HumanApproved
<1>1. CASE UNCHANGED <<Authorised, patched, announced>> /\ incident' = incident
  <2>1. HumanApproved => HumanApproved'
    BY KeyIsOursStep, HumanApprovedStays DEF ApprovalInv
  <2>2. CASE HumanApproved' = HumanApproved
    BY <1>1, <2>2
  <2>3. CASE HumanApproved' # HumanApproved
    <3>1. HumanApproved' = TRUE
      BY <1>0, <2>1, <2>3
    <3> QED BY <1>1, <3>1 DEF Promise!Approve
  <2> QED BY <2>2, <2>3
<1>2. CASE UNCHANGED <<Authorised, patched, announced, answers>>
  <2>1. HumanApproved' = HumanApproved
    BY <1>2 DEF HumanApproved
  <2>2. Recorded' \in BOOLEAN
    OBVIOUS
  <2> QED BY <1>2, <2>1, <2>2 DEF Promise!Rewrite
<1>3. CASE PersistStart
  <2>1. PICK target \in command.target :
           /\ BeginDecision(command.state, KeyOf[target], target) = "started"
           /\ incident' = BeginAttempt(command.state, KeyOf[target], target,
                                       command.time)
           /\ command' = [Idle EXCEPT !.at = "started", !.target = {target}]
    BY <1>3 DEF PersistStart
  <2>2. Approved(command.state)
    BY <2>1 DEF BeginDecision, Approved
  <2>3. HumanApproved
    BY <2>2 DEF ApprovalInv, Untouched
  <2>4. HumanApproved' = HumanApproved
    BY <1>3 DEF PersistStart, histories, HumanApproved
  <2>5. target \in Targets /\ command.state \in Incidents
    BY <2>1 DEF TypeInv, TypeOK, Commands
  <2>6. patched' = patched /\ announced' = announced
    BY <1>3 DEF PersistStart, histories
  <2>7. Authorised' = Authorised \cup {target}
    <3>1. command.at = "start" /\ resume' = resume
      BY <1>3 DEF PersistStart, files
    <3>2. command'.at = "started" /\ command'.target = {target}
      BY <2>1, FirstTypes DEF Commands
    <3> QED BY <3>1, <3>2 DEF Authorised
  <2>8. Recorded' = FALSE
    <3>1. BeginAttempt(command.state, KeyOf[target], target, command.time).stage
             = "remediation"
      BY <2>1, <2>5 DEF BeginDecision, BeginAttempt, Incidents
    <3> QED BY <2>1, <3>1
  <2>9. Promise!Authorise(target)
    BY <2>3, <2>4, <2>6, <2>7, <2>8 DEF Promise!Authorise
  <2> QED BY <2>5, <2>9
<1>4. CASE WriteResume \/ WriteAmbiguous \/ Fail
  <2>1. /\ HumanApproved' = HumanApproved
        /\ UNCHANGED <<patched, announced, incident>>
    BY <1>4 DEF WriteResume, WriteAmbiguous, Fail, histories, HumanApproved
  <2>2. command'.at = "idle"
    BY <1>4 DEF WriteResume, WriteAmbiguous, Fail, Idle
  <2>3. Authorised' \subseteq Authorised
    BY <1>4, <2>2 DEF WriteResume, WriteAmbiguous, Fail, files, Authorised
  <2>4. Promise!Withdraw
    BY <2>1, <2>3 DEF Promise!Withdraw
  <2> QED BY <2>4
<1>5. ASSUME NEW target \in Targets, Rollback(target)
      PROVE  [Promise!Next]_(Promise!promise)
  <2>1. HumanApproved' = HumanApproved
    BY <1>5 DEF Rollback, HumanApproved
  <2>2. target \in Authorised /\ Authorised' = Authorised
    BY <1>5 DEF Rollback, MayRollBack, Authorised, files
  <2>3. Promise!Make(target)
    BY <1>5, <2>1, <2>2 DEF Rollback, Promise!Make
  <2> QED BY <2>3
<1>6. CASE ReadBack
  <2>1. HumanApproved' = HumanApproved
    BY <1>6 DEF ReadBack, HumanApproved
  <2>2. Authorised \cap patched # {}
    BY <1>6 DEF ReadBack, PromiseInv, Authorised
  <2>3. Authorised' = Authorised
    BY <1>6 DEF ReadBack, Idle, Authorised, files
  <2>4. Recorded
    BY <1>6 DEF ReadBack, IsThere, PromiseInv
  <2>5. Promise!Complete
    BY <1>6, <2>1, <2>2, <2>3, <2>4 DEF ReadBack, Promise!Complete
  <2> QED BY <2>5
<1> QED BY <1>1, <1>2, <1>3, <1>4, <1>5, <1>6, PromiseFrame

\* The session implements GatedRemediation: a person agrees first, only the
\* change on record is made, and completion is reported for that one alone,
\* through every snapshot, failed command and overlapping writer.
THEOREM SessionKeepsItsPromise == Spec => PromiseKept
<1>1. Init => PromiseInv /\ Promise!Init
  <2> SUFFICES ASSUME Init PROVE PromiseInv /\ Promise!Init
    OBVIOUS
  <2>1. incident.stage # "completed"
    BY DEF Init, FirstRecord, CreateIncident
  <2>2. Authorised = {}
    BY DEF Init, Authorised, Idle
  <2> QED BY <2>1, <2>2
          DEF Init, PromiseInv, Idle, FirstLive, HumanApproved, Promise!Init
<1>2. Spec => [](TypeInv /\ ApprovalInv /\ PromiseInv)
  BY <1>1, ApprovalCorrect, PromiseInvStep, PTL DEF Spec
<1> QED BY <1>1, <1>2, PromiseStep, PTL DEF Spec, PromiseKept, Promise!Spec
=============================================================================
