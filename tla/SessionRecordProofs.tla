------------------------- MODULE SessionRecordProofs -------------------------
(***************************************************************************)
(* Theorems about the record of a session with all its writers: it decodes *)
(* after every write, however old the snapshot the write was computed      *)
(* from, and it is completed only on what a verification saw of its own    *)
(* rollback.                                                               *)
(***************************************************************************)
EXTENDS RemediationSessionProofs, FiniteSetTheorems

-----------------------------------------------------------------------------
(* Sound snapshots *)

\* A command has fixed the time it will write with ...
Timed == {"run", "resume", "admitted", "decide", "start", "reconcile", "settle",
          "patch"}

\* ... or the one it checks the recovery at.
Checking == {"query", "inspect", "describe"}

\* What a command holds at time t is fit to be written back.
SnapshotSound(c, t) ==
    /\ c.at \notin {"idle", "started"} => Sound(c.state, t)
    /\ c.at \in Timed \cup Checking => c.time <= t
    /\ c.at \in Timed => c.state.updatedAt <= c.time
    /\ c.at \in {"run", "resume", "admitted", "decide"} => AwaitsApproval(c.state)
    /\ c.at = "collected" => /\ c.sample.at <= t
                             /\ c.state.updatedAt <= c.sample.at
    /\ c.at \in Checking \cup {"verify", "patch"} =>
          \E target \in Targets : c.target = {target}
    /\ c.at \in Checking \cup {"verify"} => c.state.remediationAttempts # <<>>
    /\ c.at = "patch" => c.state.stage = "recovery_check"

\* So is what the bridge holds.
BridgeSound(b, t) ==
    b # <<>> => /\ Sound(b[1].state, t)
                /\ ValidDelivery(b[1].delivery)
                /\ b[1].delivery.receivedAt <= t

RecordInv ==
    /\ Sound(incident, now)
    /\ sample.at <= now
    /\ SnapshotSound(command, now)
    /\ BridgeSound(bridge, now)

\* The types the steps below rest on.
LEMMA RecordTypes ==
    ASSUME TypeInv
    PROVE  /\ incident \in Incidents /\ now \in Time /\ now \in Int
           /\ sample \in Samples /\ sample.at \in Int /\ sample.at \in Time
           /\ command \in Commands /\ command.state \in Incidents
           /\ command.time \in Time /\ command.time \in Int
           /\ command.sample.at \in Time /\ command.sample.at \in Int
           /\ command.answer \in BOOLEAN /\ command.target \subseteq Targets
           /\ command.state.updatedAt \in Int
           /\ command.at \in {"reconcile", "settle"} =>
                 HasRunningAttempt(command.state)
           /\ bridge # <<>> => /\ bridge[1].state \in Incidents
                               /\ bridge[1].delivery \in Deliveries
                               /\ bridge[1].delivery.receivedAt \in Int
           /\ Idle \in Commands /\ Idle.at = "idle"
<1>1. /\ incident \in Incidents /\ now \in Time /\ sample \in Samples
      /\ command \in Commands
      /\ bridge # <<>> => /\ bridge[1].state \in Incidents
                          /\ bridge[1].delivery \in Deliveries
      /\ command.at \in {"reconcile", "settle"} => HasRunningAttempt(command.state)
  BY DEF TypeInv, TypeOK, SettlesRunning
<1>2. Time \subseteq Int
  BY ConstantTypes
<1>3. /\ command.state \in Incidents /\ command.time \in Time
      /\ command.sample \in Samples /\ command.answer \in BOOLEAN
      /\ command.target \subseteq Targets
  BY <1>1 DEF Commands
<1>4. \A s \in Incidents : s.updatedAt \in Int
  BY <1>2 DEF Incidents
<1>5. \A d \in Deliveries : d.receivedAt \in Int
  BY <1>2 DEF Deliveries
<1>6. \A x \in Samples : x.at \in Int /\ x.at \in Time
  BY <1>2 DEF Samples
<1> QED BY <1>1, <1>2, <1>3, <1>4, <1>5, <1>6, FirstTypes DEF Idle

\* What is sound stays so.
LEMMA SoundAtItsTime ==
    ASSUME TypeInv, RecordInv, command.at \in Timed
    PROVE  Sound(command.state, command.time)
<1>1. Sound(command.state, now) /\ command.state.updatedAt <= command.time
  BY DEF RecordInv, SnapshotSound, Timed
<1> QED BY <1>1, RecordTypes, SoundEarlier

\* A command's write at its own time is sound in the present.
LEMMA WrittenAtItsTime ==
    ASSUME TypeInv, RecordInv, command.at \in Timed, NEW r \in Incidents,
           Sound(r, command.time)
    PROVE  Sound(r, now)
<1>1. command.time <= now
  BY DEF RecordInv, SnapshotSound
<1> QED BY <1>1, RecordTypes, SoundLater

\* The commands up to the human's answer.
LEMMA PreparationKeepsSound ==
    ASSUME TypeInv, RecordInv, TypeInv',
           \/ \E target \in Targets : BeginPrepare(target) \/ BeginOffTarget(target)
           \/ QueryEvidence \/ PersistEvidence \/ PersistProposal
           \/ EnterAuthorization \/ RunLobster \/ Fail
           \/ \E approve \in BOOLEAN : AdmitResume(approve)
           \/ ResumeLobster
    PROVE  RecordInv'
<1> USE DEF world, histories, files, lobster, Timed, Checking
<1>0. command \in Commands /\ Idle \in Commands /\ Idle.at = "idle"
  BY RecordTypes
<1>1. ASSUME UNCHANGED <<now, sample, bridge>>, Sound(incident', now),
             SnapshotSound(command', now)
      PROVE  RecordInv'
  BY <1>1 DEF RecordInv, BridgeSound
<1>2. ASSUME NEW c, c.at = "idle" PROVE SnapshotSound(c, now)
  BY <1>2 DEF SnapshotSound
<1>3. ASSUME NEW target \in Targets, BeginPrepare(target) \/ BeginOffTarget(target)
      PROVE  RecordInv'
  <2>1. command'.at = "collect" /\ command'.state = incident
    BY <1>0, <1>3 DEF BeginPrepare, BeginOffTarget, Begin, Commands
  <2>2. UNCHANGED <<incident, now, sample, bridge>>
    BY <1>3 DEF BeginPrepare, BeginOffTarget, Begin
  <2>3. SnapshotSound(command', now)
    BY <2>1 DEF SnapshotSound, RecordInv
  <2> QED BY <1>1, <2>2, <2>3 DEF RecordInv
<1>4. CASE QueryEvidence
  <2>1. /\ command'.at = "collected" /\ command'.state = command.state
        /\ command'.sample = sample
    BY <1>0, <1>4 DEF QueryEvidence, Commands
  <2>2. command.state.updatedAt <= sample.at /\ command.at = "collect"
    BY <1>4, RecordTypes DEF QueryEvidence, SampleUsable
  <2>3. SnapshotSound(command', now)
    BY <2>1, <2>2 DEF SnapshotSound, RecordInv
  <2> QED BY <1>1, <1>4, <2>3 DEF RecordInv, QueryEvidence
<1>5. CASE PersistEvidence
  <2> DEFINE next == RecordMetricEvidence(command.state, TRUE, command.sample.at)
             at == command.sample.at
  <2>1. /\ Sound(command.state, now) /\ command.state.updatedAt <= at /\ at <= now
    BY <1>5 DEF PersistEvidence, RecordInv, SnapshotSound
  <2>2. Sound(command.state, at) /\ at \in Time
    BY <2>1, RecordTypes, SoundEarlier
  <2>3. Sound(next, at) /\ next \in Incidents
    BY <1>5, <2>2, RecordTypes, WritersKeepSound, EvidenceAndProposalType
       DEF PersistEvidence
  <2>4. Sound(next, now)
    BY <2>1, <2>3, RecordTypes, SoundLater
  <2> HIDE DEF next, at
  <2>5. /\ incident' = next
        /\ command' = [command EXCEPT !.at = "propose", !.state = next,
                                      !.sample = NoSample]
    BY <1>5 DEF PersistEvidence, next, at
  <2>6. command'.at = "propose" /\ command'.state = next
    BY <1>0, <2>5 DEF Commands
  <2>7. SnapshotSound(command', now)
    BY <2>4, <2>6 DEF SnapshotSound
  <2> QED BY <1>1, <1>5, <2>4, <2>5, <2>7 DEF PersistEvidence
<1>6. CASE PersistProposal
  <2> DEFINE next == RecordRemediationProposal(command.state, now)
  <2>1. Sound(command.state, now)
    BY <1>6 DEF PersistProposal, RecordInv, SnapshotSound
  <2>2. Sound(next, now)
    BY <1>6, <2>1, RecordTypes, WritersKeepSound DEF PersistProposal
  <2> HIDE DEF next
  <2>3. /\ incident' = next
        /\ \/ command' = [command EXCEPT !.at = "authorize", !.state = next]
           \/ command' = Idle
    BY <1>6 DEF PersistProposal, next
  <2>4. \/ command'.at = "authorize" /\ command'.state = next
        \/ command'.at = "idle"
    BY <1>0, <2>3 DEF Commands
  <2>5. SnapshotSound(command', now)
    BY <2>2, <2>4 DEF SnapshotSound
  <2> QED BY <1>1, <1>6, <2>2, <2>3, <2>5 DEF PersistProposal
<1>7. CASE EnterAuthorization
  <2>1. /\ command'.at = "run" /\ command'.state = command.state
        /\ command'.time = now
    BY <1>0, <1>7 DEF EnterAuthorization, Commands
  <2>2. /\ Sound(command.state, now) /\ AwaitsApproval(command.state)
        /\ incident' = command.state
    BY <1>7 DEF EnterAuthorization, RecordInv, SnapshotSound
  <2>3. command.state.updatedAt <= now /\ now <= now
    BY <2>2, RecordTypes DEF Sound, TimesInv
  <2>4. SnapshotSound(command', now)
    BY <2>1, <2>2, <2>3 DEF SnapshotSound
  <2> QED BY <1>1, <1>7, <2>2, <2>4 DEF EnterAuthorization
<1>8. CASE \/ RunLobster \/ ResumeLobster
           \/ \E approve \in BOOLEAN : AdmitResume(approve)
  <2>1. /\ command.at \in {"run", "resume", "admitted"}
        /\ command'.at \in {"resume", "admitted", "decide"}
        /\ command'.state = command.state /\ command'.time = command.time
    BY <1>0, <1>8 DEF RunLobster, ResumeLobster, AdmitResume, Commands
  <2>2. SnapshotSound(command', now)
    BY <2>1 DEF SnapshotSound, RecordInv
  <2> QED BY <1>1, <1>8, <2>2 DEF RunLobster, ResumeLobster, AdmitResume, RecordInv
<1>9. CASE Fail
  BY <1>0, <1>1, <1>2, <1>9 DEF Fail, RecordInv
<1> QED BY <1>3, <1>4, <1>5, <1>6, <1>7, <1>8, <1>9

\* The decision, the start, the rollback and its reconciliation.
LEMMA RemediationKeepsSound ==
    ASSUME TypeInv, RecordInv, TypeInv',
           \/ PersistDecision \/ PersistStart \/ WriteResume \/ WriteAmbiguous
           \/ \E target \in Targets : Rollback(target)
           \/ BeginReconcile \/ PersistReconciled
           \/ \E readable \in BOOLEAN : ReadOutcome(readable)
    PROVE  RecordInv'
<1> USE DEF world, histories, files, lobster, Timed, Checking
<1>0. command \in Commands /\ Idle \in Commands /\ Idle.at = "idle"
  BY RecordTypes
<1>1. ASSUME UNCHANGED <<now, sample, bridge>>, Sound(incident', now),
             SnapshotSound(command', now)
      PROVE  RecordInv'
  BY <1>1 DEF RecordInv, BridgeSound
<1>2. ASSUME NEW c, c.at = "idle" PROVE SnapshotSound(c, now)
  BY <1>2 DEF SnapshotSound
<1>3. CASE PersistDecision
  <2> DEFINE next == RecordApprovalDecision(command.state, Decided(command),
                                            command.time)
  <2>1. /\ Sound(command.state, command.time) /\ AwaitsApproval(command.state)
        /\ command.time <= now /\ Decided(command) \in BOOLEAN
    BY <1>3, SoundAtItsTime, RecordTypes
       DEF PersistDecision, RecordInv, SnapshotSound, Decided
  <2>2. Sound(next, command.time) /\ next \in Incidents
    BY <2>1, RecordTypes, WritersKeepSound, DecisionAndCheckType
  <2>3. Sound(next, now) /\ next.updatedAt <= command.time
    BY <1>3, <2>2, WrittenAtItsTime DEF PersistDecision, Sound, TimesInv
  <2> HIDE DEF next
  <2>4. /\ incident' = next
        /\ \/ command' = [command EXCEPT !.at = "start", !.state = next]
           \/ command' = Idle
    BY <1>3 DEF PersistDecision, next
  <2>5. \/ /\ command'.at = "start" /\ command'.state = next
           /\ command'.time = command.time
        \/ command'.at = "idle"
    BY <1>0, <2>4 DEF Commands
  <2>6. SnapshotSound(command', now)
    BY <2>1, <2>3, <2>5 DEF SnapshotSound
  <2> QED BY <1>1, <1>3, <2>3, <2>4, <2>6 DEF PersistDecision
<1>4. CASE PersistStart
  <2>1. PICK target \in command.target :
          /\ BeginDecision(command.state, KeyOf[target], target) = "started"
          /\ incident' = BeginAttempt(command.state, KeyOf[target], target,
                                      command.time)
    BY <1>4 DEF PersistStart
  <2>2. target \in Targets /\ KeyOf[target] \in Keys
    BY RecordTypes, SessionConstants
  <2>3. Sound(command.state, command.time)
    BY <1>4, SoundAtItsTime DEF PersistStart
  <2>4. Sound(incident', command.time)
    BY <2>1, <2>2, <2>3, RecordTypes, WritersKeepSound
  <2>5. Sound(incident', now)
    BY <1>4, <2>4, WrittenAtItsTime DEF PersistStart, TypeInv, TypeOK
  <2>6. command'.at = "started"
    BY <1>0, <1>4 DEF PersistStart, Commands
  <2>7. SnapshotSound(command', now)
    BY <2>6 DEF SnapshotSound
  <2> QED BY <1>1, <1>4, <2>5, <2>7 DEF PersistStart
<1>9. CASE WriteResume \/ WriteAmbiguous
  BY <1>0, <1>1, <1>2, <1>9 DEF WriteResume, WriteAmbiguous, RecordInv
<1>5. ASSUME NEW target \in Targets, Rollback(target) PROVE RecordInv'
  BY <1>1, <1>5 DEF Rollback, RecordInv
<1>6. CASE BeginReconcile
  <2>1. /\ command'.at = "reconcile" /\ command'.state = incident
        /\ command'.time = now
    BY <1>0, <1>6 DEF BeginReconcile, Commands
  <2>2. incident.updatedAt <= now /\ now <= now
    BY <1>6, RecordTypes DEF BeginReconcile, CanReconcile
  <2>3. SnapshotSound(command', now)
    BY <2>1, <2>2 DEF SnapshotSound, RecordInv
  <2> QED BY <1>1, <1>6, <2>3 DEF BeginReconcile, RecordInv
<1>7. ASSUME NEW readable \in BOOLEAN, ReadOutcome(readable) PROVE RecordInv'
  <2>1. /\ command.at = "reconcile" /\ command'.at = "settle"
        /\ command'.state = command.state /\ command'.time = command.time
    BY <1>0, <1>7 DEF ReadOutcome, Commands
  <2>2. SnapshotSound(command', now)
    BY <2>1 DEF SnapshotSound, RecordInv
  <2> QED BY <1>1, <1>7, <2>2 DEF ReadOutcome, RecordInv
<1>8. CASE PersistReconciled
  <2>1. /\ Sound(command.state, command.time) /\ HasRunningAttempt(command.state)
    BY <1>8, SoundAtItsTime, RecordTypes DEF PersistReconciled
  <2>2. \/ incident' = WithAttemptSettled(command.state, "succeeded", command.time)
        \/ incident' = BlockForManualReview(command.state, command.time)
    BY <1>8 DEF PersistReconciled, SettleAttempt
  <2>3. Sound(incident', command.time)
    BY <2>1, <2>2, RecordTypes, WritersKeepSound
  <2>4. Sound(incident', now)
    BY <1>8, <2>3, WrittenAtItsTime DEF PersistReconciled, TypeInv, TypeOK
  <2> QED BY <1>0, <1>1, <1>2, <1>8, <2>4 DEF PersistReconciled
<1> QED BY <1>3, <1>4, <1>5, <1>6, <1>7, <1>8, <1>9

\* The verification writes what it has just read.
LEMMA VerificationKeepsSound ==
    ASSUME TypeInv, RecordInv,
           \/ \E target \in Targets : BeginVerify(target)
           \/ InvokeVerification \/ QueryMetric \/ InspectDeployment
           \/ DescribeForCompletion \/ PersistCompletion \/ ReadBack
    PROVE  RecordInv'
<1> USE DEF world, histories, files, lobster, Timed, Checking
<1>0. command \in Commands /\ Idle \in Commands /\ Idle.at = "idle"
  BY RecordTypes
<1>1. ASSUME UNCHANGED <<now, sample, bridge>>, Sound(incident', now),
             SnapshotSound(command', now)
      PROVE  RecordInv'
  BY <1>1 DEF RecordInv, BridgeSound
<1>2. ASSUME NEW target \in Targets, BeginVerify(target) PROVE RecordInv'
  <2>1. /\ command'.at = "verify" /\ command'.state = incident
        /\ command'.target = {target} /\ incident.remediationAttempts # <<>>
    BY <1>0, <1>2 DEF BeginVerify, Commands
  <2>2. SnapshotSound(command', now)
    BY <2>1 DEF SnapshotSound, RecordInv
  <2> QED BY <1>1, <1>2, <2>2 DEF BeginVerify, RecordInv
<1>3. CASE InvokeVerification
  <2>1. /\ command.at = "verify" /\ command'.at = "query"
        /\ command'.state = command.state /\ command'.target = command.target
        /\ command'.time = now
    BY <1>0, <1>3 DEF InvokeVerification, Commands
  <2>2. now <= now
    BY RecordTypes
  <2>3. SnapshotSound(command', now)
    BY <2>1, <2>2 DEF SnapshotSound, RecordInv
  <2> QED BY <1>1, <1>3, <2>3 DEF InvokeVerification, RecordInv
<1>4. CASE QueryMetric
  <2>1. /\ command.at = "query" /\ command'.at = "inspect"
        /\ command'.state = command.state /\ command'.target = command.target
        /\ command'.time = command.time
    BY <1>0, <1>4 DEF QueryMetric, Commands
  <2>2. SnapshotSound(command', now)
    BY <2>1 DEF SnapshotSound, RecordInv
  <2> QED BY <1>1, <1>4, <2>2 DEF QueryMetric, RecordInv
<1>5. CASE InspectDeployment
  <2>1. \/ command' = [command EXCEPT !.at = "describe", !.live = {live}]
        \/ command' = [command EXCEPT !.at = "verify", !.time = 0,
                                      !.sample = NoSample]
    BY <1>5 DEF InspectDeployment
  <2>2. /\ command.at = "inspect"
        /\ command'.state = command.state /\ command'.target = command.target
        /\ \/ command'.at = "describe" /\ command'.time = command.time
           \/ command'.at = "verify"
    BY <1>0, <1>5, <2>1 DEF InspectDeployment, Commands
  <2>3. SnapshotSound(command', now)
    BY <2>2 DEF SnapshotSound, RecordInv
  <2> QED BY <1>1, <1>5, <2>3 DEF InspectDeployment, RecordInv
<1>6. CASE DescribeForCompletion
  <2>1. /\ command.at = "describe"
        /\ command' = [command EXCEPT !.at = "patch", !.state = incident]
    BY <1>6 DEF DescribeForCompletion, RecordToComplete
  <2>2. /\ command'.at = "patch" /\ command'.state = incident
        /\ command'.target = command.target /\ command'.time = command.time
    BY <1>0, <2>1 DEF Commands
  <2>3. PICK target \in command.target : TRUE
    BY <2>1 DEF RecordInv, SnapshotSound
  <2>4. incident.stage = "recovery_check" /\ incident.updatedAt <= command.time
    BY <1>6, <2>3 DEF DescribeForCompletion, RecordToComplete, CanVerifyRecovery
  <2>5. SnapshotSound(command', now)
    BY <2>1, <2>2, <2>4 DEF SnapshotSound, RecordInv
  <2> QED BY <1>1, <1>6, <2>5 DEF DescribeForCompletion, RecordInv
<1>7. CASE PersistCompletion
  <2> DEFINE next == RecordRecoveryCheck(command.state, TRUE, command.time)
  <2>1. /\ Sound(command.state, command.time)
        /\ command.state.stage = "recovery_check"
    BY <1>7, SoundAtItsTime DEF PersistCompletion, RecordInv, SnapshotSound
  <2>2. Sound(next, command.time) /\ next \in Incidents
    BY <2>1, RecordTypes, WritersKeepSound, DecisionAndCheckType
  <2>3. Sound(next, now)
    BY <1>7, <2>2, WrittenAtItsTime DEF PersistCompletion
  <2> HIDE DEF next
  <2>4. /\ incident' = next
        /\ command' = [command EXCEPT !.at = "readback", !.state = next]
    BY <1>7 DEF PersistCompletion, next
  <2>5. command'.at = "readback" /\ command'.state = next
    BY <1>0, <2>4 DEF Commands
  <2>6. SnapshotSound(command', now)
    BY <2>3, <2>5 DEF SnapshotSound
  <2> QED BY <1>1, <1>7, <2>3, <2>4, <2>6 DEF PersistCompletion
<1>8. CASE ReadBack
  <2>1. SnapshotSound(command', now)
    BY <1>0, <1>8 DEF ReadBack, SnapshotSound
  <2> QED BY <1>1, <1>8, <2>1 DEF ReadBack, RecordInv
<1> QED BY <1>2, <1>3, <1>4, <1>5, <1>6, <1>7, <1>8

\* Time passes, deliveries come, and nobody else touches a record.
LEMMA OthersKeepSound ==
    ASSUME TypeInv, RecordInv, OtherStep
    PROVE  RecordInv'
<1> USE DEF world, histories, files, lobster
<1>1. ASSUME UNCHANGED <<incident, now, command, bridge>>, sample'.at <= now
      PROVE  RecordInv'
  BY <1>1 DEF RecordInv
<1>2. CASE Tick
  <2>1. now' \in Int /\ now <= now' /\ UNCHANGED <<incident, sample, command, bridge>>
    BY <1>2, RecordTypes DEF Tick
  <2>2. \A x \in Int : x <= now => x <= now'
    BY <2>1, RecordTypes
  <2>3. ASSUME NEW s \in Incidents, Sound(s, now) PROVE Sound(s, now')
    BY <2>1, <2>3, RecordTypes, SoundLater
  <2>4. Sound(incident', now') /\ sample'.at <= now'
    BY <2>1, <2>2, <2>3, RecordTypes DEF RecordInv
  <2>5. SnapshotSound(command', now')
    BY <2>1, <2>2, <2>3, RecordTypes DEF RecordInv, SnapshotSound
  <2>6. BridgeSound(bridge', now')
    BY <2>1, <2>2, <2>3, RecordTypes DEF RecordInv, BridgeSound
  <2> QED BY <2>4, <2>5, <2>6 DEF RecordInv
<1>3. ASSUME NEW d, DescribeForDelivery(d), d.receivedAt <= now PROVE RecordInv'
  <2>1. bridge' = <<[delivery |-> d, state |-> incident]>> /\ ValidDelivery(d)
    BY <1>3 DEF DescribeForDelivery
  <2>2. bridge'[1].delivery = d /\ bridge'[1].state = incident
    BY <2>1
  <2>3. BridgeSound(bridge', now)
    BY <1>3, <2>1, <2>2 DEF BridgeSound, RecordInv
  <2> QED BY <1>3, <2>3 DEF DescribeForDelivery, RecordInv
<1>4. CASE ReceiveDelivery
  <2>1. ASSUME NEW receipt \in 0..now
        PROVE  /\ receipt <= now /\ FiringAt(receipt).receivedAt = receipt
               /\ \A end : [FiringAt(receipt) EXCEPT !.alertStatus = "resolved",
                                                     !.endsAt = end].receivedAt
                             = receipt
    BY RecordTypes DEF FiringAt
  <2> QED BY <1>3, <1>4, <2>1 DEF ReceiveDelivery
<1>5. CASE PatchDelivery
  <2>1. /\ bridge # <<>> /\ bridge' = <<>>
        /\ \/ incident' = Reduced(bridge[1].state, bridge[1].delivery)
           \/ incident' = incident
        /\ UNCHANGED <<now, sample, command>>
    BY <1>5 DEF PatchDelivery
  <2>2. Sound(Reduced(bridge[1].state, bridge[1].delivery), now)
    BY <2>1, RecordTypes, DeliveryKeepsSound DEF RecordInv, BridgeSound
  <2> QED BY <2>1, <2>2 DEF RecordInv, BridgeSound
<1>6. ASSUME \/ \E caller, key, approve : OtherAdmitted(caller, key, approve)
             \/ \E request : OtherResume(request)
      PROVE  RecordInv'
  BY <1>1, <1>6 DEF OtherAdmitted, OtherResume, RecordInv
<1>7. ASSUME NEW value, Scrape(value) PROVE RecordInv'
  <2>1. now <= now
    BY RecordTypes
  <2> QED BY <1>1, <1>7, <2>1 DEF Scrape
<1>8. ASSUME NEW edited, Edit(edited) PROVE RecordInv'
  BY <1>1, <1>8 DEF Edit, RecordInv
<1>9. ASSUME NEW updated, NEW available, UpdateStatus(updated, available)
      PROVE  RecordInv'
  BY <1>1, <1>9 DEF UpdateStatus, RecordInv
<1> QED BY <1>2, <1>4, <1>5, <1>6, <1>7, <1>8, <1>9 DEF OtherStep

\* The first record is sound, and every step keeps everything fit to be
\* written.
LEMMA RecordCorrect == Spec => [](TypeInv /\ RecordInv)
<1>1. Init => RecordInv
  <2> SUFFICES ASSUME Init PROVE RecordInv
    OBVIOUS
  <2>1. 0 \in Time /\ 0 <= 0
    BY ConstantTypes DEF Time
  <2>2. /\ FiringAt(0) \in Deliveries /\ FiringAt(0).alertStatus = "firing"
        /\ FiringAt(0).endsAt = None /\ FiringAt(0).startsAt = 0
        /\ FiringAt(0).receivedAt = 0
    BY <2>1, FiringAtType DEF FiringAt
  <2>3. Sound(FirstRecord, 0)
    BY <2>1, <2>2, CreatedIsSound DEF FirstRecord
  <2>4. NoSample.at <= 0
    BY <2>1 DEF NoSample
  <2>5. SnapshotSound(Idle, 0) /\ BridgeSound(<<>>, 0)
    BY DEF SnapshotSound, BridgeSound, Idle, Timed, Checking
  <2> QED BY <2>3, <2>4, <2>5 DEF Init, RecordInv
<1>2. ASSUME TypeInv, RecordInv, [Next]_vars PROVE TypeInv' /\ RecordInv'
  <2>1. TypeInv'
    BY <1>2, TypeInvStep
  <2>2. CASE CommandStep
    BY <1>2, <2>1, <2>2, PreparationKeepsSound, RemediationKeepsSound,
       VerificationKeepsSound DEF CommandStep
  <2>3. CASE OtherStep
    BY <1>2, <2>1, <2>3, OthersKeepSound
  <2>4. CASE UNCHANGED vars
    BY <1>2, <2>1, <2>4 DEF vars, world, histories, files, lobster, RecordInv
  <2> QED BY <1>2, <2>1, <2>2, <2>3, <2>4 DEF Next
<1> QED BY <1>1, <1>2, InitTypeInv, PTL DEF Spec

\* However old the snapshot and the time a writer computed with, the next
\* reader of the session decodes the record (readIncidentStateV3).
THEOREM EveryRecordDecodes == Spec => []RecordAlwaysDecodes
<1>1. TypeInv /\ RecordInv => RecordAlwaysDecodes
  BY SoundDecodes DEF TypeInv, TypeOK, RecordInv, RecordAlwaysDecodes
<1> QED BY <1>1, RecordCorrect, PTL

-----------------------------------------------------------------------------
(* Completion rests on what was seen of the rollback *)

\* What an inspection has to have seen for a completion to rest on it ...
ShowsRollback(deployment, key, target) ==
    /\ deployment.audit = {[key |-> key, target |-> target]}
    /\ deployment.status.of = target.toTemplate
    /\ deployment.status.available > 0

\* ... and the sample with it.
ShowsRecovery(answer, notBefore, target) ==
    /\ answer.at >= notBefore
    /\ \E policy \in RecoveryPolicies(config, target.name) :
          MeetsThreshold(answer.value, policy)

Founded(s) ==
    /\ basis # {}
    /\ \A b \in basis :
          LET attempt == LastAttempt(s) IN
          /\ ShowsRollback(b.live, attempt.key, attempt.target)
          /\ ShowsRecovery(b.sample, attempt.finishedAt, attempt.target)

\* A status says which spec it is about, and is of that spec's template.
StatusHonest(deployment) ==
    /\ deployment.status.observed <= deployment.generation
    /\ deployment.status.observed = deployment.generation =>
          deployment.status.of = deployment.template

\* What a command past its inspection has in hand, for each target.
Inspected(c) ==
    /\ c.live # {}
    /\ \A target \in c.target :
          /\ \A deployment \in c.live :
                ShowsRollback(deployment, KeyOf[target], target)
          /\ ShowsRecovery(c.sample, NotBefore(c), target)

\* The command's snapshot can still become the record.
Writing(c) == c.at \in {"propose", "authorize", "run", "resume", "admitted", "decide",
                        "start", "reconcile", "settle", "patch"}

CompletionInv ==
    /\ StatusHonest(live)
    /\ command.at \in {"describe", "patch"} => Inspected(command)
    /\ command.at = "patch" =>
          \A target \in command.target :
             /\ LastAttempt(command.state).key = KeyOf[target]
             /\ LastAttempt(command.state).target = target
    /\ Writing(command) => incident.stage # "completed"
    /\ command.at \in {"collect", "collected"} /\ incident.stage = "completed" =>
          command.state.stage = "completed"
    /\ incident.stage = "completed" => Founded(incident)
    /\ bridge # <<>> /\ bridge[1].state.stage = "completed" =>
          /\ incident.stage = "completed"
          /\ LastAttempt(bridge[1].state) = LastAttempt(incident)

\* A Deployment without issues shows its rollback.
LEMMA HealthyShowsRollback ==
    ASSUME NEW deployment \in LiveDeployments, StatusHonest(deployment),
           NEW key, NEW target, DeploymentIssues(deployment, key, target) = {}
    PROVE  ShowsRollback(deployment, key, target)
<1>1. \A issue \in {"deployment_template_mismatch", "desired_replicas_not_positive",
                    "deployment_generation_not_observed",
                    "deployment_replicas_not_ready"} :
         issue \notin DeploymentIssues(deployment, key, target)
  OBVIOUS
<1>2. /\ deployment.template = target.toTemplate
      /\ ~(deployment.desired < 1)
      /\ ~(deployment.status.observed < deployment.generation)
      /\ deployment.status.available = deployment.desired
  BY <1>1 DEF DeploymentIssues
<1>3. /\ deployment.desired \in Int /\ deployment.generation \in Int
      /\ deployment.status \in Statuses
  BY SessionConstants DEF LiveDeployments
<1>4. deployment.status.observed \in Int
  BY <1>3, SessionConstants DEF Statuses
<1>5. deployment.status.observed = deployment.generation
  BY <1>2, <1>3, <1>4 DEF StatusHonest
<1>6. deployment.status.of = target.toTemplate
  BY <1>2, <1>5 DEF StatusHonest
<1>7. deployment.status.available > 0
  BY <1>2, <1>3
<1> QED BY <1>6, <1>7, HealthyCarriesAudit DEF ShowsRollback

\* A sample without issues shows a recovery.
LEMMA GoodSampleShowsRecovery ==
    ASSUME NEW answer, NEW target, NEW notBefore \in Int, NEW checkedAt,
           answer.at \in Int,
           NEW policy \in RecoveryPolicies(config, target.name),
           SampleIssues(answer, policy, notBefore, checkedAt) = {}
    PROVE  ShowsRecovery(answer, notBefore, target)
<1>1. \A issue \in {"prometheus_sample_precedes_remediation",
                    "prometheus_threshold_not_met"} :
         issue \notin SampleIssues(answer, policy, notBefore, checkedAt)
  OBVIOUS
<1>2. ~(answer.at < notBefore) /\ MeetsThreshold(answer.value, policy)
  BY <1>1 DEF SampleIssues
<1> QED BY <1>2 DEF ShowsRecovery

\* The stages the writers leave, and the attempts they keep.
LEMMA StagesWritten ==
    ASSUME NEW s \in Incidents, NEW t \in Time
    PROVE  /\ s.stage = "completed" =>
                 /\ ~CanRecordMetricEvidence(s) /\ ~CanRecordRemediationProposal(s)
                 /\ ~AwaitsApproval(s)
                 /\ \A key, target : BeginDecision(s, key, target) # "started"
           /\ RecordMetricEvidence(s, TRUE, t).stage # "completed"
           /\ RecordRemediationProposal(s, t).stage # "completed"
           /\ \A yes \in BOOLEAN :
                 RecordApprovalDecision(s, yes, t).stage # "completed"
           /\ \A key, target :
                 BeginAttempt(s, key, target, t).stage = s.stage
           /\ WithAttemptSettled(s, "succeeded", t).stage # "completed"
           /\ BlockForManualReview(s, t).stage # "completed"
           /\ LastAttempt(RecordRecoveryCheck(s, TRUE, t)) = LastAttempt(s)
           /\ \A d \in Deliveries :
                 /\ Reduced(s, d).stage = s.stage
                 /\ LastAttempt(Reduced(s, d)) = LastAttempt(s)
<1>1. s.stage = "completed" =>
         /\ ~CanRecordMetricEvidence(s) /\ ~CanRecordRemediationProposal(s)
         /\ ~AwaitsApproval(s)
         /\ \A key, target : BeginDecision(s, key, target) # "started"
  BY DEF CanRecordMetricEvidence, CanRecordRemediationProposal, CanTransition,
         AllowedStageTransitions, AwaitsApproval, BeginDecision
<1>2. /\ RecordMetricEvidence(s, TRUE, t).stage # "completed"
      /\ RecordRemediationProposal(s, t).stage # "completed"
      /\ \A yes \in BOOLEAN : RecordApprovalDecision(s, yes, t).stage # "completed"
      /\ BlockForManualReview(s, t).stage # "completed"
  BY DEF RecordMetricEvidence, RecordRemediationProposal, RecordApprovalDecision,
         BlockForManualReview, Incidents
<1>3. \A key, target : BeginAttempt(s, key, target, t).stage = s.stage
  BY DEF BeginAttempt, Incidents
<1>4. WithAttemptSettled(s, "succeeded", t).stage # "completed"
  <2>1. WithAttemptSettled(s, "succeeded", t).stage = StageAfter(s, "succeeded")
    BY DEF WithAttemptSettled, Incidents
  <2> QED BY <2>1 DEF StageAfter
<1>5. LastAttempt(RecordRecoveryCheck(s, TRUE, t)) = LastAttempt(s)
  BY DEF LastAttempt, RecordRecoveryCheck, Incidents
<1>6. \A d \in Deliveries : /\ Reduced(s, d).stage = s.stage
                            /\ LastAttempt(Reduced(s, d)) = LastAttempt(s)
  BY ReducedKeepsWorkflow DEF LastAttempt
<1> QED BY <1>1, <1>2, <1>3, <1>4, <1>5, <1>6

\* The time the verification takes samples from.
LEMMA NotBeforeType ==
    ASSUME TypeInv, RecordInv, command.at = "inspect"
    PROVE  NotBefore(command) \in Int
<1>1. /\ command.state.remediationAttempts # <<>>
      /\ command.state.remediationAttempts \in Seq(Attempts)
  BY RecordTypes DEF RecordInv, SnapshotSound, Checking, Incidents
<1>2. LastAttempt(command.state) \in Attempts
  BY <1>1 DEF LastAttempt
<1>3. \A attempt \in Attempts : attempt.finishedAt \in Int
  BY ConstantTypes DEF Attempts
<1> QED BY <1>2, <1>3 DEF NotBefore

\* While nothing is completed there is little to keep.
LEMMA UncompletedKeepsCompletion ==
    ASSUME CompletionInv, UNCHANGED <<live, bridge>>,
           incident.stage # "completed", incident'.stage # "completed",
           command'.at \notin {"describe", "patch"}
    PROVE  CompletionInv'
BY DEF CompletionInv

\* Steps of a command that write nothing.
LEMMA ReadingKeepsCompletion ==
    ASSUME CompletionInv, UNCHANGED <<incident, live, bridge, basis, config>>,
           command'.at \notin {"describe", "patch"},
           Writing(command') => incident.stage # "completed",
           command'.at \in {"collect", "collected"} /\ incident.stage = "completed"
              => command'.state.stage = "completed"
    PROVE  CompletionInv'
BY DEF CompletionInv, Founded, ShowsRecovery

\* The commands up to the human's answer.
LEMMA PreparationKeepsCompletion ==
    ASSUME TypeInv, CompletionInv,
           \/ \E target \in Targets : BeginPrepare(target) \/ BeginOffTarget(target)
           \/ QueryEvidence \/ PersistEvidence \/ PersistProposal
           \/ EnterAuthorization \/ RunLobster \/ Fail
           \/ \E approve \in BOOLEAN : AdmitResume(approve)
           \/ ResumeLobster
    PROVE  CompletionInv'
<1> USE DEF world, histories, files, lobster
<1>0. command \in Commands /\ Idle \in Commands /\ Idle.at = "idle"
  BY RecordTypes
<1>1. ASSUME NEW target \in Targets, BeginPrepare(target) \/ BeginOffTarget(target)
      PROVE  CompletionInv'
  <2>1. command'.at = "collect" /\ command'.state = incident
    BY <1>0, <1>1 DEF BeginPrepare, BeginOffTarget, Begin, Commands
  <2>2. UNCHANGED <<incident, live, bridge, basis, config>>
    BY <1>1 DEF BeginPrepare, BeginOffTarget, Begin, NoteCommandSnapshot
  <2> QED BY <2>1, <2>2, ReadingKeepsCompletion DEF Writing
<1>2. CASE QueryEvidence
  <2>1. /\ command.at = "collect" /\ command'.at = "collected"
        /\ command'.state = command.state
    BY <1>0, <1>2 DEF QueryEvidence, Commands
  <2> QED BY <1>2, <2>1, ReadingKeepsCompletion
          DEF QueryEvidence, Writing, CompletionInv
<1>3. CASE PersistEvidence
  <2> DEFINE next == RecordMetricEvidence(command.state, TRUE, command.sample.at)
  <2>1. next.stage # "completed" /\ command.state.stage # "completed"
    BY <1>3, RecordTypes, StagesWritten DEF PersistEvidence
  <2> HIDE DEF next
  <2>2. /\ incident' = next
        /\ command' = [command EXCEPT !.at = "propose", !.state = next,
                                      !.sample = NoSample]
    BY <1>3 DEF PersistEvidence, next
  <2>3. command'.at = "propose" /\ command.at = "collected"
    BY <1>0, <1>3, <2>2 DEF Commands, PersistEvidence
  <2>4. incident.stage # "completed"
    BY <2>1, <2>3 DEF CompletionInv
  <2> QED BY <1>3, <2>1, <2>2, <2>3, <2>4, UncompletedKeepsCompletion
          DEF PersistEvidence
<1>4. CASE PersistProposal
  <2> DEFINE next == RecordRemediationProposal(command.state, now)
  <2>1. next.stage # "completed"
    BY RecordTypes, StagesWritten
  <2> HIDE DEF next
  <2>2. /\ incident' = next
        /\ \/ command' = [command EXCEPT !.at = "authorize", !.state = next]
           \/ command' = Idle
    BY <1>4 DEF PersistProposal, next
  <2>3. command'.at \in {"authorize", "idle"} /\ Writing(command)
    BY <1>0, <1>4, <2>2 DEF Commands, PersistProposal, Writing
  <2>4. incident.stage # "completed"
    BY <2>3 DEF CompletionInv
  <2> QED BY <1>4, <2>1, <2>2, <2>3, <2>4, UncompletedKeepsCompletion
          DEF PersistProposal
<1>5. CASE EnterAuthorization
  <2>1. command'.at = "run" /\ Writing(command)
    BY <1>0, <1>5 DEF EnterAuthorization, Commands, Writing
  <2>2. incident.stage # "completed" /\ incident'.stage # "completed"
    BY <1>5, <2>1, RecordTypes, StagesWritten DEF EnterAuthorization, CompletionInv
  <2> QED BY <1>5, <2>1, <2>2, UncompletedKeepsCompletion DEF EnterAuthorization
<1>6. CASE \/ RunLobster \/ ResumeLobster
           \/ \E approve \in BOOLEAN : AdmitResume(approve)
  <2>1. command'.at \in {"resume", "admitted", "decide"} /\ Writing(command)
    BY <1>0, <1>6 DEF RunLobster, ResumeLobster, AdmitResume, Commands, Writing
  <2>2. UNCHANGED <<incident, live, bridge, basis, config>>
    BY <1>6 DEF RunLobster, ResumeLobster, AdmitResume
  <2> QED BY <2>1, <2>2, ReadingKeepsCompletion DEF CompletionInv
<1>7. CASE Fail
  BY <1>0, <1>7, ReadingKeepsCompletion DEF Fail, Writing
<1> QED BY <1>1, <1>2, <1>3, <1>4, <1>5, <1>6, <1>7

\* The decision, the start, the rollback and its reconciliation: the status is
\* of the spec before the rollback until the controller writes the next one.
LEMMA RemediationKeepsCompletion ==
    ASSUME TypeInv, CompletionInv,
           \/ PersistDecision \/ PersistStart \/ WriteResume \/ WriteAmbiguous
           \/ \E target \in Targets : Rollback(target)
           \/ BeginReconcile \/ PersistReconciled
           \/ \E readable \in BOOLEAN : ReadOutcome(readable)
    PROVE  CompletionInv'
<1> USE DEF world, histories, files, lobster
<1>0. command \in Commands /\ Idle \in Commands /\ Idle.at = "idle"
  BY RecordTypes
<1>1. Writing(command) => incident.stage # "completed"
  BY DEF CompletionInv
<1>2. CASE PersistDecision
  <2> DEFINE next == RecordApprovalDecision(command.state, Decided(command),
                                            command.time)
  <2>1. next.stage # "completed"
    BY RecordTypes, StagesWritten DEF Decided
  <2> HIDE DEF next
  <2>2. /\ incident' = next
        /\ \/ command' = [command EXCEPT !.at = "start", !.state = next]
           \/ command' = Idle
    BY <1>2 DEF PersistDecision, next
  <2>3. command'.at \in {"start", "idle"} /\ Writing(command)
    BY <1>0, <1>2, <2>2 DEF Commands, PersistDecision, Writing
  <2> QED BY <1>1, <1>2, <2>1, <2>2, <2>3, UncompletedKeepsCompletion
          DEF PersistDecision
<1>3. CASE PersistStart
  <2>1. PICK target \in command.target :
          /\ BeginDecision(command.state, KeyOf[target], target) = "started"
          /\ incident' = BeginAttempt(command.state, KeyOf[target], target,
                                      command.time)
    BY <1>3 DEF PersistStart
  <2>2. incident'.stage = command.state.stage /\ command.state.stage # "completed"
    <3>1. command.state \in Incidents /\ command.time \in Time
      BY RecordTypes
    <3>2. \A key, place :
             BeginAttempt(command.state, key, place, command.time).stage
                = command.state.stage
      BY <3>1, StagesWritten
    <3>3. command.state.stage = "completed" =>
             \A key, place : BeginDecision(command.state, key, place) # "started"
      BY <3>1, StagesWritten
    <3>4. command.state.stage # "completed"
      BY <2>1, <3>3
    <3>5. incident'.stage = command.state.stage
      BY <2>1, <3>2
    <3> QED BY <3>4, <3>5
  <2>3. Writing(command) /\ command'.at = "started"
    BY <1>0, <1>3 DEF PersistStart, Writing, Commands
  <2> QED BY <1>1, <1>3, <2>2, <2>3, UncompletedKeepsCompletion
          DEF PersistStart
<1>8. CASE WriteResume \/ WriteAmbiguous
  BY <1>0, <1>8, ReadingKeepsCompletion DEF WriteResume, WriteAmbiguous, Writing
<1>4. ASSUME NEW target \in Targets, Rollback(target) PROVE CompletionInv'
  <2>1. StatusHonest(live')
    <3>1. /\ live.generation \in Int /\ live.status.observed \in Int
          /\ live \in LiveDeployments
      BY SessionConstants DEF TypeInv, TypeOK, LiveDeployments, Statuses
    <3>2. CASE live' = live
      BY <3>2 DEF CompletionInv
    <3>3. CASE live' # live
      <4>1. /\ live'.status = live.status
            /\ live'.generation = live.generation + 1
        BY <1>4, <3>1, <3>3 DEF Rollback, LiveDeployments
      <4> QED BY <3>1, <4>1 DEF CompletionInv, StatusHonest
    <3> QED BY <3>2, <3>3
  <2>2. /\ UNCHANGED <<incident, command, bridge, basis, config>>
        /\ command.at \in {"idle", "started"}
    BY <1>4 DEF Rollback, MayRollBack
  <2> QED BY <2>1, <2>2 DEF CompletionInv, Founded, ShowsRecovery
<1>5. CASE BeginReconcile
  <2>1. command'.at = "reconcile"
    BY <1>0, <1>5 DEF BeginReconcile, Commands
  <2>2. incident.stage # "completed"
    BY <1>5 DEF BeginReconcile, ValidIncident, RunningAttemptAuthorized
  <2> QED BY <1>5, <2>1, <2>2, ReadingKeepsCompletion
          DEF BeginReconcile, NoteCommandSnapshot
<1>6. ASSUME NEW readable \in BOOLEAN, ReadOutcome(readable) PROVE CompletionInv'
  <2>1. command'.at = "settle" /\ Writing(command)
    BY <1>0, <1>6 DEF ReadOutcome, Commands, Writing
  <2> QED BY <1>1, <1>6, <2>1, ReadingKeepsCompletion DEF ReadOutcome
<1>7. CASE PersistReconciled
  <2>1. incident'.stage # "completed" /\ Writing(command)
    BY <1>7, RecordTypes, StagesWritten DEF PersistReconciled, SettleAttempt, Writing
  <2> QED BY <1>0, <1>1, <1>7, <2>1, UncompletedKeepsCompletion
          DEF PersistReconciled
<1> QED BY <1>2, <1>3, <1>4, <1>5, <1>6, <1>7, <1>8

\* The verification: what it inspected is what it completes on.
LEMMA VerificationKeepsCompletion ==
    ASSUME TypeInv, RecordInv, CompletionInv,
           \/ \E target \in Targets : BeginVerify(target)
           \/ InvokeVerification \/ QueryMetric \/ InspectDeployment
           \/ DescribeForCompletion \/ PersistCompletion \/ ReadBack
    PROVE  CompletionInv'
<1> USE DEF world, histories, files, lobster
<1>0. /\ command \in Commands /\ Idle \in Commands /\ Idle.at = "idle"
      /\ incident \in Incidents
  BY RecordTypes
<1>1. ASSUME NEW target \in Targets, BeginVerify(target) PROVE CompletionInv'
  <2>1. command'.at = "verify"
    BY <1>0, <1>1 DEF BeginVerify, Commands
  <2> QED BY <1>1, <2>1, ReadingKeepsCompletion DEF BeginVerify, Writing
<1>2. CASE InvokeVerification \/ QueryMetric
  <2>1. command'.at \in {"query", "inspect"}
    BY <1>0, <1>2 DEF InvokeVerification, QueryMetric, Commands
  <2>2. UNCHANGED <<incident, live, bridge, basis, config>>
    BY <1>2 DEF InvokeVerification, QueryMetric
  <2> QED BY <2>1, <2>2, ReadingKeepsCompletion DEF Writing
<1>3. CASE InspectDeployment
  <2>1. UNCHANGED <<incident, live, bridge, basis, config>> /\ command.at = "inspect"
    BY <1>3 DEF InspectDeployment
  <2>2. PICK target \in command.target :
        \E policy \in RecoveryPolicies(config, target.name) :
           command' = IF Recovered(live, command.sample, policy, KeyOf[target],
                                   target, NotBefore(command), command.time)
                      THEN [command EXCEPT !.at = "describe", !.live = {live}]
                      ELSE [command EXCEPT !.at = "verify", !.time = 0,
                                           !.sample = NoSample]
    BY <1>3 DEF InspectDeployment
  <2>3. PICK policy \in RecoveryPolicies(config, target.name) :
           command' = IF Recovered(live, command.sample, policy, KeyOf[target],
                                   target, NotBefore(command), command.time)
                      THEN [command EXCEPT !.at = "describe", !.live = {live}]
                      ELSE [command EXCEPT !.at = "verify", !.time = 0,
                                           !.sample = NoSample]
    BY <2>2
  <2>4. CASE ~Recovered(live, command.sample, policy, KeyOf[target],
                        target, NotBefore(command), command.time)
    <3>1. command'.at = "verify"
      BY <1>0, <2>3, <2>4 DEF Commands
    <3> QED BY <2>1, <3>1, ReadingKeepsCompletion DEF Writing
  <2>5. CASE Recovered(live, command.sample, policy, KeyOf[target],
                       target, NotBefore(command), command.time)
    <3>1. /\ command'.at = "describe" /\ command'.live = {live}
          /\ command'.target = command.target /\ command'.sample = command.sample
          /\ command'.state = command.state
      BY <1>0, <2>3, <2>5 DEF Commands
    <3>2. command.target = {target}
      BY <2>1, <2>2 DEF RecordInv, SnapshotSound, Checking
    <3>3. ShowsRollback(live, KeyOf[target], target)
      BY <2>5, HealthyShowsRollback
         DEF Recovered, CompletionInv, TypeInv, TypeOK
    <3>4. ShowsRecovery(command.sample, NotBefore(command), target)
      <4>1. NotBefore(command) \in Int
        BY <2>1, NotBeforeType
      <4> QED BY <2>5, <4>1, RecordTypes, GoodSampleShowsRecovery DEF Recovered
    <3>5. Inspected(command)'
      BY <2>1, <3>1, <3>2, <3>3, <3>4
         DEF Inspected, NotBefore, ShowsRecovery
    <3> QED BY <2>1, <3>1, <3>5 DEF CompletionInv, Writing, Founded, ShowsRecovery
  <2> QED BY <2>4, <2>5
<1>4. CASE DescribeForCompletion
  <2>1. /\ UNCHANGED <<incident, live, bridge, basis, config>>
        /\ command.at = "describe"
        /\ command' = [command EXCEPT !.at = "patch", !.state = incident]
    BY <1>4 DEF DescribeForCompletion, RecordToComplete, NoteCommandSnapshot
  <2>2. /\ command'.at = "patch" /\ command'.state = incident
        /\ command'.target = command.target /\ command'.sample = command.sample
        /\ command'.live = command.live
    BY <1>0, <2>1 DEF Commands
  <2>3. PICK target \in Targets : command.target = {target}
    BY <2>1 DEF RecordInv, SnapshotSound, Checking
  <2>4. /\ LastAttempt(incident).target = target
        /\ LastAttempt(incident).key = KeyOf[target]
        /\ LastAttempt(incident).finishedAt = NotBefore(command)
        /\ incident.stage # "completed"
    BY <1>4, <2>3
       DEF DescribeForCompletion, RecordToComplete, CanVerifyRecovery, LastAttempt
  <2>5. Inspected(command)'
    BY <2>1, <2>2, <2>4 DEF CompletionInv, Inspected, NotBefore, ShowsRecovery
  <2> QED BY <2>1, <2>2, <2>3, <2>4, <2>5 DEF CompletionInv
<1>5. CASE PersistCompletion
  <2> DEFINE next == RecordRecoveryCheck(command.state, TRUE, command.time)
  <2>1. LastAttempt(next) = LastAttempt(command.state)
    BY RecordTypes, StagesWritten
  <2> HIDE DEF next
  <2>2. /\ incident' = next /\ command.at = "patch"
        /\ command' = [command EXCEPT !.at = "readback", !.state = next]
        /\ basis' = {[sample |-> command.sample, live |-> seen] : seen \in command.live}
        /\ UNCHANGED <<live, bridge, config>>
    BY <1>5 DEF PersistCompletion, next
  <2>3. command'.at = "readback"
    BY <1>0, <2>2 DEF Commands
  <2>4. PICK target \in Targets : command.target = {target}
    BY <2>2 DEF RecordInv, SnapshotSound
  <2>5. /\ LastAttempt(incident').key = KeyOf[target]
        /\ LastAttempt(incident').target = target
        /\ LastAttempt(incident').finishedAt = NotBefore(command)
        /\ incident.stage # "completed"
    BY <2>1, <2>2, <2>4 DEF CompletionInv, NotBefore, Writing
  <2>6. /\ command.live # {}
        /\ \A seen \in command.live : ShowsRollback(seen, KeyOf[target], target)
        /\ ShowsRecovery(command.sample, NotBefore(command), target)
    BY <2>2, <2>4 DEF CompletionInv, Inspected
  <2>7. \A b \in basis' : b.sample = command.sample /\ b.live \in command.live
    BY <2>2
  <2>8. basis' # {}
    BY <2>2, <2>6
  <2>9. \A b \in basis' :
          /\ ShowsRollback(b.live, KeyOf[target], target)
          /\ b.sample.at >= NotBefore(command)
          /\ \E policy \in RecoveryPolicies(config', target.name) :
                MeetsThreshold(b.sample.value, policy)
    BY <2>2, <2>6, <2>7 DEF ShowsRecovery
  <2>10. Founded(incident)'
    BY <2>5, <2>8, <2>9 DEF Founded, ShowsRecovery
  <2> QED BY <2>2, <2>3, <2>5, <2>10 DEF CompletionInv, Writing
<1>6. CASE ReadBack
  BY <1>0, <1>6, ReadingKeepsCompletion DEF ReadBack, Writing
<1> QED BY <1>1, <1>2, <1>3, <1>4, <1>5, <1>6

\* A delivery carries a completion only from one it has read, and a status is
\* always about some spec.
LEMMA OthersKeepCompletion ==
    ASSUME TypeInv, CompletionInv, OtherStep
    PROVE  CompletionInv'
<1> USE DEF world, histories, files, lobster
<1>0. /\ live \in LiveDeployments
      /\ live.generation \in Int /\ live.status.observed \in Int
  BY SessionConstants DEF TypeInv, TypeOK, LiveDeployments, Statuses
<1>1. ASSUME UNCHANGED <<incident, command, bridge, basis, config>>,
             StatusHonest(live')
      PROVE  CompletionInv'
  BY <1>1 DEF CompletionInv, Founded, Inspected, ShowsRecovery
<1>2. StatusHonest(live)
  BY DEF CompletionInv
<1>3. ASSUME NEW d, DescribeForDelivery(d) PROVE CompletionInv'
  <2>1. bridge' = <<[delivery |-> d, state |-> incident]>>
    BY <1>3 DEF DescribeForDelivery
  <2>2. bridge'[1].state = incident
    BY <2>1
  <2> QED BY <1>3, <2>2
          DEF DescribeForDelivery, CompletionInv, Founded, Inspected, ShowsRecovery
<1>4. CASE PatchDelivery
  <2>1. /\ bridge # <<>> /\ bridge' = <<>>
        /\ \/ incident' = Reduced(bridge[1].state, bridge[1].delivery)
           \/ incident' = incident
        /\ UNCHANGED <<live, command, basis, config>>
    BY <1>4 DEF PatchDelivery
  <2>2. CASE incident' = incident
    BY <2>1, <2>2 DEF CompletionInv, Founded, Inspected, ShowsRecovery
  <2>3. CASE incident' = Reduced(bridge[1].state, bridge[1].delivery)
    <3>1. /\ incident'.stage = bridge[1].state.stage
          /\ LastAttempt(incident') = LastAttempt(bridge[1].state)
      BY <2>1, <2>3, RecordTypes, ConstantTypes, StagesWritten
    <3>2. incident'.stage = "completed" =>
             /\ incident.stage = "completed"
             /\ LastAttempt(incident') = LastAttempt(incident)
      BY <2>1, <3>1 DEF CompletionInv
    <3>3. incident'.stage = "completed" => Founded(incident)'
      BY <2>1, <3>2 DEF CompletionInv, Founded, ShowsRecovery
    <3> QED BY <2>1, <3>2, <3>3 DEF CompletionInv, Inspected, ShowsRecovery
  <2> QED BY <2>1, <2>2, <2>3
<1>5. CASE Tick
  BY <1>1, <1>2, <1>5 DEF Tick
<1>6. ASSUME \/ \E caller, key, approve : OtherAdmitted(caller, key, approve)
             \/ \E request : OtherResume(request)
      PROVE  CompletionInv'
  BY <1>1, <1>2, <1>6 DEF OtherAdmitted, OtherResume
<1>7. ASSUME NEW value, Scrape(value) PROVE CompletionInv'
  BY <1>1, <1>2, <1>7 DEF Scrape
<1>8. ASSUME NEW edited \in LiveDeployments, Edit(edited),
             edited.generation = live.generation, edited.status = live.status
      PROVE  CompletionInv'
  <2>1. live'.status = live.status /\ live'.generation = live.generation + 1
    BY <1>8 DEF Edit, LiveDeployments
  <2>2. StatusHonest(live')
    BY <1>0, <1>2, <2>1 DEF StatusHonest
  <2> QED BY <1>1, <1>8, <2>2 DEF Edit
<1>9. ASSUME NEW template \in Templates, Edit([live EXCEPT !.template = template])
      PROVE  CompletionInv'
  BY <1>0, <1>8, <1>9 DEF LiveDeployments
<1>10. ASSUME NEW replicas \in 0..MaxReplicas, Edit([live EXCEPT !.desired = replicas])
       PROVE  CompletionInv'
  BY <1>0, <1>8, <1>10 DEF LiveDeployments
<1>11. ASSUME NEW updated, NEW available, UpdateStatus(updated, available)
       PROVE  CompletionInv'
  <2>1. /\ live'.status.observed = live.generation
        /\ live'.status.of = live.template
        /\ live'.generation = live.generation /\ live'.template = live.template
    BY <1>0, <1>11 DEF UpdateStatus, LiveDeployments
  <2>2. StatusHonest(live')
    BY <1>0, <2>1 DEF StatusHonest
  <2> QED BY <1>1, <1>11, <2>2 DEF UpdateStatus
<1> QED BY <1>3, <1>4, <1>5, <1>6, <1>7, <1>9, <1>10, <1>11
        DEF OtherStep, ReceiveDelivery

\* A completion on record has its foundation in every state.
LEMMA CompletionCorrect == Spec => []CompletionInv
<1>1. Init => CompletionInv
  <2> SUFFICES ASSUME Init PROVE CompletionInv
    OBVIOUS
  <2>1. incident.stage = "alert_received"
    BY DEF Init, FirstRecord, CreateIncident
  <2>2. StatusHonest(live)
    BY DEF Init, FirstLive, StatusHonest
  <2> QED BY <2>1, <2>2 DEF Init, Idle, CompletionInv, Writing
<1>2. ASSUME TypeInv, RecordInv, CompletionInv, [Next]_vars PROVE CompletionInv'
  <2>1. CASE CommandStep
    BY <1>2, <2>1, PreparationKeepsCompletion, RemediationKeepsCompletion,
       VerificationKeepsCompletion DEF CommandStep
  <2>2. CASE OtherStep
    BY <1>2, <2>2, OthersKeepCompletion
  <2>3. CASE UNCHANGED vars
    BY <1>2, <2>3 DEF vars, world, histories, files, lobster, CompletionInv,
                      Founded, Inspected, ShowsRecovery
  <2> QED BY <1>2, <2>1, <2>2, <2>3 DEF Next
<1> QED BY <1>1, <1>2, RecordCorrect, PTL DEF Spec

\* An incident is completed only on a Deployment whose controller had rolled
\* out the template of the rollback this incident made
\* (inspectDeploymentRecovery).
THEOREM CompletedOnlyOnItsRollout == Spec => []CompletedOnItsRollout
<1>1. CompletionInv => CompletedOnItsRollout
  BY DEF CompletionInv, Founded, ShowsRollback, CompletedOnItsRollout
<1> QED BY <1>1, CompletionCorrect, PTL

\* ... and only on a sample from after the attempt that passes the threshold
\* (inspectPrometheusRecovery).
THEOREM CompletedOnlyOnFreshMetric == Spec => []CompletedOnFreshMetric
<1>1. CompletionInv => CompletedOnFreshMetric
  BY DEF CompletionInv, Founded, ShowsRecovery, CompletedOnFreshMetric
<1> QED BY <1>1, CompletionCorrect, PTL

-----------------------------------------------------------------------------
(* Nothing is undone while reads and writes do not overlap *)

\* The window holds exactly what was acknowledged, each delivery once, until
\* it is too small for that.
RemembersAll ==
    Cardinality(acknowledged) <= MaxRecentDeliveryIds =>
        /\ acknowledged = RecordedIds
        /\ Cardinality(acknowledged) = Len(incident.recentDeliveryIds)

\* As long as the windows of bridge and commands never meet, only one of them
\* is open, and the snapshot it holds is the record itself.
Alone ==
    /\ Holds(command) => bridge = <<>> /\ command.state = incident
    /\ bridge # <<>> => bridge[1].state = incident
    /\ RemembersAll
    /\ announced => incident.stage = "completed"
    /\ command.at = "readback" => command.state.stage = "completed"

AloneInv ==
    /\ IsFiniteSet(acknowledged)
    /\ ~overlapped => Alone

\* What the functions of the workflow return has the window it was given.
LEMMA WorkflowKeepsWindow ==
    ASSUME NEW s \in Incidents, NEW t \in Time
    PROVE  /\ RecordMetricEvidence(s, TRUE, t).recentDeliveryIds
                 = s.recentDeliveryIds
           /\ RecordRemediationProposal(s, t).recentDeliveryIds
                 = s.recentDeliveryIds
           /\ \A yes \in BOOLEAN :
                 RecordApprovalDecision(s, yes, t).recentDeliveryIds
                    = s.recentDeliveryIds
           /\ \A key, target :
                 BeginAttempt(s, key, target, t).recentDeliveryIds
                    = s.recentDeliveryIds
           /\ WithAttemptSettled(s, "succeeded", t).recentDeliveryIds
                 = s.recentDeliveryIds
           /\ BlockForManualReview(s, t).recentDeliveryIds = s.recentDeliveryIds
           /\ RecordRecoveryCheck(s, TRUE, t).recentDeliveryIds
                 = s.recentDeliveryIds
           /\ RecordRecoveryCheck(s, TRUE, t).stage = "completed"
BY DEF RecordMetricEvidence, RecordRemediationProposal, RecordApprovalDecision,
       BeginAttempt, WithAttemptSettled, BlockForManualReview,
       RecordRecoveryCheck, RecoveryStage, Incidents

\* A command writes what it computed from the snapshot it holds.
LEMMA WritingKeepsAlone ==
    ASSUME AloneInv, UNCHANGED <<bridge, acknowledged, announced, overlapped>>,
           Holds(command),
           incident'.recentDeliveryIds = command.state.recentDeliveryIds,
           incident'.stage = "completed" \/ incident.stage # "completed"
                                         \/ command.state # incident,
           Holds(command') => command'.state = incident',
           command'.at = "readback" => command'.state.stage = "completed"
    PROVE  AloneInv'
<1> SUFFICES ASSUME ~overlapped PROVE Alone'
  BY DEF AloneInv
<1>1. Alone /\ bridge = <<>> /\ command.state = incident
  BY DEF AloneInv, Alone
<1>2. incident'.recentDeliveryIds = incident.recentDeliveryIds
  BY <1>1
<1>3. RemembersAll'
  BY <1>1, <1>2 DEF Alone, RemembersAll, RecordedIds
<1> QED BY <1>1, <1>3 DEF Alone

\* A command goes on with the snapshot it holds, or drops it.
LEMMA WaitingKeepsAlone ==
    ASSUME AloneInv,
           UNCHANGED <<incident, bridge, acknowledged, announced, overlapped>>,
           Holds(command') => Holds(command) /\ command'.state = command.state,
           command'.at # "readback"
    PROVE  AloneInv'
BY DEF AloneInv, Alone, RemembersAll, RecordedIds

\* A command takes the record as its snapshot.
LEMMA ReadingKeepsAlone ==
    ASSUME AloneInv, UNCHANGED <<incident, bridge>>, NoteCommandSnapshot,
           command'.state = incident, command'.at # "readback"
    PROVE  AloneInv'
BY DEF AloneInv, Alone, RemembersAll, RecordedIds, NoteCommandSnapshot

\* The commands up to the human's answer.
LEMMA PreparationKeepsAlone ==
    ASSUME TypeInv, CompletionInv, AloneInv,
           \/ \E target \in Targets : BeginPrepare(target) \/ BeginOffTarget(target)
           \/ QueryEvidence \/ PersistEvidence \/ PersistProposal
           \/ EnterAuthorization \/ RunLobster \/ Fail
           \/ \E approve \in BOOLEAN : AdmitResume(approve)
           \/ ResumeLobster
    PROVE  AloneInv'
<1> USE DEF histories
<1>0. /\ command \in Commands /\ Idle \in Commands /\ Idle.at = "idle"
      /\ command.state \in Incidents /\ command.time \in Time /\ now \in Time
      /\ command.sample.at \in Time
  BY RecordTypes
<1>1. ASSUME NEW target \in Targets, BeginPrepare(target) \/ BeginOffTarget(target)
      PROVE  AloneInv'
  <2>1. command'.at = "collect" /\ command'.state = incident
    BY <1>0, <1>1 DEF BeginPrepare, BeginOffTarget, Begin, Commands
  <2> QED BY <1>1, <2>1, ReadingKeepsAlone DEF BeginPrepare, BeginOffTarget, Begin
<1>2. CASE QueryEvidence
  <2>1. command'.at = "collected" /\ command'.state = command.state
    BY <1>0, <1>2 DEF QueryEvidence, Commands
  <2> QED BY <1>2, <2>1, WaitingKeepsAlone DEF QueryEvidence, Holds
<1>3. CASE PersistEvidence
  <2> DEFINE next == RecordMetricEvidence(command.state, TRUE, command.sample.at)
  <2>1. next.recentDeliveryIds = command.state.recentDeliveryIds
    BY <1>0, WorkflowKeepsWindow
  <2>2. command.state.stage # "completed"
    BY <1>0, <1>3, RecordTypes, StagesWritten DEF PersistEvidence
  <2> HIDE DEF next
  <2>3. /\ incident' = next
        /\ command' = [command EXCEPT !.at = "propose", !.state = next,
                                      !.sample = NoSample]
    BY <1>3 DEF PersistEvidence, next
  <2>4. command'.at = "propose" /\ command'.state = next
    BY <1>0, <2>3 DEF Commands
  <2>5. incident.stage # "completed" \/ command.state # incident
    BY <2>2
  <2> QED BY <1>3, <2>1, <2>3, <2>4, <2>5, WritingKeepsAlone
          DEF PersistEvidence, Holds
<1>4. CASE PersistProposal
  <2> DEFINE next == RecordRemediationProposal(command.state, now)
  <2>1. next.recentDeliveryIds = command.state.recentDeliveryIds
    BY <1>0, WorkflowKeepsWindow
  <2>2. incident.stage # "completed"
    BY <1>4 DEF PersistProposal, CompletionInv, Writing
  <2> HIDE DEF next
  <2>3. /\ incident' = next
        /\ \/ command' = [command EXCEPT !.at = "authorize", !.state = next]
           \/ command' = Idle
    BY <1>4 DEF PersistProposal, next
  <2>4. \/ command'.at = "authorize" /\ command'.state = next
        \/ command'.at = "idle"
    BY <1>0, <2>3 DEF Commands
  <2> QED BY <1>4, <2>1, <2>2, <2>3, <2>4, WritingKeepsAlone
          DEF PersistProposal, Holds
<1>5. CASE EnterAuthorization
  <2>1. command'.at = "run" /\ command'.state = command.state
    BY <1>0, <1>5 DEF EnterAuthorization, Commands
  <2>2. incident.stage # "completed"
    BY <1>5 DEF EnterAuthorization, CompletionInv, Writing
  <2> QED BY <1>5, <2>1, <2>2, WritingKeepsAlone DEF EnterAuthorization, Holds
<1>6. CASE \/ RunLobster \/ ResumeLobster
           \/ \E approve \in BOOLEAN : AdmitResume(approve)
  <2>1. /\ command.at \in {"run", "resume", "admitted"}
        /\ command'.at \in {"resume", "admitted", "decide"}
        /\ command'.state = command.state
    BY <1>0, <1>6 DEF RunLobster, ResumeLobster, AdmitResume, Commands
  <2> QED BY <1>6, <2>1, WaitingKeepsAlone DEF RunLobster, ResumeLobster, AdmitResume, Holds
<1>7. CASE Fail
  BY <1>0, <1>7, WaitingKeepsAlone DEF Fail, Holds
<1> QED BY <1>1, <1>2, <1>3, <1>4, <1>5, <1>6, <1>7

\* The decision, the start, the rollback and its reconciliation.
LEMMA RemediationKeepsAlone ==
    ASSUME TypeInv, CompletionInv, AloneInv,
           \/ PersistDecision \/ PersistStart \/ WriteResume \/ WriteAmbiguous
           \/ \E target \in Targets : Rollback(target)
           \/ BeginReconcile \/ PersistReconciled
           \/ \E readable \in BOOLEAN : ReadOutcome(readable)
    PROVE  AloneInv'
<1> USE DEF histories
<1>0. /\ command \in Commands /\ Idle \in Commands /\ Idle.at = "idle"
      /\ command.state \in Incidents /\ command.time \in Time /\ now \in Time
      /\ command.sample.at \in Time
  BY RecordTypes
<1>1. Writing(command) => incident.stage # "completed"
  BY DEF CompletionInv
<1>2. CASE PersistDecision
  <2> DEFINE next == RecordApprovalDecision(command.state, Decided(command),
                                            command.time)
  <2>1. next.recentDeliveryIds = command.state.recentDeliveryIds
    BY <1>0, WorkflowKeepsWindow, RecordTypes DEF Decided
  <2> HIDE DEF next
  <2>2. /\ incident' = next
        /\ \/ command' = [command EXCEPT !.at = "start", !.state = next]
           \/ command' = Idle
    BY <1>2 DEF PersistDecision, next
  <2>3. \/ command'.at = "start" /\ command'.state = next
        \/ command'.at = "idle"
    BY <1>0, <2>2 DEF Commands
  <2>4. incident.stage # "completed"
    BY <1>1, <1>2 DEF PersistDecision, Writing
  <2> QED BY <1>2, <2>1, <2>2, <2>3, <2>4, WritingKeepsAlone
          DEF PersistDecision, Holds
<1>3. CASE PersistStart
  <2>1. PICK target \in command.target :
          incident' = BeginAttempt(command.state, KeyOf[target], target,
                                   command.time)
    BY <1>3 DEF PersistStart
  <2>2. incident'.recentDeliveryIds = command.state.recentDeliveryIds
    <3>1. \A k, goal :
             BeginAttempt(command.state, k, goal, command.time).recentDeliveryIds
                = command.state.recentDeliveryIds
      BY <1>0, WorkflowKeepsWindow
    <3> QED BY <2>1, <3>1
  <2>3. incident.stage # "completed" /\ command'.at = "started"
    BY <1>0, <1>1, <1>3 DEF PersistStart, Writing, Commands
  <2> QED BY <1>3, <2>2, <2>3, WritingKeepsAlone DEF PersistStart, Holds
<1>8. CASE WriteResume \/ WriteAmbiguous
  BY <1>0, <1>8, WaitingKeepsAlone DEF WriteResume, WriteAmbiguous, Holds
<1>4. ASSUME NEW target \in Targets, Rollback(target) PROVE AloneInv'
  <2>1. command.at \in {"idle", "started"} /\ command' = command
    BY <1>4 DEF Rollback, MayRollBack
  <2> QED BY <1>4, <2>1, WaitingKeepsAlone DEF Rollback, Holds
<1>5. CASE BeginReconcile
  <2>1. command'.at = "reconcile" /\ command'.state = incident
    BY <1>0, <1>5 DEF BeginReconcile, Commands
  <2> QED BY <1>5, <2>1, ReadingKeepsAlone DEF BeginReconcile
<1>6. ASSUME NEW readable \in BOOLEAN, ReadOutcome(readable) PROVE AloneInv'
  <2>1. /\ command.at = "reconcile" /\ command'.at = "settle"
        /\ command'.state = command.state
    BY <1>0, <1>6 DEF ReadOutcome, Commands
  <2> QED BY <1>6, <2>1, WaitingKeepsAlone DEF ReadOutcome, Holds
<1>7. CASE PersistReconciled
  <2>1. \/ incident' = WithAttemptSettled(command.state, "succeeded", command.time)
        \/ incident' = BlockForManualReview(command.state, command.time)
    BY <1>7 DEF PersistReconciled, SettleAttempt
  <2>2. incident'.recentDeliveryIds = command.state.recentDeliveryIds
    <3>1. /\ WithAttemptSettled(command.state, "succeeded", command.time)
                .recentDeliveryIds = command.state.recentDeliveryIds
          /\ BlockForManualReview(command.state, command.time)
                .recentDeliveryIds = command.state.recentDeliveryIds
      BY <1>0, WorkflowKeepsWindow
    <3> QED BY <2>1, <3>1
  <2>3. incident.stage # "completed" /\ command'.at = "idle"
    BY <1>0, <1>1, <1>7 DEF PersistReconciled, Writing
  <2> QED BY <1>7, <2>2, <2>3, WritingKeepsAlone DEF PersistReconciled, Holds
<1> QED BY <1>2, <1>3, <1>4, <1>5, <1>6, <1>7, <1>8

\* The verification polls without a snapshot, and takes one only to complete.
LEMMA VerificationKeepsAlone ==
    ASSUME TypeInv, CompletionInv, AloneInv,
           \/ \E target \in Targets : BeginVerify(target)
           \/ InvokeVerification \/ QueryMetric \/ InspectDeployment
           \/ DescribeForCompletion \/ PersistCompletion \/ ReadBack
    PROVE  AloneInv'
<1> USE DEF histories
<1>0. /\ command \in Commands /\ Idle \in Commands /\ Idle.at = "idle"
      /\ command.state \in Incidents /\ command.time \in Time
  BY RecordTypes
<1>1. ASSUME UNCHANGED <<incident, bridge, acknowledged, announced, overlapped>>,
             command'.at \in {"verify", "query", "inspect", "describe"}
      PROVE  AloneInv'
  BY <1>1, WaitingKeepsAlone DEF Holds
<1>2. ASSUME NEW target \in Targets, BeginVerify(target) PROVE AloneInv'
  <2>1. command'.at = "verify"
    BY <1>0, <1>2 DEF BeginVerify, Commands
  <2> QED BY <1>1, <1>2, <2>1 DEF BeginVerify
<1>3. CASE InvokeVerification \/ QueryMetric \/ InspectDeployment
  <2>1. command'.at \in {"verify", "query", "inspect", "describe"}
    BY <1>0, <1>3 DEF InvokeVerification, QueryMetric, InspectDeployment, Commands
  <2> QED BY <1>1, <1>3, <2>1
          DEF InvokeVerification, QueryMetric, InspectDeployment
<1>4. CASE DescribeForCompletion
  <2>1. command'.at = "patch" /\ command'.state = incident
    BY <1>0, <1>4 DEF DescribeForCompletion, RecordToComplete, Commands
  <2> QED BY <1>4, <2>1, ReadingKeepsAlone DEF DescribeForCompletion
<1>5. CASE PersistCompletion
  <2> DEFINE next == RecordRecoveryCheck(command.state, TRUE, command.time)
  <2>1. /\ next.recentDeliveryIds = command.state.recentDeliveryIds
        /\ next.stage = "completed"
    BY <1>0, WorkflowKeepsWindow
  <2> HIDE DEF next
  <2>2. /\ incident' = next
        /\ command' = [command EXCEPT !.at = "readback", !.state = next]
    BY <1>5 DEF PersistCompletion, next
  <2>3. command'.at = "readback" /\ command'.state = next
    BY <1>0, <2>2 DEF Commands
  <2> QED BY <1>5, <2>1, <2>2, <2>3, WritingKeepsAlone
          DEF PersistCompletion, Holds
<1>6. CASE ReadBack
  <2>1. /\ UNCHANGED <<incident, bridge, acknowledged, overlapped>>
        /\ incident = command.state /\ command.at = "readback"
        /\ command'.at = "idle"
    BY <1>0, <1>6 DEF ReadBack, IsThere
  <2> QED BY <2>1 DEF AloneInv, Alone, Holds, RemembersAll, RecordedIds
<1> QED BY <1>2, <1>3, <1>4, <1>5, <1>6

\* The window takes one more identity as long as there is room.
LEMMA WindowTakesOneMore ==
    ASSUME NEW ids \in Seq(DeliveryIds), NEW id \in DeliveryIds,
           Len(ids) < MaxRecentDeliveryIds
    PROVE  LET r == AppendRecentDeliveryId(ids, id) IN
           /\ Len(r) = Len(ids) + 1
           /\ {r[i] : i \in DOMAIN r} = {ids[i] : i \in DOMAIN ids} \cup {id}
<1> DEFINE r == AppendRecentDeliveryId(ids, id)
<1>1. /\ Len(ids) \in Nat /\ DOMAIN ids = 1..Len(ids)
      /\ Append(ids, id) \in Seq(DeliveryIds)
      /\ Len(Append(ids, id)) = Len(ids) + 1
      /\ DOMAIN Append(ids, id) = 1..(Len(ids) + 1)
      /\ \A i \in 1..Len(ids) : Append(ids, id)[i] = ids[i]
      /\ Append(ids, id)[Len(ids) + 1] = id
  BY AppendProperties, LenProperties
<1>2. r = Append(ids, id)
  BY <1>1, ConstantTypes DEF AppendRecentDeliveryId
<1> HIDE DEF r
<1>3. /\ \A i \in 1..Len(ids) : i \in 1..(Len(ids) + 1)
      /\ \A i \in 1..(Len(ids) + 1) : i \in 1..Len(ids) \/ i = Len(ids) + 1
      /\ Len(ids) + 1 \in 1..(Len(ids) + 1)
  BY <1>1
<1>4. \A x : x \in {r[i] : i \in DOMAIN r}
                <=> x \in {ids[i] : i \in DOMAIN ids} \cup {id}
  BY <1>1, <1>2, <1>3
<1>5. Len(r) = Len(ids) + 1 /\ {r[i] : i \in DOMAIN r}
                                  = {ids[i] : i \in DOMAIN ids} \cup {id}
  BY <1>1, <1>2, <1>4
<1> QED BY <1>5 DEF r

\* An applied delivery is acknowledged and recorded at once.
LEMMA PatchRemembers ==
    ASSUME TypeInv, RemembersAll, IsFiniteSet(acknowledged), PatchDelivery,
           bridge[1].state = incident
    PROVE  IsFiniteSet(acknowledged') /\ RemembersAll'
<1> DEFINE d == bridge[1].delivery
           id == DeliveryId(d)
           ids == incident.recentDeliveryIds
<1>1. /\ incident \in Incidents /\ d \in Deliveries /\ id \in DeliveryIds
      /\ ids \in Seq(DeliveryIds) /\ Len(ids) \in Nat
      /\ MaxRecentDeliveryIds \in Nat
  <2>1. incident \in Incidents /\ d \in Deliveries
    BY RecordTypes DEF PatchDelivery
  <2> QED BY <2>1, DeliveryIdType, LenProperties, ConstantTypes DEF Incidents
<1>2. CASE /\ acknowledged' = acknowledged
           /\ incident'.recentDeliveryIds = incident.recentDeliveryIds
  BY <1>2 DEF RemembersAll, RecordedIds
<1>3. CASE Decision(incident, d) = "duplicate"
  <2>1. /\ incident' = Reduced(incident, d)
        /\ acknowledged' = acknowledged \cup {id}
    BY <1>3 DEF PatchDelivery
  <2>2. incident'.recentDeliveryIds = ids
    BY <1>1, <1>3, <2>1 DEF Reduced, Counted, Incidents
  <2>3. IsRecentDelivery(incident, d)
    BY <1>3 DEF Decision, DecisionOtherOccurrence
  <2>4. id \in RecordedIds
    BY <2>3 DEF IsRecentDelivery, RecordedIds
  <2>5. /\ IsFiniteSet(acknowledged')
        /\ Cardinality(acknowledged') = IF id \in acknowledged
              THEN Cardinality(acknowledged) ELSE Cardinality(acknowledged) + 1
        /\ Cardinality(acknowledged) \in Nat
    BY <2>1, FS_AddElement, FS_CardinalityType
  <2>6. CASE Cardinality(acknowledged) <= MaxRecentDeliveryIds
    <3>1. acknowledged' = acknowledged
      BY <2>1, <2>4, <2>6 DEF RemembersAll
    <3> QED BY <1>2, <2>2, <2>5, <3>1
  <2>7. CASE ~(Cardinality(acknowledged) <= MaxRecentDeliveryIds)
    <3>1. ~(Cardinality(acknowledged') <= MaxRecentDeliveryIds)
      BY <1>1, <2>5, <2>7
    <3> QED BY <2>5, <3>1 DEF RemembersAll
  <2> QED BY <2>6, <2>7
<1>4. CASE Decision(incident, d) \in {"updated", "stale_refire"}
  <2>1. /\ incident' = Reduced(incident, d)
        /\ acknowledged' = acknowledged \cup {id}
    BY <1>4 DEF PatchDelivery
  <2>2. incident'.recentDeliveryIds = AppendRecentDeliveryId(ids, id)
    BY <1>1, <1>4, <2>1 DEF Reduced, Remembered, Counted, Incidents
  <2>3. ~IsRecentDelivery(incident, d)
    BY <1>4 DEF Decision, DecisionOtherOccurrence
  <2>4. id \notin RecordedIds
    BY <2>3 DEF IsRecentDelivery, RecordedIds
  <2>5. /\ IsFiniteSet(acknowledged')
        /\ Cardinality(acknowledged') = IF id \in acknowledged
              THEN Cardinality(acknowledged) ELSE Cardinality(acknowledged) + 1
        /\ Cardinality(acknowledged) \in Nat
    BY <2>1, FS_AddElement, FS_CardinalityType
  <2>6. ASSUME Cardinality(acknowledged') <= MaxRecentDeliveryIds
        PROVE  /\ acknowledged' = RecordedIds'
               /\ Cardinality(acknowledged') = Len(incident'.recentDeliveryIds)
    <3>1. Cardinality(acknowledged) <= MaxRecentDeliveryIds
      BY <1>1, <2>5, <2>6
    <3>2. acknowledged = RecordedIds /\ Cardinality(acknowledged) = Len(ids)
      BY <3>1 DEF RemembersAll
    <3>3. Cardinality(acknowledged') = Len(ids) + 1
      BY <2>4, <2>5, <3>2
    <3>4. Len(ids) < MaxRecentDeliveryIds
      BY <1>1, <2>6, <3>3
    <3> HIDE DEF id, ids
    <3>5. LET r == AppendRecentDeliveryId(ids, id) IN
             /\ Len(r) = Len(ids) + 1
             /\ {r[i] : i \in DOMAIN r} = {ids[i] : i \in DOMAIN ids} \cup {id}
      BY <1>1, <3>4, WindowTakesOneMore
    <3>6. /\ Len(incident'.recentDeliveryIds) = Len(ids) + 1
          /\ RecordedIds' = RecordedIds \cup {id}
      BY <2>2, <3>5 DEF RecordedIds, ids
    <3> QED BY <2>1, <3>2, <3>3, <3>6
  <2> QED BY <2>5, <2>6 DEF RemembersAll
<1>5. CASE Decision(incident, d) \notin {"updated", "duplicate", "stale_refire"}
  BY <1>2, <1>5 DEF PatchDelivery
<1> QED BY <1>3, <1>4, <1>5

\* The bridge writes what the reducer makes of the record as it still is.
LEMMA OthersKeepAlone ==
    ASSUME TypeInv, AloneInv, OtherStep
    PROVE  AloneInv'
<1> USE DEF world, histories, files, lobster
<1>1. ASSUME UNCHANGED <<incident, command, bridge, acknowledged, announced,
                         overlapped>>
      PROVE  AloneInv'
  BY <1>1 DEF AloneInv, Alone, RemembersAll, RecordedIds
<1>2. ASSUME NEW d, DescribeForDelivery(d) PROVE AloneInv'
  <2>1. bridge' = <<[delivery |-> d, state |-> incident]>>
    BY <1>2 DEF DescribeForDelivery
  <2>2. bridge'[1].state = incident
    BY <2>1
  <2> QED BY <1>2, <2>2 DEF DescribeForDelivery, AloneInv, Alone, RemembersAll,
                            RecordedIds
<1>3. CASE PatchDelivery
  <2>1. /\ bridge # <<>> /\ bridge' = <<>>
        /\ UNCHANGED <<command, announced, overlapped>>
    BY <1>3 DEF PatchDelivery
  <2>2. IsFiniteSet(acknowledged')
    <3>1. \/ acknowledged' = acknowledged \cup {DeliveryId(bridge[1].delivery)}
          \/ acknowledged' = acknowledged
      BY <1>3 DEF PatchDelivery
    <3> QED BY <3>1, FS_AddElement DEF AloneInv
  <2>3. ASSUME ~overlapped PROVE Alone'
    <3>1. Alone /\ IsFiniteSet(acknowledged) /\ bridge[1].state = incident
      BY <2>1, <2>3 DEF AloneInv, Alone
    <3>2. RemembersAll'
      BY <1>3, <3>1, PatchRemembers DEF Alone
    <3>3. incident'.stage = incident.stage
      <4>1. \/ incident' = Reduced(incident, bridge[1].delivery)
            \/ incident' = incident
        BY <1>3, <3>1 DEF PatchDelivery
      <4> QED BY <2>1, <4>1, RecordTypes, ReducedKeepsWorkflow
    <3>4. ~Holds(command)
      BY <2>1, <3>1 DEF Alone
    <3>5. /\ ~Holds(command') /\ bridge' = <<>>
          /\ announced' => incident'.stage = "completed"
          /\ command'.at = "readback" => command'.state.stage = "completed"
      BY <2>1, <3>1, <3>3, <3>4 DEF Alone
    <3> QED BY <3>2, <3>5 DEF Alone
  <2> QED BY <2>1, <2>2, <2>3 DEF AloneInv
<1>4. ASSUME \/ \E caller, key, approve : OtherAdmitted(caller, key, approve)
             \/ \E request : OtherResume(request)
      PROVE  AloneInv'
  BY <1>1, <1>4 DEF OtherAdmitted, OtherResume
<1>5. CASE Tick \/ \E value \in SampleValues : Scrape(value)
  BY <1>1, <1>5 DEF Tick, Scrape
<1>6. ASSUME NEW edited, Edit(edited) PROVE AloneInv'
  BY <1>1, <1>6 DEF Edit
<1>7. ASSUME NEW updated, NEW available, UpdateStatus(updated, available)
      PROVE  AloneInv'
  BY <1>1, <1>7 DEF UpdateStatus
<1> QED BY <1>2, <1>3, <1>4, <1>5, <1>6, <1>7 DEF OtherStep, ReceiveDelivery

\* Without compare-and-swap nothing is undone as long as no read and write of
\* the bridge (dispatchDelivery) meets one of a command
\* (persistMetricEvidence, authorizeRemediationWithLobster,
\* reconcileIncidentOnRestart, persistDeploymentRecoveryVerification): what was
\* acknowledged stays in recentDeliveryIds while they have room for it, and an
\* announced completion stays.
THEOREM NothingIsLostWithoutOverlap == Spec => []NothingLostWithoutOverlap
<1>1. Init => AloneInv
  <2> SUFFICES ASSUME Init PROVE AloneInv
    OBVIOUS
  <2> DEFINE id == DeliveryId(FiringAt(0))
  <2>1. /\ acknowledged = {id} /\ incident.recentDeliveryIds = <<id>>
        /\ command.at = "idle" /\ bridge = <<>> /\ announced = FALSE
    BY DEF Init, FirstRecord, CreateIncident, Idle
  <2> HIDE DEF id
  <2>2. IsFiniteSet(acknowledged) /\ Cardinality(acknowledged) = 1
    BY <2>1, FS_Singleton
  <2>3. RecordedIds = {id} /\ Len(incident.recentDeliveryIds) = 1
    BY <2>1 DEF RecordedIds
  <2> QED BY <2>1, <2>2, <2>3 DEF AloneInv, Alone, RemembersAll, Holds
<1>2. ASSUME TypeInv, CompletionInv, AloneInv, [Next]_vars PROVE AloneInv'
  <2>1. CASE CommandStep
    BY <1>2, <2>1, PreparationKeepsAlone, RemediationKeepsAlone,
       VerificationKeepsAlone DEF CommandStep
  <2>2. CASE OtherStep
    BY <1>2, <2>2, OthersKeepAlone
  <2>3. CASE UNCHANGED vars
    BY <1>2, <2>3 DEF vars, histories, AloneInv, Alone, RemembersAll, RecordedIds
  <2> QED BY <1>2, <2>1, <2>2, <2>3 DEF Next
<1>3. AloneInv => NothingLostWithoutOverlap
  BY DEF AloneInv, Alone, RemembersAll, NothingLostWithoutOverlap
<1> QED BY <1>1, <1>2, <1>3, RecordCorrect, CompletionCorrect, PTL DEF Spec
=============================================================================
