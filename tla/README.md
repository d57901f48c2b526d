# A TLA+ model of the DataOps Guardian

The Guardian turns Prometheus alerts into incidents, lets an agent collect
evidence and propose a remediation, has a human approve it behind Lobster, runs
it at most a few times, checks recovery, and survives restarts of each of its
processes on the way. This directory holds TLA+ modules of that logic, TLC
configurations that check them on small instances, and TLAPS proofs. Paths such
as `state/incident-workflow.ts` are below `src/src/`.

## 1. The system

| part | state it keeps | operations | talks to |
|---|---|---|---|
| incident record, decoder (`state/incident-state.ts`) | one JSON record per occurrence, in a Gateway session | `readIncidentStateV3`, `transitionIncidentState` | read and written by everything below |
| reducer (`state/incident-reducer.ts`) | none | `reduceAlertDelivery` | called by bridge and reconciliation |
| workflow functions (`state/incident-workflow.ts`, `policy/evidence-policy.ts`) | none | record evidence, proposal, approval; begin and finish an attempt; record the recovery check | called by entries and commands |
| operator's commands (`src/scripts/kind-prometheus-recovery-rpc.mjs`) | a snapshot of the record while one runs; a resume file between two | prepare, resume, rollback, reconcile, verify | Gateway, the plugin's tools |
| Lobster approval entry (`runtime/lobster-remediation-entry.ts`) | the record its caller read | decide, then start an attempt: two patches after a human's answer | Lobster, Gateway |
| Lobster tool gate (`hooks/lobster-tool-gate.ts`) | none; reads Lobster's directory of paused runs | hold a run or resume request against the incident workflow | the agent host |
| recovery verification entry (`runtime/recovery-verification-entry.ts`) | none | describe, check, patch, read back | Gateway |
| recovery inspection (`recovery/`, `hooks/verify-deployment-recovery-gate.ts`, `kubernetes/config.ts`) | none | compare metric and Deployment with target and policy | Kubernetes, Prometheus |
| restart reconciliation (`state/restart-reconciliation.ts`) | none | settle or block the attempt that was running | an external reconciler |
| alert bridge (`alertmanager/http-bridge/`) | route and deferred checkpoint per fingerprint, in memory and in `bridge-state.json`; a lock queue; an audit file | accept webhooks, route them to sessions, hold and replay one delivery, start up | Alertmanager, Gateway |
| Kubernetes rollback (`kubernetes/`, `tools/rollback-deployment.ts`, `hooks/rollback-deployment-gate.ts`) | annotations on the Deployment | roll back once per key; reconcile read-only | Kubernetes API |
| response gate and evidence ledger (`hooks/response-gate.ts`, `index.ts`, `validators/`) | the tools that succeeded in a run, in the host's run context or in a bounded map | hooks before a run, around each tool call, before the answer, at the end | the agent host |

The session is the shared state. `sessions.pluginPatch` has no
compare-and-swap, so every writer is a read, a computation and a blind write.
What makes this hard:

- deliveries are stamped before the fingerprint lock and applied after it;
- a route, a session and a held delivery are three durable things written one
  after the other, with a crash possible between any two;
- an RPC can time out after it took effect, and a patch can arrive late;
- a command holds its snapshot while a human thinks, a cluster answers or a
  metric settles, and may die with it;
- a status the controller wrote about the rollout before the rollback looks
  healthy, and so may a sample taken before it;
- Lobster's directory of paused runs belongs to all its pipelines;
- the identity window, the counters, the attempt budget and the fallback map of
  ledgers are bounded, and reconciliation assigns a stage without the
  transition table;
- the timestamps of the callers are not the receiver's;
- tool results come in any order, even after the run that asked has ended.

What makes each part correct: a record any reader can decode; at most one
attempt in flight, never without a person's approval of this occurrence, never
beyond the budget, never twice for a key; a stage that explains itself; a
completion that rests on this rollback's rollout and on a metric from after it;
a bridge that loses no delivery it answered with 2xx, whose file decodes after
every crash and whose route only moves forward; a rollback applied once; an
answer that is challenged when its evidence is missing.

## 2. Modules

| module | models |
|---|---|
| `IncidentState` | the record, the decoder's rules between fields, the transition table |
| `IncidentReducer` | `reduceAlertDelivery`: `Decision`, `Reduced`, `CreateIncident` |
| `IncidentWorkflow` | the workflow functions as pairs `Can...` / record returned, the evidence policy, settlement by reconciliation |
| `IncidentLifecycle` | one session and everyone who writes it, each call atomic |
| `AlertBridge` | the bridge process for one fingerprint, one action per RPC or file write, its faults, and the sessions with their other writers |
| `DeploymentRollback` | the rollback tool, its gate and its reconciler on one Deployment, with the controller, people and the incidents that ask for rollbacks |
| `RecoveryInspection` | the configuration, the two observations of a recovery check and the issues each can raise |
| `LobsterGate` | which run and resume requests Lobster is allowed to carry out |
| `RemediationSession` | the composition: one session from alert to completion, every party interleaved at every await |
| `GatedRemediation` | the abstract promise `RemediationSession` implements |
| `ResponseGate` | the five hooks of an agent run and the two stores of its ledger |
| `IncidentOperatorLemmas` | lemmas on the operators of record, reducer and workflow |
| `IncidentLifecycleProofs`, `DeploymentRollbackProofs`, `AlertBridgeProofs`, `BridgeRecordProofs`, `RemediationSessionProofs`, `SessionRecordProofs`, `ResponseGateProofs` | theorems |
| `MCIncidentLifecycle`, `MCAlertBridge`, `MCDeploymentRollback`, `MCRemediationSession`, `MCResponseGate` | model values, targets, configurations, symmetry |

Abstractions. A timestamp is a number of `Time`, JSON null is `None`. An
occurrence identity (a hash of fingerprint and start) is that pair; a delivery
identity is status, start and end, which is what the code hashes. Of the
evidence only the observation times of Prometheus entries are kept, since the
policy reads nothing else. `proposedAction` is present or absent. JSON type
checks are the types of the record. A saturating counter stops at `MaxCount`,
as a JavaScript number does at 2^53. A template is its digest, a key its hash.

`IncidentLifecycle`: `ReceiveDelivery` is `reduceAlertDelivery` and its patch;
`CollectEvidence`, `Propose`, `DecideApproval`, `StartAttempt`,
`FinishAttempt`, `VerifyRecovery`, `Reconcile` are the functions of these
names; a call that throws or rejects writes nothing and is no step. `Tick` is
the clock. A delivery may carry any past receipt time; other callers pass a
time at most `MaxLag` behind. `accepted` is a history variable.

`AlertBridge`: `Arrive` stamps a delivery and queues it; `Acquire` takes the
lock (`fingerprint-lock.ts`) and puts the held delivery, if any, in front
(`drainPendingCheckpoint`); `DescribeOwn`, `Plan`, `Persist`, `AdvanceRoute`
are the stretches of `applyDelivery` between Gateway answers; `Flush` is
`BridgeStateStore.commit` over `writeJsonFileDurable`, which may fail before or
after the rename; `Audit` is the audit line, which may fail; `FailRpc` a failed
or timed-out RPC, `Crash` and `Restart` the process with its startup sweep
(`run.ts`). A failure or a crash during a patch abandons it (`AbandonPatch`): it
was never applied, was applied, or is in `late`, patches the Gateway still works
on, from where `LandLate` applies it whenever it likes. `Authorize`, `StartAttempt` and
`FinishAttempt` are the other writers of a session: the road to an approval in
one step, then the second patch of the approval entry, then the end of the
attempt. `AgentConcurrent` says whether sessions change while the bridge works,
by them or by a late patch.

`DeploymentRollback`: `Invoke` is `before_tool_call` with
`buildRollbackDeploymentToolGateDecision` followed by the start of
`executeRollbackDeployment`; `ReadDeployment`, `ListReplicaSets` and `LandPatch`
are the three requests of `performDeploymentRollback` with the decisions taken
on their answers. `LoseAnswer` ends a call by an error or leaves its patch under
way, and `RestartGateway` does so to all calls. `StartAttempt`, `RecordOutcome`
and `Reconcile` write the incidents, each call atomic; reconciliation may come
at any time, since nothing in the code ties it to a restart. The Deployment
controller acts in two steps, `NumberReplicaSet` and `AnnotateRevision`, with
anything in between; `PromptController` keeps people from deploying before both
have happened. `landed`, the patches the API server applied, is a history
variable. The module starts with approved incidents, the lifecycle up to there
being the subject of the other modules.

`RemediationSession`: `command` is the operator's command under way, a program
counter with what the process holds: the snapshot it will write back, the time
it has fixed, the human's answer, the sample and the Deployment it has seen.
Each step ends at an await of the code, and `Fail` ends a command at any of
them: it throws, reaches its deadline, or its process dies.

| steps | code |
|---|---|
| `BeginPrepare`, `BeginOffTarget`, `QueryEvidence`, `PersistEvidence`, `PersistProposal` | prepare-http and its variants, up to the proposal |
| `EnterAuthorization`, `RunLobster`, `PersistDecision`, `PersistStart` | `authorizeRemediationWithLobster`; the times of decision and start are fixed before anybody is asked |
| `AdmitResume`, `ResumeLobster` | the human's answer at the gate, and Lobster carrying it out (`CarryOut`) on the state the key names by then |
| `WriteResume`, `WriteAmbiguous` | the file that hands key and target, or the session alone, to later commands; written after the attempt is on record (`started`), by all commands but off-target, which calls the rollback tool itself (`MayRollBack`) |
| `Rollback` | the gate on incident and configuration and the mutation, taken as a whole |
| `BeginReconcile`, `ReadOutcome`, `PersistReconciled` | restart reconciliation around its read of the cluster |
| `BeginVerify`, `InvokeVerification`, `QueryMetric`, `InspectDeployment` | the poll of verify-recovery: gate, metric, Deployment; without a recovery it asks again |
| `DescribeForCompletion`, `PersistCompletion`, `ReadBack` | `persistDeploymentRecoveryVerification`; completion is announced only if `IsThere`: what was written is what is read |
| `DescribeForDelivery`, `PatchDelivery` | the bridge's read and its patch, any other step in between; a delivery may have been stamped at any earlier time, before it waited for the lock |
| `OtherAdmitted`, `OtherResume` | anybody else's request to Lobster, at the gate and behind it |
| `Edit`, `UpdateStatus`, `Scrape`, `Tick` | people, the controller, Prometheus, the clock |

`paused` is Lobster's directory, with runs that other pipelines left there;
`admitted` holds resumes the gate let through and Lobster has not carried out.
The first of them for a key uses the state up, the others find nothing.
`answers`, `acknowledged`, `patched`, `basis` (what the completing
verification had read), `announced` and `overlapped` are histories; no step
reads them, but for `QuietUntilPatched`, a bound. `status.of`, the template the
controller had before it when it wrote a status, is a history as well.

`GatedRemediation`: `Approve`, `Authorise`, `Make` and `Complete` are what may
happen, in that order; `Withdraw` gives authorisations up, and `Rewrite` is any
other write of the record, which may set `recorded` either way. `Complete` needs
an authorised change that was made, and the record to say so at that moment.

`ResponseGate`: `BeforeAgentRun`, `BeforeToolCall`, `AfterToolCall`, `Finalize`
and `AgentEnd` are the five hooks with `storeRunEvidence`; the ledger goes to
the host's run context or, when the host rejects the write, to the map
`fallback`, whose insertion order `older` says who is evicted. The host may
answer alike throughout or differently each time. `revisions` counts, as the
host does, the revisions made under one idempotency key. A result may arrive
after `AgentEnd`, which drops the ledger; the hook then starts a new one.

## 3. Runs

Every cfg states its bounds. In all runs keys are finite, so starts end when
they run out; `Tick` ends at `MaxTime`.

| run | question | bounds and why they suffice |
|---|---|---|
| `lifecycle` | do the record rules and the workflow rules hold when every caller's clock is current? | two attempts and three keys: retry, exhaustion and a start refused beyond it; window of two: it overflows; counter bound three: it saturates; two fingerprints: a foreign delivery |
| `lifecycle_clock` | and when a caller's clock lags? | violated, see 6; what holds however far clocks lag is proved, see 4 |
| `bridge` | is anything acknowledged lost, is workflow progress overwritten, when requests overtake each other and things fail? | two occurrences (one is routed, one is held), one request at work and two waiting, two faults so that a fault can hit the recovery from a fault; a patch that fails is applied, not applied or late. Over two million states; resolutions come with `bridge_live` and `bridge_stuck`, and the theorems of section 4 hold of any set of alerts |
| `bridge_race` | do the bridge's own state and its route stay sound when sessions are patched at any moment? | three occurrences: routed, held and a third that competes |
| `bridge_live` | is a held delivery delivered? | two occurrences, one fault |
| `bridge_quiet` | is a held delivery kept when no other writer interferes? | three occurrences, no fault |
| `rollback` | does the Deployment change once per key, and only as approved? | two incidents that share a key or have one each, two overlapping calls, a Deployment recreated once, four revisions: the original rollout, its rollback, another rollout, and its rollback under the new numbers; five writes, enough for both rollbacks and the controller's annotations between them. About a million states under symmetry |
| `session` | does approval precede every change, does completion rest on this rollback, and is nothing lost outside the documented windows? | a target on the allowlist and one beside it; a configuration with and one without a recovery policy; four paused runs, each missing one thing that makes a run resumable; two instants and two sample values; a Deployment that takes the rollback and one more edit after it; two distinct deliveries |
| `response_gate` | are ledgers, proposals and answers held to the evidence of their own run, and does every run end? | every mode, every way the host answers, two runs for one map entry, the second possibly without a run id; three calls: both required tools and the proposal |
| `rollback_refused`, `bridge_discard`, `bridge_stuck` | statements of the documents | violated, see 6 |

Deadlock is checked except in `session` and `response_gate`: there the commands
and the runs really end, when time, deliveries and calls are used up. In the
other runs a delivery can always be repeated or a call made.

`QuietUntilPatched` in `session` keeps people and the controller from touching
the Deployment before its rollback; what they may do to it before is the
subject of `rollback`. The policy of the Lobster gate is on: with it off the
gate lets everything pass, by design.

What the properties say, beyond one type invariant per component:

- `StateStaysReadable`, `RecordAlwaysDecodes`: the record decodes, with atomic
  callers and with callers that write old snapshots at times fixed earlier.
- `AttemptsAuthorized`, `BudgetNotStranded`, `RecoveryFollowsSuccess`,
  `BlockedIsExplained`: stage, approval, budget and history agree.
- `DistinctDeliveriesCountOnce`: the window counts each identity once until it
  overflows.
- `AttemptHistoryPreserved`, `TerminalStagesHold`, `ResolvedNeverReopens`,
  `UpdatedAtNeverRegresses`: what no step does.
- `DurableStateDecodes`, `RoutesResolve`, `RouteNeverRegresses`: memory, file
  and sessions agree.
- `NoAlertVanishes`, `HeldDeliveryNotDiscarded`, `RaceLostIsNotAcknowledged`:
  what a 2xx promises.
- `ProgressNotOverwritten`, `RunningAttemptBlocksNewOccurrence`: the bridge
  against the workflow. Both leave out the step in which a late patch lands: it
  was computed before whatever it overwrites, and nothing in the code or the
  Gateway's API can stop it (`src/docs/alertmanager-http-bridge.md:211-243`).
  Every step after such a landing counts again: `NoAlertVanishes` holds through
  it in `bridge`, `RoutesResolve` by a theorem of section 4.
- `HeldIsDelivered`: progress of a held delivery.
- `OneMutationPerKey`, `OnlyApprovedChanges`, `RevisionNeverRegresses`: what the
  rollback does to the Deployment, however calls overlap, repeat and arrive late.
- `SucceededWasApplied`: what a success in the record says of the Deployment.
- `AttemptsWereApproved`: no attempt on record and no change before a person has
  approved this occurrence in Lobster.
- `OnlyTheIncidentWorkflowResumes`: no paused run of another pipeline, root or
  alert is resumed through the gate, although the gate reads the state before
  Lobster does.
- `CompletedOnItsRollout`, `CompletedOnFreshMetric`: what a completion rests on.
- `NothingLostWithoutOverlap`: announced completions stay, and so do acknowledged
  deliveries while the identity window has room for them all, unless a command
  took or held its snapshot while the bridge was between its read and its patch.
  Those are the windows the repository concedes
  (`src/SECURITY.md:54-61`, `src/docs/alertmanager-http-bridge.md:211-243`); the
  long one, over the polls of a verification, is the one
  `runtime/recovery-verification-entry.ts:39-47` claims to have closed, and the
  property says that it has.
- `PromiseKept`: `RemediationSession` implements `GatedRemediation`, with
  `approved` read off Lobster's answers, `authorised` off the resume file and the
  command that has stored its attempt, `changed` off the mutations, `recorded` off
  the record's stage and `completed` off what was announced. It fails when the
  read-back is left out.
- `LedgersAreTruthful`, `ProposalsAreBacked`, `EvidenceIsKept`,
  `UnsupportedAnswersAreChallenged`: evidence against what the run has done,
  evictions, rejected writes and late results included. `EvidenceIsKept`
  excludes hosts that answer one hook differently from the next: two ledgers
  then exist and the older may be read, which can only cost evidence.
- `RunsConclude`: the gate stops asking.

`OneMutationPerKey` has a limit the run respects. With two keys a controller that
numbers none of several edits leaves the first revision number beside the first
template once the second key's rollback has overwritten the first key's audit;
the first key may then be applied again. `rollback` therefore takes a controller
that keeps up with the edits (`PromptController`). Section 4 says what is proved
without that.

Fairness. `AlertBridge!Fairness`: weak fairness of `Work` and of `Acquire`,
since the event loop runs what is ready and every RPC has a time-out (an answer
or `FailRpc`); of `Restart`, a supervisor; of `ArriveSome`, since Alertmanager
repeats firing alerts at `repeat_interval` and retries failed ones. Strong
fairness of `SettleSomeAttempt`: whoever runs an attempt ends it; strong
because, without concurrent writers, the action is disabled each time the bridge
is at work. Nothing is assumed of `Tick`, of a given alert, of `Authorize` or
`StartAttempt`, of the absence of faults. Faults are bounded, which is the usual
"eventually no more failures". `ResponseGate!Fairness`: weak fairness of each
run's `Progress`, for the host takes a run through its hooks and tools have time
limits. Calls are bounded, since a model's pass has an end. Nothing else is
assumed: not that a revision helps, nor that a tool succeeds.

## 4. Proofs

The proof modules are checked by TLAPS for every finite or infinite set of
fingerprints, alerts, keys, targets, calls, tools and runs and every value of
the bounds, from the named assumptions of the modules alone (types of the
constants; the window is not empty and counters can count one window; paused
runs left by others have names of their own; the map has room for one entry).

`IncidentLifecycleProofs`:

- `TypeCorrect`: by one lemma per operator that builds a record.
- `WorkflowCorrect`: the inductive invariant. None of `AttemptsAuthorized`,
  `BudgetNotStranded`, `RecoveryFollowsSuccess`, `BlockedIsExplained` or the
  structural rules is inductive alone: that finishing an attempt keeps the
  budget rule needs that only the last attempt runs; that reconciliation keeps
  `BlockedIsExplained` needs that a running attempt implies remediation or
  blocked and an approval; that an attempt has an approval needs that every
  stage at or after remediation has one and no earlier stage has attempts.
  `WorkflowInv` is the conjunction of these, with one case per writer.
- `StructureAlwaysSound` and the four properties are consequences.
- `AttemptHistoryAlwaysPreserved`, `TerminalStagesAlwaysHold`,
  `ResolvedAlwaysStays`: action properties, from the same invariant.
- `StateAlwaysReadable`, `UpdatedAtAlwaysForward`: with `MaxLag = 0`. The order
  between first receipt, last receipt, evidence, attempts and `updatedAt` is
  inductive as `TimesInv` once no time lies after `now`.
- `DistinctDeliveriesAlwaysCountOnce`: as long as nothing was forgotten the
  window is a bijection onto the accepted identities, so the cardinality of the
  one is the length of the other.

`DeploymentRollbackProofs`:

- `RollbackTypeCorrect`: at most one audit on the Deployment, too.
- `RollbackCorrect`: that a recorded success was applied needs three links:
  every audit on the live Deployment was left by a patch to the same uid
  (`AuditVouched`), a call answered with a success speaks of a patch
  (`AnswersTrue`), and the key of a running attempt tells which attempt a call
  belongs to (keys are distinct, `CallsApproved`). That a patch leaves the
  approved state needs that a call past its read knows the revision and digest
  of the version it tests for (`CallsSawTarget`). That the revision annotation
  never goes back needs that the history knows a revision at least as new
  (`RevisionKnown`).
- `SuccessAlwaysApplied`, `ChangesAlwaysApproved`, `RevisionNeverTakenBack`: for
  any number of overlapping calls and any controller.
- `RepeatsNeedAnotherKey`: what holds of "mutation count stays 1" without any
  assumption. A key patches a Deployment a second time only after a rollback
  under another key has replaced its audit. A call past its read saw no audit of
  its own key in the version it tests for (`CallsSawNoKey`), every patch is older
  than the Deployment (`PatchesPast`) and has its audit there still or was
  overwritten by another key's (`PatchesMarked`). `OneKeyMutatesOnce` follows for
  a single key.
- `KeysMutateOnce`: `OneMutationPerKey` for any number of keys, under three
  assumptions, each needed. `KeysNameTheirRollback`: equal keys leave the same
  revision of the same uid, as `buildIdempotencyKey` of
  `src/scripts/kind-prometheus-recovery-rpc.mjs` makes them; the tool itself takes
  any string. `RolloutsNumbered`: the revision a target leaves is the number of
  the template it leaves, true of a target read off a numbered Deployment.
  `PromptController`: people deploy on a numbered Deployment. The argument is then
  that each rollout is left once (`RolloutsLeftOnce`): after a patch the
  annotation is either further on, or still the number that was left, beside a
  template it is not of (`PatchesBehind`), and no approved target describes such a
  Deployment. `HistoryInv` carries this: numbers and templates do not repeat,
  and a call past its list knows that the number it returns to is not the one
  in force (`CallsSawHistory`).

`AlertBridgeProofs`: `BridgeInv` joins the types with `RouteInv` (memory and file
decode, the file is never behind memory, both routes have a session) and
`HolderInv` (the patch in flight concerns the occurrence in hand or the routed
one, and continues the session as it still is).

- `BridgeTypeCorrect`, `DurableStateAlwaysDecodes`, `RoutesAlwaysLead`,
  `RouteAlwaysForward`: with every fault, and with other writers at any moment.
- `ProgressAlwaysKept`, `RunningAttemptAlwaysBlocks`: under `~AgentConcurrent`,
  as their runs: what the holder read is then what it patches.

`BridgeRecordProofs` is about what is in the sessions and what becomes of a
delivery. `RecordInv`: each session, and each record a patch in flight or late
would write, is a sound record of its own occurrence and not from the future, and
every delivery still to be applied was received and sent.

- `RoutesAlwaysResolve`, `RaceLostNeverAcknowledged`: follow from it, with every
  fault and with other writers at any moment.
- `TwoOccurrencesNeverVanish`: `NoAlertVanishes` when the alert has at most two
  occurrences, again with every fault and writer. `HeldInv`: memory and file hold
  at most one delivery, firing and of another occurrence than the route, and the
  file holds something only under the route in use; of two occurrences one is
  routed, so nothing else can claim the slot or the route.
- `QuietAlertsNeverVanish`, `QuietHeldNeverDiscarded`: the same and
  `HeldDeliveryNotDiscarded` for any number of occurrences, while no fault
  happens and the writers take turns with the bridge (`QuietInv`: file and memory
  agree, the held delivery goes before the request's own, no session is newer
  than the route but the one just written).

The two sets of assumptions are where the code's promise ends: with three
occurrences and a writer between drain and plan a held delivery is given up
(`bridge_discard`), and with a fault at the wrong moment as well.

`RemediationSessionProofs` and `SessionRecordProofs`:

- `SessionTypeCorrect`.
- `ApprovalCorrect`, `AttemptsAlwaysWereApproved`: until the person has approved,
  no trace of an approval is anywhere it could come back from: not in the
  record, nor in the snapshot of the command or of the bridge, nor in the
  answer the command carries.
- `OnlyTheIncidentWorkflowEverResumes`: a request the gate has let through names
  a state that was bound then. That it still is when Lobster gets to it needs that
  names in the directory are unique and that the only run paused later is bound
  too (`StillBound`), so the run that was checked is the run that is resumed, or
  there is none.
- `SessionKeepsItsPromise`: the refinement, each step mapped to a step of
  `GatedRemediation` or a stutter. Completion needs that a recovered Deployment
  carries the audit of a rollback that was made, that a command between patch and
  read-back holds a completed record (`PromiseInv`), and that the resume file
  still names the change.
- `EveryRecordDecodes`: a snapshot is `Sound(s, t)` when its structure, times and
  attempts are in order and nothing in it lies after `t`. Every record and every
  snapshot in flight is sound now, and one that is about to be written is sound
  at the time fixed for it, although both clock and session have moved on.
- `CompletedOnlyOnItsRollout`, `CompletedOnlyOnFreshMetric`: a status with the
  live generation is of the live template; what the inspection saw stays in the
  command until the patch; and no command can complete a record while another
  completion stands, nor the bridge bring one back that was not there.
- `NothingIsLostWithoutOverlap`: while the windows have never met, at most one of
  bridge and command holds a snapshot and what it holds is the record as it is
  (`Alone`), so a patch builds on all that was acknowledged; the identity window
  is exactly the set of acknowledged identities for as long as it has room
  (`RemembersAll`). A full window forgets the oldest identity, on purpose.

`ResponseGateProofs`: `GateInv` adds that a host that answers alike uses one
store only and that every run that used a Guardian tool has a ledger unless
evicted. That eviction keeps the bound needs a least entry: the map's order is
ranked by natural numbers (`FallbackInv`).

- `GateTypeCorrect`, `GateCorrect`, `LedgersAlwaysTruthful`,
  `ProposalsAlwaysBacked`, `EvidenceAlwaysKept`, `UnsupportedAnswersAlwaysChallenged`.

Every safety property of the passing runs is stated by a theorem. Where a theorem
assumes more than its run, the run shows the property on a small instance without
the assumption: `rollback` lets one key name two rollbacks.

Only model-checked:

- `HeldIsDelivered` and `RunsConclude`: liveness under fairness and ENABLED are
  out of the prover's reach, as are induction over data and RECURSIVE operators.
  The modules need neither of the latter: the window is cut with `SubSeq`, the
  fallback map is a function with an order.
- `OrderingConflictClears` and `FailedWasNotApplied`, which their runs show
  violated (see 6).

## 5. Not modelled, and why

- `deliveryRecovery` of the reconciliation hands the deferred delivery back to
  its caller and stores nothing; in the model that delivery simply arrives.
- The webhook's canonicalization is the set of deliveries it can produce.
- Method, token, size and content-type checks of the server, the bridge's
  configuration, error texts: no state changes before or after them.
- Of the plugin's configuration, the syntax of URLs, names and numbers; of a
  resume token, its encoding.
- Of the commands, the set-up of the cluster, assertions on texts and reports,
  and the direct `prepare` that creates its incident without the bridge.
- Two commands at a time: the scripts start them one after the other.
- The metric snapshot and proposal tools: they compute an answer from their
  arguments. That they were called is in `ResponseGate`.
- The call of the rollback tool with which denied-approval shows that the gate
  blocks it: it must fail, and `AttemptRuns` fails it for a denied record.
- The audit log beyond its failure; the connection handshake of the Gateway
  client.
- The Gateway, Alertmanager, the Kubernetes controller, Lobster's engine and the
  human are environment, modelled by what the code can observe of them.
- Evaluation harness, release and other proof scripts, container files, examples.
- Several bridge processes on one file: the documents rule them out.

## 6. Where code and text disagree

- `lifecycle_clock`: the workflow functions store the caller's timestamp
  unclamped; the ingestion document and a comment of the reducer say `updatedAt`
  is monotonic. The record then fails to decode, which blocks every reader.
- `bridge_stuck`: `advanceRouteIfNewer` leaves the checkpoint of an older
  occurrence in place when the route is already newer. It is replayed with its
  old receipt time for ever, and once that occurrence has had a later delivery
  every request of the fingerprint fails with the ordering conflict the document
  calls transient.
- `bridge_discard`: an attempt that settles after the drain and before the plan
  lets a third occurrence take the route and clear the held delivery.
- `rollback_refused`: a refusal is a statement about one call. If another call
  of the same attempt was applied (they overlap, or its answer was lost), the
  second is answered `resource_version_conflict`, `stale_target` or
  `indeterminate`, and recorded, as a comment says callers may, as a definite
  failed attempt.

The lost update of two writers of one session is stated by the repository itself
(see `NothingLostWithoutOverlap` in 3), which tells operators to keep other
writers away; hence `AgentConcurrent = FALSE` where a property of the bridge
compares session contents, and `TRUE` where the question is what survives it;
`session` always lets them meet and notes that they did.

## 7. Plan

Done: everything in section 2. What would extend it, in this order:

1. `DeliveryHold`: the abstract promise of the bridge (a delivery is refused,
   recorded or held) and its refinement by `AlertBridge`.
2. `KeyedMutation`: the same for the rollback (a key is applied at most once,
   from the approved state only).
3. Two incidents in `RemediationSession`, sharing Lobster's directory and the
   Deployment.
4. Proofs: the refinements of 1 and 2; the invariants of `HeldInv` for the
   faults that leave `NoAlertVanishes` intact with three occurrences.
