------------------------------ MODULE LobsterGate ------------------------------
(***************************************************************************)
(* The gate on the native Lobster tool                                     *)
(* (src/src/hooks/lobster-tool-gate.ts).  Lobster runs any pipeline it is  *)
(* given and pauses at an approval step, leaving a state in a directory    *)
(* that all its pipelines share; a resume token names such a state.  The   *)
(* gate lets an operator run the incident workflow, resume a paused run of *)
(* it, and nothing else.                                                   *)
(*                                                                         *)
(* Keys are opaque.  Sizes, shapes and the encoding of a token are the     *)
(* flag wellFormed; the texts of the prepare step are what they are about. *)
(***************************************************************************)

CONSTANTS
    Pipelines,          \* workflow files
    IncidentWorkflow,   \* INCIDENT_WORKFLOW_PATH
    Roots,              \* directories steps may run in
    GuardianRoot,       \* the root the workflow file belongs to
    StateKeys,          \* names of persisted states
    AlertNames,         \* what a run of the workflow is about
    PathSupported,      \* the path of the workflow file is absolute and plain
    PolicyEnabled       \* lobsterToolPolicyMode is not "disabled"

ASSUME LobsterGateAssumption ==
    /\ IncidentWorkflow \in Pipelines
    /\ GuardianRoot \in Roots
    /\ PathSupported \in BOOLEAN
    /\ PolicyEnabled \in BOOLEAN

Callers == {"agent", "operator"}

AllowedRemediationActions == {"hold_deployments_and_increase_observation",
                              "no_change_continue_observation",
                              "rollback_latest_release"}

RunRequests == [caller : Callers, pipeline : Pipelines, wellFormed : BOOLEAN,
                alertId : AlertNames, action : AllowedRemediationActions \cup {"other"}]

ResumeRequests == [caller : Callers, wellFormed : BOOLEAN, key : StateKeys,
                   approve : BOOLEAN]

\* prepared: what the recorded result of the prepare step is about.
PausedRuns == [key : StateKeys, file : Pipelines, root : Roots,
               pausedAt : {"confirm", "other"}, identity : {"none", "declared"},
               alertId : AlertNames, prepared : AlertNames,
               action : AllowedRemediationActions \cup {"other"}]

\* validatedRunArgs
RunIsBound(request) ==
    /\ request.wellFormed
    /\ request.pipeline = IncidentWorkflow
    /\ request.action \in AllowedRemediationActions

\* The state Lobster leaves when a run that passed the gate pauses: the gate
\* has put in the file and the root.
PausedRun(request, key) ==
    [key |-> key, file |-> IncidentWorkflow, root |-> GuardianRoot,
     pausedAt |-> "confirm", identity |-> "none", alertId |-> request.alertId,
     prepared |-> request.alertId, action |-> request.action]

\* Mutant: the root a paused run was started in is not compared.
PersistedRunIsBoundAnywhere(run) ==
    /\ run.file = IncidentWorkflow
    /\ run.pausedAt = "confirm"
    /\ run.identity = "none"
    /\ run.action \in AllowedRemediationActions
    /\ run.prepared = run.alertId

\* validatePersistedResumeState
PersistedRunIsBound(run) ==
    /\ run.file = IncidentWorkflow
    /\ run.root = GuardianRoot
    /\ run.pausedAt = "confirm"
    /\ run.identity = "none"
    /\ run.action \in AllowedRemediationActions
    /\ run.prepared = run.alertId

\* validateResume, with the states in the directory
ResumeIsBound(request, states) ==
    /\ request.wellFormed
    /\ \E run \in states : run.key = request.key /\ PersistedRunIsBound(run)

\* A call with a run id is an agent's and never passes.
OperatorMayCall(request) == request.caller = "operator" /\ PathSupported

\* buildLobsterToolGateDecision does not block.
LobsterRunPasses(request) ==
    PolicyEnabled => OperatorMayCall(request) /\ RunIsBound(request)

LobsterResumePasses(request, states) ==
    PolicyEnabled => OperatorMayCall(request) /\ ResumeIsBound(request, states)
=============================================================================
