---------------------------- MODULE IncidentState ----------------------------
(***************************************************************************)
(* The durable incident record of schema version 3 and its decoder         *)
(* (src/src/state/incident-state.ts).  The record is what every actor of   *)
(* the system reads from and patches into one Gateway session: the         *)
(* Alertmanager bridge, the agent workflow, the approval entry, the        *)
(* recovery entry and the restart reconciliation.                          *)
(*                                                                         *)
(* Data kept: everything a guard or a validity rule of the code reads.     *)
(* Timestamps are numbers, None stands for JSON null.  occurrenceId is a   *)
(* hash of fingerprint and startsAt and is therefore the operator          *)
(* OccurrenceId rather than a field.  evidence is the set of observation   *)
(* times of the entries whose source starts with "prometheus:", the only   *)
(* entries the evidence policy reads; proposedAction says whether there is *)
(* one; an attempt's error text is null unless its status is "failed".     *)
(***************************************************************************)
EXTENDS Integers, Sequences

CONSTANTS
    Fingerprints,           \* Alertmanager label-set hashes
    AlertIds,               \* alert names
    Keys,                   \* idempotency keys of remediation attempts
    Targets,                \* remediation targets
    MaxTime,                \* bound: timestamps are 0..MaxTime
    MaxRetries,             \* MAX_REMEDIATION_RETRIES (2 in the code)
    MaxRecentDeliveryIds,   \* MAX_RECENT_DELIVERY_IDS (50 in the code)
    MaxCount                \* bound: the largest value a counter takes

ASSUME IncidentStateAssumption ==
    /\ MaxTime \in Nat
    /\ MaxRetries \in Nat
    /\ MaxRecentDeliveryIds \in Nat \ {0}
    /\ MaxCount \in Nat
    /\ MaxCount >= MaxRecentDeliveryIds

MaxAttempts == MaxRetries + 1

None == -1
Time == 0..MaxTime
OptionalTime == Time \cup {None}

Stages == {"alert_received", "evidence_collection", "diagnosis", "validation",
           "approval", "remediation", "recovery_check", "completed", "blocked"}

\* An Alertmanager delivery identity hashes status, fingerprint and both
\* times; within one session the fingerprint is fixed.
DeliveryIds == {"firing", "resolved"} \X Time \X OptionalTime

Attempts == [key        : Keys,
             target     : Targets,
             status     : {"running", "succeeded", "failed"},
             startedAt  : Time,
             finishedAt : OptionalTime]

Incidents == [fingerprint               : Fingerprints,
              alertId                   : AlertIds,
              alertStatus               : {"firing", "resolved"},
              startsAt                  : Time,
              endsAt                    : OptionalTime,
              lastReceivedAt            : Time,
              deliveryCount             : 0..MaxCount,
              nonDuplicateDeliveryCount : 0..MaxCount,
              recentDeliveryIds         : Seq(DeliveryIds),
              stage                     : Stages,
              evidence                  : SUBSET Time,
              proposedAction            : BOOLEAN,
              approvalStatus            : {"not_requested", "pending",
                                           "approved", "denied"},
              remediationAttempts       : Seq(Attempts),
              evidenceValidation        : {"not_checked", "passed", "failed"},
              updatedAt                 : Time]

OccurrenceId(s) == <<s.fingerprint, s.startsAt>>

RunningAttempts(s) ==
    {i \in DOMAIN s.remediationAttempts :
        s.remediationAttempts[i].status = "running"}

HasRunningAttempt(s) == RunningAttempts(s) # {}

\* findIndex over the history; a decodable record has at most one.
RunningIndex(s) == CHOOSE i \in RunningAttempts(s) : TRUE

-----------------------------------------------------------------------------
(* Stage transitions *)

AllowedStageTransitions ==
    [alert_received      |-> {"evidence_collection", "blocked"},
     evidence_collection |-> {"diagnosis", "blocked"},
     diagnosis           |-> {"validation", "blocked"},
     validation          |-> {"evidence_collection", "approval", "blocked"},
     approval            |-> {"remediation", "blocked"},
     remediation         |-> {"recovery_check", "blocked"},
     recovery_check      |-> {"remediation", "completed", "blocked"},
     completed           |-> {},
     blocked             |-> {}]

\* Mutant: a terminal stage may be left for a new round of evidence.
CanTransitionReopening(from, to) ==
    \/ from = to \/ to \in AllowedStageTransitions[from]
    \/ from \in {"completed", "blocked"} /\ to = "evidence_collection"

\* transitionIncidentState throws unless this holds; a writer whose
\* transition throws persists nothing.
CanTransition(from, to) == from = to \/ to \in AllowedStageTransitions[from]

-----------------------------------------------------------------------------
(* The rules of readIncidentStateV3 that relate fields to each other *)

TimesOrdered(s) ==
    /\ s.startsAt <= s.lastReceivedAt
    /\ s.lastReceivedAt <= s.updatedAt
    /\ s.alertStatus = "firing" <=> s.endsAt = None
    /\ s.endsAt # None => s.startsAt <= s.endsAt

DeliveriesCounted(s) ==
    /\ Len(s.recentDeliveryIds) <= MaxRecentDeliveryIds
    /\ \A i, j \in DOMAIN s.recentDeliveryIds :
          s.recentDeliveryIds[i] = s.recentDeliveryIds[j] => i = j
    /\ Len(s.recentDeliveryIds) <= s.nonDuplicateDeliveryCount
    /\ s.nonDuplicateDeliveryCount <= s.deliveryCount

AttemptsBounded(s) ==
    /\ Len(s.remediationAttempts) <= MaxAttempts
    /\ \A i, j \in DOMAIN s.remediationAttempts :
          s.remediationAttempts[i].key = s.remediationAttempts[j].key => i = j
    /\ \A i \in DOMAIN s.remediationAttempts :
          s.remediationAttempts[i].status = "running"
             <=> s.remediationAttempts[i].finishedAt = None

AttemptTimesOrdered(s) ==
    \A i \in DOMAIN s.remediationAttempts :
        LET a == s.remediationAttempts[i] IN
        /\ s.startsAt <= a.startedAt
        /\ a.startedAt <= s.updatedAt
        /\ a.finishedAt # None => /\ a.startedAt <= a.finishedAt
                                  /\ a.finishedAt <= s.updatedAt

RunningAttemptAuthorized(s) ==
    /\ \A i, j \in RunningAttempts(s) : i = j
    /\ HasRunningAttempt(s) => /\ s.approvalStatus = "approved"
                               /\ s.stage \in {"remediation", "blocked"}

\* The record decodes: every reader that goes through readIncidentStateV3
\* accepts it.
ValidIncident(s) ==
    /\ TimesOrdered(s)
    /\ DeliveriesCounted(s)
    /\ AttemptsBounded(s)
    /\ AttemptTimesOrdered(s)
    /\ RunningAttemptAuthorized(s)
=============================================================================
