----------------------------- MODULE AlertBridge -----------------------------
(***************************************************************************)
(* The Alertmanager HTTP bridge (src/src/alertmanager/http-bridge): one    *)
(* process that turns webhook deliveries into Gateway sessions, one per    *)
(* occurrence, and holds at most one delivery per fingerprint while the    *)
(* active occurrence has a running remediation attempt.                    *)
(*                                                                         *)
(* The lock, the route, the checkpoint and the sessions are all keyed by   *)
(* fingerprint, so the module follows one fingerprint.  An occurrence is   *)
(* its startsAt.  An action is what the process does from one Gateway      *)
(* response to its next request.  Other writers of the sessions interleave *)
(* between those when AgentConcurrent holds: sessions.pluginPatch has no   *)
(* compare-and-swap.                                                       *)
(***************************************************************************)
EXTENDS IncidentReducer, IncidentWorkflow, FiniteSets

CONSTANTS
    Fingerprint,        \* the one followed
    AlertId,
    Alerts,             \* identities of the alerts Alertmanager sends
    MaxRequests,        \* bound: requests that wait for the lock
    MaxFaults,          \* bound: crashes, failed RPCs and file writes
    AgentConcurrent     \* whether sessions change while the bridge works, by
                        \* others or by a patch that it has given up on

ASSUME AlertBridgeAssumption ==
    /\ Fingerprint \in Fingerprints
    /\ AlertId \in AlertIds
    /\ Alerts \subseteq DeliveryIds
    /\ MaxRequests \in Nat \ {0}
    /\ MaxFaults \in Nat
    /\ AgentConcurrent \in BOOLEAN

VARIABLES
    sessions,   \* Gateway: startsAt -> record, for the created occurrences
    memory,     \* BridgeStateStore.state for the fingerprint
    disk,       \* bridge-state.json for the fingerprint
    requests,   \* deliveries stamped with receivedAt that await the lock
    agenda,     \* deliveries the lock holder has still to apply, in order
    sweeping,   \* the holder is the startup sweep, not a request
    step,       \* where the holder is; "down" when there is no process
    patch,      \* at most one: the write the holder is about to send
    late,       \* Gateway: patches it still works on and nobody waits for
    outcome,    \* how the last finished request was answered
    acked,      \* history: occurrences whose firing alert got a 2xx
    faults,
    now

gateway == <<sessions, late>>
store == <<memory, disk>>
holder == <<agenda, sweeping, step, patch>>
answers == <<outcome, acked>>
vars == <<gateway, store, requests, holder, answers, faults, now>>

AlertDeliveries ==
    {d \in [fingerprint : {Fingerprint}, alertId : {AlertId},
            alertStatus : {"firing", "resolved"}, startsAt : Time,
            endsAt : OptionalTime, receivedAt : Time] : ValidDelivery(d)}

Checkpoints == [blockedBy : Time, delivery : AlertDeliveries]
BridgeStates == [route : OptionalTime, checkpoint : SUBSET Checkpoints]

Outcomes == {"acked", "rejected", "consistency", "checkpoint_conflict",
             "ordering", "unavailable"}

-----------------------------------------------------------------------------
(* Helpers *)

Current == Head(agenda)

\* Mutant: nothing replays a held delivery.
ReplayNothing(state) == <<>>

\* What drainPendingCheckpoint has to apply
Replay(state) ==
    IF state.checkpoint = {} THEN <<>>
    ELSE <<(CHOOSE c \in state.checkpoint : TRUE).delivery>>

Replaying == sweeping \/ Len(agenda) = 2

\* Mutant: the delivery's own session is not looked at before planning.
FirstStepPlan(state, d) == "plan"

\* applyDelivery first describes the delivery's own session, unless that is
\* the routed one.
FirstStep(state, d) == IF state.route = d.startsAt THEN "plan" ELSE "own"

\* The session decodes and is the one its key says.
Readable(t) ==
    /\ t \in DOMAIN sessions
    /\ ValidIncident(sessions[t])
    /\ OccurrenceId(sessions[t]) = <<Fingerprint, t>>

\* Mutant: any other occurrence takes the route.
IsOther(d) == d.startsAt # sessions[memory.route].startsAt

\* The comparison of advanceRouteIfNewer
IsNewer(d) == d.startsAt > sessions[memory.route].startsAt

\* Mutant: a different held delivery is no obstacle.
HoldNeverConflicts(d) == FALSE

\* hold_deferred_delivery throws CheckpointConflictError.
HoldConflicts(d) ==
    \E c \in memory.checkpoint : DeliveryId(c.delivery) # DeliveryId(d)

\* decodeBridgeState accepts the state.
Decodes(state) ==
    \A c \in state.checkpoint : /\ state.route # None
                                /\ c.blockedBy = state.route

\* applyDelivery returned: on to the request's own delivery, or release the
\* lock and answer.
Finish(answer) ==
    /\ agenda' = Tail(agenda)
    /\ step' = IF Len(agenda) = 1 THEN "idle"
                                  ELSE FirstStep(memory', agenda[2])
    /\ patch' = {}
    /\ sweeping' = FALSE
    /\ IF Replaying THEN UNCHANGED answers
       ELSE /\ outcome' = answer
            /\ acked' = IF answer = "acked" /\ Current.alertStatus = "firing"
                        THEN acked \cup {Current.startsAt} ELSE acked

\* An error ends the whole run; during the startup sweep it ends the process.
Fail(answer) ==
    /\ agenda' = <<>>
    /\ step' = IF sweeping THEN "down" ELSE "idle"
    /\ patch' = {}
    /\ sweeping' = FALSE
    /\ outcome' = IF sweeping THEN outcome ELSE answer
    /\ UNCHANGED acked

\* The audit line is appended after the fact; when that throws, what was done
\* stays done and the request fails.
Audit(answer) ==
    \/ Finish(answer) /\ UNCHANGED faults
    \/ /\ faults < MaxFaults
       /\ faults' = faults + 1
       /\ Fail("unavailable")

\* BridgeStateStore.commit: durable write, then the assignment.  A write that
\* throws does so before the rename or after it.
Flush(state) ==
    \/ /\ memory' = state
       /\ disk' = state
       /\ Audit("acked")
    \/ /\ faults < MaxFaults
       /\ faults' = faults + 1
       /\ disk' \in {disk, state}
       /\ UNCHANGED memory
       /\ Fail("unavailable")

\* Mutant: the superseded checkpoint stays.
CommitRouteOnly == Flush([memory EXCEPT !.route = Current.startsAt])

CommitRouteAndClearCheckpoint ==
    Flush([route |-> Current.startsAt, checkpoint |-> {}])

\* Mutant: the checkpoint is held in memory and answered before it is written.
SetCheckpointVolatile ==
    /\ memory' = [memory EXCEPT !.checkpoint = {[blockedBy |-> memory.route,
                                                delivery  |-> Current]}]
    /\ UNCHANGED disk
    /\ Audit("acked")

\* hold_deferred_delivery
SetCheckpoint ==
    Flush([memory EXCEPT !.checkpoint = {[blockedBy |-> memory.route,
                                          delivery  |-> Current]}])

\* Nothing to write to the store
Return(answer) == UNCHANGED store /\ Audit(answer)

\* Mutant: every rejection is an ordinary disposition.
ThrowNothing(answer) == Return("rejected")

Throw(answer) == UNCHANGED <<store, faults>> /\ Fail(answer)

SendNext(occurrence, state) ==
    /\ patch' = {[occurrence |-> occurrence, state |-> state]}
    /\ step' = "patch"
    /\ UNCHANGED <<agenda, sweeping, answers, store, faults>>

\* Mutant: whatever is planned goes to the routed session.
PatchedRouted(p) ==
    LET target == IF memory.route = None THEN p.occurrence ELSE memory.route
    IN  [t \in DOMAIN sessions \cup {target} |->
            IF t = target THEN p.state ELSE sessions[t]]

\* The sessions after pluginPatch
Patched(p) == [t \in DOMAIN sessions \cup {p.occurrence} |->
                  IF t = p.occurrence THEN p.state ELSE sessions[t]]

\* The wait for a patch ends without an answer (a failed or timed-out RPC, a
\* crash): the Gateway never applies it, has applied it, or is still at it.
AbandonPatch ==
    \/ UNCHANGED gateway
    \/ \E p \in patch : sessions' = Patched(p) /\ UNCHANGED late
    \/ late' = late \cup patch /\ UNCHANGED sessions

-----------------------------------------------------------------------------
Init ==
    /\ sessions = <<>>
    /\ memory = [route |-> None, checkpoint |-> {}]
    /\ disk = memory
    /\ requests = {}
    /\ agenda = <<>>
    /\ sweeping = FALSE
    /\ step = "idle"
    /\ patch = {}
    /\ late = {}
    /\ outcome = "acked"
    /\ acked = {}
    /\ faults = 0
    /\ now = 0

Tick ==
    /\ now < MaxTime
    /\ now' = now + 1
    /\ UNCHANGED <<gateway, store, requests, holder, answers, faults>>

\* handleRequest: canonicalize, stamp receivedAt, join the lock's queue.  An
\* alert may be sent again at any time: a repeat, a retry, another replica.
Arrive(d) ==
    /\ step # "down"
    /\ DeliveryId(d) \in Alerts
    /\ d.receivedAt = now
    /\ d.endsAt <= now
    /\ Cardinality(requests) < MaxRequests
    /\ requests' = requests \cup {d}
    /\ UNCHANGED <<gateway, store, holder, answers, faults, now>>

\* processCanonicalAlertDelivery gets the lock.  Alerts of one webhook queue
\* one after the other, so the order of the stamps is not the lock's order.
Acquire(d) ==
    /\ step = "idle"
    /\ d \in requests
    /\ requests' = requests \ {d}
    /\ agenda' = Append(Replay(memory), d)
    /\ step' = FirstStep(memory, Head(agenda'))
    /\ UNCHANGED <<gateway, store, sweeping, patch, answers, faults, now>>

\* applyDelivery: the delivery's own session, before any routing
DescribeOwn ==
    /\ step = "own"
    /\ IF Current.startsAt \notin DOMAIN sessions
       THEN /\ step' = "plan"
            /\ UNCHANGED <<agenda, sweeping, patch, answers, store, faults>>
       ELSE LET own == sessions[Current.startsAt]
                decision == Decision(own, Current)
            IN IF ~Readable(Current.startsAt) THEN Throw("consistency")
               ELSE CASE decision = "received_at_regression" -> Throw("ordering")
                      [] decision = "rejected" -> Return("rejected")
                      [] OTHER -> SendNext(Current.startsAt,
                                           Reduced(own, Current))
    /\ UNCHANGED <<gateway, requests, now>>

\* planAlertDeliveryIngestion against the routed session
Plan ==
    /\ step = "plan"
    /\ LET decision == IF memory.route = None THEN DecisionMissing(Current)
                       ELSE Decision(sessions[memory.route], Current)
       IN IF memory.route # None /\ ~Readable(memory.route) THEN Throw("consistency")
          ELSE CASE decision \in {"created", "new_occurrence"} ->
                        SendNext(Current.startsAt, CreateIncident(Current))
                 [] decision \in {"updated", "duplicate", "stale_refire"} ->
                        SendNext(memory.route,
                                 Reduced(sessions[memory.route], Current))
                 [] decision = "deferred_new_occurrence" ->
                        IF HoldConflicts(Current)
                        THEN Throw("checkpoint_conflict")
                        ELSE SetCheckpoint
                 [] decision = "orphan_resolved" -> Return("acked")
                 [] decision = "received_at_regression" -> Throw("ordering")
                 [] decision = "rejected" -> Return("rejected")
    /\ UNCHANGED <<gateway, requests, now>>

\* persistIncidentState succeeds.  The route needs no thought when the
\* patched session is the routed one.
Persist ==
    /\ step = "patch"
    /\ \E p \in patch :
          /\ sessions' = Patched(p)
          /\ IF memory.route = p.occurrence THEN Return("acked")
             ELSE /\ step' = "advance"
                  /\ patch' = {}
                  /\ UNCHANGED <<agenda, sweeping, answers, store, faults>>
    /\ UNCHANGED <<late, requests, now>>

\* advanceRouteIfNewer
AdvanceRoute ==
    /\ step = "advance"
    /\ IF memory.route = None THEN CommitRouteAndClearCheckpoint
       ELSE IF ~Readable(memory.route) THEN Throw("consistency")
       ELSE IF IsNewer(Current) THEN CommitRouteAndClearCheckpoint
       ELSE Return("acked")
    /\ UNCHANGED <<gateway, requests, now>>

-----------------------------------------------------------------------------
(* Faults *)

\* A Gateway RPC fails or times out; there is no cancelling it.
FailRpc ==
    /\ \/ step \in {"own", "plan", "patch"}
       \/ step = "advance" /\ memory.route # None
    /\ faults < MaxFaults
    /\ faults' = faults + 1
    /\ AbandonPatch
    /\ Fail("unavailable")
    /\ UNCHANGED <<store, requests, now>>

Crash ==
    /\ step # "down"
    /\ faults < MaxFaults
    /\ faults' = faults + 1
    /\ step' = "down"
    /\ agenda' = <<>>
    /\ patch' = {}
    /\ sweeping' = FALSE
    /\ requests' = {}
    /\ AbandonPatch
    /\ UNCHANGED <<store, answers, now>>

\* The Gateway gets round to a patch that the bridge has given up on.
LandLate ==
    \E p \in late :
        /\ AgentConcurrent \/ step \in {"idle", "down"}
        /\ sessions' = Patched(p)
        /\ late' = late \ {p}
        /\ UNCHANGED <<store, requests, holder, answers, faults, now>>

\* run.ts: load the file, then drain the pending checkpoint before listening.
Restart ==
    /\ step = "down"
    /\ Decodes(disk)
    /\ memory' = disk
    /\ agenda' = Replay(disk)
    /\ sweeping' = (agenda' # <<>>)
    /\ step' = IF sweeping' THEN FirstStep(disk, Head(agenda')) ELSE "idle"
    /\ UNCHANGED <<gateway, disk, requests, patch, answers, faults, now>>

-----------------------------------------------------------------------------
(* The other writers of a session, as far as the bridge can tell: the way  *)
(* to an approved remediation in one step, then the attempt.               *)

PatchSession(t, state) ==
    /\ AgentConcurrent \/ step \in {"idle", "down"}
    /\ sessions' = [sessions EXCEPT ![t] = state]
    /\ UNCHANGED <<late, store, requests, holder, answers, faults, now>>

Authorize(t) ==
    LET collected == RecordMetricEvidence(sessions[t], TRUE, now)
        proposed  == RecordRemediationProposal(collected, now)
    IN  /\ CanRecordMetricEvidence(sessions[t])
        /\ PatchSession(t, RecordApprovalDecision(proposed, TRUE, now))

StartAttempt(t, key, target) ==
    /\ BeginDecision(sessions[t], key, target) = "started"
    /\ PatchSession(t, BeginAttempt(sessions[t], key, target, now))

FinishAttempt(t, key, status) ==
    /\ CanFinishAttempt(sessions[t], key, status, now)
    /\ PatchSession(t, WithAttemptSettled(sessions[t], status, now))

SettleSomeAttempt ==
    \E t \in DOMAIN sessions, key \in Keys, status \in {"succeeded", "failed"} :
        FinishAttempt(t, key, status)

Agent ==
    \/ \E t \in DOMAIN sessions : Authorize(t)
    \/ \E t \in DOMAIN sessions, key \in Keys, target \in Targets :
          StartAttempt(t, key, target)
    \/ SettleSomeAttempt

ArriveSome == \E d \in AlertDeliveries : Arrive(d)
Work == DescribeOwn \/ Plan \/ Persist \/ AdvanceRoute

Next ==
    \/ Tick
    \/ ArriveSome
    \/ \E d \in requests : Acquire(d)
    \/ Work
    \/ FailRpc
    \/ Crash
    \/ LandLate
    \/ Restart
    \/ Agent

Spec == Init /\ [][Next]_vars

\* The process keeps running what it has begun and is started again when it
\* is down; queued promises are run; Alertmanager repeats unresolved alerts
\* and retries failed ones; an attempt in flight is settled sooner or later,
\* however often the bridge is at work in between.
Fairness ==
    /\ WF_vars(Work)
    /\ WF_vars(Restart)
    /\ WF_vars(\E d \in requests : Acquire(d))
    /\ WF_vars(ArriveSome)
    /\ SF_vars(SettleSomeAttempt)

FairSpec == Spec /\ Fairness

-----------------------------------------------------------------------------
(* Properties *)

\* Sessions hold records under occurrences' start times; the holder works
\* through at most a held delivery and its own.
TypeOK ==
    /\ DOMAIN sessions \subseteq Time
    /\ \A t \in DOMAIN sessions : sessions[t] \in Incidents
    /\ memory \in BridgeStates
    /\ disk \in BridgeStates
    /\ requests \subseteq AlertDeliveries
    /\ Len(agenda) <= 2 /\ \A i \in DOMAIN agenda : agenda[i] \in AlertDeliveries
    /\ sweeping \in BOOLEAN
    /\ step \in {"down", "idle", "own", "plan", "patch", "advance"}
    /\ \A p \in patch \cup late : p.occurrence \in Time /\ p.state \in Incidents
    /\ outcome \in Outcomes
    /\ acked \subseteq Time
    /\ faults \in 0..MaxFaults
    /\ now \in Time

\* What processor.ts hands to the store always passes decodeBridgeState: a
\* held checkpoint has a route and is blocked by that very occurrence.  So
\* commit's own check never fires and a restart is never refused.
DurableStateDecodes == Decodes(memory) /\ Decodes(disk)

\* A route always leads to a readable session, so no delivery is answered
\* with consistency_check_failed, whatever crashed or failed: the session is
\* durable before the route that names it.
RoutesResolve ==
    /\ {memory.route, disk.route} \subseteq DOMAIN sessions \cup {None}
    /\ outcome # "consistency"

\* "The active route only ever moves forward", across crashes too.
RouteNeverRegresses == [][memory.route <= memory'.route]_vars

\* A delivery that lost the race for the lock is not answered inside a 2xx.
RaceLostIsNotAcknowledged == outcome # "rejected"

\* A firing alert answered with 2xx is recorded in a session or held on disk.
\* Needs the writers and the absence of faults that HeldDeliveryNotDiscarded
\* needs, once there are three occurrences.
NoAlertVanishes ==
    \A t \in acked :
        \/ t \in DOMAIN sessions
        \/ \E c \in disk.checkpoint : c.delivery.startsAt = t

\* No write of the bridge, a replay after a crash and a patch applied although
\* its RPC failed included, takes back what the workflow recorded in a session.
\* Needs writers that do not patch a session between the bridge's read and its
\* patch; and a patch that lands late does take it back, for want of a
\* compare-and-swap.
ProgressNotOverwritten ==
    [][late \subseteq late' => \A t \in DOMAIN sessions :
          /\ t \in DOMAIN sessions'
          /\ Len(sessions[t].remediationAttempts)
                <= Len(sessions'[t].remediationAttempts)
          /\ sessions[t].approvalStatus = "approved" =>
                sessions'[t].approvalStatus = "approved"]_vars

\* While the active occurrence has an attempt in flight, no session appears
\* for another one, neither from a request nor from a replay; only a patch
\* given up on before the attempt began may still land.
RunningAttemptBlocksNewOccurrence ==
    [][/\ late \subseteq late' /\ DOMAIN sessions' # DOMAIN sessions
       /\ memory.route # None
       => ~HasRunningAttempt(sessions[memory.route])]_vars

\* "The bridge never discards an already-durable, already-2xx-acknowledged
\* checkpoint in favor of a newer one": when a held delivery goes from the
\* disk, its occurrence has its session.
HeldDeliveryNotDiscarded ==
    [][\A c \in disk.checkpoint :
          \/ \E kept \in disk'.checkpoint :
                DeliveryId(kept.delivery) = DeliveryId(c.delivery)
          \/ c.delivery.startsAt \in DOMAIN sessions]_vars

\* A held delivery gets its session once the attempt that blocked it settled.
HeldIsDelivered ==
    \A t \in Time :
        (\E c \in memory.checkpoint : c.delivery.startsAt = t)
            ~> t \in DOMAIN sessions

\* "This is a transient condition, not a stuck one": a delivery answered with
\* delivery_ordering_conflict is followed by one answered otherwise.
OrderingConflictClears == outcome = "ordering" ~> outcome # "ordering"
=============================================================================
