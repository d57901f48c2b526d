-------------------------- MODULE AlertBridgeProofs --------------------------
(***************************************************************************)
(* Theorems about the Alertmanager HTTP bridge, for any occurrences, any   *)
(* number of waiting requests, faults and attempts.  A step of the lock's  *)
(* holder releases the lock, computes a write or moves on to the next      *)
(* request to the Gateway; BridgeInv says what a write may rest on.        *)
(***************************************************************************)
EXTENDS AlertBridge, IncidentOperatorLemmas

-----------------------------------------------------------------------------
(* Types *)

Working == {"own", "plan", "patch", "advance"}

\* The holder of the lock has something to apply, and a write only where it
\* sends one.
HolderOK ==
    /\ agenda \in Seq(AlertDeliveries) /\ Len(agenda) <= 2
    /\ step \in Working => agenda # <<>>
    /\ step # "patch" => patch = {}

TypeInv == TypeOK /\ HolderOK

\* Deliveries of the fingerprint, and the constants.
LEMMA BridgeConstants ==
    /\ AlertDeliveries \subseteq Deliveries
    /\ \A d \in AlertDeliveries : d.startsAt \in Time /\ ValidDelivery(d)
    /\ MaxFaults \in Nat
    /\ None \notin Time /\ None \in Int /\ Time \subseteq Nat
    /\ 0 \in Time
BY AlertBridgeAssumption, ConstantTypes
   DEF AlertDeliveries, Deliveries, None, Time

\* What is replayed is a held delivery, if there is one.
LEMMA ReplayType ==
    ASSUME NEW state \in BridgeStates
    PROVE  Replay(state) \in Seq(AlertDeliveries) /\ Len(Replay(state)) <= 1
<1>1. CASE state.checkpoint = {}
  BY <1>1 DEF Replay
<1>2. CASE state.checkpoint # {}
  <2>1. (CHOOSE c \in state.checkpoint : TRUE) \in state.checkpoint
    BY <1>2
  <2>2. (CHOOSE c \in state.checkpoint : TRUE).delivery \in AlertDeliveries
    BY <2>1 DEF BridgeStates, Checkpoints
  <2> QED BY <1>2, <2>2 DEF Replay
<1> QED BY <1>1, <1>2

\* The holder in hand is a delivery.
LEMMA CurrentType ==
    ASSUME TypeInv, step \in Working
    PROVE  /\ Current \in AlertDeliveries /\ Current \in Deliveries
           /\ Current.startsAt \in Time /\ ValidDelivery(Current)
<1>1. Current \in AlertDeliveries
  BY DEF TypeInv, HolderOK, Current
<1> QED BY <1>1, BridgeConstants

\* The lock is free, or the holder goes on to its own delivery.
Released ==
    /\ HolderOK' /\ sweeping' \in BOOLEAN
    /\ step' \in {"down", "idle", "own", "plan"}
    /\ patch' = {}
    /\ outcome' \in Outcomes /\ acked' \subseteq Time
    /\ faults' \in 0..MaxFaults
    /\ step' = "plan" => memory'.route = Head(agenda').startsAt

\* Nothing is left on the agenda.
LEMMA EmptiedReleases ==
    ASSUME agenda' = <<>>, step' \in {"down", "idle"}, patch' = {},
           sweeping' \in BOOLEAN, outcome' \in Outcomes, acked' \subseteq Time,
           faults' \in 0..MaxFaults
    PROVE  Released
<1>1. /\ agenda' \in Seq(AlertDeliveries) /\ Len(agenda') <= 2
      /\ step' \notin Working
  BY EmptySeq DEF Working
<1> QED BY <1>1 DEF Released, HolderOK, Working

\* What is left of an agenda without its first delivery.
LEMMA AgendaTail ==
    ASSUME TypeInv, agenda # <<>>
    PROVE  \/ Len(agenda) = 1 /\ Tail(agenda) = <<>>
           \/ /\ Len(agenda) = 2
              /\ Tail(agenda) \in Seq(AlertDeliveries)
              /\ Len(Tail(agenda)) = 1 /\ Tail(agenda) # <<>>
              /\ Head(Tail(agenda)) = agenda[2]
<1>1. agenda \in Seq(AlertDeliveries) /\ Len(agenda) <= 2 /\ Len(agenda) \in Nat
  BY LenProperties DEF TypeInv, HolderOK
<1>2. Len(agenda) \in {1, 2}
  <2>1. Len(agenda) \in Nat \ {0}
    BY <1>1, EmptySeq
  <2>2. \A n \in Nat \ {0} : n <= 2 => n \in {1, 2}
    OBVIOUS
  <2> QED BY <1>1, <2>1, <2>2
<1>3. /\ Tail(agenda) \in Seq(AlertDeliveries)
      /\ Len(Tail(agenda)) = Len(agenda) - 1
      /\ \A i \in 1..Len(Tail(agenda)) : Tail(agenda)[i] = agenda[i + 1]
  BY <1>1, HeadTailProperties
<1>4. CASE Len(agenda) = 1
  <2>1. Len(Tail(agenda)) = 0
    BY <1>3, <1>4
  <2> QED BY <1>3, <1>4, <2>1, EmptySeq
<1>5. CASE Len(agenda) = 2
  <2>1. Len(Tail(agenda)) = 1
    BY <1>3, <1>5
  <2>2. Tail(agenda)[1] = agenda[2] /\ Head(Tail(agenda)) = Tail(agenda)[1]
    BY <1>3, <2>1
  <2>3. Tail(agenda) # <<>>
    <3>1. SUFFICES ASSUME Tail(agenda) = <<>> PROVE FALSE
      OBVIOUS
    <3>2. Len(Tail(agenda)) = Len(<<>>)
      BY <3>1
    <3> QED BY <2>1, <3>2, EmptySeq
  <2> QED BY <1>3, <1>5, <2>1, <2>2, <2>3
<1> QED BY <1>2, <1>4, <1>5

\* An answer releases.
LEMMA FinishReleases ==
    ASSUME TypeInv, step \in Working, NEW answer \in Outcomes,
           Finish(answer), faults' \in 0..MaxFaults
    PROVE  Released
<1>1. agenda # <<>>
  BY DEF TypeInv, HolderOK
<1>2. outcome' \in Outcomes
  BY DEF Finish, answers, TypeInv, TypeOK
<1>3. acked' \subseteq Time
  <2>1. acked \subseteq Time /\ Current.startsAt \in Time
    BY CurrentType DEF TypeInv, TypeOK
  <2>2. acked' = acked \/ acked' = acked \cup {Current.startsAt}
    BY DEF Finish, answers
  <2> QED BY <2>1, <2>2
<1>4. CASE Len(agenda) = 1 /\ Tail(agenda) = <<>>
  BY <1>2, <1>3, <1>4, EmptiedReleases DEF Finish
<1>5. CASE /\ Len(agenda) = 2
           /\ Tail(agenda) \in Seq(AlertDeliveries)
           /\ Len(Tail(agenda)) = 1 /\ Tail(agenda) # <<>>
           /\ Head(Tail(agenda)) = agenda[2]
  <2>1. /\ agenda' = Tail(agenda) /\ patch' = {} /\ sweeping' = FALSE
        /\ step' = FirstStep(memory', agenda[2])
    BY <1>5 DEF Finish
  <2>2. /\ step' \in {"own", "plan"}
        /\ step' = "plan" => memory'.route = agenda[2].startsAt
    BY <2>1 DEF FirstStep
  <2>3. HolderOK'
    BY <1>5, <2>1, <2>2 DEF HolderOK
  <2> QED BY <1>2, <1>3, <1>5, <2>1, <2>2, <2>3 DEF Released
<1> QED BY <1>1, <1>4, <1>5, AgendaTail

\* An error empties the agenda.
LEMMA FailReleases ==
    ASSUME TypeInv, NEW answer \in Outcomes, Fail(answer), faults' \in 0..MaxFaults
    PROVE  Released
<1>1. outcome' \in Outcomes /\ acked' \subseteq Time
  BY DEF Fail, TypeInv, TypeOK
<1>2. /\ agenda' = <<>> /\ step' \in {"down", "idle"} /\ patch' = {}
      /\ sweeping' \in BOOLEAN
  BY DEF Fail
<1> QED BY <1>1, <1>2, EmptiedReleases

\* So does the audit line, written or not.
LEMMA AuditReleases ==
    ASSUME TypeInv, step \in Working, NEW answer \in Outcomes, Audit(answer)
    PROVE  Released
<1>1. faults' \in 0..MaxFaults
  BY BridgeConstants DEF Audit, TypeInv, TypeOK
<1> QED BY <1>1, FinishReleases, FailReleases DEF Audit, Outcomes

\* What a commit leaves: memory changes only with the file.
Stored(state) ==
    \/ memory' = state /\ disk' = state
    \/ memory' = memory /\ disk' \in {disk, state}

\* A write that throws leaves memory behind, and releases all the same.
LEMMA FlushReleases ==
    ASSUME TypeInv, step \in Working, NEW state, Flush(state)
    PROVE  Released /\ Stored(state)
<1> USE DEF Stored
<1>1. CASE memory' = state /\ disk' = state /\ Audit("acked")
  BY <1>1, AuditReleases DEF Outcomes
<1>2. CASE /\ faults < MaxFaults /\ faults' = faults + 1
           /\ disk' \in {disk, state} /\ UNCHANGED memory
           /\ Fail("unavailable")
  <2>1. faults' \in 0..MaxFaults
    BY <1>2, BridgeConstants DEF TypeInv, TypeOK
  <2> QED BY <1>2, <2>1, FailReleases DEF Outcomes
<1> QED BY <1>1, <1>2 DEF Flush

-----------------------------------------------------------------------------
(* What the holder writes *)

\* A record that keeps what the workflow recorded.
Continues(s, r) ==
    /\ Len(s.remediationAttempts) <= Len(r.remediationAttempts)
    /\ s.approvalStatus = "approved" => r.approvalStatus = "approved"

\* A write to the session it was computed from, or a new session with no
\* attempt in flight, as long as sessions stand still while the bridge works.
Justified(p) ==
    ~AgentConcurrent =>
    /\ p.occurrence \in DOMAIN sessions => Continues(sessions[p.occurrence], p.state)
    /\ \/ p.occurrence \in DOMAIN sessions
       \/ memory.route = None
       \/ ~HasRunningAttempt(sessions[memory.route])

\* The holder computed a write.
Sending ==
    \E p : /\ patch' = {p} /\ step' = "patch"
           /\ p.occurrence \in Time /\ p.state \in Incidents
           /\ p.occurrence \in {Current.startsAt, memory.route}
           /\ Justified(p)
           /\ UNCHANGED <<agenda, sweeping, answers, store, faults>>

\* A delivery is planned against the route only when its own session is the
\* routed one or does not exist.
PlanFresh ==
    step = "plan" /\ ~AgentConcurrent =>
                     \/ memory.route = Current.startsAt
                     \/ Current.startsAt \notin DOMAIN sessions

\* A file worth writing: it decodes, its route leads to a session and is not
\* behind the one in use.
Forward(state) ==
    /\ state \in BridgeStates
    /\ Decodes(state)
    /\ memory.route <= state.route
    /\ state.route \in DOMAIN sessions \cup {None}

RouteInv ==
    /\ Decodes(memory) /\ Decodes(disk)
    /\ memory.route <= disk.route
    /\ memory.route \in DOMAIN sessions \cup {None}
    /\ disk.route \in DOMAIN sessions \cup {None}

\* The holder stays within what it looked at.
HolderInv ==
    /\ \A p \in patch : p.occurrence \in {Current.startsAt, memory.route}
    /\ step = "advance" => Current.startsAt \in DOMAIN sessions
    /\ PlanFresh
    /\ \A p \in patch : Justified(p)

BridgeInv == TypeInv /\ RouteInv /\ HolderInv

\* Deliveries keep the history and the decision.
LEMMA ReducedContinues ==
    ASSUME NEW s \in Incidents, NEW d \in Deliveries
    PROVE  Continues(s, Reduced(s, d))
<1>1. /\ Reduced(s, d).remediationAttempts = s.remediationAttempts
      /\ Reduced(s, d).approvalStatus = s.approvalStatus
  BY DEF Reduced, Counted, Remembered, Incidents
<1>2. Len(s.remediationAttempts) \in Nat
  BY DEF Incidents
<1> QED BY <1>1, <1>2 DEF Continues

\* DescribeOwn ends the delivery, goes on to plan it, or computes what the
\* reducer makes of the delivery's own session.
LEMMA OwnStep ==
    ASSUME TypeInv, DescribeOwn
    PROVE  /\ UNCHANGED <<gateway, store, requests, now>>
           /\ \/ Released
              \/ Sending
              \/ /\ step' = "plan" /\ Current.startsAt \notin DOMAIN sessions
                 /\ UNCHANGED <<agenda, sweeping, patch, answers, faults>>
<1> USE DEF DescribeOwn
<1>0. step \in Working
  BY DEF Working
<1>1. CASE Current.startsAt \notin DOMAIN sessions
  BY <1>1 DEF store
<1>2. CASE Current.startsAt \in DOMAIN sessions
  <2> DEFINE own == sessions[Current.startsAt]
  <2>1. own \in Incidents
    BY <1>2 DEF TypeInv, TypeOK
  <2>2. ASSUME NEW answer \in Outcomes, Return(answer) \/ Throw(answer)
        PROVE  Released /\ UNCHANGED store
    <3>1. faults \in 0..MaxFaults
      BY DEF TypeInv, TypeOK
    <3> QED BY <1>0, <2>2, <3>1, AuditReleases, FailReleases DEF Return, Throw, store
  <2>3. ASSUME SendNext(Current.startsAt, Reduced(own, Current))
        PROVE  Sending /\ UNCHANGED store
    <3> DEFINE p == [occurrence |-> Current.startsAt, state |-> Reduced(own, Current)]
    <3>1. /\ p.occurrence = Current.startsAt /\ p.occurrence \in Time
          /\ p.state \in Incidents /\ Continues(own, p.state)
      BY <1>0, <2>1, CurrentType, ReducedType, ReducedContinues
    <3>2. patch' = {p}
      BY <2>3 DEF SendNext
    <3> HIDE DEF p
    <3>3. Justified(p)
      BY <1>2, <3>1 DEF Justified
    <3> QED BY <2>3, <3>1, <3>2, <3>3 DEF SendNext, Sending, store
  <2>4. \/ Throw("consistency") \/ Throw("ordering") \/ Return("rejected")
        \/ SendNext(Current.startsAt, Reduced(own, Current))
    BY <1>2
  <2> QED BY <2>2, <2>3, <2>4 DEF Outcomes
<1> QED BY <1>1, <1>2

\* Plan ends the delivery, computes a write, or holds the delivery under the
\* route, which stays where it is.
LEMMA PlanStep ==
    ASSUME BridgeInv, Plan
    PROVE  /\ UNCHANGED <<gateway, requests, now>>
           /\ \/ Released /\ UNCHANGED store
              \/ Sending /\ UNCHANGED store
              \/ Released /\ \E state : Forward(state) /\ Stored(state)
<1> DEFINE decision == IF memory.route = None THEN DecisionMissing(Current)
                       ELSE Decision(sessions[memory.route], Current)
<1>0. step \in Working /\ TypeInv /\ step = "plan"
  BY DEF Plan, Working, BridgeInv
<1>1. /\ Current \in AlertDeliveries /\ Current \in Deliveries
      /\ Current.startsAt \in Time /\ ValidDelivery(Current)
      /\ Current.startsAt # None
  BY <1>0, CurrentType, BridgeConstants
<1>2. /\ memory \in BridgeStates /\ memory.route \in OptionalTime
      /\ memory.route # None => /\ memory.route \in DOMAIN sessions
                                /\ memory.route \in Time
                                /\ sessions[memory.route] \in Incidents
  BY <1>0 DEF TypeInv, TypeOK, BridgeInv, RouteInv, BridgeStates, OptionalTime
<1>3. ASSUME NEW answer \in Outcomes, Return(answer) \/ Throw(answer)
      PROVE  Released /\ UNCHANGED store
  <2>1. faults \in 0..MaxFaults
    BY <1>0 DEF TypeInv, TypeOK
  <2> QED BY <1>0, <1>3, <2>1, AuditReleases, FailReleases DEF Return, Throw, store
<1>4. CASE /\ decision \in {"created", "new_occurrence"}
           /\ memory.route # None => Readable(memory.route)
           /\ SendNext(Current.startsAt, CreateIncident(Current))
  <2> DEFINE p == [occurrence |-> Current.startsAt, state |-> CreateIncident(Current)]
  <2>1. p.occurrence = Current.startsAt /\ p.state \in Incidents
    BY <1>1, CreateIncidentType
  <2>2. patch' = {p}
    BY <1>4 DEF SendNext
  <2>3. ~AgentConcurrent => Current.startsAt \notin DOMAIN sessions
    <3>1. CASE memory.route = None
      BY <1>0, <1>1, <3>1 DEF BridgeInv, HolderInv, PlanFresh
    <3>2. CASE memory.route # None
      <4>1. sessions[memory.route].startsAt = memory.route
        BY <1>4, <3>2 DEF Readable, OccurrenceId
      <4>2. Current.startsAt # sessions[memory.route].startsAt
        BY <1>4, <3>2 DEF Decision
      <4> QED BY <1>0, <4>1, <4>2 DEF BridgeInv, HolderInv, PlanFresh
    <3> QED BY <3>1, <3>2
  <2>4. memory.route # None => ~HasRunningAttempt(sessions[memory.route])
    BY <1>4 DEF Decision, DecisionOtherOccurrence
  <2> HIDE DEF p
  <2>5. Justified(p)
    BY <2>1, <2>3, <2>4 DEF Justified
  <2>6. Sending /\ UNCHANGED store
    BY <1>1, <1>4, <2>1, <2>2, <2>5 DEF SendNext, Sending, store
  <2> QED BY <2>6 DEF Plan
<1>5. CASE /\ memory.route # None
           /\ SendNext(memory.route, Reduced(sessions[memory.route], Current))
  <2> DEFINE p == [occurrence |-> memory.route,
                   state |-> Reduced(sessions[memory.route], Current)]
  <2>1. /\ p.occurrence = memory.route /\ p.state \in Incidents
        /\ Continues(sessions[memory.route], p.state)
    BY <1>1, <1>2, <1>5, ReducedType, ReducedContinues
  <2>2. patch' = {p}
    BY <1>5 DEF SendNext
  <2> HIDE DEF p
  <2>3. Justified(p)
    BY <1>2, <1>5, <2>1 DEF Justified
  <2>4. Sending /\ UNCHANGED store
    BY <1>2, <1>5, <2>1, <2>2, <2>3 DEF SendNext, Sending, store
  <2> QED BY <2>4 DEF Plan
<1>6. CASE memory.route # None /\ SetCheckpoint
  <2> DEFINE held == {[blockedBy |-> memory.route, delivery |-> Current]}
             state == [memory EXCEPT !.checkpoint = held]
  <2>1. held \in SUBSET Checkpoints /\ \A c \in held : c.blockedBy = memory.route
    BY <1>1, <1>2, <1>6 DEF Checkpoints
  <2>2. Released /\ Stored(state)
    BY <1>0, <1>6, FlushReleases DEF SetCheckpoint
  <2> HIDE DEF held
  <2>3. state \in BridgeStates /\ state.route = memory.route /\ state.checkpoint = held
    BY <1>2, <2>1 DEF BridgeStates
  <2> HIDE DEF state
  <2>4. memory.route <= state.route
    <3>1. memory.route \in Int
      BY <1>2, ConstantTypes
    <3> QED BY <2>3, <3>1
  <2>5. Forward(state)
    BY <1>2, <1>6, <2>1, <2>3, <2>4 DEF Forward, Decodes
  <2> QED BY <2>2, <2>5 DEF Plan
<1>7. memory.route = None => decision \in {"created", "orphan_resolved"}
  BY <1>1 DEF DecisionMissing
<1>8. decision \in {"created", "new_occurrence", "updated", "duplicate", "stale_refire",
                    "deferred_new_occurrence", "orphan_resolved",
                    "received_at_regression", "rejected"}
  BY DEF DecisionMissing, Decision, DecisionOtherOccurrence
<1>9. \/ Throw("consistency") \/ Throw("checkpoint_conflict") \/ Throw("ordering")
      \/ Return("acked") \/ Return("rejected")
      \/ /\ decision \in {"created", "new_occurrence"}
         /\ memory.route # None => Readable(memory.route)
         /\ SendNext(Current.startsAt, CreateIncident(Current))
      \/ /\ decision \notin {"created", "orphan_resolved"}
         /\ SendNext(memory.route, Reduced(sessions[memory.route], Current))
      \/ decision \notin {"created", "orphan_resolved"} /\ SetCheckpoint
  <2> HIDE DEF decision
  <2>1. \/ Throw("consistency")
        \/ /\ memory.route # None => Readable(memory.route)
           /\ CASE decision \in {"created", "new_occurrence"} ->
                        SendNext(Current.startsAt, CreateIncident(Current))
                 [] decision \in {"updated", "duplicate", "stale_refire"} ->
                        SendNext(memory.route,
                                 Reduced(sessions[memory.route], Current))
                 [] decision = "deferred_new_occurrence" ->
                        IF HoldConflicts(Current)
                        THEN Throw("checkpoint_conflict")
                        ELSE SetCheckpoint
                 [] decision = "orphan_resolved" -> Return("acked")
                 [] decision = "received_at_regression" -> Throw("ordering")
                 [] decision = "rejected" -> Return("rejected")
    BY DEF Plan, decision
  <2> QED BY <1>8, <2>1
<1>10. ASSUME NEW answer \in Outcomes, Return(answer) \/ Throw(answer)
       PROVE  UNCHANGED <<gateway, requests, now>> /\ Released /\ UNCHANGED store
  BY <1>3, <1>10 DEF Plan
<1> HIDE DEF decision
<1> QED BY <1>4, <1>5, <1>6, <1>7, <1>9, <1>10 DEF Outcomes

\* Persist writes and ends the delivery, or goes on to the route.
LEMMA PersistStep ==
    ASSUME BridgeInv, Persist
    PROVE  /\ UNCHANGED <<late, store, requests, now>>
           /\ \E p \in patch :
                /\ sessions' = Patched(p)
                /\ \/ Released
                   \/ /\ step' = "advance" /\ patch' = {}
                      /\ p.occurrence = Current.startsAt
                      /\ UNCHANGED <<agenda, sweeping, answers, faults>>
<1>1. PICK p \in patch :
          /\ sessions' = Patched(p)
          /\ IF memory.route = p.occurrence THEN Return("acked")
             ELSE /\ step' = "advance"
                  /\ patch' = {}
                  /\ UNCHANGED <<agenda, sweeping, answers, store, faults>>
  BY DEF Persist
<1>2. step \in Working /\ TypeInv
  BY DEF Persist, Working, BridgeInv
<1>3. p.occurrence \in {Current.startsAt, memory.route}
  BY DEF BridgeInv, HolderInv
<1>4. CASE Return("acked")
  <2>1. Released /\ UNCHANGED store
    BY <1>2, <1>4, AuditReleases DEF Return, Outcomes
  <2> QED BY <1>1, <2>1 DEF Persist
<1>5. CASE /\ memory.route # p.occurrence /\ step' = "advance" /\ patch' = {}
           /\ UNCHANGED <<agenda, sweeping, answers, store, faults>>
  BY <1>1, <1>3, <1>5 DEF Persist
<1> QED BY <1>1, <1>4, <1>5

\* AdvanceRoute moves the route to the delivery's occurrence, forward only,
\* or leaves it.
LEMMA AdvanceStep ==
    ASSUME BridgeInv, AdvanceRoute
    PROVE  /\ UNCHANGED <<gateway, requests, now>> /\ Released
           /\ \/ UNCHANGED store
              \/ \E state : Forward(state) /\ Stored(state)
<1>1. step \in Working /\ TypeInv /\ Current.startsAt \in DOMAIN sessions
  BY DEF AdvanceRoute, Working, BridgeInv, HolderInv
<1>2. /\ Current.startsAt \in Time /\ memory.route \in OptionalTime
      /\ OptionalTime \subseteq Int /\ Time \subseteq Nat /\ None = -1
  BY <1>1, CurrentType, ConstantTypes DEF TypeInv, TypeOK, BridgeStates, None
<1>3. ASSUME CommitRouteAndClearCheckpoint, memory.route <= Current.startsAt
      PROVE  Released /\ \E state : Forward(state) /\ Stored(state)
  <2> DEFINE state == [route |-> Current.startsAt, checkpoint |-> {}]
  <2>1. Released /\ Stored(state)
    BY <1>1, <1>3, FlushReleases DEF CommitRouteAndClearCheckpoint
  <2>2. Forward(state)
    BY <1>1, <1>2, <1>3, ConstantTypes DEF Forward, BridgeStates, Decodes
  <2> QED BY <2>1, <2>2
<1>4. ASSUME NEW answer \in Outcomes, Return(answer) \/ Throw(answer)
      PROVE  Released /\ UNCHANGED store
  <2>1. faults \in 0..MaxFaults
    BY <1>1 DEF TypeInv, TypeOK
  <2> QED BY <1>1, <1>4, <2>1, AuditReleases, FailReleases DEF Return, Throw, store
<1>5. CASE memory.route = None /\ CommitRouteAndClearCheckpoint
  <2>1. memory.route <= Current.startsAt
    <3>1. memory.route = -1 /\ Current.startsAt \in Nat
      BY <1>2, <1>5
    <3> QED BY <3>1
  <2> QED BY <1>3, <1>5, <2>1 DEF AdvanceRoute
<1>6. CASE Readable(memory.route) /\ IsNewer(Current) /\ CommitRouteAndClearCheckpoint
  <2>1. sessions[memory.route].startsAt = memory.route
    BY <1>6 DEF Readable, OccurrenceId
  <2>2. memory.route <= Current.startsAt
    <3>1. memory.route \in Int
      BY <1>2
    <3>2. Current.startsAt \in Nat
      BY <1>2
    <3>3. Current.startsAt > memory.route
      BY <1>6, <2>1 DEF IsNewer
    <3> QED BY <3>1, <3>2, <3>3
  <2> QED BY <1>3, <1>6, <2>2 DEF AdvanceRoute
<1>7. CASE Throw("consistency") \/ Return("acked")
  BY <1>4, <1>7 DEF AdvanceRoute, Outcomes
<1> QED BY <1>5, <1>6, <1>7 DEF AdvanceRoute

-----------------------------------------------------------------------------
(* What the others write *)

\* Agent patches continue the record of a session that exists, while the
\* bridge is not at work unless AgentConcurrent.
AgentPatched ==
    \E t \in DOMAIN sessions, r \in Incidents :
        /\ sessions' = [sessions EXCEPT ![t] = r]
        /\ Continues(sessions[t], r)
        /\ AgentConcurrent \/ step \in {"idle", "down"}

\* Evidence, proposal and approval keep the history; the result is approved.
LEMMA AuthorizeContinues ==
    ASSUME NEW s \in Incidents, NEW at \in Time
    PROVE  LET r == RecordApprovalDecision(RecordRemediationProposal(
                        RecordMetricEvidence(s, TRUE, at), at), TRUE, at)
           IN  r \in Incidents /\ Continues(s, r)
<1> DEFINE c == RecordMetricEvidence(s, TRUE, at)
           q == RecordRemediationProposal(c, at)
           r == RecordApprovalDecision(q, TRUE, at)
<1>1. c \in Incidents /\ c.remediationAttempts = s.remediationAttempts
  BY EvidenceAndProposalType DEF RecordMetricEvidence, Incidents
<1> HIDE DEF c
<1>2. q \in Incidents /\ q.remediationAttempts = c.remediationAttempts
  BY <1>1, EvidenceAndProposalType DEF RecordRemediationProposal, Incidents
<1> HIDE DEF q
<1>3. /\ r \in Incidents /\ r.remediationAttempts = q.remediationAttempts
      /\ r.approvalStatus = "approved"
  <2>1. r \in Incidents
    BY <1>2, DecisionAndCheckType
  <2>2. /\ r.remediationAttempts = q.remediationAttempts
        /\ r.approvalStatus = "approved"
    BY <1>2 DEF RecordApprovalDecision, Incidents
  <2> QED BY <2>1, <2>2
<1>4. Len(s.remediationAttempts) \in Nat
  BY DEF Incidents
<1> HIDE DEF r
<1>5. r \in Incidents /\ Continues(s, r)
  BY <1>1, <1>2, <1>3, <1>4 DEF Continues
<1> QED BY <1>5 DEF r, q, c

\* Whatever the agent's writers do, they continue the record.
LEMMA AgentStep ==
    ASSUME TypeInv, Agent
    PROVE  AgentPatched /\ UNCHANGED <<late, store, requests, holder, answers, faults, now>>
<1>1. ASSUME NEW t \in DOMAIN sessions, NEW r \in Incidents,
             Continues(sessions[t], r), PatchSession(t, r)
      PROVE  AgentPatched /\ UNCHANGED <<late, store, requests, holder, answers, faults, now>>
  BY <1>1 DEF PatchSession, AgentPatched
<1>2. now \in Time /\ \A t \in DOMAIN sessions : sessions[t] \in Incidents
  BY DEF TypeInv, TypeOK
<1>3. ASSUME NEW t \in DOMAIN sessions, Authorize(t)
      PROVE  AgentPatched /\ UNCHANGED <<late, store, requests, holder, answers, faults, now>>
  BY <1>1, <1>2, <1>3, AuthorizeContinues DEF Authorize
<1>4. ASSUME NEW t \in DOMAIN sessions, NEW key \in Keys, NEW target \in Targets,
             StartAttempt(t, key, target)
      PROVE  AgentPatched /\ UNCHANGED <<late, store, requests, holder, answers, faults, now>>
  <2> DEFINE r == BeginAttempt(sessions[t], key, target, now)
  <2>1. /\ r \in Incidents /\ r.approvalStatus = sessions[t].approvalStatus
        /\ Len(r.remediationAttempts) = Len(sessions[t].remediationAttempts) + 1
    BY <1>2, BeginAttemptType
  <2>2. Len(sessions[t].remediationAttempts) \in Nat
    BY <1>2 DEF Incidents
  <2>3. PatchSession(t, r)
    BY <1>4 DEF StartAttempt
  <2> HIDE DEF r
  <2> QED BY <1>1, <2>1, <2>2, <2>3 DEF Continues
<1>5. ASSUME NEW t \in DOMAIN sessions, NEW key \in Keys,
             NEW status \in {"succeeded", "failed"}, FinishAttempt(t, key, status)
      PROVE  AgentPatched /\ UNCHANGED <<late, store, requests, holder, answers, faults, now>>
  <2> DEFINE r == WithAttemptSettled(sessions[t], status, now)
  <2>1. HasRunningAttempt(sessions[t]) /\ PatchSession(t, r)
    BY <1>5 DEF FinishAttempt, CanFinishAttempt
  <2>2. /\ r \in Incidents /\ r.approvalStatus = sessions[t].approvalStatus
        /\ Len(r.remediationAttempts) = Len(sessions[t].remediationAttempts)
    BY <1>2, <2>1, WithAttemptSettledType
  <2>3. Len(sessions[t].remediationAttempts) \in Nat
    BY <1>2 DEF Incidents
  <2> HIDE DEF r
  <2> QED BY <1>1, <2>1, <2>2, <2>3 DEF Continues
<1> QED BY <1>3, <1>4, <1>5 DEF Agent, SettleSomeAttempt

-----------------------------------------------------------------------------
(* The invariant *)

\* Before the first delivery there is nothing.
LEMMA InitInv == Init => BridgeInv
<1> SUFFICES ASSUME Init PROVE BridgeInv
  OBVIOUS
<1>1. agenda \in Seq(AlertDeliveries) /\ Len(agenda) = 0
  BY EmptySeq DEF Init
<1>2. memory \in BridgeStates /\ disk \in BridgeStates
  BY ConstantTypes DEF Init, BridgeStates
<1>3. /\ DOMAIN sessions = {} /\ agenda = <<>> /\ patch = {} /\ requests = {}
      /\ acked = {} /\ step = "idle" /\ late = {}
  BY DEF Init
<1>4. HolderOK
  BY <1>1, <1>3 DEF HolderOK, Working
<1>5. 0 \in Time /\ 0 \in 0..MaxFaults /\ DOMAIN agenda = {}
  BY <1>1, BridgeConstants, LenProperties
<1>6. sweeping \in BOOLEAN /\ outcome \in Outcomes /\ faults = 0 /\ now = 0
  BY DEF Init, Outcomes
<1>7. TypeOK
  BY <1>1, <1>2, <1>3, <1>5, <1>6 DEF TypeOK
<1>8. RouteInv
  <2>1. memory.route = None /\ disk.route = None /\ memory.checkpoint = {} /\ disk.checkpoint = {}
    BY DEF Init
  <2>2. memory.route <= disk.route
    BY <2>1, BridgeConstants
  <2> QED BY <2>1, <2>2 DEF RouteInv, Decodes
<1>9. HolderInv
  BY <1>3 DEF HolderInv, PlanFresh
<1> QED BY <1>4, <1>7, <1>8, <1>9 DEF BridgeInv, TypeInv

-----------------------------------------------------------------------------
(* One step *)

SessionsTyped ==
    /\ DOMAIN sessions \subseteq Time
    /\ \A t \in DOMAIN sessions : sessions[t] \in Incidents
    /\ \A p \in late : p.occurrence \in Time /\ p.state \in Incidents

\* The Gateway in the next state: what this step may do to its sessions, and
\* which patches it may leave under way.
SessionsMove ==
    /\ late' \subseteq late \cup patch
    /\ \/ sessions' = sessions
       \/ \E p \in patch : sessions' = Patched(p)
       \/ \E p \in late : sessions' = Patched(p) /\ late' = late \ {p}
       \/ AgentPatched

StoreMove ==
    \/ UNCHANGED store
    \/ memory' = disk /\ disk' = disk
    \/ \E state : Forward(state) /\ Stored(state)

Progress ==
    \A t \in DOMAIN sessions :
        t \in DOMAIN sessions' /\ Continues(sessions[t], sessions'[t])

Blocks ==
    DOMAIN sessions' # DOMAIN sessions /\ memory.route # None =>
        ~HasRunningAttempt(sessions[memory.route])

\* A record continues itself.
LEMMA ContinuesSelf ==
    ASSUME NEW s \in Incidents
    PROVE  Continues(s, s)
<1>1. Len(s.remediationAttempts) \in Nat
  BY DEF Incidents
<1> QED BY <1>1 DEF Continues

\* Sessions only grow, and with writers that take turns nothing recorded is
\* lost and no session appears beside a running attempt, unless a patch lands
\* that the bridge has given up on.
LEMMA SessionsStep ==
    ASSUME BridgeInv, SessionsMove
    PROVE  /\ SessionsTyped'
           /\ DOMAIN sessions \subseteq DOMAIN sessions'
           /\ ~AgentConcurrent /\ late \subseteq late' => Progress /\ Blocks
<1>1. /\ DOMAIN sessions \subseteq Time
      /\ \A t \in DOMAIN sessions : sessions[t] \in Incidents
      /\ \A p \in patch \cup late : p.occurrence \in Time /\ p.state \in Incidents
      /\ late' \subseteq late \cup patch
  BY DEF BridgeInv, TypeInv, TypeOK, SessionsMove
<1>2. CASE sessions' = sessions
  BY <1>1, <1>2, ContinuesSelf DEF SessionsTyped, Progress, Blocks
<1>3. ASSUME NEW p \in patch \cup late, sessions' = Patched(p),
             p \in patch \/ late' = late \ {p}
      PROVE  /\ SessionsTyped'
             /\ DOMAIN sessions \subseteq DOMAIN sessions'
             /\ ~AgentConcurrent /\ late \subseteq late' => Progress /\ Blocks
  <2>1. /\ DOMAIN sessions' = DOMAIN sessions \cup {p.occurrence}
        /\ \A t \in DOMAIN sessions' :
              sessions'[t] = IF t = p.occurrence THEN p.state ELSE sessions[t]
    BY <1>3 DEF Patched
  <2>2. SessionsTyped'
    BY <1>1, <2>1 DEF SessionsTyped
  <2>3. ASSUME ~AgentConcurrent, late \subseteq late' PROVE Progress /\ Blocks
    <3>1. Justified(p)
      BY <1>3, <2>3 DEF BridgeInv, HolderInv
    <3>2. Progress
      BY <1>1, <2>1, <2>3, <3>1, ContinuesSelf DEF Justified, Progress
    <3>3. Blocks
      BY <2>1, <2>3, <3>1 DEF Justified, Blocks
    <3> QED BY <3>2, <3>3
  <2> QED BY <2>1, <2>2, <2>3
<1>4. CASE AgentPatched
  <2>1. PICK t \in DOMAIN sessions, r \in Incidents :
            /\ sessions' = [sessions EXCEPT ![t] = r]
            /\ Continues(sessions[t], r)
    BY <1>4 DEF AgentPatched
  <2>2. /\ DOMAIN sessions' = DOMAIN sessions
        /\ \A u \in DOMAIN sessions : sessions'[u] = IF u = t THEN r ELSE sessions[u]
    BY <2>1
  <2> QED BY <1>1, <2>1, <2>2, ContinuesSelf DEF SessionsTyped, Progress, Blocks
<1> QED BY <1>2, <1>3, <1>4 DEF SessionsMove

\* The route in use only moves forward, and the file stays at least as far.
LEMMA StoreStep ==
    ASSUME BridgeInv, SessionsMove, StoreMove
    PROVE  /\ memory' \in BridgeStates /\ disk' \in BridgeStates
           /\ RouteInv'
           /\ memory.route <= memory'.route
<1>1. /\ memory \in BridgeStates /\ disk \in BridgeStates
      /\ Decodes(memory) /\ Decodes(disk) /\ memory.route <= disk.route
      /\ memory.route \in DOMAIN sessions \cup {None}
      /\ disk.route \in DOMAIN sessions \cup {None}
      /\ DOMAIN sessions \subseteq DOMAIN sessions'
  BY SessionsStep DEF BridgeInv, TypeInv, TypeOK, RouteInv
<1>2. \A state \in BridgeStates : state.route \in Int /\ state.route <= state.route
  <2>1. \A state \in BridgeStates : state.route \in Int
    BY ConstantTypes DEF BridgeStates
  <2> QED BY <2>1
<1>3. CASE UNCHANGED store
  <2>1. memory' = memory /\ disk' = disk
    BY <1>3 DEF store
  <2> QED BY <1>1, <1>2, <2>1 DEF RouteInv, Decodes
<1>4. CASE memory' = disk /\ disk' = disk
  BY <1>1, <1>2, <1>4 DEF RouteInv, Decodes
<1>5. ASSUME NEW state, Forward(state), Stored(state)
      PROVE  /\ memory' \in BridgeStates /\ disk' \in BridgeStates
             /\ RouteInv'
             /\ memory.route <= memory'.route
  <2>1. CASE memory' = state /\ disk' = state
    BY <1>1, <1>2, <1>5, <2>1 DEF Forward, RouteInv, Decodes
  <2>2. CASE memory' = memory /\ disk' \in {disk, state}
    BY <1>1, <1>2, <1>5, <2>2 DEF Forward, RouteInv, Decodes
  <2> QED BY <1>5, <2>1, <2>2 DEF Stored
<1> QED BY <1>3, <1>4, <1>5 DEF StoreMove

\* What a step keeps when it releases the lock or takes up a delivery.
LEMMA ReleasedStep ==
    ASSUME BridgeInv, SessionsMove, StoreMove, Released,
           requests' \subseteq AlertDeliveries, now' \in Time
    PROVE  BridgeInv'
<1>1. SessionsTyped'
  BY SessionsStep
<1>2. memory' \in BridgeStates /\ disk' \in BridgeStates /\ RouteInv'
  BY StoreStep
<1>3. HolderOK' /\ HolderInv'
  BY DEF Released, HolderInv, PlanFresh, Current
<1>4. Len(agenda') <= 2 /\ \A i \in DOMAIN agenda' : agenda'[i] \in AlertDeliveries
  BY <1>3, LenProperties, ElementOfSeq DEF HolderOK
<1>5. TypeOK'
  BY <1>1, <1>2, <1>4 DEF TypeOK, SessionsTyped, Released
<1> QED BY <1>2, <1>3, <1>5 DEF BridgeInv, TypeInv

\* What a step keeps that leaves agenda, answers and store alone and moves
\* the holder to another of its steps.
LEMMA MovedStep ==
    ASSUME BridgeInv, SessionsMove, UNCHANGED store,
           UNCHANGED <<agenda, sweeping, answers>>, faults' \in 0..MaxFaults,
           requests' \subseteq AlertDeliveries, now' \in Time,
           step' \in {"down", "idle", "own", "plan", "patch", "advance"},
           step' \in Working => step \in Working,
           \A p \in patch' : p.occurrence \in Time /\ p.state \in Incidents,
           step' # "patch" => patch' = {},
           HolderInv'
    PROVE  BridgeInv'
<1>1. SessionsTyped'
  BY SessionsStep
<1>2. memory' \in BridgeStates /\ disk' \in BridgeStates /\ RouteInv'
  BY StoreStep DEF StoreMove
<1>3. HolderOK'
  BY DEF BridgeInv, TypeInv, HolderOK
<1>4. TypeOK'
  BY <1>1, <1>2 DEF BridgeInv, TypeInv, TypeOK, SessionsTyped, answers
<1> QED BY <1>2, <1>3, <1>4 DEF BridgeInv, TypeInv

\* What a step keeps that computes a write.
LEMMA SendingStep ==
    ASSUME BridgeInv, Sending, step \in Working, UNCHANGED <<gateway, store, requests, now>>
    PROVE  BridgeInv'
<1>1. PICK p : /\ patch' = {p} /\ step' = "patch"
               /\ p.occurrence \in Time /\ p.state \in Incidents
               /\ p.occurrence \in {Current.startsAt, memory.route}
               /\ Justified(p)
               /\ UNCHANGED <<agenda, sweeping, answers, store, faults>>
  BY DEF Sending
<1>2. memory' = memory /\ sessions' = sessions /\ agenda' = agenda
  BY <1>1 DEF store, gateway
<1>3. HolderInv'
  BY <1>1, <1>2 DEF HolderInv, PlanFresh, Current, Justified
<1>4. requests' \subseteq AlertDeliveries /\ now' \in Time /\ faults' \in 0..MaxFaults
  BY <1>1 DEF BridgeInv, TypeInv, TypeOK
<1>5. SessionsMove
  BY DEF SessionsMove, gateway
<1> QED BY <1>1, <1>2, <1>3, <1>4, <1>5, MovedStep

\* The four steps of the holder.
LEMMA WorkStep ==
    ASSUME BridgeInv, Work
    PROVE  BridgeInv' /\ SessionsMove /\ StoreMove
<1>1. /\ requests \subseteq AlertDeliveries /\ now \in Time
      /\ faults \in 0..MaxFaults /\ TypeInv
  BY DEF BridgeInv, TypeInv, TypeOK
<1>2. CASE DescribeOwn
  <2>1. step \in Working /\ UNCHANGED <<gateway, store, requests, now>>
    BY <1>1, <1>2, OwnStep DEF DescribeOwn, Working
  <2>2. SessionsMove /\ StoreMove
    BY <2>1 DEF SessionsMove, StoreMove, gateway
  <2>3. CASE Released
    BY <1>1, <2>1, <2>2, <2>3, ReleasedStep
  <2>4. CASE Sending
    BY <2>1, <2>2, <2>4, SendingStep
  <2>5. CASE /\ step' = "plan" /\ Current.startsAt \notin DOMAIN sessions
             /\ UNCHANGED <<agenda, sweeping, patch, answers, faults>>
    <3>1. patch = {}
      BY <1>1, <1>2 DEF DescribeOwn, TypeInv, HolderOK
    <3>2. HolderInv'
      BY <2>1, <2>5, <3>1 DEF HolderInv, PlanFresh, Current, gateway
    <3> QED BY <1>1, <2>1, <2>2, <2>5, <3>1, <3>2, MovedStep
  <2> QED BY <1>1, <1>2, <2>2, <2>3, <2>4, <2>5, OwnStep
<1>3. CASE Plan
  <2>1. step \in Working /\ UNCHANGED <<gateway, requests, now>>
    BY <1>3, PlanStep DEF Plan, Working
  <2>2. SessionsMove
    BY <2>1 DEF SessionsMove, gateway
  <2>3. CASE Released /\ UNCHANGED store
    BY <1>1, <2>1, <2>2, <2>3, ReleasedStep DEF StoreMove
  <2>4. CASE Sending /\ UNCHANGED store
    BY <2>1, <2>2, <2>4, SendingStep DEF StoreMove
  <2>5. CASE Released /\ \E state : Forward(state) /\ Stored(state)
    BY <1>1, <2>1, <2>2, <2>5, ReleasedStep DEF StoreMove
  <2> QED BY <1>3, <2>3, <2>4, <2>5, PlanStep
<1>4. CASE Persist
  <2>1. UNCHANGED <<late, store, requests, now>> /\ step \in Working
    BY <1>4, PersistStep DEF Persist, Working
  <2>2. PICK p \in patch :
            /\ sessions' = Patched(p)
            /\ \/ Released
               \/ /\ step' = "advance" /\ patch' = {}
                  /\ p.occurrence = Current.startsAt
                  /\ UNCHANGED <<agenda, sweeping, answers, faults>>
    BY <1>4, PersistStep
  <2>3. SessionsMove /\ StoreMove
    BY <2>1, <2>2 DEF SessionsMove, StoreMove
  <2>4. CASE Released
    BY <1>1, <2>1, <2>3, <2>4, ReleasedStep
  <2>5. CASE /\ step' = "advance" /\ patch' = {}
             /\ p.occurrence = Current.startsAt
             /\ UNCHANGED <<agenda, sweeping, answers, faults>>
    <3>1. Current.startsAt \in DOMAIN sessions'
      BY <2>2, <2>5 DEF Patched
    <3>2. HolderInv'
      BY <2>5, <3>1 DEF HolderInv, PlanFresh, Current
    <3> QED BY <1>1, <2>1, <2>3, <2>5, <3>2, MovedStep
  <2> QED BY <2>2, <2>3, <2>4, <2>5
<1>5. CASE AdvanceRoute
  <2>1. UNCHANGED <<gateway, requests, now>> /\ Released /\ StoreMove
    BY <1>5, AdvanceStep DEF StoreMove
  <2>2. SessionsMove
    BY <2>1 DEF SessionsMove, gateway
  <2> QED BY <1>1, <2>1, <2>2, ReleasedStep
<1> QED BY <1>2, <1>3, <1>4, <1>5 DEF Work

\* Faults, and the process coming up again.
LEMMA FaultStep ==
    ASSUME BridgeInv, FailRpc \/ Crash \/ Restart
    PROVE  BridgeInv' /\ SessionsMove /\ StoreMove
<1>0. AbandonPatch => SessionsMove
  BY DEF AbandonPatch, SessionsMove, gateway
<1>1. /\ requests \subseteq AlertDeliveries /\ now \in Time /\ TypeInv
      /\ faults \in 0..MaxFaults /\ acked \subseteq Time /\ outcome \in Outcomes
      /\ disk \in BridgeStates
  BY DEF BridgeInv, TypeInv, TypeOK
<1>2. faults < MaxFaults /\ faults' = faults + 1 => faults' \in 0..MaxFaults
  BY <1>1, BridgeConstants
<1>3. CASE FailRpc
  <2>1. Released
    BY <1>1, <1>2, <1>3, FailReleases DEF FailRpc, Outcomes
  <2>2. SessionsMove /\ StoreMove
    BY <1>0, <1>3 DEF FailRpc, StoreMove
  <2> QED BY <1>1, <1>3, <2>1, <2>2, ReleasedStep DEF FailRpc
<1>4. CASE Crash
  <2>1. outcome' \in Outcomes /\ acked' \subseteq Time /\ sweeping' \in BOOLEAN
    BY <1>1, <1>4 DEF Crash, answers
  <2>2. Released
    BY <1>2, <1>4, <2>1, EmptiedReleases DEF Crash
  <2>3. SessionsMove /\ StoreMove
    BY <1>0, <1>4 DEF Crash, StoreMove
  <2> QED BY <1>1, <1>4, <2>2, <2>3, ReleasedStep DEF Crash
<1>5. CASE Restart
  <2>1. /\ memory' = disk /\ disk' = disk /\ sessions' = sessions /\ patch = {} /\ patch' = {}
        /\ outcome' = outcome /\ acked' = acked /\ faults' = faults
    BY <1>1, <1>5 DEF Restart, answers, gateway, TypeInv, HolderOK
  <2>2. SessionsMove /\ StoreMove
    BY <1>5, <2>1 DEF SessionsMove, StoreMove, Restart, gateway
  <2>3. agenda' \in Seq(AlertDeliveries) /\ Len(agenda') <= 1
    BY <1>1, <1>5, ReplayType DEF Restart
  <2>4. /\ sweeping' \in BOOLEAN
        /\ step' \in {"own", "plan", "idle"}
        /\ step' \in Working => agenda' # <<>>
        /\ step' = "plan" => memory'.route = Head(agenda').startsAt
    BY <1>5, <2>1 DEF Restart, FirstStep, Working
  <2>5. Len(agenda') \in Nat /\ Len(agenda') <= 2
    BY <2>3, LenProperties
  <2>6. Released
    BY <1>1, <2>1, <2>3, <2>4, <2>5 DEF Released, HolderOK
  <2> QED BY <1>1, <1>5, <2>2, <2>6, ReleasedStep DEF Restart
<1> QED BY <1>3, <1>4, <1>5

\* Requests, the lock, the clock and the other writers.
LEMMA OtherStep ==
    ASSUME BridgeInv, \/ Tick \/ ArriveSome \/ \E d \in requests : Acquire(d)
                      \/ Agent \/ LandLate \/ UNCHANGED vars
    PROVE  BridgeInv' /\ SessionsMove /\ StoreMove
<1>1. /\ requests \subseteq AlertDeliveries /\ now \in Time /\ TypeInv /\ HolderOK
      /\ faults \in 0..MaxFaults /\ acked \subseteq Time /\ outcome \in Outcomes
      /\ sweeping \in BOOLEAN /\ memory \in BridgeStates
      /\ step \in {"down", "idle", "own", "plan", "patch", "advance"}
      /\ \A p \in patch : p.occurrence \in Time /\ p.state \in Incidents
      /\ step # "patch" => patch = {}
  BY DEF BridgeInv, TypeInv, TypeOK, HolderOK
<1>2. ASSUME UNCHANGED <<store, holder, answers, faults>>, SessionsMove, HolderInv',
             requests' \subseteq AlertDeliveries, now' \in Time
      PROVE  BridgeInv' /\ SessionsMove /\ StoreMove
  BY <1>1, <1>2, MovedStep DEF holder, StoreMove
<1>3. ASSUME UNCHANGED <<gateway, store, holder, answers, faults>>,
             requests' \subseteq AlertDeliveries, now' \in Time
      PROVE  BridgeInv' /\ SessionsMove /\ StoreMove
  <2>1. HolderInv'
    BY <1>3 DEF BridgeInv, HolderInv, PlanFresh, Current, Justified, holder, store, gateway
  <2>2. SessionsMove
    BY <1>3 DEF SessionsMove, gateway
  <2> QED BY <1>2, <1>3, <2>1, <2>2
<1>4. CASE Tick
  <2>1. now' \in Time
    BY <1>1, <1>4, ConstantTypes DEF Tick, Time
  <2> QED BY <1>1, <1>3, <1>4, <2>1 DEF Tick
<1>5. CASE ArriveSome
  <2>1. PICK d \in AlertDeliveries : Arrive(d)
    BY <1>5 DEF ArriveSome
  <2> QED BY <1>1, <1>3, <2>1 DEF Arrive
<1>6. CASE \E d \in requests : Acquire(d)
  <2>1. PICK d \in requests : Acquire(d)
    BY <1>6
  <2>2. d \in AlertDeliveries
    BY <1>1
  <2>3. Replay(memory) \in Seq(AlertDeliveries) /\ Len(Replay(memory)) <= 1
    BY <1>1, ReplayType
  <2>4. /\ agenda' \in Seq(AlertDeliveries)
        /\ Len(agenda') = Len(Replay(memory)) + 1 /\ Len(Replay(memory)) \in Nat
    BY <2>1, <2>2, <2>3, AppendProperties, LenProperties DEF Acquire
  <2>5. Len(agenda') <= 2 /\ Len(agenda') # 0
    BY <2>3, <2>4
  <2>6. agenda' # <<>>
    <3>1. SUFFICES ASSUME agenda' = <<>> PROVE FALSE
      OBVIOUS
    <3> QED BY <2>5, <3>1, EmptySeq
  <2>7. /\ step' \in {"own", "plan"} /\ patch' = {} /\ memory' = memory
        /\ step' = "plan" => memory'.route = Head(agenda').startsAt
        /\ UNCHANGED <<sessions, late, store, sweeping, outcome, acked, faults, now>>
    BY <1>1, <2>1 DEF Acquire, FirstStep, store, answers, gateway
  <2>8. Released
    BY <1>1, <2>4, <2>5, <2>6, <2>7 DEF Released, HolderOK
  <2>9. SessionsMove /\ StoreMove /\ requests' \subseteq AlertDeliveries
    BY <1>1, <2>1, <2>7 DEF SessionsMove, StoreMove, Acquire
  <2> QED BY <1>1, <2>7, <2>8, <2>9, ReleasedStep
<1>7. CASE Agent
  <2>1. AgentPatched /\ UNCHANGED <<late, store, requests, holder, answers, faults, now>>
    BY <1>1, <1>7, AgentStep
  <2>2. PICK t \in DOMAIN sessions, r \in Incidents :
            /\ sessions' = [sessions EXCEPT ![t] = r]
            /\ AgentConcurrent \/ step \in {"idle", "down"}
    BY <2>1 DEF AgentPatched
  <2>3. DOMAIN sessions' = DOMAIN sessions
    BY <2>2
  <2>4. /\ memory' = memory /\ agenda' = agenda /\ step' = step /\ patch' = patch
        /\ ~AgentConcurrent => patch = {}
    BY <1>1, <2>1, <2>2 DEF store, holder
  <2>5. HolderInv'
    BY <2>1, <2>2, <2>3, <2>4 DEF BridgeInv, HolderInv, PlanFresh, Current, Justified
  <2>6. SessionsMove
    BY <2>1 DEF SessionsMove
  <2> QED BY <1>1, <1>2, <2>1, <2>5, <2>6
<1>8. CASE LandLate
  <2>1. PICK p \in late :
            /\ AgentConcurrent \/ step \in {"idle", "down"}
            /\ sessions' = Patched(p)
            /\ late' = late \ {p}
            /\ UNCHANGED <<store, requests, holder, answers, faults, now>>
    BY <1>8 DEF LandLate
  <2>2. DOMAIN sessions \subseteq DOMAIN sessions'
    BY <2>1 DEF Patched
  <2>3. /\ memory' = memory /\ agenda' = agenda /\ step' = step /\ patch' = patch
        /\ ~AgentConcurrent => patch = {} /\ step # "plan"
    BY <1>1, <2>1 DEF store, holder
  <2>4. HolderInv'
    BY <2>2, <2>3 DEF BridgeInv, HolderInv, PlanFresh, Current, Justified
  <2>5. SessionsMove
    BY <2>1 DEF SessionsMove
  <2> QED BY <1>1, <1>2, <2>1, <2>4, <2>5
<1>9. CASE UNCHANGED vars
  BY <1>1, <1>3, <1>9 DEF vars
<1> QED BY <1>4, <1>5, <1>6, <1>7, <1>8, <1>9

\* Every step.
LEMMA BridgeStep ==
    ASSUME BridgeInv, [Next]_vars
    PROVE  BridgeInv' /\ SessionsMove /\ StoreMove
BY WorkStep, FaultStep, OtherStep DEF Next

-----------------------------------------------------------------------------
(* Theorems *)

\* The invariant, from which everything below follows.
LEMMA BridgeCorrect == Spec => []BridgeInv
<1>1. BridgeInv /\ [Next]_vars => BridgeInv'
  BY BridgeStep
<1> QED BY InitInv, <1>1, PTL DEF Spec

\* The types of everything the bridge keeps, however many requests wait,
\* crashes happen and RPCs fail.
THEOREM BridgeTypeCorrect == Spec => []TypeOK
<1>1. BridgeInv => TypeOK
  BY DEF BridgeInv, TypeInv
<1> QED BY BridgeCorrect, <1>1, PTL

\* Whatever fails when, memory and file decode: a restart is never refused
\* (decodeBridgeState, state-store.ts).
THEOREM DurableStateAlwaysDecodes == Spec => []DurableStateDecodes
<1>1. BridgeInv => DurableStateDecodes
  BY DEF BridgeInv, RouteInv, DurableStateDecodes
<1> QED BY BridgeCorrect, <1>1, PTL

\* Every route, in use or on file, has its session: what the processor wrote
\* before it committed the route.
RoutesLead == {memory.route, disk.route} \subseteq DOMAIN sessions \cup {None}

THEOREM RoutesAlwaysLead == Spec => []RoutesLead
<1>1. BridgeInv => RoutesLead
  BY DEF BridgeInv, RouteInv, RoutesLead
<1> QED BY BridgeCorrect, <1>1, PTL

\* The route in use only moves forward, across crashes and failed writes.
THEOREM RouteAlwaysForward == Spec => RouteNeverRegresses
<1>1. BridgeInv /\ [Next]_vars => [memory.route <= memory'.route]_vars
  BY BridgeStep, StoreStep
<1> QED BY BridgeCorrect, <1>1, PTL DEF Spec, RouteNeverRegresses

\* When the agent's writers and the bridge take turns on a session, no write
\* of the bridge takes back an attempt or an approval, but for one it had given
\* up on.
THEOREM ProgressAlwaysKept ==
    ASSUME ~AgentConcurrent
    PROVE  Spec => ProgressNotOverwritten
<1>1. BridgeInv /\ [Next]_vars =>
        [late \subseteq late' => \A t \in DOMAIN sessions :
          /\ t \in DOMAIN sessions'
          /\ Len(sessions[t].remediationAttempts)
                <= Len(sessions'[t].remediationAttempts)
          /\ sessions[t].approvalStatus = "approved" =>
                sessions'[t].approvalStatus = "approved"]_vars
  BY BridgeStep, SessionsStep DEF Progress, Continues
<1> QED BY BridgeCorrect, <1>1, PTL DEF Spec, ProgressNotOverwritten

\* Then a running attempt of the active occurrence also keeps any other
\* occurrence from getting a session.
THEOREM RunningAttemptAlwaysBlocks ==
    ASSUME ~AgentConcurrent
    PROVE  Spec => RunningAttemptBlocksNewOccurrence
<1>1. BridgeInv /\ [Next]_vars =>
        [late \subseteq late' /\ DOMAIN sessions' # DOMAIN sessions /\ memory.route # None =>
          ~HasRunningAttempt(sessions[memory.route])]_vars
  BY BridgeStep, SessionsStep DEF Blocks
<1> QED BY BridgeCorrect, <1>1, PTL DEF Spec, RunningAttemptBlocksNewOccurrence
=============================================================================
