--------------------------- MODULE IncidentReducer ---------------------------
(***************************************************************************)
(* The pure reducer that applies one alert delivery to one incident record *)
(* (src/src/state/incident-reducer.ts).  A session that holds no record is *)
(* handled by the operators named ...Missing.                              *)
(***************************************************************************)
EXTENDS IncidentState

Deliveries == [fingerprint : Fingerprints,
               alertId     : AlertIds,
               alertStatus : {"firing", "resolved"},
               startsAt    : Time,
               endsAt      : OptionalTime,
               receivedAt  : Time]

\* createAlertmanagerDeliveryId
DeliveryId(d) == <<d.alertStatus, d.startsAt, d.endsAt>>

\* validateDelivery
ValidDelivery(d) ==
    /\ d.startsAt <= d.receivedAt
    /\ d.alertStatus = "firing" => d.endsAt = None
    /\ d.alertStatus = "resolved" => d.endsAt # None /\ d.startsAt <= d.endsAt

\* Mutant: counters without the bound of a safe integer.
CountUpUnbounded(n) == n + 1

\* JavaScript numbers stop counting at 2^53 the same way.
CountUp(n) == IF n < MaxCount THEN n + 1 ELSE n

CreateIncident(d) ==
    [fingerprint               |-> d.fingerprint,
     alertId                   |-> d.alertId,
     alertStatus               |-> d.alertStatus,
     startsAt                  |-> d.startsAt,
     endsAt                    |-> d.endsAt,
     lastReceivedAt            |-> d.receivedAt,
     deliveryCount             |-> 1,
     nonDuplicateDeliveryCount |-> 1,
     recentDeliveryIds         |-> <<DeliveryId(d)>>,
     stage                     |-> "alert_received",
     evidence                  |-> {},
     proposedAction            |-> FALSE,
     approvalStatus            |-> "not_requested",
     remediationAttempts       |-> <<>>,
     evidenceValidation        |-> "not_checked",
     updatedAt                 |-> d.receivedAt]

AppendRecentDeliveryId(ids, id) ==
    LET all == Append(ids, id)
    IN  IF Len(all) > MaxRecentDeliveryIds
        THEN SubSeq(all, Len(all) - MaxRecentDeliveryIds + 1, Len(all))
        ELSE all

\* Mutant: updatedAt is the receipt time, clamped to nothing.
UpdatedAtOfReceipt(previous, candidate) == candidate

MonotonicUpdatedAt(previous, candidate) ==
    IF candidate > previous THEN candidate ELSE previous

\* Mutant: only the latest identity is compared.
IsLatestDelivery(s, d) ==
    s.recentDeliveryIds[Len(s.recentDeliveryIds)] = DeliveryId(d)

IsRecentDelivery(s, d) ==
    \E i \in DOMAIN s.recentDeliveryIds : s.recentDeliveryIds[i] = DeliveryId(d)

\* The decision for a session without a record.
DecisionMissing(d) ==
    CASE ~ValidDelivery(d)            -> "rejected"
      [] d.alertStatus = "resolved"   -> "orphan_resolved"
      [] OTHER                        -> "created"

\* Mutant: a new occurrence does not wait for the attempt in flight.
DecisionOtherOccurrenceEager(s, d) ==
    IF d.alertStatus = "resolved" THEN "orphan_resolved" ELSE "new_occurrence"

\* The decision when the delivery is of another occurrence than record s,
\* newer or older.
DecisionOtherOccurrence(s, d) ==
    IF d.alertStatus = "resolved" THEN "orphan_resolved"
    ELSE IF HasRunningAttempt(s) THEN "deferred_new_occurrence"
    ELSE "new_occurrence"

\* The decision for record s, in the order of the code's early returns.  The
\* one rejection reason callers branch on, received_at_regression, is a value
\* of its own.
Decision(s, d) ==
    IF ~ValidDelivery(d) \/ ~ValidIncident(s) THEN "rejected"
    ELSE IF d.fingerprint # s.fingerprint THEN "rejected"
    ELSE IF d.startsAt # s.startsAt THEN DecisionOtherOccurrence(s, d)
    ELSE IF d.alertId # s.alertId THEN "rejected"
    ELSE IF d.receivedAt < s.lastReceivedAt THEN "received_at_regression"
    ELSE IF IsRecentDelivery(s, d) THEN "duplicate"
    ELSE IF s.alertStatus = "resolved" /\ d.alertStatus = "firing"
         THEN "stale_refire"
    ELSE "updated"

Counted(s, d) ==
    [s EXCEPT !.deliveryCount  = CountUp(@),
              !.lastReceivedAt = d.receivedAt,
              !.updatedAt      = MonotonicUpdatedAt(@, d.receivedAt)]

Remembered(s, d) ==
    [Counted(s, d) EXCEPT
        !.nonDuplicateDeliveryCount = CountUp(@),
        !.recentDeliveryIds         = AppendRecentDeliveryId(@, DeliveryId(d))]

\* Mutant: a firing delivery after the resolved one reopens the occurrence.
ReducedReopening(s, d) ==
    CASE Decision(s, d) = "duplicate"    -> Counted(s, d)
      [] Decision(s, d) \in {"stale_refire", "updated"} ->
            [Remembered(s, d) EXCEPT !.alertStatus = d.alertStatus,
                                     !.endsAt      = d.endsAt]
      [] OTHER                           -> s

\* The record the caller persists; unchanged when the decision keeps it.
Reduced(s, d) ==
    CASE Decision(s, d) = "duplicate"    -> Counted(s, d)
      [] Decision(s, d) = "stale_refire" -> Remembered(s, d)
      [] Decision(s, d) = "updated"      -> [Remembered(s, d) EXCEPT
                                                !.alertStatus = d.alertStatus,
                                                !.endsAt      = d.endsAt]
      [] OTHER                           -> s
=============================================================================
