\* Two firing occurrences, two waiting requests that may overtake each other, two
\* faults of any kind, so that a retry may fail as well; other writers and
\* abandoned patches keep out while the bridge works.
CONSTANTS
    f1 = f1
    a1 = a1
    k1 = k1
    t1 = t1
    Fingerprints = {f1}
    AlertIds = {a1}
    Fingerprint = f1
    AlertId = a1
    Keys = {k1}
    Targets = {t1}
    MaxTime = 1
    MaxRetries = 0
    MaxRecentDeliveryIds = 1
    MaxCount = 1
    MaxEvidenceAge = 0
    MaxFutureSkew = 0
    Alerts <- FiringTwice
    MaxRequests = 2
    MaxFaults = 2
    AgentConcurrent = FALSE
SPECIFICATION Spec
INVARIANTS
    TypeOK
    RaceLostIsNotAcknowledged
    NoAlertVanishes
PROPERTIES
    ProgressNotOverwritten
    RunningAttemptBlocksNewOccurrence
