\* An alert of an earlier occurrence arrives late; no fault.
CONSTANTS
    f1 = f1
    a1 = a1
    k1 = k1
    t1 = t1
    Fingerprints = {f1}
    AlertIds = {a1}
    Fingerprint = f1
    AlertId = a1
    Keys = {k1}
    Targets = {t1}
    MaxTime = 2
    MaxRetries = 0
    MaxRecentDeliveryIds = 1
    MaxCount = 1
    MaxEvidenceAge = 0
    MaxFutureSkew = 0
    Alerts <- LateFirst
    MaxRequests = 1
    MaxFaults = 0
    AgentConcurrent = FALSE
SPECIFICATION FairSpec
PROPERTIES
    OrderingConflictClears
