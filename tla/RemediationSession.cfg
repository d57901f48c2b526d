\* One occurrence with every party at work: one edit of the Deployment beside
\* the rollback, one later delivery, three instants.
CONSTANTS
    f1 = f1
    a1 = a1
    k1 = k1
    good = good
    bad = bad
    u1 = u1
    here = here
    elsewhere = elsewhere
    shop = shop
    other = other
    incidentWorkflow = incidentWorkflow
    otherWorkflow = otherWorkflow
    guardianRoot = guardianRoot
    otherRoot = otherRoot
    occurrence = occurrence
    otherAlert = otherAlert
    s0 = s0
    s1 = s1
    s2 = s2
    s3 = s3
    s4 = s4
    Fingerprints = {f1}
    AlertIds = {a1}
    Keys = {k1}
    Targets <- TwoTargets
    MaxTime = 1
    MaxRetries = 1
    MaxRecentDeliveryIds = 2
    MaxCount = 2
    MaxEvidenceAge = 1
    MaxFutureSkew = 0
    Clusters = {here, elsewhere}
    DeploymentNames = {shop, other}
    MaxSampleSkew = 0
    Pipelines = {incidentWorkflow, otherWorkflow}
    IncidentWorkflow = incidentWorkflow
    Roots = {guardianRoot, otherRoot}
    GuardianRoot = guardianRoot
    StateKeys = {s0, s1, s2, s3, s4}
    PathSupported = TRUE
    PolicyEnabled = TRUE
    AlertNames = {occurrence, otherAlert}
    Fingerprint = f1
    Alert = a1
    AlertName = occurrence
    LiveName = shop
    Templates = {good, bad}
    FirstTemplate = bad
    Uids = {u1}
    FirstUid = u1
    KeyOf <- OneKey
    Key = s0
    Leftovers <- PausedElsewhere
    ConfigsTried <- Configurations
    SampleValues = {7, 10}
    DegradedValue = 7
    MaxGeneration = 3
    QuietUntilPatched = TRUE
    Endings = {1}
    MaxReplicas = 1
SPECIFICATION Spec
INVARIANTS
    TypeOK
    RecordAlwaysDecodes
    OnlyTheIncidentWorkflowResumes
    AttemptsWereApproved
    CompletedOnItsRollout
    CompletedOnFreshMetric
    NothingLostWithoutOverlap
PROPERTIES
    PromiseKept
CHECK_DEADLOCK FALSE
