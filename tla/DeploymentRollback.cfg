\* Two incidents, with the same key or with one each; a rollout is numbered
\* before the next edit; the Deployment is recreated once.
CONSTANTS
    f1 = f1
    f2 = f2
    a1 = a1
    k1 = k1
    k2 = k2
    old = old
    new = new
    Fingerprints = {f1, f2}
    AlertIds = {a1}
    AlertId = a1
    Keys = {k1, k2}
    Targets <- FirstAndLater
    KeysOf <- EitherKey
    Templates = {old, new}
    c1 = c1
    c2 = c2
    CallIds = {c1, c2}
    MaxTime = 0
    MaxRetries = 0
    MaxRecentDeliveryIds = 1
    MaxCount = 1
    MaxEvidenceAge = 0
    MaxFutureSkew = 0
    MaxUid = 2
    MaxRevision = 4
    MaxVersion = 5
    PromptController = TRUE
SPECIFICATION Spec
SYMMETRY Symmetry
INVARIANTS
    TypeOK
    OneMutationPerKey
    SucceededWasApplied
PROPERTIES
    OnlyApprovedChanges
    RevisionNeverRegresses
