\* One occurrence, synchronous clocks: two attempts, three keys, a window of
\* two delivery identities out of the ones that can be sent.
CONSTANTS
    f1 = f1
    a1 = a1
    k1 = k1
    k2 = k2
    k3 = k3
    k4 = k4
    t1 = t1
    Fingerprints = {f1, f2}
    AlertIds = {a1}
    Keys = {k1, k2, k3}
    Targets = {t1}
    MaxTime = 2
    MaxRetries = 1
    MaxRecentDeliveryIds = 2
    MaxCount = 3
    MaxEvidenceAge = 1
    MaxFutureSkew = 0
    MaxLag = 0
    f2 = f2
    a2 = a2
    t2 = t2
SPECIFICATION Spec
SYMMETRY Symmetry
INVARIANTS
    TypeOK
    StateStaysReadable
    AttemptsAuthorized
    BudgetNotStranded
    RecoveryFollowsSuccess
    BlockedIsExplained
    DistinctDeliveriesCountOnce
PROPERTIES
    AttemptHistoryPreserved
    TerminalStagesHold
    UpdatedAtNeverRegresses
    ResolvedNeverReopens
