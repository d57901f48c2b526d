\* One lagging caller is enough.
CONSTANTS
    f1 = f1
    f2 = f2
    a1 = a1
    a2 = a2
    k1 = k1
    k2 = k2
    k3 = k3
    k4 = k4
    t1 = t1
    t2 = t2
    Fingerprints = {f1}
    AlertIds = {a1}
    Keys = {k1, k2}
    Targets = {t1}
    MaxTime = 1
    MaxRetries = 0
    MaxRecentDeliveryIds = 1
    MaxCount = 1
    MaxEvidenceAge = 1
    MaxFutureSkew = 1
    MaxLag = 1
SPECIFICATION Spec
SYMMETRY Symmetry
PROPERTIES
    UpdatedAtNeverRegresses
