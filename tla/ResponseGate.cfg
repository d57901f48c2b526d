\* Every mode, every way the host answers, two runs for one fallback entry.
CONSTANTS
    r1 = r1
    r2 = r2
    query = query
    inspect = inspect
    propose = propose
    other = other
    Runs = {r1, r2}
    GuardianTools = {query, inspect, propose}
    OtherTools = {other}
    RequiredTools = {query, inspect}
    ProposalTool = propose
    MaxAttempts = 1
    MaxFallback = 1
    MayBeAnonymous = {r2}
    MaxCalls <- MCMaxCalls
SPECIFICATION Spec
INVARIANTS
    TypeOK
    LedgersAreTruthful
    ProposalsAreBacked
    EvidenceIsKept
    UnsupportedAnswersAreChallenged
PROPERTY RunsConclude
CHECK_DEADLOCK FALSE
