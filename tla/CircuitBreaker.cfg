SPECIFICATION BreakerSpec
CONSTANTS
    Providers = {p1, p2}
    Nobody = Nobody
    Requests = {c1, c2, c3}
    FailureThreshold = 2
    RecoveryTimeout = 2
INVARIANT TrippedIffStreak
INVARIANT OneProbePerCycle
PROPERTY ProbesAreSpaced
PROPERTY TrippedIsRetried
