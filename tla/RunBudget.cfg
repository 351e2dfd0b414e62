SPECIFICATION Spec
CONSTANTS
    Runs = {r1, r2, r3}
    Callers = {c1, c2}
    Idle = Idle
    Absent = Absent
    MaxEntries = 2
    TTL = 1
    HousekeepInterval = 2
    DefaultLimits <- MCDefaultLimits
    StartLimits <- MCStartLimits
    StepSizes <- MCStepSizes
    MaxStepCost = 2
INVARIANT StoreBounded
INVARIANT StepLimitRespected
INVARIANT OvershootBounded
PROPERTY PolledRunKeepsSpend
SYMMETRY MCSymmetry
