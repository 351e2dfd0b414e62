SPECIFICATION Spec
CONSTANTS
    Requests = {r1, r2}
    m1 = m1
    m2 = m2
    m3 = m3
    Models <- MCModels
    NoModel = NoModel
    Decisions <- MCDecisions
    Options <- MCOptions
    Cost <- MCCost
    PlanLimit = 4
    DailyCap = 1
    MaxSteps = 1
    MaxRetries = 2
    MaxEscalations = 1
INVARIANT NothingLeftBehind
INVARIANT PlanLimitKept
INVARIANT TriesBounded
INVARIANT BreakerHearsEveryCall
INVARIANT FailedMeansExhausted
PROPERTY EveryRequestEnds
\* the requests may all have ended
CHECK_DEADLOCK FALSE
