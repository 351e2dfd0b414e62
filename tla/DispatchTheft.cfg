SPECIFICATION Spec
CONSTANTS
    Requests = {r1, r2, r3}
    m1 = m1
    m2 = m2
    m3 = m3
    Models <- MCModels
    NoModel = NoModel
    Decisions <- MCDecisions
    Options <- MCOptions
    Cost <- MCCost
    PlanLimit = 6
    DailyCap = 1
    MaxSteps = 1
    MaxRetries = 1
    MaxEscalations = 1
INVARIANT StepsWithinLimit
SYMMETRY MCSymmetry
\* the requests may all have ended
CHECK_DEADLOCK FALSE
