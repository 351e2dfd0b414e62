SPECIFICATION ChainSpec
CONSTANTS
    Requests = {r1, r2, r3}
    m1 = m1
    m2 = m2
    m3 = m3
    Models <- MCModels
    NoModel = NoModel
    Decisions <- MCDecisions
    Options <- MCRunOptions
    Cost <- MCCost
    PlanLimit = 5
    DailyCap = 1
    MaxSteps = 2
    MaxRetries = 1
    MaxEscalations = 1
PROPERTY ImplementsStepSlots
\* the requests may all have ended
CHECK_DEADLOCK FALSE
