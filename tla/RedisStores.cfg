SPECIFICATION Spec
CONSTANTS
    a = a
    b = b
    c = c
    run1 = run1
    run2 = run2
    Requests = {a, b, c}
    RunOf <- MCRunOf
    Absent = Absent
    MaxSteps = 1
    MaxEntries = 1
    RunTTL = 1
    PlanLimit = 3
    Estimate <- MCEstimate
    Paid = {2}
    ReservationTTL = 1
    MaxCrashes = 1
    MaxTime = 2
SYMMETRY MCSymmetry
INVARIANTS
    StepLimitAcrossFleet
    ReservationsReachable
PROPERTIES
    ImplementsSpendGate
CHECK_DEADLOCK FALSE
