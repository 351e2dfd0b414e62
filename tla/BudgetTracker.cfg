SPECIFICATION Spec
CONSTANTS
    Users = {u1, u2}
    Callers = {c1, c2}
    None = None
    Plans <- MCPlans
    NoPlan = NoPlan
    FreePlan = "free"
    PlanLimits <- MCPlanLimits
    MaxUsers = 1
    LedgerMax = 2
    MaxAge = 1
    Amounts = {1, 2}
    DaysPerMonth = 2
    LastDay = 2
INVARIANT LedgerExact
PROPERTY GrantsFitThePlan
SYMMETRY MCSymmetry
