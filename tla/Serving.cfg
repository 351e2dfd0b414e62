CONSTANTS
    r1 = r1
    r2 = r2
    r3 = r3
    r4 = r4
    t1 = t1
    t2 = t2
    nat = nat
    buf = buf
    none = none
    a = a
    nobody = nobody
    norun = norun
    badrun = badrun
    absent = absent
    Requests = {r1, r2, r3, r4}
    Callers <- MCCallers
    NoTenant = nobody
    NoRun = norun
    BadRun = badrun
    RunRequired = FALSE
    Models = {nat, buf}
    NoModel = none
    Native = {nat}
    Cost <- MCCost
    Price <- MCPrice
    Grain = 2
    Reports <- MCReports
    Absent = absent
    Decisions <- MCDecisions
    Kinds <- MCKinds
    MaxSteps = 2
    PlanLimit = 3
    TenantCap = 2
    MaxCustomers = 1
    MaxLapses = 1
SYMMETRY Alike
SPECIFICATION Spec
CHECK_DEADLOCK FALSE
INVARIANT SlotsReturned
INVARIANT StepsBounded
INVARIANT LedgersAgree
INVARIANT BilledOnce
