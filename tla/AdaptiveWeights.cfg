SPECIFICATION Spec
CONSTANTS
    Threads = {t1, t2}
    key = key
    gone = gone
    c1 = c1
    c2 = c2
    Keys = {key}
    Customers = {c1, c2}
    Anyone = Anyone
    NoImage = NoImage
    Best = 10
    Scores = {2, 11}
    OldFiles <- MCOldFiles
    Base <- MCBase
    DecayFactor = 50
    Decays = {10}
    MaxOverrides = 1
    MinSamples = 1
    OwnMinSamples = 2
    QualityFloor = 2
    WriteInterval = 2
    SnapshotInterval = 2
    EnoughStats = 2
    RatePerCustomer = 1
    MaxKeys = 1
    MaxCustomers = 1
    LogMax = 1
    MaxSignals = 3
INVARIANT CustomersInSync
INVARIANT DriftContained
INVARIANT CleanIsSaved
SYMMETRY MCSymmetry
