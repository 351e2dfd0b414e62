SPECIFICATION UsageSpec
CONSTANTS
    r1 = r1
    r2 = r2
    r3 = r3
    t1 = t1
    t2 = t2
    m1 = m1
    m2 = m2
    i1 = i1
    i2 = i2
    Requests <- MCRequests
    Row <- MCRow
    Questions <- MCQuestions
    Everyone = Everyone
    AnyRun = AnyRun
    Unmeasured = Unmeasured
    PageMax = 2
    NoBinding = NoBinding
    SharedBinding = SharedBinding
    Always = Always
    Narrowest = 2
    Widest = 3
    Correlation <- MCCorrelation
    Readers = {x1}
    QueueMax = 1
    BatchSize = 2
    MaxLabels = 1
    Overflow = Overflow
    MaxEntries = 2
    MaxLoaded = 2
    MaxUnsaved = 1
INVARIANT IndexIsNewest
INVARIANT ReadersSeeAll
INVARIANT SeriesAreWhole
PROPERTY ReadersReturn
