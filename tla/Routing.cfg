SPECIFICATION Spec
CONSTANTS
    NoId = NoId
    Target = 2000
    PreserveRecent = 2
    Long = 500
    Truncated = 505
    SystemSize <- MCSystemSize
    NoPrompt = NoPrompt
    MaxChain = 3
    Margin = 2000
    PrefixMin = 1024
    Catalog <- MCCatalog
    Requests <- MCRequests
    Surroundings <- MCSurroundings
    None = None
    MaxCost = 5000000
    AbuseLimit = 1
    DepthThreshold = 2
    MaxTalks = 2
    MaxWarm = 1
    Housekeeping = 2
    Minute = 2
    WarmFor = 1
    TalkFor = 1
    MaxTime = 2
    MaxDecisions = 3
INVARIANTS
    FloorsHold
    BudgetTruth
PROPERTIES
    CacheStatusHonest
    ConversationKept
    AbuseSeen
CHECK_DEADLOCK FALSE
