SPECIFICATION DoorSpec
CONSTANTS
    agent = agent
    passerby = passerby
    stranger = stranger
    Agent = agent
    Keys <- MCKeys
    NoId = NoId
    Nothing = Nothing
    Target = 8
    PreserveRecent = 1
    Long = 1
    Truncated = 3
    Families = {"openai", "anthropic", "google"}
    Lengths <- MCLengths
    MaxCalls = 2
    Cost = 2
    Burst = 1
    MaxKeys = 2
    MaxTalk = 4
    MaxTime = 4
INVARIANTS
    BurstBounded
    ToolTurnsPaired
    CompressedFits
PROPERTIES
    PromiseKept
CHECK_DEADLOCK FALSE
