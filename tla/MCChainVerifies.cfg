SPECIFICATION Spec
CONSTANTS
    Events <- mcEvents
    Legacy <- mcNone
    Kinds = {"scan_input"}
    Decisions = {"allow", "block"}
    Policies <- mcChained
    DefaultPolicy <- mcDefault
    FallbackDays = 1
    PruneEvery = 2
    BufferSize = 2
    TicksPerDay = 2
    Start = 2
    MaxTime = 6
    MaxCrashes = 0
    NoDay = NoDay
    NoHash = NoHash
    NoDays = NoDays
INVARIANT
    ChainVerifies
CHECK_DEADLOCK FALSE
