SPECIFICATION Spec
CONSTANTS
    Events <- mcEvents
    Legacy <- mcLegacy
    Kinds = {"scan_input"}
    Decisions = {"allow", "block"}
    Policies <- mcPolicies
    DefaultPolicy <- mcDefault
    FallbackDays = 1
    PruneEvery = 2
    BufferSize = 2
    TicksPerDay = 2
    Start = 2
    MaxTime = 6
    MaxCrashes = 1
    NoDay = NoDay
    NoHash = NoHash
    NoDays = NoDays
INVARIANTS
    TypeOK
    ChainSound
    ExportsAreFresh
    RecentCoversFile
PROPERTIES
    EventsLeaveByAge
CHECK_DEADLOCK FALSE
