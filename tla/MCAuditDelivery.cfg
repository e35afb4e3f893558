SPECIFICATION FairSpec
CONSTANTS
    Shapes <- mcShapes
    Kinds = {"connector_sync", "scan_input"}
    Policies <- mcPolicies
    Attempts = 2
    DeadLetters = TRUE
    MaxEvents = 3
    MaxReloads = 1
    MaxCrashes = 1
    NoRule = NoRule
INVARIANTS
    EventsAccountedFor
PROPERTIES
    EventuallySettled
CHECK_DEADLOCK FALSE
