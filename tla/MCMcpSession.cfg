SPECIFICATION FairSpec
CONSTANTS
    Calls = {c1, c2, c3}
    NoCall = NoCall
    NoSession = NoSession
    MaxServerRestarts = 1
    MaxGatewayRestarts = 1
INVARIANTS
    CallsAreInReadySessions
PROPERTIES
    ImplementsBackendCall
CHECK_DEADLOCK FALSE
