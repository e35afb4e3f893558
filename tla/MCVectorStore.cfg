SPECIFICATION FairSpec
CONSTANTS
    Processes = {p1, p2}
    Tools = {}
    Hybrid = FALSE
    Docs = {"faq"}
    Samples = {"faq"}
    Acls = {hr, staff}
    SampleAcl = staff
    SampleSize = 1
    MaxChunks = 2
    PageSize = 1
    Order <- mcOrder
    MaxGen = 1
    MaxFaults = 0
    MaxCrashes = 0
    NoPoint = NoPoint
    NoRow = NoRow
    NoJob = NoJob
    NoOffset = NoOffset
    Unknown = Unknown
    Absent = Absent
INVARIANTS
    ReachIsGranted
PROPERTIES
    WritesEnd
CHECK_DEADLOCK FALSE
