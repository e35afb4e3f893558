SPECIFICATION Spec
CONSTANTS
    Processes = {p1}
    Tools = {t1}
    Hybrid = TRUE
    Docs = {"faq"}
    Samples = {"faq"}
    Acls = {hr, staff}
    SampleAcl = staff
    SampleSize = 1
    MaxChunks = 2
    PageSize = 1
    Order <- mcOrder
    MaxGen = 1
    MaxFaults = 1
    MaxCrashes = 1
    NoPoint = NoPoint
    NoRow = NoRow
    NoJob = NoJob
    NoOffset = NoOffset
    Unknown = Unknown
    Absent = Absent
INVARIANTS
    TypeOK
    PromisesKept
CHECK_DEADLOCK FALSE
