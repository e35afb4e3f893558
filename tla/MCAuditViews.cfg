SPECIFICATION ViewsSpec
CONSTANTS
    Causes = {"query_blocked"}
    Completed = "query_completed"
    Other = "ingest_completed"
    AnyKind = "any"
    Ttl <- mcTtl
    Tenants = {t1, t2}
    Bucket = 2
    PageSize = 2
    ScanCap = 3
    MaxQueries = 3
    MaxTime = 2
SYMMETRY TenantSymmetry
INVARIANTS
    PagesMissNothing
    ChartsAddUp
CHECK_DEADLOCK FALSE
