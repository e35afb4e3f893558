SPECIFICATION Spec
CONSTANTS
    mail = mail
    files = files
    staff = staff
    drop = drop
    override = override
    Ids = {i1, i2}
    Calls <- mcCalls
    Tools = {mail, files}
    Groups = {staff}
    Backends = {"mock_email", "mcp_filesystem"}
    Remote = {"mcp_filesystem"}
    Marks = {drop}
    Tells = {override}
    ToolPolicies <- mcToolPolicies
    Rags <- mcRags
    MaxApprovals = 2
    MaxCrashes = 0
    NoTool = NoTool
    NoCall = NoCall
    NoRag = NoRag
    Idle = Idle
SYMMETRY mcSymmetry
INVARIANT
    BackendRunsOnce
CHECK_DEADLOCK FALSE
