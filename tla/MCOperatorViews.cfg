SPECIFICATION SpecViews
CONSTANTS
    Tenants = {"default", "acme"}
    Users = {"ann", "ops"}
    Groups = {"leads", "staff", "all-staff"}
    Tokens <- mcTokens
    AclTexts <- mcAcls
    Retrievals <- mcRetrievals
    RuleSets <- mcRules
    Files <- mcFiles
    Corpora = {2, 4}
    MaxLen = 2
    MaxTime = 2
    MaxQueries = 3
    MaxChanges = 1
    Directory <- mcDirectory
    ApiKey = "root"
    DefaultTenant = "default"
    NoFile = NoFile
    NoToken = NoToken
    NoTenant = NoTenant
    Everywhere = Everywhere
    Nobody = Nobody
INVARIANTS
    TypeOK
    JudgedByRecent
    WatchListIsRecent
    TenantChecksAgree
    GroupsAreInherited
CHECK_DEADLOCK FALSE
