SPECIFICATION Spec
CONSTANTS
    hr = hr
    staff = staff
    alice = alice
    bob = bob
    payroll = payroll
    secret = secret
    Queries = {q1}
    Users = {alice, bob}
    Groups <- mcGroups
    GroupLists <- mcGroupLists
    Public = {staff}
    Docs = {d1, d2}
    CanaryIds = {c1}
    Contents <- mcContents
    HalvesUp <- mcHalvesUp
    Texts <- mcTexts
    Profiles <- mcProfiles
    Replies <- mcReplies
    Policies <- mcPolicies
    Acls <- mcAcls
    Classes = {payroll, secret}
    NoClass = NoClass
    Endpoints = {"default", "onprem", "saas"}
    Default = "default"
    TopK = 2
    MaxGen = 2
    NoDoc = NoDoc
    NoPolicy = NoPolicy
    NoReply = NoReply
SYMMETRY mcSymmetry
INVARIANTS
    TypeOK
    OneVersion
    ContextGated
    NoRetiredEvidence
    AnswerGated
    RoutedByMostSensitive
    AuditMatchesOutcome
    RemovalsAccounted
    FindingsOnlyHarden
    BlocksHaveCause
CHECK_DEADLOCK FALSE
