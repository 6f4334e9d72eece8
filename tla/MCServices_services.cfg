SPECIFICATION ModelSpec
CONSTANTS
    o1 = o1  o2 = o2
    Holders = {o1, o2}
    Places <- TwoPlaces
    LongestTtl = 2
    EndOfTime = 3
    TokenBound = 2
    MaxDelay = 1
    Tasks = {"task"}
    ClaimBound = 2
    r1 = r1  r2 = r2  r3 = r3
    SessionRequests = {r1, r2, r3}
    Keys = {"k1", "k2"}
    KeyOf <- SharedKey
    DefaultLimit = 1
    QuotaLimits = {0, 2}
    MaxChanges = 1
    MaxSends = 2
    MaxCrashes = 1
    s1 = s1  s2 = s2  u1 = u1  c1 = c1  c2 = c2
    Subscribers = {s1, s2}
    ProviderSubs = {"bought"}
    BoughtBy <- BothBuyOne
    UsageKeys = {u1}
    Calls = {c1, c2}
    UsageOf <- OneQuantity
    MaxStatuses = 2
    MaxFaults = 1
    MaxTries = 1
    g1 = g1  g2 = g2
    Invocations = {c1, c2, r1}
    ApprovalGrants = {g1, g2}
    ToolOf <- InvokedTools
    GrantFor <- GrantedTools
    OfferedGrant <- OfferedGrants
    PermissionOrder <- ThreePermissions
    Needs <- ToolPermissions
    HighRisk = {"deploy"}
    AgentAllows = {"read", "write"}
    PolicyAllowed = {"read"}
    PolicyApproval = {"write"}
    PolicyDenied = {}
    CallLimit = 1
    MaxInvokes = 2
    Memories = {"m1", "m2", "m3"}
    Stores = {"sqlite", "postgres"}
    Readers = {"reader"}
    Window = 2
    MaxSearches = 1
    ContextIds = {1, 2, 3}
    Priorities = {0, 1}
    Relevances = {0, 1}
    Kinds = {0}
    Sizes = {1, 2}
    Limits = {0, 3}
    Reserves = {0, 1}
    MaxCandidates = 3
    Paths = {1, 2}
    Contents = {"uses1", "uses2", "bad"}
    Imports <- ImportsOfContents
    Unparsed = {"bad"}
    Oversized = {}
    MaxEdits = 3
    MaxReloads = 1
    ReleasePolicy <- OnePolicy
    ReleaseEvidences <- Evidences
    ManifestFiles <- TwoFiles
    Manifests <- SomeManifests
    Certifications <- SomeCertifications
    SourcePaths = {"lib"}
    BuildCommit = "this"
    RuntimeProviders <- TwoProviders
    MaxDeployEdits = 1
    Owners = {o1, o2}
    Resources <- LeasedResources
    MaxTtl = 2
    Horizon = 2
    MaxToken = 3
    Ptys = {"p1", "p2"}
    Callers = {}
    Characters <- WideCharacters
    WaitOutcomes = {"exited"}
    MaxBytes = 2
    ReadSize = 2
    MaxWritten = 2
    Uis = {"ui"}
    FirstVersion = 1
    MaxVersion = 2
    MaxInputs = 1
    AgentIds = {"a1", "a2"}
    TaskIds = {"t1"}
    ApiCallers = {c1, c2}
    HomeOf <- OneHome
    PathOf <- OneHome
    InPostgres = {"a2"}
    Timeout = 0
    MaxEvents = 5
    MaxNow = 1
INVARIANTS
    TasksHaveOneHolder
    QuotaIsAccounted
    BooksFollowProvider
    CallsAreAuthorized
    ActivityIsAgreed
    ContextIsTrue
    ReleasesAreCertified
    LeasesAreExclusive
    ExecutionsAreShown
    AgentRowsAgree
PROPERTIES
    PostgresKeepsContract
    ReportedIsFinal
    LiveLeasesAreHonoured
    LifecycleIsKept
SYMMETRY HolderSymmetry
CHECK_DEADLOCK FALSE
