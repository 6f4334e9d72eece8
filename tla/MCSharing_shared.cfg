CONSTANTS
    w1 = w1  w2 = w2  a1 = a1  a2 = a2
    Operator = Operator  NoOwner = NoOwner  NoAgent = NoAgent  NoTask = NoTask
    Workflows = {w1, w2}
    Nodes = {1, 2, 3, 4}
    Agents = {a1, a2}
    Owners = {a1, a2, Operator}
    WorkflowOf <- SharedWorkflowOf
    Deps <- SharedDeps
    Approvals = {2}
    MaxAttempts <- SharedMaxAttempts
    ContinueOnFailure = {1}
    Fallback <- SharedFallback
    ManualNodes = {4}
    Eligible <- AllEligible
    LockedNodes = {3}
    s1 = s1  s2 = s2  x1 = x1  x2 = x2  y1 = y1  y2 = y2
    WeftSessions = {s1, s2}
    CodexLaunches = {x1, x2}
    ClaudeLaunches = {y1, y2}
    LaunchedFor <- LaunchedForSessions
    MaxTurns = 2
SPECIFICATION ModelSpec
INVARIANTS
    TypeOK
    WorkIsAgreed
    ClaimsAreDistinct
    WorkIsOrdered
    SessionsResumeTheirOwn
PROPERTIES
    ClaimsStartGuarded
SYMMETRY AgentSymmetry
CHECK_DEADLOCK FALSE
