CONSTANTS
    w1 = w1  a1 = a1  a2 = a2  p1 = p1  p2 = p2
    Operator = Operator  NoOwner = NoOwner  NoAgent = NoAgent  NoTask = NoTask
    Workflows = {w1}
    Nodes = {1, 2}
    Agents = {a1, a2}
    Owners = {a1, a2, Operator}
    WorkflowOf <- OneWorkflow
    Deps <- NoDeps
    Approvals = {}
    MaxAttempts <- RetriedOnce
    ContinueOnFailure = {}
    Fallback <- NoFallback
    ManualNodes = {}
    Eligible <- SecondForA1
    LockedNodes = {}
    Pollers = {p1, p2}
    MaxUpsets = 1
SPECIFICATION PollSpec
PROPERTIES
    PollingImplementsScheduler
    ReadyWorkIsOffered
    StaleClaimsAreReleased
CHECK_DEADLOCK FALSE
