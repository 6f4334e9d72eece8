CONSTANTS
    w1 = w1  w2 = w2  a1 = a1  a2 = a2
    Operator = Operator  NoOwner = NoOwner  NoAgent = NoAgent  NoTask = NoTask
    Workflows = {w1}
    Nodes = {1, 2, 3}
    Agents = {a1, a2}
    Owners = {a1, a2, Operator}
    WorkflowOf <- AllInW1
    Deps <- SharedDeps
    Approvals = {2}
    MaxAttempts <- SharedMaxAttempts
    ContinueOnFailure = {1}
    Fallback <- NoFallback
    ManualNodes = {}
    Eligible <- AllEligible
    LockedNodes = {3}
SPECIFICATION Spec
INVARIANT
    StaleClaimsRecoverable
CHECK_DEADLOCK FALSE
