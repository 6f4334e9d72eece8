CONSTANTS
    w1 = w1  w2 = w2  a1 = a1  a2 = a2
    Operator = Operator  NoOwner = NoOwner  NoAgent = NoAgent  NoTask = NoTask
    Workflows = {w1}
    Nodes = {1, 2, 3}
    Agents = {a1, a2}
    Owners = {a1, a2, Operator}
    WorkflowOf <- AllInW1
    Deps <- GateDeps
    Approvals = {3}
    MaxAttempts <- SharedMaxAttempts
    ContinueOnFailure = {}
    Fallback <- GateFallback
    ManualNodes = {}
    Eligible <- AllEligible
    LockedNodes = {}
SPECIFICATION Spec
INVARIANT
    ApprovalBeforeDependents
CHECK_DEADLOCK FALSE
