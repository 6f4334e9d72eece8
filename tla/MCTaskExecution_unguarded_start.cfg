CONSTANTS
    w1 = w1  a1 = a1  a2 = a2  x1 = x1  x2 = x2
    Operator = Operator  NoOwner = NoOwner  NoAgent = NoAgent  NoTask = NoTask
    Workflows = {w1}
    Nodes = {1}
    Agents = {a1, a2}
    Owners = {a1, a2, Operator}
    WorkflowOf <- AllInW1
    Deps <- NoneOf
    Approvals = {}
    MaxAttempts <- TwoAttempts
    ContinueOnFailure = {}
    Fallback <- NoneOf
    ManualNodes = {}
    Eligible <- AllAgents
    LockedNodes = {1}
    Workers = {x1}
    SpecNodes = {1}
    RiskyNodes = {}
    Permitted <- AllAgents
SPECIFICATION ExecutionSpec
PROPERTY
    ActionsStartGuarded
CHECK_DEADLOCK FALSE
