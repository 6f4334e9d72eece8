SPECIFICATION ModelSpec
CONSTANTS
    w1 = w1  w2 = w2  c1 = c1  c2 = c2
    Operator = Operator  NoOwner = NoOwner  NoAgent = NoAgent  NoTask = NoTask
    Workflows = {w1, w2}
    Nodes = {1, 2, 3, 4, 5}
    Owners = {Operator}
    WorkflowOf <- DiamondWorkflowOf
    Deps <- DiamondDeps
    Approvals = {2}
    MaxAttempts <- DiamondAttempts
    ContinueOnFailure = {}
    Fallback <- DiamondFallback
    Clients = {c1, c2}
    NumNodes = 3
    MaxRepeats = 2
    p1 = p1  p2 = p2  r1 = r1  agent1 = agent1
    Ptys = {p1, p2}
    Callers = {p1, p2}
    Requests = {r1}
    Agents = {agent1}
    Characters <- WideCharacters
    WaitOutcomes = {"exited"}
    MaxBytes = 2
    ReadSize = 2
    MaxWritten = 2
    MaxRequests = 2
    MaxRestarts = 1
INVARIANTS
    RowsEventsAndCopiesAgree
    CycleCheckIsExact
    
PROPERTIES
    CommandsAreAtomic
    EndIsFinal
    CaptureEnds
CHECK_DEADLOCK FALSE
