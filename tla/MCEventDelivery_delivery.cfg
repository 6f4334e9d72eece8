SPECIFICATION FairSpec
CONSTANTS
  Sessions = {s1}
  Clients = {c1, c2}
  MaxVersion = 3
  Deployments <- Both
  Instances = {i1, i2}
  BatchLimit = 2
  ReadLimit = 2
  MaxDeliveries = 2
  MaxRows = 6
  MaxFaults <- OneOrTwoFaults
INVARIANTS
    ConversationsAreTrue
    JournalIsComplete
    HandOversAreExcused
PROPERTIES
    EventsReachReaders
CHECK_DEADLOCK FALSE
