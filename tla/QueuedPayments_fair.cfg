CONSTANTS
  c1 = c1
  c2 = c2
  w1 = w1
  w2 = w2
  Call = {c1, c2}
  Worker = {w1}
  Reads <- OnlyCard
  None = None
  Posts <- CardFirst
  MaxFailures = 1
  MaxCuts = 1
  MaxRestarts = 1
SPECIFICATION FairSpec
INVARIANTS
  AcceptedIsRouted
  
  RehandledByFailureOnly
  HandledInOrder
  UnreadableBlocks
PROPERTIES
  DrainedWhileRead
  ImplementsTopicQueue
CHECK_DEADLOCK FALSE
