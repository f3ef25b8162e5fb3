CONSTANTS
  p1 = p1
  p2 = p2
  Process = {p1, p2}
  PerProcess = 2
  MaxRestarts = 1
SPECIFICATION FairSpec
INVARIANTS
  StarvesIfRobbed
PROPERTIES
  ImplementsAtMostOnce
  ReturnsUnlessRobbed
CHECK_DEADLOCK FALSE
