CONSTANTS
  c1 = c1
  c2 = c2
  w1 = w1
  w2 = w2
  Call = {c1, c2}
  Worker = {w1}
  Reads <- OnlyCard
  None = None
  Posts <- CardFirst
  MaxFailures = 0
  MaxCuts = 0
  MaxRestarts = 0
SPECIFICATION Spec
INVARIANTS
  OkClosesConnection
CHECK_DEADLOCK FALSE
