CONSTANTS
  c1 = c1
  c2 = c2
  s1 = s1
  s2 = s2
  Client = {c1, c2}
  Server = {s1, s2}
  Bodies <- OneOrBothPay
  NoAuth = NoAuth
  MaxFailures = 1
  MaxRestarts = 1
SPECIFICATION FairSpec
INVARIANTS
  PaidBeforeConfirmed
  OneCanAnswer
  RechargedByFailureOnly
  WaitingHasReason
PROPERTIES
  CallsReturnUnlessLost
  ImplementsCalls
CHECK_DEADLOCK FALSE
