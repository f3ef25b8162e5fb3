CONSTANTS
  p1 = p1
  p2 = p2
  c1 = c1
  c2 = c2
  Payment = {p1, p2}
  Consumer = {c1, c2}
  MaxCrashes = 1
SPECIFICATION FairSpec
INVARIANTS
  OneLossPerCrash
  EverySubscriberGetsAll
PROPERTIES
  ImplementsAtMostOnce
  ProcessedWhileRead
CHECK_DEADLOCK FALSE
