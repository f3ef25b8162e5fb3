CONSTANTS
  c1 = c1
  c2 = c2
  d3 = d3
  d1 = d1
  d2 = d2
  Call = {c1, c2}
  Domain = {d1, d2, d3}
  Weight <- Weights
  MaxRetries = 2
  Nobody = Nobody
  Order = Order
SPECIFICATION FairSpec
INVARIANTS
  WaitingHasReason
  RepliesComeHome
PROPERTIES
  ReviewedUnlessLost
  ImplementsPriceCall
