CONSTANTS
  o1 = o1
  o2 = o2
  f1 = f1
  f2 = f2
  Order = {o1, o2}
  Form = {f1, f2}
  NoForm = NoForm
  Hosted <- AllEndpoints
  Durable = {}
  MaxRetries = 1
SPECIFICATION FairSpec
INVARIANTS
  SagaAwaitsWork
  NoOrderVanishes
PROPERTIES
  ImplementsWorkflow
  OrderSettles
