SPECIFICATION FairSpec
\* Once every intent is final nothing is left to do.
CHECK_DEADLOCK FALSE
CONSTANTS
  c1 = c1
  i1 = i1
  i2 = i2
  i3 = i3
  i4 = i4
  Users = {c1}
  Intents = {i1}
  CustomerOf <- OneCustomer
  AmountOf <- Costs
  GatewayOf <- Seerbit
  Handlers = {h1, h2}
  EventIds = {e1}
  None = None
PROPERTY PaidIsSettled
