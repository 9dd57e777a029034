SPECIFICATION FairSpec
CONSTANTS
  NoOne = NoOne
  customer = customer
  pro = pro
  phone = phone
  tablet = tablet
  m1 = m1
  m2 = m2
  Connections = {phone, tablet}
  UserOf <- Owner
  Messages = {m1, m2}
  SenderOf <- Sender
  RecipientOf <- Recipient
  Callers = {phone}
  SendBufferSize = 1
CHECK_DEADLOCK FALSE
INVARIANTS SameOrder PreviewKeepsUp
PROPERTIES GhostsLeave BroadcastReachesAll
