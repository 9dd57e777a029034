SPECIFICATION Spec
CONSTANTS
  NoOne = NoOne
  customer = customer
  pro = pro
  phone = phone
  tablet = tablet
  m1 = m1
  m2 = m2
  Connections = {phone, tablet}
  UserOf <- Owner
  Messages = {m1, m2}
  SenderOf <- Sender
  RecipientOf <- Recipient
  Callers = {}
  SendBufferSize = 1
CHECK_DEADLOCK FALSE
INVARIANT BroadcasterNeverBlocked
