SPECIFICATION FairSpec
CONSTANTS
  None = None
  b1 = b1
  alice = alice
  bob = bob
  Ticks = {t1, t2}
  Workers = {w1, w2}
  Devices = {d1}
  Bookings = {b1}
  CustomerOf <- Customers
  ProfessionalOf <- Professionals
  Followers = {alice}
  Reminders = {"review"}
  Nudges = {"digest"}
CHECK_DEADLOCK FALSE
INVARIANTS SentOnce OneExchangeForAll
PROPERTIES WaitersWake
