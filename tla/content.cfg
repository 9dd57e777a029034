SPECIFICATION ContentSpec
CONSTANTS
  None = None
  Requests = {r1, r2, r3, r4}
  Bookings = {b1, b2}
  Documents = {d1, d2}
  Disputes = {q1}
  post = post
  deal = deal
  service = service
  item = item
  profile = profile
  category = category
  Users = {u1, u2}
  Rows = {post, deal, service, item, profile, category}
  KindOf <- Kinds
  Parts = 2
  Day = 12
  Buffer = 1
  Durations = {1, 3}
  Step = 2
  Plans <- SomePlans
  Exceptions = {e1}
  Busy <- SomeBusy
SYMMETRY Symmetry
CHECK_DEADLOCK FALSE
INVARIANTS MissingOnlyIfConcurrent VerifiedOnlyIfConcurrent AcceptedStays ChangesKept PagesAreWhole OfferedIsAccepted
