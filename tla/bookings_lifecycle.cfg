SPECIFICATION FairSpec
CONSTANTS
  None = None
  b1 = b1
  b2 = b2
  r1 = r1
  r2 = r2
  k1 = k1
  BookingIds = {b1}
  Requests = {r1, r2}
  Starts = {1}
  Durations = {2}
  Buffer = 1
  Travel = 1
  Keys = {}
  Offers <- LifecycleOffers
  Ops = {"create", "reschedule", "confirm", "start", "complete", "cancel", "expire"}
  SnapshotAtBegin = TRUE
  MaxCount = 2
VIEW LifecycleView
INVARIANTS DepositGate CompletionRecorded
PROPERTIES FollowsLifecycle RequestsEnd
CHECK_DEADLOCK FALSE
