SPECIFICATION Spec
CONSTANTS
  None = None
  b1 = b1
  b2 = b2
  r1 = r1
  r2 = r2
  k1 = k1
  BookingIds = {b1, b2}
  Requests = {r1, r2}
  Starts = {1, 3}
  Durations = {1, 3}
  Buffer = 1
  Travel = 2
  Keys = {k1}
  Offers <- CalendarOffers
  Ops = {"create", "reschedule", "cancel"}
  SnapshotAtBegin = TRUE
  MaxCount = 0
SYMMETRY Symmetry
VIEW CalendarView
PROPERTY ImplementsCalendar
INVARIANTS CreatesDisjoint KeysKeepStartsApart KeyNamesOneBooking
CHECK_DEADLOCK FALSE
