SPECIFICATION Spec
CONSTANTS
  None = None
  b1 = b1
  b2 = b2
  Bookings = {b1, b2}
  TotalOf <- Totals
  FeePercent = 10
  Completers = {c1, c2}
  Withdrawers = {w1, w2}
  Payouts = {p1, p2}
  Asks = {4, 22}
VIEW View
SYMMETRY Symmetry
INVARIANTS FeesComeFromEarnings PayoutsAreDebited HeldEarningsStay
PROPERTY ImplementsIncome
