SPECIFICATION FairSpec
CONSTANTS
  c1 = c1
  c2 = c2
  r1 = r1
  r2 = r2
  r3 = r3
  Users = {c1, c2}
  References = {r1, r2, r3}
  Amounts = {1, 2}
  Processes = {p1, p2, p3}
  Calls <- AllCalls
  None = None
INVARIANTS NeverOverdrawn BalanceIsSum OneEntryPerReference
PROPERTIES ImplementsLedger CallsEnd
