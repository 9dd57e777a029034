SPECIFICATION Spec
CONSTANTS
  None = None
  Requests = {r1, r2, r3}
  Accounts = {a1, a2}
  Emails = {e1, e2}
  SessionIds = {s1, s2, s3}
SYMMETRY Symmetry
CHECK_DEADLOCK FALSE
INVARIANTS TypeOK OneAccountPerEmail
PROPERTIES ImplementsRotation EmptyMailMeansUsed
