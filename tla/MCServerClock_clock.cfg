SPECIFICATION FairSpec
CONSTANTS
  Requests = {r1, r2}
  Timeout = 2
  Skews <- MCSkews
  Start = 1
  CheckInCloses = 3
  CheckoutOpens = 4
  CheckoutCloses = 4
  MaxNow = 8
INVARIANTS
  ClockBounds
PROPERTIES
  ScanInWindow
  ClockRecovers
CHECK_DEADLOCK FALSE
