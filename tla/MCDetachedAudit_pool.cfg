CONSTANTS
  q1 = q1
  q2 = q2
  q3 = q3
  alice = alice
  c1 = c1
  c2 = c2
  c3 = c3
  None = None
  Requests = {q1, q2, q3}
  Users = {alice}
  Kinds = {"rejected", "refused", "accepted", "verify_failed", "verified", "daily", "profile", "email"}
  Connections = {c1, c2}
SPECIFICATION FairSpec
INVARIANTS
  ConnectionsAccounted
  RejectionsAreRecorded
  CommittedIsNotReportedFailed
PROPERTY EveryRequestAnswered
CHECK_DEADLOCK FALSE
