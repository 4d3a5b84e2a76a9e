CONSTANTS
  q1 = q1
  q2 = q2
  q3 = q3
  alice = alice
  c1 = c1
  c2 = c2
  c3 = c3
  None = None
  Requests = {q1, q2}
  Users = {alice}
  Kinds = {"accepted", "profile", "email"}
  Connections = {c1, c2, c3}
SPECIFICATION FairSpec
PROPERTIES
  ProfileUpdateAnswered
CHECK_DEADLOCK FALSE
