CONSTANTS
  admin = admin
  instructor = instructor
  alice = alice
  bob = bob
  s1 = s1
  id1 = id1
  id2 = id2
  None = None
  Pages = {admin, instructor}
  Admins = {admin}
  Students = {alice, bob}
  Sessions = {s1}
  RecordIds = {id1, id2}
  HourSets = {"regular"}
  DefaultHours = "regular"
SPECIFICATION Spec
INVARIANTS
  RemovalUsesPicked
CHECK_DEADLOCK FALSE
