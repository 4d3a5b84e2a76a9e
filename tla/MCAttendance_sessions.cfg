CONSTANTS
  alice = alice
  bob = bob
  s1 = s1
  s2 = s2
  l1 = l1
  l2 = l2
  f1 = f1
  v1 = v1
  k1 = k1
  k2 = k2
  r1 = r1
  r2 = r2
  r3 = r3
  None = None
  Students = {alice, bob}
  Sessions = {s1, s2}
  LocTokens = {l1, l2}
  FaceTokens = {f1}
  VenueTokens = {v1}
  Keys = {k1, k2}
  Requests = {r1, r2}
  Payloads <- CrossPayloads
  HoursChoices <- LaterHours
  InitialHours <- AllRegular
  InitialStatus <- AllScheduled
  TokenStudent <- AllAlice
  TokenSession <- CrossSession
  SessionDay <- Day
  AutoSessions = {s1, s2}
  LateThreshold <- NoThreshold
  TokenTTL = 2
  TicksPerMinute = 2
  MaxTime = 2
SPECIFICATION Spec
SYMMETRY AnyRequest
INVARIANTS
  ProvenByOwnTokens
  Inductive
PROPERTIES
  CommittedInWindow
CHECK_DEADLOCK FALSE
