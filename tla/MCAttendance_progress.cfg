CONSTANTS
  alice = alice
  bob = bob
  s1 = s1
  s2 = s2
  l1 = l1
  l2 = l2
  f1 = f1
  v1 = v1
  k1 = k1
  k2 = k2
  r1 = r1
  r2 = r2
  r3 = r3
  None = None
  Students = {alice}
  Sessions = {s1}
  LocTokens = {l1}
  FaceTokens = {f1}
  VenueTokens = {}
  Keys = {k1, k2}
  Requests = {r1, r2, r3}
  Payloads <- ProgressPayloads
  HoursChoices = {}
  InitialHours <- AllOverlapping
  InitialStatus <- AllActive
  TokenStudent <- AllAlice
  TokenSession <- AllS1
  SessionDay <- Day
  AutoSessions = {}
  LateThreshold <- NoThreshold
  TokenTTL = 2
  TicksPerMinute = 1
  MaxTime = 1
SPECIFICATION FairSpec
PROPERTIES
  EveryRequestAnswered
CHECK_DEADLOCK FALSE
