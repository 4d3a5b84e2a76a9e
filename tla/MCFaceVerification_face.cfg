CONSTANTS
  s1 = s1
  s2 = s2
  u1 = u1
  u2 = u2
  e1 = e1
  e2 = e2
  c1 = c1
  None = None
  Challenges = {c1}
  Scans = {s1, s2}
  Uses = {u1, u2}
  Enrolments = {e1, e2}
  ChallengeTTL = 1
  TokenTTL = 1
  MaxTime = 2
SPECIFICATION FairSpec
INVARIANTS
  ChallengeSpentOnce
  EvidenceIsFresh
  OneActiveEnrolment
PROPERTIES
  ImplementsRegister
  EveryRequestEnds
CHECK_DEADLOCK FALSE
