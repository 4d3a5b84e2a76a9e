SPECIFICATION FairSpec
CONSTANTS
  Tabs = {t1, t2}
  Strays = {s1}
  MaxRetries = 1
INVARIANTS
  QrNeverFaceId
  DoneIsTrue
  NoBlindCheckOut
PROPERTIES
  CodeSurvives
  EveryAttemptEnds
CHECK_DEADLOCK FALSE
