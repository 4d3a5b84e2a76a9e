CONSTANTS
  q1 = q1
  q2 = q2
  q3 = q3
  None = None
  Earlier = Earlier
  MaxDay = 1
  Requests = {q1, q2, q3}
  HoursChoices <- Edits
  DefaultHours <- Morning
SPECIFICATION Spec
SYMMETRY Anyone
INVARIANTS
  StoredWindowsAreValid
CHECK_DEADLOCK FALSE
