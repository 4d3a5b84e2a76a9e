SPECIFICATION FairSpec
CONSTANTS
  Convs = {c1, c2}
  Mine = {m1}
  Theirs = {t1}
  Loads = {l1, l2}
  Limit = 1
  MaxBegins = 2
INVARIANTS StoredOnce DuplicatesOverlap
PROPERTIES OpenIsShown ChatSettles
CHECK_DEADLOCK FALSE
