SPECIFICATION FairSpec
CONSTANTS
  Pages = {p1, p2}
  Dialogs = {e1}
  MinFrames = 1
  MaxFrames = 2
  Poses = 1
  Overlap = 2
  None = None
INVARIANTS
  DevicesFollowScan
  UploadsAreSound
  RecordNotAhead
PROPERTIES
  RecordNeverRegresses
  ImplementsContract
  EveryScanEnds
CHECK_DEADLOCK FALSE
