SPECIFICATION Spec
CONSTANTS
  Builds = {b1, b2}
  MaxLines = 3
  Cap = 1
  None = None
INVARIANT DialogSound
PROPERTIES WatchedEnds DialogIsTold
CHECK_DEADLOCK FALSE
