SPECIFICATION Spec
CONSTANTS
  Size = 3
  Cap = 2
  Replayed = 2
  Viewers = {v1, v2}
  MaxLines = 5
INVARIANT RingSound
PROPERTIES ImplementsTail NoSilentGap
CHECK_DEADLOCK FALSE
