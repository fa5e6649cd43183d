SPECIFICATION Spec
CONSTANTS
  Bands = {b1}
  Powers = {0, 2}
  Durations = {1, 2}
  Rejection = 2
  NodeIds = {1}
  Delays = {0, 1}
  LastId = 3
  EndTime = 3
  MaxNodes = 2
  MaxInterferers = 0
  MaxFrames = 3
  MaxWakes = 4
INVARIANT
  CapturesWithinCollisions
