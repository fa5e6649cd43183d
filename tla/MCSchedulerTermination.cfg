SPECIFICATION FairSpec
CONSTANTS
  Bands = {b1}
  Powers = {0}
  Durations = {1, 2}
  Rejection = 2
  NodeIds = {1}
  Delays = {1}
  LastId = 4
  EndTime = 2
  MaxNodes = 1
  MaxInterferers = 2
  MaxFrames = 20
  MaxWakes = 40
INVARIANT
  ObserversTrackTheAir
PROPERTY
  Termination
