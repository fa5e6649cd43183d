SPECIFICATION Spec
CONSTANTS
  Bands = {b1}
  Powers = {0}
  Durations = {1, 2}
  Rejection = 2
  NodeIds = {1, 2}
  Delays <- OneBackToOneAhead
  LastId = 3
  EndTime = 2
  MaxNodes = 2
  MaxInterferers = 1
  MaxFrames = 3
  MaxWakes = 3
INVARIANTS
  DeliveredAtItsEnd
  RxAccounting
