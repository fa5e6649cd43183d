SPECIFICATION NetworkSpec
CONSTANTS
  b1 = b1
  b2 = b2
  Bands = {b1, b2}
  Powers = {14}
  Durations = {2}
  Rejection = 6
  NodeIds = {0, 1, 2, 3}
  Delays = {0, 1, 2, 3}
  LastId = 9
  EndTime = 4
  MaxNodes = 4
  MaxInterferers = 0
  MaxFrames = 6
  MaxWakes = 99
  NumSenders = 3
  Starts = {0, 1, 2}
  Intervals = {0, 1, 3}
  Poll = 1
  Count = 2
  Duration = 2
  SenderBand <- TwoShareABand
INVARIANTS
  ReceiverGetsWhatArrives
  EveryTxHasOneFate
PROPERTIES
  SendersAreAloha
  SimulationEnds
CHECK_DEADLOCK FALSE
