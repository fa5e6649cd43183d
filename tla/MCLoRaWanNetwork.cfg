SPECIFICATION NetworkSpec
CONSTANTS
  b1 = b1
  b2 = b2
  Bands = {b1, b2}
  Powers = {14}
  Durations = {2, 3, 4}
  Rejection = 6
  NodeIds = {1, 100}
  Delays = {0, 1, 2, 3, 4, 5, 6}
  LastId = 255
  EndTime = 40
  MaxNodes = 2
  MaxInterferers = 2
  MaxFrames = 99
  MaxWakes = 999
  NoBand = NoBand
  Size = 5
  Chunk = 2
  Interval = 0
  MicrosPerMilli = 4
  TimeoutOf <- ClassA
  Device = 1
  Server = 100
  Channels <- TwoChannels
  Period = 5
  InterfererDuration = 2
  FirstPoll = 3
  UplinkDurations = {3, 4}
INVARIANT
  OneUplinkAtATime
PROPERTIES
  DeviceIsLoRaWan
  TransferCompletes
CHECK_DEADLOCK FALSE
