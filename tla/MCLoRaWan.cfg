SPECIFICATION Spec
CONSTANTS
  Bands = {b1, b2}
  NoBand = NoBand
  Size = 9
  Chunk = 2
  Intervals = {0, 3, 5, 7}
  MicrosPerMilli = 2
  TimeoutOf <- ClassA
  MayRefuse = TRUE
  MayReask = TRUE
  MaxWakes = 3
INVARIANTS
  TypeOK
  TimeoutFiresOnTime
  AgreesWithDevice
  FragmentsAccounted
  SilentOnlyWhenDone
PROPERTIES
  UplinksApart
  FileIsSent
CHECK_DEADLOCK FALSE
