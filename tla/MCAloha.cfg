SPECIFICATION Spec
CONSTANTS
  Intervals = {0, 1, 2, 4}
  Polls = {0, 1, 2, 3}
  Counts = {0, 1, 2, 3, 4}
INVARIANT
  TypeOK
PROPERTIES
  PayloadAccounting
  FallsSilent
CHECK_DEADLOCK FALSE
