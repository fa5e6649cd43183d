SPECIFICATION Spec
CONSTANTS
  Intervals = {4}
  Polls = {1}
  Counts = {20}
INVARIANT
  StopsOnlyWhenExhausted
CHECK_DEADLOCK FALSE
