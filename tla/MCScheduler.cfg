SPECIFICATION Spec
CONSTANTS
  Bands = {b1, b2}
  Powers = {0, 2}
  Durations = {1, 2}
  Rejection = 2
  NodeIds = {1, 3}
  Delays = {0, 1}
  LastId = 3
  EndTime = 2
  MaxNodes = 2
  MaxInterferers = 1
  MaxFrames = 3
  MaxWakes = 3
INVARIANTS
  TypeOK
  AgendaIsAhead
  CompletionIsQueued
  NothingLeftBehind
  SettledInOrder
  VerdictAccounting
  TxAccounting
PROPERTY
  UsesChannel
  ImplementsBroadcast
SYMMETRY Symmetry
