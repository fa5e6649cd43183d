SPECIFICATION Spec
CONSTANTS
  Bands = {b1, b2}
  Powers = {0, 1, 3}
  Durations = {0, 2}
  Rejection = 2
  Senders = {s1}
  MaxFrames = 3
  MaxTime = 3
INVARIANTS
  TypeOK
  CollidedIffDestroyed
  CapturedIffSurvived
PROPERTY
  ImplementsMedium
SYMMETRY Symmetry
