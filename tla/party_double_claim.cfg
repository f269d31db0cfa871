SPECIFICATION Spec
CONSTANTS
  Player = {1, 2, 3}
  Founded <- Rosters
  Party = {11, 12}
  Claim = {c1, c2}
  Session = {w1, w2}
  Operation <- Everything
  None = None
  MaxCalls = 3
  SoloMixes = TRUE
SYMMETRY Symmetry
INVARIANTS OneLiveClaim
CHECK_DEADLOCK FALSE
