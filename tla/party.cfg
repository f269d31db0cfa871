SPECIFICATION Spec
CONSTANTS
  Player = {1, 2, 3}
  Founded <- Rosters
  Party = {11, 12}
  Claim = {c1, c2}
  Session = {w1, w2}
  Operation <- Everything
  None = None
  MaxCalls = 3
  SoloMixes = FALSE
SYMMETRY Symmetry
INVARIANTS RosterIsSound QueuedRosterIsFrozen OneLiveClaim
PROPERTIES OneEnd
CHECK_DEADLOCK FALSE
