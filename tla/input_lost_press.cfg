SPECIFICATION Spec
CONSTANTS
  dash = dash
  Edges = {dash}
  ReplaySafe = {}
  Redundancy = 2
  PendingCap = 4
  MaxBurst = 3
  QueueLimit = 2
  JitterTarget = 1
  HoldTicks = 1
  Window = 2
  SnapEvery = 2
  MaxSeq = 4
  MaxUp = 1
  MaxDown = 1
  MaxCloses = 1
  MaxDowns = 1
PROPERTIES PressIsSent
