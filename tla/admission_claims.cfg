SPECIFICATION Spec
CONSTANTS
  NoPeer = NoPeer
  NoBatch = NoBatch
  NoEntry = NoEntry
  Player = {a}
  Peer = {p, q}
  ClaimCount = 2
  RemovalAttempts = 1
SYMMETRY Permuted
PROPERTIES
  NewcomersAreBound
CHECK_DEADLOCK FALSE
