SPECIFICATION Spec
CONSTANTS
  NoPeer = NoPeer
  NoBatch = NoBatch
  NoEntry = NoEntry
  Player = {a}
  Peer = {p, q}
  ClaimCount = 2
  RemovalAttempts = 1
PROPERTIES
 AdmittedAreBound
CHECK_DEADLOCK FALSE
