SPECIFICATION FairSpec
CONSTANTS
  NoPeer = NoPeer
  NoBatch = NoBatch
  NoEntry = NoEntry
  Player = {a}
  Peer = {p, q}
  ClaimCount = 1
  RemovalAttempts = 2
PROPERTIES
  SlotIsUsedOrFreed
CHECK_DEADLOCK FALSE
