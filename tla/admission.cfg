SPECIFICATION Spec
CONSTANTS
  NoPeer = NoPeer
  NoBatch = NoBatch
  NoEntry = NoEntry
  Player = {a, b}
  Peer = {p, q, r}
  ClaimCount = 1
  RemovalAttempts = 1
SYMMETRY Permuted
INVARIANTS
  TypeOK
  NoUnownedSeat
  SeatedSocketIsBound
PROPERTIES
  NewcomersAreBound
  AllOrNobody
CHECK_DEADLOCK FALSE
