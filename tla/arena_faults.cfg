SPECIFICATION Spec
CHECK_DEADLOCK FALSE
CONSTANTS
  a = a
  b = b
  Players = {a, b}
  Parties = {a, b}
  Members <- Solo
  RoleCount = 2
  MaxRuns = 2
  MaxMatches = 1
  MaxFaults = 1
  Faults = {"startDown", "startLost", "startLate", "disconnectDown", "outcomeDown", "outcomeLost", "finishDown", "finishLost"}
SYMMETRY Permuted
INVARIANTS
  TypeOK
  SafeMeansClosed
  OnlyDisconnectionsAreLost
  SavedIsDurable
PROPERTIES
  ClosedAsPlayed
