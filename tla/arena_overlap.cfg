SPECIFICATION Spec
CHECK_DEADLOCK FALSE
CONSTANTS
  a = a
  b = b
  Players = {a, b}
  Parties = {a, b}
  Members <- Solo
  RoleCount = 2
  MaxRuns = 2
  MaxMatches = 2
  MaxFaults = 0
  Faults = {}
SYMMETRY Permuted
PROPERTIES
  OneMatchAtATime
