SPECIFICATION Spec
CONSTANTS
  a = a
  Players = {a}
  Parties = {a}
  Members <- Solo
  RoleCount = 1
  MaxRuns = 1
  MaxMatches = 1
  MaxFaults = 1
  Faults = {"outcomeLost"}
INVARIANTS
  FailedIsNotCredited
