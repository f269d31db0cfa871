SPECIFICATION FairSpec
CHECK_DEADLOCK FALSE
CONSTANTS
  a = a
  Players = {a}
  Parties = {a}
  Members <- Solo
  RoleCount = 1
  MaxRuns = 1
  MaxMatches = 1
  MaxFaults = 0
  Faults = {}
PROPERTIES
  RetirementCompletes
