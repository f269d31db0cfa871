SPECIFICATION FairSpec
CHECK_DEADLOCK FALSE
CONSTANTS
  a = a
  b = b
  d = d
  Players = {a, b}
  Parties = {d}
  Members <- Duo
  RoleCount = 2
  MaxRuns = 1
  MaxMatches = 1
  MaxFaults = 1
  Faults = {"startDown", "startLost", "startLate", "disconnectDown", "outcomeDown", "outcomeLost", "finishDown", "finishLost"}
PROPERTIES
  RegisteredCloses
  RetirementCompletesIfClosable
