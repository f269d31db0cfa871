SPECIFICATION FairSpec
CHECK_DEADLOCK FALSE
CONSTANTS
  a = a
  Players = {a}
  Parties = {a}
  Members <- Solo
  RoleCount = 2
  MaxRuns = 3
  MaxMatches = 2
  MaxFaults = 1
  Faults = {"startDown", "startLost", "startLate", "disconnectDown",
            "outcomeDown", "outcomeLost", "finishDown", "finishLost"}
INVARIANTS
  ControllerMatchesConnection
PROPERTIES
  NoMatchAfterFailure
  QueuedDeploys
