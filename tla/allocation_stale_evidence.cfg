SPECIFICATION Spec
CONSTANTS
  Worker = {w1}
  Canceller = {c1}
  Arena = {a1, a2}
  None = None
  SlowCleaner = FALSE
  Lingers = TRUE
  CleanupFaults = TRUE
SYMMETRY Symmetry
INVARIANTS CancelledIsClean
CHECK_DEADLOCK FALSE
