SPECIFICATION Spec
CONSTANTS
  Worker = {w1, w2}
  Canceller = {c1}
  Arena = {a1, a2}
  None = None
  SlowCleaner = FALSE
  Lingers = TRUE
  CleanupFaults = TRUE
SYMMETRY Symmetry
INVARIANTS CancelledIsUnpacked
CHECK_DEADLOCK FALSE
