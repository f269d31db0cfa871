SPECIFICATION Spec
CONSTANTS
  Worker = {w1, w2, w3}
  Canceller = {c1}
  Arena = {a1, a2}
  None = None
  SlowCleaner = TRUE
  Lingers = TRUE
  CleanupFaults = TRUE
SYMMETRY Symmetry
INVARIANTS ActiveIsReserved
CHECK_DEADLOCK FALSE
