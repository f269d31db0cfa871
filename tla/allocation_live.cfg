SPECIFICATION FairSpec
CONSTANTS
  Worker = {w1}
  Canceller = {c1}
  Arena = {a1, a2}
  None = None
  SlowCleaner = FALSE
  Lingers = TRUE
  CleanupFaults = FALSE
PROPERTIES CancellationCompletesIfEndable
CHECK_DEADLOCK FALSE
