SPECIFICATION Spec
CONSTANTS
  t1 = t1
  t2 = t2
  Targets = {t1, t2}
  Specs = {"one", "two"}
  SpecTargets <- MCSpecTargets
  IPs = {a, b}
  None = None
  NoMapping = NoMapping
  MaxGen = 3
  Lag = FALSE
  MaxChanges = 2
  MaxFailures = 2
INVARIANTS TypeOK NoOrphans
PROPERTIES ReconciledMeansOwnershipExact EventuallyConverged EventuallyReconciled
CHECK_DEADLOCK FALSE
