SPECIFICATION Spec
CONSTANTS
  t1 = t1
  t2 = t2
  Targets = {t1, t2}
  Specs = {"one", "two"}
  SpecTargets <- MCSpecTargets
  IPs = {a}
  None = None
  NoMapping = NoMapping
  MaxGen = 2
  Lag = FALSE
  MaxChanges = 1
  MaxFailures = 0
INVARIANT StatusTruth
CHECK_DEADLOCK FALSE
