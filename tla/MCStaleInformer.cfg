SPECIFICATION LagSpec
CONSTANTS
  t1 = t1
  t2 = t2
  Targets = {t1, t2}
  Specs = {"both"}
  SpecTargets <- MCSpecTargets
  IPs = {a}
  None = None
  NoMapping = NoMapping
  MaxGen = 2
  Lag = TRUE
  MaxChanges = 2
  MaxFailures = 1
INVARIANT NoOrphans
CHECK_DEADLOCK FALSE
