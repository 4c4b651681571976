SPECIFICATION Spec
CONSTANTS
  t1 = t1
  t2 = t2
  a = a
  Calls <- TwoCalls
  Targets = {t1, t2}
  IPs = {a, b}
  None = None
  NoResult = NoResult
  Threshold = 50
  MaxParallel = 1
  MaxRetries = 2
  MaxResends = 1
  MaxForeign = 2
INVARIANTS TypeOK SuccessMeansConverged
PROPERTIES NoLostUpdate EventuallyReturns
