SPECIFICATION Spec
CONSTANTS
  t1 = t1
  t2 = t2
  b = b
  Targets = {t1, t2}
  Changing = {t1}
  Selectors = {NoHash, b}
  Specs <- WithInvalid
  Invalid <- InvalidSpecs
  MaxAttempts = 2
  MaxGen = 3
  MaxTime = 2
  MaxChanges = 0
  MaxFailures = 1
  NoMapping = NoMapping
  NoHash = NoHash
PROPERTY EventuallyReported
CHECK_DEADLOCK FALSE
