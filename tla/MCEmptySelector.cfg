SPECIFICATION Spec
CONSTANTS
  t1 = t1
  t2 = t2
  b = b
  Targets = {t1, t2}
  Changing = {t1}
  Selectors = {NoHash, b}
  Specs <- WithInvalid
  Invalid <- InvalidSpecs
  MaxAttempts = 2
  MaxGen = 3
  MaxTime = 2
  MaxChanges = 2
  MaxFailures = 0
  NoMapping = NoMapping
  NoHash = NoHash
CHECK_DEADLOCK FALSE
PROPERTY LastSyncOfItsRule
