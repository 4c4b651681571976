SPECIFICATION Spec
CONSTANTS
  t1 = t1
  t2 = t2
  b = b
  Targets = {t1, t2}
  Changing = {t1}
  Selectors = {NoHash, b}
  Specs <- WithInvalid
  Invalid <- InvalidSpecs
  MaxAttempts = 2
  MaxGen = 2
  MaxTime = 1
  MaxChanges = 4
  MaxFailures = 0
  NoMapping = NoMapping
  NoHash = NoHash
CHECK_DEADLOCK FALSE
INVARIANT RowsOfEveryWriter
