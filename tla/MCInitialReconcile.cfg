SPECIFICATION Spec
CONSTANTS
  Keys = {k1, k2}
  Workers = {w1, w2}
  MaxChanges = 2
  MaxFailures = 1
INVARIANTS TypeOK CompleteMeansReconciled CompletionReported
PROPERTY EventuallyComplete
CHECK_DEADLOCK FALSE
