SPECIFICATION Spec
CONSTANTS
  x = x
  y = y
  xy = xy
  none = none
  t1 = t1
  t2 = t2
  k = k
  ns = ns
  Specs = {"split"}
  ValidSpecs = {"split"}
  NumRules = 2
  Labels = {x, y}
  Targets = {t1, t2}
  IPs = {a}
  IPv6 = {}
  NoIP = NoIP
  PodNames = {p, q}
  MaxPodUID = 1
  PodIDs <- MCPodIDs
  Selector <- MCSelector
  RuleTargets <- MCRuleTargets
  Keys = {k}
  Namespaces = {ns}
  NsOf <- MCNsOf
  Gens = {1}
  UIDs = {1}
  Workers = {w}
  NoEntry = NoEntry
  NoTicket = NoTicket
  NoPod = NoPod
  NoMapping = NoMapping
  MaxVersion = 0
  MaxChanges = 4
  LateHandler = FALSE
  MaxFailures = 0
SYMMETRY PodSymmetry
CHECK_DEADLOCK FALSE
INVARIANTS DesiredParity
