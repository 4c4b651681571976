SPECIFICATION Spec
CONSTANTS
  x = x
  y = y
  xy = xy
  none = none
  t1 = t1
  t2 = t2
  k = k
  ns = ns
  Specs = {"split", "swap"}
  ValidSpecs = {"split", "swap"}
  NumRules = 1
  Labels = {x}
  Targets = {t1, t2}
  IPs = {a}
  IPv6 = {}
  NoIP = NoIP
  PodNames = {p}
  MaxPodUID = 2
  PodIDs <- MCPodIDs
  Selector <- MCSelector
  RuleTargets <- MCRuleTargets
  Keys = {k}
  Namespaces = {ns}
  NsOf <- MCNsOf
  Gens = {1, 2, 3}
  UIDs = {1, 2}
  Workers = {w}
  NoEntry = NoEntry
  NoTicket = NoTicket
  NoPod = NoPod
  NoMapping = NoMapping
  MaxVersion = 0
  MaxChanges = 3
  LateHandler = TRUE
  MaxFailures = 1
CHECK_DEADLOCK FALSE
INVARIANTS OneRuleParity
