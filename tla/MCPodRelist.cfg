SPECIFICATION RelistSpec
CONSTANTS
  x = x
  y = y
  xy = xy
  none = none
  t1 = t1
  t2 = t2
  k = k
  ns = ns
  Specs = {"split"}
  ValidSpecs = {"split"}
  NumRules = 1
  Labels = {x, none}
  Targets = {t1}
  IPs = {a, b}
  IPv6 = {}
  NoIP = NoIP
  PodNames = {p}
  MaxPodUID = 2
  PodIDs <- MCPodIDs
  Selector <- MCSelector
  RuleTargets <- MCRuleTargets
  Keys = {k}
  Namespaces = {ns}
  NsOf <- MCNsOf
  Gens = {1}
  UIDs = {1}
  Workers = {w}
  NoEntry = NoEntry
  NoTicket = NoTicket
  NoPod = NoPod
  NoMapping = NoMapping
  MaxVersion = 0
  MaxChanges = 2
  LateHandler = FALSE
  MaxFailures = 0
INVARIANT DesiredParity
CHECK_DEADLOCK FALSE
