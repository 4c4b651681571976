SPECIFICATION CacheSpec
CONSTANTS
  k1 = k1
  k2 = k2
  ns = ns
  Specs = {s}
  NumRules = 0
  Labels = {l}
  Targets = {t}
  IPs = {a}
  IPv6 = {}
  NoIP = NoIP
  PodIDs = {p}
  Selector <- MCSelector
  RuleTargets <- MCRuleTargets
  Keys = {k1, k2}
  Namespaces = {ns}
  NsOf <- MCNsOf
  Gens = {1, 2}
  UIDs = {u1, u2}
  Workers = {w1}
  NoEntry = NoEntry
  NoTicket = NoTicket
  MaxVersion = 2
INVARIANTS NewestGenerationOnly FencesExact
PROPERTY ImplementsOptimisticPublish
