\* Aliases, moved connections, limits that change under load, failing writes.
SPECIFICATION Spec
CONSTANTS
  e1 = e1  e2 = e2  s1 = s1  s2 = s2  c1 = c1  c2 = c2  g1 = g1  g2 = g2  a1 = a1
  NoAlias = NoAlias
  Executions = {e1, e2}
  Selections = {s1, s2}
  Connections = {c1, c2}
  ConnOf <- ConnTwo
  Rank <- RankMC
  RetryCount <- NoRetryMC
  Groups = {g1, g2, a1}
  AutoGroups = {g1, g2}
  Aliases = {a1}
  Host0 <- HostTwo
  JobSelections <- SingleJobs
  Limits = {1, 2}
  GroupLimits = {1}
  MaxPriority = 0
  MaxStops = 0
  MaxFaults = 1
SYMMETRY SymmetryMC
INVARIANTS GroupAgrees SlotsAgree
PROPERTIES CapacityAtStart FifoAdmission
