\* Everything ends, under the fairness of the scheduling.
SPECIFICATION FairSpec
CONSTANTS
  e1 = e1  e2 = e2  s1 = s1  s2 = s2  c1 = c1  c2 = c2  g1 = g1  g2 = g2  a1 = a1
  NoAlias = NoAlias
  Executions = {e1, e2}
  Selections = {s1, s2}
  Connections = {c1}
  ConnOf <- ConnOne
  Rank <- RankMC
  RetryCount <- RetryMC
  Groups = {g1}
  AutoGroups = {g1}
  Aliases = {}
  Host0 <- HostOne
  JobSelections <- WholeJob
  Limits = {1}
  GroupLimits = {}
  MaxPriority = 1
  MaxStops = 1
  MaxFaults = 0
PROPERTIES EveryExecutionEnds ShutdownCompletes
