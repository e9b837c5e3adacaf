\* Missed, skipped, failing and repeated occurrences; three files, one of them of
\* others, two places, one trouble; two connections, a schedule, a plan, two runs,
\* five saves, one stop; two installations, one crash; two scripts of two releases
\* in two tabs, four changes.
SPECIFICATION TimersSpec
CONSTANTS
  j1 = j1  j2 = j2
  None = None
  Jobs = {j1, j2}
  Crons <- CronsMC
  Policies <- PoliciesMC
  MaxCount = 2
  Horizon = 3
  MaxEvents = 2
  Files = {1, 2, 3}
  Foreign = {2}
  Places = {p, q}
  Nowhere = nowhere
  Keeps = {0, 1}
  MaxTroubles = 1
  Connections = {c1, c2}
  Plans = {p1}
  Runs = {1, 2}
  Gone = Gone
  Hosts = {"localhost", "127.0.0.1", "db"}
  Loopback = {"localhost", "127.0.0.1"}
  MaxSaves = 5
  MaxTests = 2
  MaxStops = 1
  Installs = {i1, i2}
  NoInstall = NoInstall
  MaxCrashes = 1
  Scripts = {a, b}
  Releases = {1, 2}
  Absent = Absent
  Tabs = {t1, t2}
  MaxChanges = 4
CHECK_DEADLOCK FALSE
INVARIANTS DestinationsAgree CatalogAgrees ToolsAgree AssetsAgree EveryOccurrenceAccounted ExecutionsAgree
PROPERTIES DueIsHandled
