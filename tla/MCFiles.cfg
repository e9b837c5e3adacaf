\* Four statements in transactions of up to three levels, two crashes; four starts
\* that share two process numbers; two packages, two crashes; an updater beside an
\* installer, three paths, one of the two killed; three captures in two instances; a test, an artifact and a point-in-time
\* rehearsal of two databases, one stop.
SPECIFICATION FilesSpec
CONSTANTS
  Writes = {w1, w2, w3, w4}
  MaxDepth = 3
  MaxCrashes = 2
  Starts = {a1, a2, a3, a4}
  Pids = {n1, n2}
  NoLock = NoLock
  Packages = {p1, p2}
  Own = own
  Nothing = Nothing
  MaxImportCrashes = 2
  Updaters = {u}
  Installers = {i}
  Paths = 3
  Package = 2
  MaxKills = 1
  MaxChecks = 1
  Captures = {c1, c2, c3}
  Instances = {s1, s2}
  Numbers = {1, 2}
  Tests = {t1}
  Artifacts = {b1}
  Pitrs = {q1}
  Parts = 2
  MaxForeign = 1
  MaxStops = 1
INVARIANTS FailureLeavesNoTrace ReturnedIsDurable MemoryIsFile OneWriter KeyFits VerdictTrue OneHolder EvidenceTrue
PROPERTIES RehearsalsEnd
CHECK_DEADLOCK FALSE
