\* In a container the application always has the same process number.
SPECIFICATION OwnerSpec
CONSTANTS
  Starts = {a1, a2}
  Pids = {n1}
  NoLock = NoLock
PROPERTIES RefusedForLiveWriter
CHECK_DEADLOCK FALSE
