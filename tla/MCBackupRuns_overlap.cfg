\* Two runs of a schedule at once, as a source group with a concurrency above 1 admits them.
SPECIFICATION Spec
CONSTANTS
  Runs = {r1, r2}
  Prefixes = {1}
  Keeps = {1}
  Together = 2
  MaxCrashes = 0
  MaxFaults = 0
  None = None
INVARIANTS SuccessIsStored
