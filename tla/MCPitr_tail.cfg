\* One event of the newest log, two captures.
SPECIFICATION PitrSpec
CONSTANTS
  Targets = {t}
  MaxLogs = 2
  MaxEvents = 1
  MaxCaptures = 3
  NoBaseline = none
INVARIANT ContinuousIsCaptured
CHECK_DEADLOCK FALSE
