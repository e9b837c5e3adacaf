\* One execution and one incident through the outbox; one pair of a schedule
\* that is edited once, under a clock that is set back.
SPECIFICATION Spec
CONSTANTS
  Executions = {x}
  Incidents = {i}
  Muteable = {"final_failure"}
  MaxBacklog = 2
  Batch = 1
  Limit = 2
  Attempts = 2
  MaxFaults = 1
  Pairs = {p}
  Configs = {c, d}
  Ages = {1, 2}
  Grace = 1
  Long = 1
  MaxTime = 2
  MaxRuns = 1
  MaxWork = 1
  MaxEdits = 1
INVARIANTS SendsAccounted OutboxAgrees
PROPERTIES  SettledStaysSettled EveryNoticeSettles
