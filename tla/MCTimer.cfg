CONSTANTS
  NEntries = 1
  Periodic = {f}
  Delayed = {g}
  Main = {f}
  Delays <- MCDelays
  UtcOffset = 100
  Slack = 2
  MaxTime = 40
  Nobody = nobody
SPECIFICATION Spec
CHECK_DEADLOCK FALSE
INVARIANTS
  TypeOK
  ResumesOnlySuspended
  TriggersInTime
