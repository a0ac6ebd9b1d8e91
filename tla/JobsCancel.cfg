SPECIFICATION Spec
CONSTANTS
  j1 = j1
  j2 = j2
  j3 = j3
  small = small
  open = open
  Nobody = Nobody
  Job = {j1, j2}
  Drainer = {d1}
  Capacity = {small, open}
  MaxConcurrentJobs <- OneSlot
  Workloads <- CancelMixes
  LRODelay = 0
  Horizon = 0
  MaxReports = 0
  MaxCancels = 1
  MaxRestarts = 0
INVARIANT CancelledOverrides
CHECK_DEADLOCK FALSE
