SPECIFICATION RunSpec
CONSTANTS
  j1 = j1
  j2 = j2
  j3 = j3
  small = small
  open = open
  Nobody = Nobody
  Job = {j1, j2, j3}
  Drainer = {d1, d2}
  Capacity = {small, open}
  MaxConcurrentJobs <- OneSlot
  Workloads <- RunMixes
  LRODelay = 1
  Horizon = 1
  MaxReports = 1
  MaxCancels = 1
  MaxRestarts = 1
SYMMETRY DrainerSymmetry
INVARIANTS
  TypeOK
  CapacityRespected
  StartedOnce
  QueuedIsUntouched
  NoVerdictBeforeStart
  GreenMeansRan
  AnnouncedMatchesStatus
  NoOrphanedSlot
PROPERTY VerdictStable
CHECK_DEADLOCK FALSE
