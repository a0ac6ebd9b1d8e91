SPECIFICATION Spec
CONSTANTS
  every = every
  second = second
  Nobody = Nobody
  Schedule = {s1}
  Config = {every, second}
  Occurs <- Calendar
  Client = {c1, c2}
  MaxPerTick = 2
  MaxSchedules = 2
  Horizon = 2
  MaxPatches = 1
  MaxErrors = 0
  MaxRestarts = 0
INVARIANT OccurrenceRunsOnce
CHECK_DEADLOCK FALSE
