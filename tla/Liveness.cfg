SPECIFICATION PartSpec
CONSTANTS
  Receiver = {r1, r2}
  Timeout = 2
  MaxNow = 3
  MaxReal = 2
  MaxControls = 2
  Nobody = Nobody
  Root = Root
  first = first
  box = box
  last = last
  inner = inner
  handler = handler
  j1 = j1
  j2 = j2
  small = small
  open = open
  every = every
  second = second
PROPERTIES
  QueuedIsAdmitted
  PipelineEnds
  DueIsFired
  ParkEnds
  RunEnds
  LoginsConverge
CHECK_DEADLOCK FALSE
