SPECIFICATION Spec
CONSTANTS
  consumer = consumer
  Nobody = Nobody
  Publisher = {p1}
  Client = {consumer}
  Filter <- Everything
  RawSize = 2
  RingSize = 2
  SubBuffer = 1
  MaxEvents = 2
  MaxRestarts = 1
INVARIANT ResumesWithoutGap
CHECK_DEADLOCK FALSE
