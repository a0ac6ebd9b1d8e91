SPECIFICATION FairSpec
CONSTANTS
  consumer = consumer
  Nobody = Nobody
  Publisher = {p1, p2}
  Client = {consumer}
  Filter <- Narrowed
  RawSize = 1
  RingSize = 2
  SubBuffer = 1
  MaxEvents = 2
  MaxRestarts = 1
INVARIANT NoSendOnClosed
PROPERTIES
  ImplementsLog
  GapSurfaces
  CloseEnds
CHECK_DEADLOCK FALSE
