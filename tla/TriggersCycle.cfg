SPECIFICATION Spec
CONSTANTS
  Trigger = {t}
  Item = {i}
  Kind = {created}
  Thread = {h}
  MaxActivations = 1
  MaxEvents = 2
INVARIANT CycleIsCut
CHECK_DEADLOCK FALSE
