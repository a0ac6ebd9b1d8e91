SPECIFICATION Spec
CONSTANTS
  Identity = {i}
  None = None
  Name = {"a", "b"}
  Client = {c, d}
  MaxFailures = 1
  MaxRenames = 2
INVARIANT RenameKept
CHECK_DEADLOCK FALSE
