SPECIFICATION Spec
CONSTANTS
  Folder = {f, g}
  Root = Root
  Name = {n, m}
  Item = {}
  Client = {c, d}
INVARIANT NoFolderCycle
CHECK_DEADLOCK FALSE
