SPECIFICATION PartSpec
CONSTANTS
  Source = {"a"}
  Client = {k1, k2}
  MaxCommits = 2
  MaxViews = 2
  MaxRestarts = 1
  ItemName = {"a", "A"}
  SameName = {{"a", "A"}}
  Item = {n1, n2, n3}
  Held = 2
  MaxTime = 3
  Identity = {m1, m2}
  WorkspaceName = {"a", "b"}
  MaxFailures = 1
  MaxRenames = 2
  Folder = {n1, n2, n3}
  FolderName = {"x", "y"}
  FolderItem = {}
  Engine = {"e"}
  Reader = {"r"}
  MaxWrites = 3
  MaxReads = 1
  MaxCrashes = 1
  TableName = {n1, n2, n3}
  Lake = {"lake"}
  Elsewhere = {}
  MaxStatements = 5
  Root = Root
  None = None
  k1 = k1
  k2 = k2
  n1 = n1
  n2 = n2
  n3 = n3
  m1 = m1
  m2 = m2
SYMMETRY Interchangeable
INVARIANTS
  FoldersSound
  FreshIsCurrent
  IdentityAgrees
  TableIsAcked
  ReadsVersion
  LineageFollows
  OccurrencesSound
PROPERTY NamesHeldExactly
CHECK_DEADLOCK FALSE
