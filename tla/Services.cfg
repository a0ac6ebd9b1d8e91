SPECIFICATION PartSpec
CONSTANTS
  Schedule = {"s1"}
  Config = {"every", "second"}
  Occurs <- Calendar
  Client = {k1, k2}
  MaxPerTick = 2
  MaxSchedules = 2
  Horizon = 3
  MaxPatches = 1
  MaxErrors = 1
  MaxRestarts = 1
  Trigger = {"t1", "t2"}
  Watchable = {"i"}
  Kind = {"created"}
  Thread = {k1, k2}
  MaxActivations = 1
  MaxEvents = 2
  GitWorkspace = {"w"}
  GitName = {"a"}
  GitVersion = {"v1", "v2"}
  SameName = {}
  GitCaller = {k1, k2}
  MaxGitItems = 1
  MaxGitCommits = 1
  Workspace = {"dev", "test"}
  NoWorkspace = "none"
  Name = {"n", "m"}
  Version = {"v1", "v2"}
  Caller = {"c"}
  Stages = 2
  MaxItems = 2
  LivyCaller = {k1, k2}
  Tag = {"t"}
  Untagged = "u"
  MaxRepls = 2
  MaxSessions = 3
  MaxUnusable = 1
  LakeTable = {"a", "b"}
  Reflector = {k1, k2}
  Login = {k1, k2}
  Uses <- Apart
  NoLogin = NoLogin
  MaxTableCommits = 2
  MaxLoginFailures = 1
  MaxSilences = 0
  MaxLosses = 0
  SqlTable = {"a", "b"}
  Connection = {k1, k2}
  NoConnection = NoConnection
  Retention = 1
  MaxTime = 3
  MaxStatements = 3
  MaxCrashes = 1
  StorageClient = {k1, k2}
  Path <- TwoPaths
  Like = {}
  Block = {"x"}
  MaxStaged = 1
  MaxData = 1
  first = first
  box = box
  last = last
  inner = inner
  handler = handler
  Root = Root
  Nobody = Nobody
  k1 = k1
  k2 = k2
SYMMETRY Interchangeable
INVARIANTS
  StorageSound
  TriggersFire
  SyncedAgrees
  NoBackendLeft
  PairsCurrent
  DeployedAgrees
  RunFollowsGraph
  ReportComplete
  FiredOnce
  NothingSkipped
  HistorySound
  
  SecuritySound
CHECK_DEADLOCK FALSE
