------------------------------ MODULE Services ------------------------------
(* Event triggers, git, deployment pipelines, high concurrency sessions,       *)
(* logins to the SQL endpoint, the history of warehouse tables and storage as  *)
(* they run in one process (api.go mounts the routes on one API, warehouse.go  *)
(* listens beside it, server.go gives OneLake hosts of its own): any number of *)
(* requests of each, interleaved call by call. At the grain of their modules   *)
(* they share no state, so that a step of one leaves the others alone.         *)
(* Those of which theorems are cited are instances of the modules that hold    *)
(* the proofs.                                                                 *)

CONSTANTS
  Trigger, Watchable, Kind, Thread, MaxActivations, MaxEvents,           \* EventTriggers
  GitWorkspace, GitName, GitVersion, SameName, GitCaller, MaxGitItems, MaxGitCommits,
  Workspace, NoWorkspace, Name, Version, Caller, Stages, MaxItems,       \* Deployment
  LivyCaller, Tag, Untagged, MaxRepls, MaxSessions, MaxUnusable,         \* HCSessions
  LakeTable, Reflector, Login, Uses, NoLogin, MaxTableCommits, MaxLoginFailures,
  MaxSilences, MaxLosses,                                                \* Reflection
  SqlTable, Connection, NoConnection, Retention, MaxTime, MaxStatements, MaxCrashes, \* TableHistory
  StorageClient, Path, Like, Block, MaxStaged, MaxData                   \* OneLake

VARIABLES
  rule, watched, event, job, firing, thread, patch,
  items, gitIds, conn, remote, head, history, gitReq, quiet,
  item, ids, assigned, pairs, deployReq, steady, alone, stale,
  native, repl, group, lastSeq, opened, open, tables, livyReq, late, stray,
  src, dst, seen, itemMu, loginPc, todo, cur, present, known, fp, read, since, loaded, half, crossed,
  failures, silences, losses,
  time, table, log, data, versionMu, pc, flow, snap, executed, crashes, torn, gap,
  files, staged, age, bytes, fileReq, acked

triggerVars == <<rule, watched, event, job, firing, thread, patch>>
gitVars == <<items, gitIds, conn, remote, head, history, gitReq, quiet>>
deployVars == <<item, ids, assigned, pairs, deployReq, steady, alone, stale>>
livyVars == <<native, repl, group, lastSeq, opened, open, tables, livyReq, late, stray>>
loginVars == <<src, dst, seen, itemMu, loginPc, todo, cur, present, known, fp, read, since,
               loaded, half, crossed, failures, silences, losses>>
historyVars ==
  <<time, table, log, data, versionMu, pc, flow, snap, executed, crashes, torn, gap>>
fileVars == <<files, staged, age, bytes, fileReq, acked>>
serviceVars ==
  <<triggerVars, gitVars, deployVars, livyVars, loginVars, historyVars, fileVars>>

E == INSTANCE EventTriggersProofs WITH Item <- Watchable, row <- rule, item <- watched
G == INSTANCE GitSyncProofs WITH
  Workspace <- GitWorkspace, Name <- GitName, Version <- GitVersion, Caller <- GitCaller,
  MaxItems <- MaxGitItems, MaxCommits <- MaxGitCommits, ids <- gitIds, req <- gitReq
D == INSTANCE DeploymentProofs WITH req <- deployReq
L == INSTANCE HCSessions WITH Caller <- LivyCaller, req <- livyReq
R == INSTANCE Reflection WITH
  Table <- LakeTable, Nobody <- NoLogin, MaxCommits <- MaxTableCommits,
  MaxFailures <- MaxLoginFailures, pc <- loginPc
H == INSTANCE TableHistory WITH
  Name <- SqlTable, Session <- Connection, Nobody <- NoConnection, now <- time
O == INSTANCE OneLake WITH Client <- StorageClient, req <- fileReq

-----------------------------------------------------------------------------
ServicesInit == E!Init /\ G!Init /\ D!Init /\ L!Init /\ R!Init /\ H!Init /\ O!Init

TriggerStep ==
  E!Next /\ UNCHANGED <<gitVars, deployVars, livyVars, loginVars, historyVars, fileVars>>
GitStep ==
  G!Next /\ UNCHANGED <<triggerVars, deployVars, livyVars, loginVars, historyVars, fileVars>>
DeployStep ==
  D!Next /\ UNCHANGED <<triggerVars, gitVars, livyVars, loginVars, historyVars, fileVars>>
LivyStep ==
  L!Next /\ UNCHANGED <<triggerVars, gitVars, deployVars, loginVars, historyVars, fileVars>>
LoginStep ==
  R!Next /\ UNCHANGED <<triggerVars, gitVars, deployVars, livyVars, historyVars, fileVars>>
HistoryStep ==
  H!Next /\ UNCHANGED <<triggerVars, gitVars, deployVars, livyVars, loginVars, fileVars>>
StorageStep ==
  O!Next /\ UNCHANGED <<triggerVars, gitVars, deployVars, livyVars, loginVars, historyVars>>

ServicesNext == TriggerStep \/ GitStep \/ DeployStep \/ LivyStep \/ LoginStep \/ HistoryStep
                \/ StorageStep

ServicesSpec == ServicesInit /\ [][ServicesNext]_serviceVars

-----------------------------------------------------------------------------
\* EventTriggers: a write returns once its triggers fired, those at their cap apart.
TriggersFire == E!TriggersFire
\* GitSync: synced means that workspace and branch agree.
SyncedAgrees == G!SyncedAgrees
\* HCSessions: no backend session outlives its REPL, unless a statement was under
\* way, its DELETE failed, or its opening was answered without naming it.
NoBackendLeft == L!NoBackendLeft
\* Deployment: a pair joins items of the workspaces assigned now, one to one.
PairsCurrent == D!PairsCurrent
\* Deployment: a deploy leaves a partner with the same definition for each item.
DeployedAgrees == D!DeployedAgrees
\* Reflection: a login that succeeds shows what the lake held when it began, or later.
ReflectedIsSource == R!ReflectedIsSource
\* TableHistory: every instant of the window has its files, in a history that is
\* its table's from CREATE over renames to DROP.
HistorySound == H!Answerable /\ H!HistoryFollowsObject
\* OneLake: one conditional creation of a path wins, and the stage is bounded.
StorageSound == O!StorageSound
=============================================================================
