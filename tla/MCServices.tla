------------------------------ MODULE MCServices ------------------------------
(* Model-checking instances of the services beside jobs: the Job Scheduler     *)
(* (Schedules) and the composition of event triggers, git, deployment          *)
(* pipelines, sessions, logins to the lakehouse endpoint, warehouse history    *)
(* and storage (Services), which this module extends, the pipeline interpreter *)
(* (PipelineRun) and the endpoint's security (EndpointSecurity). They share no *)
(* state at the grain of their modules; a behaviour is one of one part, so     *)
(* that their states add up.                                                   *)
EXTENDS Schedules, Services, PipelineSamples, Integers, Sequences, TLC

CONSTANTS Root, k1, k2

VARIABLES
  part,
  pipe, stack, ran, emitted, stream, result,
  bodies, lake, engineTable, endpoint, synced, member, session, settled, puts, faults

pipeVars == <<pipe, stack, ran, emitted, stream, result>>
securityVars == <<bodies, lake, engineTable, endpoint, synced, member, session, settled, puts, faults>>

-----------------------------------------------------------------------------
(* Of Services the configuration gives the sizes. Triggers: two on one item,    *)
(* dispatched by two threads, one activation each. Git: two callers. Sessions:  *)
(* two callers of one tag, two REPLs a group. Deployment: two stages, two       *)
(* workspaces, two names. Logins: two clients with a Reflector each, on one     *)
(* table of two commits, cut off by failures; here also two of one Reflector,   *)
(* on two tables, which time out in its queue or fall silent. History: two      *)
(* names, two connections, a window of a second. Storage: two clients, a path   *)
(* and one below it, a stage for one chunk. Here git again, with names that     *)
(* clash and one caller.                                                        *)
TwoPaths == {<<"a">>, <<"a", "b">>}
Apart == (k1 :> k1) @@ (k2 :> k2)
Q == INSTANCE Reflection WITH
  Table <- LakeTable, Reflector <- {"tds"}, Uses <- [c \in Login |-> "tds"], Nobody <- NoLogin,
  MaxCommits <- 1, MaxFailures <- 0, MaxSilences <- 1, pc <- loginPc
N == INSTANCE GitSync WITH
  Workspace <- {"w"}, Name <- {"a", "A"}, Version <- {"v1", "v2"}, SameName <- {{"a", "A"}},
  Caller <- {"c1"}, MaxItems <- 2, MaxCommits <- 2, ids <- gitIds, req <- gitReq

(* Pipelines: loops of two items or iterations.                              *)
P == INSTANCE PipelineRun WITH Activity <- Act, Pipelines <- Samples, MaxItems <- 2, MaxUntil <- 2, runs <- ran

(* Schedules: one configuration due every second, one due once.              *)
Calendar == ("every" :> 1 .. Horizon) @@ ("second" :> {2})

(* Security: a viewer under every combination of three roles of many; a viewer *)
(* and a contributor who connect while the role changes and a table grows.     *)
Y == INSTANCE RoleSamples
V == INSTANCE EndpointSecurity WITH
  KeyOrder <- Y!Spelled, Full <- {"Contributor"}, Null <- Nobody, Principal <- {Y!Viewer}, Body <- Y!ManyRoles,
  Table <- {"s"}, ColumnOrder <- <<"a", "b">>, Row <- Y!Cells(Nobody),
  MaxRoles <- 3, MaxPuts <- 0, MaxCommits <- 0, MaxFailures <- 1,
  dst <- engineTable, conn <- session, undisturbed <- settled, failures <- faults
C == INSTANCE EndpointSecurity WITH
  KeyOrder <- Y!Spelled, Full <- {"Contributor"}, Null <- Nobody, Principal <- {Y!Viewer, Y!Contributor},
  Body <- Y!FewRoles, Table <- {"s"}, ColumnOrder <- <<"a", "b">>, Row <- Y!Cells(Nobody),
  MaxRoles <- 1, MaxPuts <- 1, MaxCommits <- 1, MaxFailures <- 0,
  dst <- engineTable, conn <- session, undisturbed <- settled, failures <- faults

Interchangeable == Permutations({k1, k2})

ASSUME PartsAssumption ==
  /\ O!OneLakeAssumption /\ E!TriggersAssumption /\ N!GitAssumption /\ G!GitAssumption
  /\ D!DeploymentAssumption /\ P!PipelineAssumption
  /\ L!HCAssumption /\ SchedulesAssumption /\ H!HistoryAssumption
  /\ R!ReflectionAssumption /\ Q!ReflectionAssumption
  /\ V!EndpointAssumption /\ C!EndpointAssumption

-----------------------------------------------------------------------------
AnyPipe == CHOOSE p \in Samples : TRUE

\* Two Reflectors are left to one of the tables.
OneTable == src'["b"] = 0

\* Where a session went astray two REPLs have been acquired.
FewStrays == stray' = {} \/ Cardinality(DOMAIN repl') <= 2

\* Where parts differ in their initial states, those of the part that runs.
PartInit ==
  /\ part \in {"storage", "triggers", "names", "git", "sessions", "deployment", "pipeline",
              "schedules", "history", "endpoint", "queue", "roles", "security"}
  /\ Init /\ (part # "schedules" => row["s1"].config = "every")
  /\ L!Init /\ (part # "sessions" => native)
  /\ P!Init /\ (part # "pipeline" => pipe = AnyPipe)
  /\ O!Init /\ E!Init /\ D!Init /\ H!Init
  /\ IF part = "queue" THEN Q!Init ELSE R!Init
  /\ IF part = "names" THEN N!Init ELSE G!Init
  /\ IF part = "roles" THEN V!Init ELSE C!Init /\ (part # "security" => bodies = {})

last2 == <<vars, securityVars>>

\* One of a PATCH, a failed start and a restart comes in a behaviour.
FewMishaps == patches'["s1"] + errors' + restarts' <= 1

PartNext ==
  /\ UNCHANGED part
  /\ \/ /\ \/ part = "triggers" /\ TriggerStep
           \/ part = "names" /\ N!Next
              /\ UNCHANGED <<triggerVars, deployVars, livyVars, loginVars, historyVars, fileVars>>
           \/ part = "git" /\ GitStep
           \/ part = "sessions" /\ LivyStep /\ FewStrays
           \/ part = "deployment" /\ DeployStep
           \/ part = "endpoint" /\ LoginStep /\ OneTable
           \/ part = "queue" /\ Q!Next
              /\ UNCHANGED <<triggerVars, gitVars, deployVars, livyVars, historyVars, fileVars>>
           \/ part = "history" /\ HistoryStep
           \/ part = "storage" /\ StorageStep
        /\ UNCHANGED <<pipeVars, last2>>
     \/ part = "pipeline" /\ P!Next /\ UNCHANGED <<serviceVars, last2>>
     \/ /\ \/ part = "schedules" /\ Next /\ FewMishaps /\ UNCHANGED securityVars
           \/ part = "roles" /\ V!Next /\ UNCHANGED vars
           \/ part = "security" /\ C!Next /\ UNCHANGED vars
        /\ UNCHANGED <<serviceVars, pipeVars>>

PartSpec == PartInit /\ [][PartNext]_<<part, serviceVars, pipeVars, last2>>

-----------------------------------------------------------------------------
(* FiredOnce and NothingSkipped are those of Schedules itself, TriggersFire,    *)
(* SyncedAgrees, NoBackendLeft, PairsCurrent, DeployedAgrees, ReflectedIsSource,*)
(* HistorySound and StorageSound of Services.                                  *)

\* PipelineRun: an activity ran, was skipped or failed as dependsOn says, and the
\* verdicts agree with the report.
RunFollowsGraph == part = "pipeline" => P!RunFollowsGraph
\* PipelineRun: everything the report says was announced.
ReportComplete == part = "pipeline" => P!ReportComplete
\* EndpointSecurity: the endpoint and Direct Lake show a principal the same of a
\* table; a sync is skipped when there is nothing to apply; roles add up.
SecuritySound ==
  /\ part = "roles" => V!SurfacesAgree
  /\ part = "roles" /\ session[Y!Viewer].pc = "reflect" => V!GrantsAccumulate /\ V!EntriesDecide
  /\ part = "security" => C!SurfacesAgree /\ C!SkippedIsInForce
=============================================================================
