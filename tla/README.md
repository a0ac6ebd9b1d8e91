# A formal model of fabric-emulator

TLA+ modules that model the stateful core of this repository, the TLC
configurations that check them on small instances, and theorems that TLAPS
proves for every value of the constants. Paths are relative to `src/`.

| file | what it is |
|---|---|
| `Jobs.tla`, `JobsProofs.tla` | item jobs and the capacity queue; proofs |
| `Schedules.tla`, `SchedulesProofs.tla` | the Job Scheduler of one item and job type; proofs |
| `ScheduleCalendar.tla`, `ScheduleSamples.tla` | the instants a schedule fires at: windows, calendars, time zones; configurations |
| `FlowLog.tla` | what the event stream promises a consumer (abstract) |
| `FlowBus.tla`, `FlowBusProofs.tla` | the event bus and its stream, which implements `FlowLog`; proofs |
| `PipelineRun.tla`, `PipelineSamples.tla` | the pipeline interpreter; pipelines to run |
| `WebhookPark.tla` | a WebHook activity that waits on the emulator's clock |
| `EventTriggers.tla`, `EventTriggersProofs.tla` | event triggers and the counter of their activations; proofs |
| `OneLake.tla` | storage: paths, uploads in blocks, conditional creation |
| `GitSync.tla`, `GitSyncProofs.tla` | git integration of workspaces; proofs |
| `Deployment.tla`, `DeploymentProofs.tla` | deployment pipelines: assignment, pairing, deploys; proofs |
| `HCSessions.tla` | high concurrency Livy sessions |
| `TableHistory.tla` | the version history of warehouse tables |
| `Reflection.tla` | a lakehouse's tables in its SQL endpoint |
| `OneLakePolicy.tla`, `RowFilter.tla` | OneLake security: roles, their consolidation, row filters |
| `EndpointSecurity.tla`, `RoleSamples.tla` | the sync of roles into a lakehouse's SQL endpoint; roles to sync |
| `Folders.tla` | the folders of a workspace and the items in them |
| `ItemNames.tla` | names of items, and those held after a deletion |
| `LakeViews.tla` | materialized lake views and their staleness |
| `WarehouseLineage.tla` | lineage observed from warehouse statements |
| `WorkspaceIdentity.tla` | a workspace's identity, here and in entra |
| `DeltaTable.tla` | a Delta table as the emulator writes and reads it |
| `Services.tla`, `ServicesProofs.tla` | triggers, git, deployment, sessions, logins, table history, storage side by side; proofs |
| `Content.tla`, `ContentProofs.tla` | views, names, identity, folders, Delta tables, lineage side by side; proofs |
| `MCJobs`, `MCJobRuns`, `MCSchedules`, `MCFlowBus` | instances of one module |
| `MCServices`, `MCContent`, `MCLiveness` | instances of several modules side by side |
| `*.cfg`, `PROJECT.json` | one configuration per run; runs, mutants, map to the source, findings, hazards, theorems |

    tlc -workers 2 -config Services.cfg MCServices
    tlapm JobsProofs.tla

## 1. Inventory

The emulator is one Go process: an HTTP server over a SQLite database opened
with a single connection, plus a TDS listener and whatever engines are attached
(a Spark agent, Airflow, a SQL engine). Every request has a goroutine; a few
mutexes, `sync.Map`s and background goroutines are the concurrency of the
program. A store call is a transaction; a handler is several of them, with
nothing held in between, and that is where most of the hazards are. Time is a
controllable clock: most "asynchronous" outcomes are derived from it when
somebody looks, and nothing ticks by itself.

| part | state | hard | correct when |
|---|---|---|---|
| Item jobs, capacity queue (`api/jobs.go`, `store/jobs.go`, `notebooks.go`, `pipelines.go`) | job rows, run details, `admitMu`, the engines' goroutines | counting and writing are separate statements; drains share snapshots; completion by the clock or by a thread; row, run detail and event are three writes | ceilings hold, nothing runs twice, green means the engine ran, what was announced is what polling shows, the queue drains |
| Job Scheduler (`api/schedules.go`, `store/schedules.go`, `schedule`) | schedule rows with a mark, `tickMu` | evaluations overlap; PATCH writes outside the lock; a crash between a job and its mark; the cap | an occurrence is started once, none is skipped but by the cap |
| Flow bus and stream (`store/bus.go`, `server/events.go`) | raw queue, `seq`, ring, subscribers and their drop counters | closing a channel against senders; drops counted a step late; resumption across connections and processes | no panic, once and in order, no silent hole, `Close` returns |
| Clock (`clock`) and WebHook activities (`api/webhookactivity.go`) | offset, frozen time, `Changed`; pending tokens | a wait on time that others move both ways | a wait whose deadline passed ends |
| Pipeline interpreter (`pipeline`) | per run: statuses, records, how many were announced, loops, attempts | dependencies in a circle, inactive activities, retried containers | branches follow the conditions, the verdict follows the report, the report was announced |
| Event triggers (`api/triggers.go`, `store/events.go`) | rules, the counter of activations | a trigger's pipeline writes what fires it; PATCH, deletion and dispatch interleave | each matching write starts its jobs before it returns, the counter does not leak |
| OneLake (`onelake`, `store/onelake.go`) | paths, bytes, staged blocks | conditional creation; removal in several calls; eviction | one writer wins a commit, the stage stays bounded |
| Git (`api/git.go`, `store/git.go`) | connection, branch, synced commit | seven store calls per request, edits in between, names that clash by case | synced means equal |
| Deployment pipelines (`store/deployment.go`, `deploy.go`, `pairing.go`) | stages, pairs | computed before the transaction that writes; item by item; crash | pairs are current, a deploy leaves partners that agree |
| Livy sessions (`api/livy_hc.go`) | groups, REPLs, backend sessions | HTTP calls outside the mutex | packing is sound, no backend session is left |
| Warehouse history (`warehouse/versioning.go`, `server/warehouseversioning.go`) | Delta folders of engine tables, `versionMu` | the observer runs after the client has its answer; reads outside the lock; expiry | history belongs to the table, every instant of the window can be read |
| Lakehouse endpoint (`warehouse/reflect.go`, `server/warehouse.go`) | the engine's copies, fingerprints, locks | logins cut off, failing loads, several memories | a login shows what the lake holds, retries get through |
| OneLake security (`onelakesec`, `store/onelakesec.go`, `server/onelakesync.go`, `tds/principal.go`, `api/directlake.go`) | roles; the engine's database roles, grants, row policies and a hash of the last sync | one set of roles, evaluated together in one engine and one by one in another; connections decide, reflect, sync and provision in steps | both engines show a principal the same, a sync is skipped only when it has nothing to do, a role more takes nothing away |
| Folders (`store/folders.go`, `api/folders.go`, `definitions.go`, `items.go`) | a tree of rows, items' folder ids | a walk and a write are separate statements; a bulk move writes item by item | a tree stays a tree, siblings differ, a bulk move that fails moved nothing |
| Item names (`api/items.go`, `store/items.go`, `store/names.go`) | rows, deleted names with a time | a check before an insert; names that differ by case | one item per name, a deleted name is held for its time and no longer |
| Lake views (`api/mlv.go`, `store/mlv.go`) | the view's row, its rows in the lake | versions, query and record are separate; refreshes overlap and outlive their view | a view reported fresh shows its sources |
| Warehouse lineage (`server/warehouselineage.go`, `store/lineage.go`, `tsql/dataflow.go`) | edges, views in memory | tables built under another name, swapped and reused; restart | a table has the edges of what built it |
| Workspace identity (`api/identity.go`, `store/identity.go`, `entra`) | a link here, an application there | two systems, no transaction, a failure at each call | entra has what is linked, under its name |
| Delta tables (`warehouse/write.go`, `delta.go`) | a log and data files | unconditional puts beside engines' conditional ones; readers file by file | the table is what was acknowledged, a reader sees one version |

Mostly data, and not modelled (section 9): workspaces, capacities and
roles; operations; semantic models and XMLA; TDS and T-SQL translation;
eventstreams, KQL, connectors; authentication; the portal; Python engines and
the end-to-end suites.

### How the parts meet

    client -- submit, poll, cancel --> Jobs -- Started / outcome --> FlowBus --> client
    client -- create, PATCH, poll ---> Schedules -- startJob ------> Jobs
    OneLake -- file events --> EventTriggers -- startJob ----------> Jobs
    Jobs -- a run --> PipelineRun -- activity records --> FlowBus
                      PipelineRun -- WebHook --> WebhookPark <-- clock
    TDS, Livy, git, deploy -- writes --> OneLake <-- reads -- Reflection, TableHistory
    roles -- EndpointSecurity (over Reflection's tables) --> the SQL endpoint
    roles -- OneLakePolicy, RowFilter --> Direct Lake
    warehouse statements -- WarehouseLineage; refreshes, notebooks -- LakeViews
    Copy activities, eventstreams, engines -- DeltaTable -- log --> readers above
    workspaces -- provision, rename, cascade --> entra (WorkspaceIdentity)
    clock endpoint -- moves time, evaluates schedules, drains queues

Each module sees its neighbours at the grain its own properties need:
`Schedules` and `EventTriggers` see `startJob` as a step that succeeds or fails,
`Jobs` sees a pipeline run as a thread that ends well or not, `PipelineRun` sees
the stream as what was flushed, `TableHistory` and `Reflection` have the Delta
log of their own. At that grain two modules share no variable. `Services` and `Content` compose the
ones that are proved about in one specification, with interleaved steps; as their
parts share nothing, what is proved of one carries over to the whole. For TLC, `MCServices`, `MCContent` and
`MCLiveness` do not multiply the parts: a behaviour is one of one part, chosen in
the initial state, and the parts' states add up. What crosses a boundary inside a
module is modelled there (a trigger's pipeline that writes a watched file, a
clock control under a waiting activity, an agent's report on a job).

## 2. Jobs

A step is what one thread does between two points at which another may see or
change the store. `pc[j]` is where the request thread of submission j is,
`dpc[d]` a thread in `DrainCapacityQueues`, `writer[j]` whoever reports the
outcome: the emulator's goroutine ("engine") or an external callback ("report").

| action | code |
|---|---|
| `Submit`, `AdmitCheck` | `startJob` up to taking `admitMu` and counting active jobs |
| `Insert`, `Enqueue`, `WriteRow` | the row, admitted or queued, and the unlock |
| `PublishStarted`, `Dispatch`, `AnnounceRefusal` | the rest of `startJob` |
| `DrainBegin` | `ListQueuedJobs`, outside the lock |
| `DrainCheck`, `DrainAdmit` | the loop body under `admitMu`, `AdmitQueuedJob` |
| `DrainPublish`, `DrainDispatch`, `DrainAnnounce`, `DrainEnd` | `dispatchExisting`, the end of the loop |
| `EngineReturns`, `ReportArrives` | a pipeline's or notebook's run detail saved |
| `Finalise`, `AnnounceOutcome` | `FinalizeJob`, `publishJobOutcome` |
| `Cancel`, `AdvanceClock`, `Restart` | `cancelJobInstance`, the clock, a crash: rows survive, threads do not |

Item types are five kinds by who may finish the job: `Clock` (virtual time),
`Pipeline` (DataPipeline and CopyJob), `Notebook`, `Refused` (its definition
does not parse or bind), `Dataflow` (nothing implements it, and it is not
parked). `Never` stands for `math.MaxInt64`. `JobBody` is what a client reads,
after `reconcileNotebookJobBody`.

Instances: `MCJobs` (a capacity of one slot, one without a ceiling, two
interchangeable drains) for the two findings, and `MCJobRuns`, whose run `jobs`
has two parts: *admission*, three jobs that contend for the slot and no agent,
and *outcomes*, two jobs of every engine kind, direct and queued, with an agent,
callbacks and a restart.

| run | question |
|---|---|
| `jobs` | ceilings, single dispatch, order and agreement of what is stored, run and announced |
| `jobs_fifo` | finding: admission is not FIFO |
| `jobs_cancel` | finding: a cancelled notebook can read Failed |
| `liveness` | `QueuedIsAdmitted`, `PipelineEnds` |

Why the bounds are enough: one slot with three jobs makes one job hold it, one
take it and one be passed over; two drains are what it takes to share a
snapshot; each kind is in some mix both directly admitted and queued; one second
of delay separates "before" and "after" completion; one cancel, callback or
restart puts it at every point of every other thread's progress. `Workloads`
fixes mixes of requests instead of all assignments to keep the state space small;
whether an agent is attached is part of the mix.

## 3. Schedules

One item and job type. Each client thread runs a request: `Create` and
`CreateInsert`, `PatchRead` and `PatchWrite` (outside `tickMu`, as in
`updateItemSchedule`), `Delete`, and the evaluation every request ends with:
`ListEnabled` (before the lock), `Lock` (reads the time once), `Evaluate` one
schedule (configuration as listed, mark as read again), `Start` or `StartFails`
per occurrence, `Mark`, `Finish`. `MoveClock` goes both ways; `Restart` drops
the threads. An occurrence is a second in a set that `Occurs` gives for a
configuration; `Window` is the half-open interval with the cap
(`MaxOccurrencesPerTick`). `series` counts configurations a row has had, so that
a re-created occurrence is not mistaken for a repeated one; it is auxiliary.

`services` checks `FiredOnce` and `NothingSkipped` with two
clients that create, PATCH, delete and evaluate a schedule at once, and one of a
PATCH, a failed start and a restart (the theorems are for any number of them); `liveness` checks `DueIsFired`;
`schedules_patch` (`MCSchedules`) is a finding.

`ScheduleCalendar` is the arithmetic below (`internal/schedule`): `Accepted` is
`validate`, `Occurrences` the window over a Cron's multiples or a calendar walked day
by day (`Walk`, `NextDay` is `AddDate(0, 0, 1)`), `Qualifies` the days of a week or
month, `Date` how Go turns a local time into an instant when the zone changes its
offset; `Create` ends with the first evaluation, `Evaluate` is any later one, at moments that come in every order.
`OccurrencesSound` (run `content`): however it is polled, the jobs come
in the order of time, each for a time on the schedule, one for each such time even
where the clock is set back (unless it has a fraction of a second: the mark is kept in
whole seconds, section 7), and none is lost that the mark has passed or a whole
window has held, but to the cap. What is meant is defined apart from the code, by
counting weekdays and reading the local clock (`Meant`). It leaves out schedules of
which a time or a midnight falls into a skipped hour (`Regular`; section 7).

Bounds: the calendar has three months of real length in units of a quarter of an hour. Only the start of
a schedule is finer than half an hour, which therefore stands for the second that
marks are kept in. Zones
east and west of UTC go forward, go back or stay; the cap is four, and a scan is
longer than the widest recurrence and shorter than the three months, as in the code.
What is fired again at every evaluation is fired again twice (`FewRepeats`).
In `Schedules`, three seconds and a cap of two make the cap bite; a configuration due
every second and one due once make a window with several occurrences, one and
none; two clients overlap in every way the lock leaves open.

## 4. The flow stream

`FlowLog` is the promise: events in the order of their `seq`; a connection
begins after the last id the client received, or as far back as the ring goes;
an event reaches a client at most once and in order, and only if the client was
already told of as many missed events as lie below it. `FlowBus` is the code,
and `ImplementsLog` says that it implements `FlowLog`; the abstract variables
(`log`, `got`, `lastId`, `from`, `told`) are what the process and the client
hold, carried along as auxiliary variables, so that the mapping is by name.

| action | code |
|---|---|
| `Publish`, `Send` | `publish`, split between the test of `stopped` and the send, the lock held across |
| `Take` | `runBus`; whether a table event is derived depends on the commit being still there |
| `Stamp`, `Offer`, `CountDrop` | `dispatch`: under the lock; a `select` per subscriber; the counter, a step later |
| `DispatcherEnds`, `Stop`, `CloseRaw`, `CloseReturns` | `bus.stop`, `Store.Close` |
| `Connect`, `TakeReplay`, `SendReplay` | `Subscribe`, then `Replay(Last-Event-ID)` |
| `Receive`, `Report`, `SendEvent`, `Tick` | the handler's loop |
| `Break` | the connection is lost at any point, and `sub.Close` |
| `Restart` | a new process: `seq` begins at 1, a client keeps its id |

Run `flow` checks `NoSendOnClosed`, the refinement `ImplementsLog`,
`GapSurfaces` and `CloseEnds`; `flow_resume` is the
finding that across a restart there is a gap.

`CountDrop` is a step of its own because it matters: a drop happens on a full
queue, so a later receive always reports it, *unless* the queue is emptied
between the failed offer and the counter. With the two in one step the
keepalive's report would be redundant; with them apart `GapSurfaces` needs it.

Bounds: three publications (up to six stamped events), queues and ring of two, a
subscriber queue of one: each of them overflows, the ring rolls between a break
and a resumption, and a drop falls before, between and after what is delivered.
One consumer is enough because consumers share only the bus mutex and the
dispatcher, whose offers never block; a filter that leaves file events out makes
the wanted seqs non-contiguous. Fairness: the dispatcher and the thread in
`Close` run on, the mutex is strongly fair, a handler goes on while its client
reads (a client that does not read and does not go away would block a write for
good), the ticker ticks; connecting is nobody's duty.

A frame the server wrote and the client never got is covered by `Break`: once a
connection is dead, what is still written to it changes nothing a client sees.

## 5. The other services

Each is a module of its own with its clients, checked in `services`; those with
something that must eventually happen also in `liveness`.

**PipelineRun** (`internal/pipeline`). One run is a stack of frames: the frame at
the end belongs to the activity being attempted. `Skip`, `Deactivated`, `Begin`,
`Unresolvable` are the scan of `runActivities`; `DepsReady`, `Satisfied`,
`ConditionMet` the conditions; `EndAttempt`, `Retry`, `Settle` are
`runWithPolicy` (a retry cuts the records and `emitted` back to the attempt's
start); `Enter`, `BranchEnds`, `ForEachTurns`, `UntilTurns`, `NextIteration`,
`FinishContainer` the containers; `FlushActivities` and `Finish` what the stream
and the client get. How an activity ends, which branch is taken and how many
items there are is a choice. `BranchesHonoured`: an activity ran, was skipped or
was given up as its conditions say; `VerdictsAgree`: containers and the run fail
exactly when something in them counts as failed (together `RunFollowsGraph`); `ReportComplete`: all that the
result says was announced; `RunEnds`. Bounds: 192 pipelines of three activities
at the top and two in the container, for each kind of container, conditions that
are absent, met, unmet, circular and outside the list, an inactive activity, and
a retry inside or at the container; loops of two. Two iterations show what one
leaves to the next; nesting repeats the same frame.

**WebhookPark** (`webhookactivity.go`, `clock`). `Called`, `Subscribe`, `Read`,
`Resume`, `Wake` are `parkUntil`'s loop; `Advance`, `SetOffset`, `Freeze`,
`Unfreeze` the controls, each of which closes the `Changed` channel; `Take` and
`Deliver` the callback's two steps. `ParkEnds`: once the clock stays past the
deadline, or a callback was accepted, the activity ends. The order Subscribe,
Read is what makes it hold; the mutant swaps them. Two receivers race for the one
token; two controls are what is needed to move the clock past a deadline and back.

**EventTriggers** (`triggers.go`, `store/events.go`). `ClientWrites`, `JobWrites`
emit an event on the writer's thread, which lists the triggers (`List`), and for
each enters the counter, fires and leaves (`Enter`, `Fire`, `Leave`) before it
returns. `CreateTrigger`, `ReadPatch`, `WritePatch`, `DeleteTrigger`,
`DeleteItem` come in between. `TriggersFire` holds: the counter is the number
of activations under way, and a write returns once its triggers fired; that a cycle is cut does not (`triggers_cycle`). Two triggers and two threads
with a cap of one: a second activation meets the cap, or comes after it.

**OneLake** (`store/onelake.go`, `onelake`). Paths are sequences of names;
`Create` (conditional or not), `AppendData`, `Rename`, `Delete` are the store's
transactions, `RmList`/`RmDelete` the two calls of a DFS removal, `PutBlock`,
`PutBlockList`, `WriteBlob`, `Copy` uploads with the stage's eviction.
`StorageSound`: of conditional creations one wins (`OneCommitWins`, the primitive
Delta's optimistic commits rest on), and the stage's counter is what it holds (`StageBounded`). Two clients, a path and
one below it, a stage with room for one chunk, so that every second block evicts.

**GitSync** (`git.go`, `store/git.go`). `Connect`, `Disconnect`, `Initialize`;
a commit is `Begin`, `ListForCommit`, `ReadDefinition` per item, `ReadLogical`,
`CommitTx`, `SetSynced`; an update `ListRemote`, `ListExisting`, `Apply` per
item, `DeleteExtra`, `ReadHead`, `SetSynced`. `SyncedAgrees` is for a request nobody interfered with (`quiet`), through
name conflicts and failures half way. Two instances: two callers on one name, and
one caller on two names that the database's index takes for one.

**Deployment** (`store/deployment.go`, `deploy.go`, `pairing.go`).
`BeginAssign` computes the pairs, `AssignTx` writes them; a deploy is
`DeployPaired`, `DeployClone`, `PairClone` item by item, with item requests,
unassignments and crashes between any two. `PairsCurrent` excludes the pairs of
a request that overlapped an assignment (`stale`): those can be wrong, as the
comment at `deploy.go:274-280` accepts; `DeployedAgrees` is for a deploy that was
`alone`, between two workspaces without such a pair. The same workspace on both
stages is not forbidden by the code, and with two callers, a rename and a `PairClone`
that comes late a stale pair then lies inside the source of a later deploy: the
attempt to prove the property without that condition showed it. Two stages, workspaces and names: a pair that is renamed on one side, a
name that exists on both sides unpaired.

**HCSessions** (`livy_hc.go`). `Acquire`, `Release`, `Submit` under the mutex;
`Teardown`, `Ensure`, `Mark`, `Register`, `Execute` follow in steps of their own.
`Teardown` is tried once and may fail; `Ensure` may open a session whose id it does
not learn; `Register` may fail too. `NoBackendLeft`: a REPL has one backend session at
most, and each belongs to a live REPL, but for one opened by a statement that was under
way when its REPL was released, one whose DELETE failed and one whose opening was
answered without an id (the last two are in `stray`; section 7). Two REPLs a group, two
callers, three acquisitions, or two where a session goes astray (`FewStrays`), one
answer without an id.

**TableHistory** (`warehouse/versioning.go`, `server/warehouseversioning.go`,
`tds/splice.go`, `tds/observe.go`, and `delta.go` for the log). A connection's
statement is accepted by the engine (`Write`, `DropTable`, `SpRename`); then its
observer works: `Snapshot` reads the table outside `versionMu`, `PutData` and
`PutCommit` write under it, `ExpireVersions` takes it again; `DropTableHistory`
and `RenameTableHistory` delete and move the folder. `Unobserved` is a client
that was gone when its answer came: the observer is never called. `Crash` stops
the emulator, not the engine. Contents and table objects are statement numbers.
`Answerable`: whatever is written, renamed, dropped or expired, and however far
the clock has gone on, every instant of the retention window has the files the
log names for it. `HistoryFollowsObject`, its companion in `HistorySound`: a history shows one table object, from
CREATE over renames to DROP, and its newest version is the table. It excludes
two kinds of names, recorded in auxiliary variables: `torn`, where statements on
a name overlapped or a DROP or rename went unobserved, and, for the newest
version only, `gap`, where a write was too large, unobserved or cut off. Three
statements on two names, a window of one second and a clock of three: a base
version, one inside the window and an expired one.

**Reflection** (`warehouse/reflect.go`, `server/warehouse.go`). A login is
`Connect`, `Lock` (the item's entry in its `Reflector`), `Ask` (`existingTables`,
which may not answer), `Fingerprint` per table, and `ReadDeltaTable`,
`DropReflected`, `CreateTable`, `BulkInsert`, `Record` for those that are not
skipped, then `Succeed`. `Fail` is an engine error, `LoginTimeout` the client's
patience, which the model lets end as soon as one table was loaded. `Commit` and
`LoseTables` happen at any time. Logins come through any number of Reflectors over the
same tables (`Uses`). `ReflectedIsSource`: a login that succeeds shows
for each table what it held when the login began, or later, except what
`FailedIsRetried`, section 7, is about (`half`), and a table that was being replaced while
a login of another Reflector was at work (`crossed`, what `LoginsQueue` is about): it is
excepted until a login that reads its newest commit loads it with no other replacing
it. `LoginsConverge`: a client whose attempts
are cut off gets in in the end, because what was loaded is remembered. Two clients with
a Reflector each on one table of two commits, with a failure; and two of one Reflector
on two tables of a commit each, which time out in its queue, with an engine that does
not answer once (more of each: the theorem, section 8). A fingerprint is a number of commits: a log that is
deleted and grown again is outside the model.

### What a workspace holds

The next six are parts of `MCContent`, run `content`; its seventh is the calendar of section 3.

**EndpointSecurity** (`server/onelakesync.go`, `warehouse.go`, `tds`), over
**OneLakePolicy** (`onelakesec/onelakesec.go`, `store/onelakesec.go`, `itemaccess.go`)
and **RowFilter** (`onelakesec/rowfilter.go`). `EvaluatableRoles` is what is certain in
stored roles, `Effective` their consolidation, with one operator per function of the
code; `Eval` is the evaluation of a filter in Go, `Sql` its rendering under SQL's own
three-valued logic. `PutRoles` replaces the roles, `Commit` grows a table. A connection
is `Decide` (its memberships), `Reflect` (changed tables are made anew, without grants
and policy), `ReadRoles`, `ReadEndpoint` (the batch and its hash, against the last),
`Apply` (one transaction), `Provision` (memberships), `Close`; `Fail` anywhere. `EndpointShows` is what the engine
gives a reader under its grants and the policy, `DirectLake` what
`secureDirectLakeTable` does of the same roles. `SecuritySound` is:

- `SurfacesAgree`: to a connection that overlapped no change of roles, the endpoint
  shows nothing that Direct Lake does not, and all of it once its sync is in force
  ("the two surfaces cannot disagree" in spite of consolidation here and role by role
  there, and of two implementations of filters). Five exceptions. One shows nothing
  where the other does: a filter outside the grammar, which one refuses and the other
  takes for no rows; a reader without the columns its table's policy reads, whom the
  engine refuses; a lakehouse without roles, of which a holder of ReadAll reads
  everything in Direct Lake and nothing at the endpoint; a Contributor in a role that
  filters, who is filtered at the endpoint and reads everything in Direct Lake. And a
  role that opens itself is not compared. The last three are in section 7.
- `SkippedIsInForce`: when the hash is the last one's, grants and policies are those
  the roles call for, also where reflection dropped some.
- `GrantsAccumulate`: what is shown under some roles is shown under more.
- `EntriesDecide`: the deepest entry answers for a target as a consolidation at the
  target itself would.

Two instances: one viewer under every set of at most three of 14 roles, one for each way a
rule may reach, narrow or fail to say anything certain, with a failing sync (the last two
properties are functions of the roles, and evaluated once per set); and a viewer and a
contributor whose connections overlap a change of roles and a commit.

**Folders** (`store/folders.go`, `api/folders.go`, `definitions.go`, `items.go`).
A request is a chain of steps, one per store call: `CreateFolder`,
`InsertFolder`; `UpdateFolder`, `WriteName`; `DeleteFolder`, `CountItems`,
`RemoveFolder`; `MoveFolder`, `Target`, `Walk` (once per ancestor), `Reparent`;
`MoveItem` and `BulkMoveItems` with `Look`, `Resolve` and `PlaceItem` per item.
`FoldersSound` has two halves: `Rooted` (no cycle, no lost parent), for behaviours
in which no two requests overlapped (`clean`), since with overlap it does not hold
(`folders_cycle`); and `BulkGoesThrough`, for a bulk move that was alone: it
resolves all its items before it moves the first, so that it fails with none moved. Two
instances: three folders and two names, so that a cycle may have three members;
two folders with two items, so that a bulk move can fail between its items.

**ItemNames** (`items.go`, `store/items.go`, `store/names.go`). `CheckHeld`,
`InsertItem`; `CheckTaken`, `RenameItem`; `DeleteItem`, `RemoveItem`, `HoldName`
(which stamps the name the handler read before the row went). `NamesHeldExactly`:
a deleted name waits for its time (while no name is held under two spellings, see
section 7) and no longer. Two
spellings of one name, three items, a time of two seconds and a clock of three:
an item is deleted, held, free, and deleted again under the other spelling.

**LakeViews** (`mlv.go`, `store/mlv.go`, `catalog` of a Spark session). A refresh
is `RefreshMLV`, `ReadVersion` per source, `Plan` (a session and its statement),
`ReadSource` per source and `Overwrite` by the engine, `Record`; `Fail` and
`Unheard` (the caller gave up, the statement goes on) end it elsewhere. Sources
gain commits at any time. `FreshIsCurrent`: whatever refreshes overlap or are
unheard, a view that a reader is told is fresh holds the rows of its query over
its sources as they are. Recording versions read *before* the query is what makes
it hold, as the comment in the code says; the mutant reads them afterwards. It
excludes a view replaced under a refresh (section 7). One source with two
commits: one before and one during a refresh; two views, so that one can take the
other's name; two clients.

**WorkspaceIdentity** (`identity.go`, `workspaces.go`, `store/identity.go`). Calls to entra
(`CreateIdentity`, `EraseIdentity`, `FollowName`) and to the store
(`SetWorkspaceIdentity`, `GrantAdmin`, `DeleteLink`, `RevokePrincipal`,
`WriteName`, `DropWorkspace`) are steps of their own, each of which may fail
(`Fail`, `Refuse`). `IdentityAgrees`: when nothing is under way, entra has exactly
what is linked and granted, unless a request was `tangled`, that is, overlapped
another or failed between the two systems. Requests one
after another, none failing, leave the identity with its workspace's name. Two
identities, two names, two renames, one failure.

**DeltaTable** (`warehouse/write.go`, `delta.go`, `store/onelake.go`). A writer of
the emulator looks the version up, replays the log if it overwrites (`List`,
`ReadCommit`), puts the part file and then the commit, both without a condition;
an engine (external) has files of its own and commits only onto the version it
planned for, or starts over; a reader lists, reads commit by commit and then file
by file. `TableIsAcked`: the table is what was acknowledged since the last
overwrite, with crashes between file and commit and a retry that takes the same
version. `ReadsVersion`: a reader returns the rows of the version it listed, while
others commit. Both exclude behaviours in which a writer of the emulator wrote
while it was not alone (`clean`), see section 7. Two writers, an engine, a
reader, three writes, one read, one crash. An engine never starts over with an
overwrite's removes of before: `EnginePlan` reads the log again, as Delta's
conflict rules for an overwrite demand.

**WarehouseLineage** (`server/warehouselineage.go`, `store/lineage.go`,
`tsql/dataflow.go`). The engine's objects and what their rows
were read from (`object`) are the truth; a connection executes a statement
(`CreateTable`, `InsertValues`, `CTAS`, `Insert`, `CreateView`, `Rename`, `Drop`),
and `Observe` later folds its flow into edges, views and announcements.
`LineageFollows`: a table has the edges of the tables its statements read, seen
through views, under its present name, through build-then-swap and the reuse of
names; nothing dropped has any; and it was announced under that name.
Excluded are statements observed out of order or not at all (`missed`, which may
happen among the first two; a behaviour is not followed beyond one), and views of before a restart (`forgot`, section 7). Three names are what a
build-then-swap takes (the new table, the old one, the name it goes to); with five statements a
table is built from a view over one that was swapped in; a lakehouse table is a
source that is no object of the warehouse.

## 6. Runs, bounds and fairness

| run | module | shows |
|---|---|---|
| `jobs` | `MCJobRuns` | section 2; 1.4 million states |
| `services` | `MCServices` | section 5 and schedules, every safety property; 0.90 million states over thirteen parts |
| `content` | `MCContent` | folders, item names, identity, lake views, Delta tables, lineage, the schedules' calendar; 0.76 million states over eight parts |
| `liveness` | `MCLiveness` | what must happen, in five parts; 34 thousand states |
| `flow` | `MCFlowBus` | section 4; 31 thousand states |
| `jobs_fifo`, `jobs_cancel`, `schedules_patch`, `flow_resume`, `triggers_cycle`, `folders_cycle`, `identity_rename` | | findings, section 7 |

The two clients of a part in `services` and `content` are interchangeable, and so
are the folders, the items and the names of tables where there are three, and the two
identities, hence a symmetry.
Type invariants are stated in `Jobs`, `Schedules`, `FlowBus` and `PipelineRun`
and checked for `Jobs`. Deadlock is not checked: every part stops when its
bounded supply of requests is used up.

Fairness (`JobsFair`, `SchedulesFair`, `ActivitiesFair`, and `FlowBus!Fairness`):

- every goroutine that can run does (weak fairness of its steps); a handler goes
  on while its client reads, a ticker ticks, an engine returns;
- a `sync.Mutex` hands itself to a waiter after a millisecond (starvation mode),
  so taking `admitMu`, `tickMu`, the bus's and an item's lock is strongly fair;
- some client keeps polling (`DrainBegin`, `ListEnabled`), as the design relies
  on ("the queue drains when somebody looks"); a client whose login fails logs in
  again (`Connect`);
- nobody has to submit, cancel, call back, or move the clock. Failures and losses
  are bounded, cut-off logins are not.

`DueIsFired` is checked over a shorter horizon than the safety properties, and
without a PATCH or restart; `LoginsConverge` with one client, one failure, one
loss of all tables and one unanswered question.

## 7. What disagrees with the text of the repository

1. **Admission is not FIFO** (`jobs_fifo`). `DrainCapacityQueues` passes over a
   job whose capacity is full and releases `admitMu` between jobs; a slot that
   comes free in between goes to a younger job. `docs/36-capacity-job-queueing.md:3-7`
   says FIFO.
2. **Cancelled does not override** (`jobs_cancel`). `reconcileNotebookJobBody`
   lets a failed run replace Cancelled; `internal/store/jobs.go:21-22` says
   Cancelled overrides everything.
3. **An occurrence can run twice** (`schedules_patch`). `updateItemSchedule`
   writes back the mark it read before an evaluation moved it;
   `internal/store/schedules.go:34-36` says no occurrence is ever run twice.
4. **A resumed stream can have a silent gap** (`flow_resume`). After a restart a
   client's Last-Event-ID is compared with the seqs of another process;
   `internal/server/events.go:128-129` says it resumes without a gap. Within one
   process the property holds (`ResumesWithinProcess`).
5. **A cycle of triggers is not cut** (`triggers_cycle`). The counter is left when
   `startJob` returns, before the pipeline's goroutine writes;
   `internal/api/triggers.go:270-271` says a cycle climbs to the cap.
6. **Two moves make a cycle** (`folders_cycle`). `MoveFolder` walks up from the
   target and reparents later, outside a transaction;
   `internal/store/folders.go:114-115` says such a move is a cycle and refused.
7. **A rename that failed is not repaired by its retry** (`identity_rename`). The
   name is written before entra is told, so the retry sees no rename;
   `docs/09-identity-handshake.md:46` says rename follows.

Further sentences of the repository that the modules contradict. Each is a
definition with that sentence in its comment; TLC refutes it when a configuration
of its module lists it, and the properties the runs check exclude the case:

- `StreamAgrees` (`PipelineRun`): a retried container's inner records were announced
  before they are thrown away; `internal/pipeline/pipeline.go:381-383` says stream
  and result agree.
- `FailedIsRetried` (`Reflection`): the record of an earlier load of the same log
  stays when a reload fails after CREATE TABLE, and the next login skips the empty
  table; `internal/warehouse/reflect.go:179` says it must be retried.
- `LoginsQueue` (`Reflection`): there are a Reflector for TDS, one for reads on a
  caller's behalf, and a fresh one per metadata refresh, each with a lock of its own;
  `internal/warehouse/reflect.go:97-99` says logins queue.
- `ItemsFallBack` (`Folders`): an item created between the count and the deletion
  of its folder keeps the id of a folder that is gone; `internal/store/db.go:108-110`
  says it falls back to the root.
- `ReservedWaits` (`ItemNames`): a name deleted under two spellings has two rows, and
  the check reads any one of them; `internal/store/items.go:123-124` says when a
  deleted name becomes free.
- `FreshIsExact` (`LakeViews`): a refresh is recorded by name, onto a view created
  meanwhile; `internal/api/mlv.go:246-247` says the worst case is a view reported
  stale too eagerly.
- `NoSelfEdge` (`WarehouseLineage`): a table built from `x` and renamed to `x` gets an
  edge from itself; `internal/server/warehouselineage.go:115` says that is not a
  movement worth drawing.
- `ViewsSeenThrough` (`WarehouseLineage`): views are remembered in memory, and after
  a restart taken for tables; `internal/server/warehouselineage.go:138-139` says a node
  for one would be a hop the data never took.
- `WritesLit` (`WarehouseLineage`): INSERT ... VALUES is not announced;
  `internal/server/warehouselineage.go:110-111` says it is.
- `CascadeComplete` (`WorkspaceIdentity`): a workspace deleted while its identity is
  provisioned leaves the identity in entra; `docs/09-identity-handshake.md:47` says
  delete cascades.
- `HoldsAcknowledged` (`DeltaTable`): `WriteDeltaTableAs` puts its commit without a
  condition under a version it looked up earlier, over an engine's;
  `internal/warehouse/write.go:28` says an append leaves earlier files active.
- `Once` (`ScheduleCalendar`) of a Cron that starts at a fraction of a second:
  `fireDue` marks the second of what it fired (`Unix()`), the newest occurrence is after
  it, and every evaluation starts it again. `internal/schedule/schedule.go:361-365` says
  never the same instant twice, `internal/store/schedules.go:34-36` that no occurrence
  is ever run twice.
- `InOrder` and `Once` (`ScheduleCalendar`), where a listed time or a midnight is one the
  clock jumps over: 02:00 in New York becomes 01:00, before the 01:30 that is listed
  ahead of it, and the mark, set to the one listed last, lets 01:30 fire again; 02:30
  and 01:30 become one instant, listed twice; and where days begin at one
  (Santiago) the walk comes through a day twice. `internal/schedule/schedule.go:361-365`
  says oldest first, and never the same instant twice.
- `OwnFieldsOnly` (`ScheduleCalendar`): a Monthly schedule may carry weekdays, a Cron
  an occurrence; `internal/schedule/schedule.go:249-251` says the wrong shape should fail.
- `EveryRoleAgrees` (`EndpointSecurity`): a role whose own rules narrow columns and open
  them again, beside a role that filters rows, is a combination that Direct Lake
  refuses; the endpoint evaluates each role alone, sees a role that narrows nothing,
  and shows the rows; `internal/server/onelakesync.go:474-475` says such a reader is
  shown no rows.
- `SurfacesEqual` (`EndpointSecurity`): of a lakehouse without roles Direct Lake shows a
  holder of ReadAll the whole table (`OneLakeReadAccess`), the endpoint nothing
  (`oneLakeGrant` gives it CONNECT and there is no role to be in); and a Contributor in a
  role that filters rows is filtered at the endpoint, whose predicate asks for
  membership only (`internal/server/onelakesync.go:152-155`), and reads everything in
  Direct Lake (`internal/api/directlake.go:123`). `internal/server/rowfilter.go:10-11` says
  of a filter both engines share that the two surfaces cannot disagree about it.

Seen while modelling, not stated as properties because no text promises better:

- jobs: a restart leaves parked jobs InProgress for good, holding their slot; a
  Dataflow can be read Completed before it fails; a cancel after the end turns
  Completed into Cancelled; an injected fault is not looked at when a notebook
  comes from the queue;
- schedules: a monthly schedule whose days are more than `maxScanDays` apart (a fifth Friday in
  February, 28 years) never gets past its mark;
  the number of schedules is counted before the insert; what was listed before a
  PATCH or DELETE still fires; a failed start gives the rest of the window up;
- flow: the raw queue's overflow is counted nowhere;
- storage: a rename of a path to itself deletes it; the `LIKE` that finds what is
  below a path also finds siblings that differ in case or where the name has `_`;
- webhooks: a callback answered 200 just when the wait ends is lost;
- git: logical ids are read outside the commit's transaction; the head is read
  after the items were applied; the connection row written back by a slow request
  undoes a disconnect; a clash of names by case stops an update half way;
- sessions: a backend session opened after its REPL was released stays open, and so
  does one whose DELETE failed (it is not tried again) or whose opening was answered
  without an id (the next statement opens another); a
  REPL is marked registered before its tables are;
- deployment: a crash or a failed pair insert strands a clone; assignments that
  race leave stale pairs;
- warehouse: two sessions' snapshots can be committed in the other order, so that
  the newest version is not the table; an unobserved DROP leaves its history to the
  next table of the name; a clock set back makes instants of the window
  unanswerable whose files have expired; a reader does not hold `versionMu`;
- endpoint: a mirror that rewrites commit 0, or a table deleted and written again
  with as many commits, keeps its fingerprint, so the stale copy stays; a table
  deleted from the lakehouse stays in the endpoint;
- folders: a folder deleted between the check of a target and the write leaves
  what was moved there below nothing;
- identities: deprovisioning that fails after entra's half fails at entra on every
  retry, and the workspace cannot be deleted any more; a PATCH of the description
  writes back the name it read, past a rename of another request;
- views: two refreshes share a session, which the first to end closes.

## 8. Proofs

TLC checks a few jobs, clients or views; the theorems below hold for any number
of them and for every value of the bounds. Each rests on an inductive invariant:
it is true at first, every step keeps it, and it implies the property. Most of
those invariants are stronger than the properties, because the properties alone
are not kept by a step; what had to be added is the argument, and is given here.

`JobsProofs`, for any finite set of jobs, any drains, capacities and ceilings:

- `TypeCorrect`: `[]TypeOK`. `TypeOK` is inductive together with `RowsInv`: a
  thread past the insert works on a row that exists, and a job without a row has
  left no trace.
- `CeilingIsRespected`: `[]CapacityRespected`. The strengthening is `LockInv`: a
  thread between its count and its write holds `admitMu` and the slot it saw is
  still free. The cardinality lemmas (`OneMoreFits`, `SlotsStayFree`,
  `CeilingsHold`) say what one more active job, or none, does to the count; every
  action either makes no further job active or is one of the two (`Insert`,
  `DrainAdmit`) that hold the lock.
- `NothingStartsTwice`, `QueuedHasNoTrace`, `StartsBeforeItEnds`: from `StartInv`
  (whoever is about to publish Started for a job is alone in that, and the job is
  not queued), `OrderInv` (what follows a Started event follows it) and `QueueInv`
  (a queued job is complete and untouched). They go together: that a drain is the
  only one to start a job rests on its having taken the job out of the queue, and
  that on the request thread being done with a queued one.
- `GreenJobsRan`, `AnnouncedIsStatus`, `SlotsAreHeldForAReason`, `VerdictsStand`
  are about how a job ends, and share `EndInv`. Its parts: `DispatchInv` (a
  dispatch, and the announcement of a failure that it settles itself, belong to
  one thread, and the job has no goroutine yet); `ParkedInv` (a parked row keeps
  the completion time `Never` until its goroutine finalises it, unless an external
  engine reported); `OutcomeInv` (what was announced, or is about to be, is what
  the row says); `GreenInv` (no row is due to read Completed of a pipeline whose
  run did not end well, or of a notebook nothing has run); `SlotInv` (short of a
  restart, someone is on the way to finish what holds a slot). `VerdictsStand` is
  an action property: it follows from the invariant in the state before the step,
  action by action (`NextKeepsVerdicts`). `SlotsAreHeldForAReason` is
  `NoOrphanedSlot`.

`SchedulesProofs`, for any schedules, clients, calendars, cap and bounds:

- `FiresOnce`: `[]FiredOnce`. What an evaluation still has to start lies between
  the mark of the row and the mark it will write (`StartInv`), and what has
  started is behind the one or behind the other and no longer due (`OnlyBehind`).
  That this survives evaluations that overlap needs `MutexInv` and `HoldInv`
  (`tickMu` has one holder, who alone works on a target), and `ListInv`: a list,
  however old, has the configuration of a schedule left alone, and a mark that has
  not fallen since. It is the lemma `OpensAtMark` where the mark is read again
  under the lock.
- `NoneSkipped`: `[]NothingSkipped`. An occurrence behind the mark being worked
  towards has started, is due, or is overtaken by `MaxPerTick` of those
  (`NoneMissed`); `WindowKeepsNewest` says so of the window an evaluation opens,
  and a start moves one from due to started. A restart forgets the due ones before
  the mark is written.
- `TypeCorrect`: `[]TypeOK`.

`FlowBusProofs`, for any publishers, clients, filters and sizes:

- `NeverSendsOnClosed`, from `LockInv` (a publisher past the test of `stopped`
  holds the mutex and the flag is not set). The proof is the argument of the
  comment in `publish`: `stop` needs the lock to set the flag.
- `StreamKept`: `[]StreamInv`. The ring is the end of the log (`RingInv`), and of
  each connection: what its handler holds at each step (`IdleInv`); that what is
  in hand, queued and offered is in order (`OrderInv`); that what was received is
  behind what is coming, but for what the replay covered (`GotInv`); that the
  replay goes on without leaving anything out (`ReplayInv`); and that what is
  missed is counted by `told` plus `dropped`, and below an event about to be sent
  by `told` alone (`MissedInv`).
- `StreamImplementsLog`: `Spec => ImplementsLog`, the refinement of `FlowLog`. The
  mapping is the one `FlowBus` instantiates `FlowLog` with: `Stamp` is the
  abstract `Emit`, `TakeReplay` is `Resume`, an event sent from the replay or the
  queue is `Deliver` (or invisible, when it was sent before), a report of drops is
  `Notify`, a restart is `Restart`, and every other step stutters. That `Deliver`
  is allowed, in order, once, with every hole below it told, is `StreamInv`.

`ContentProofs`, of what a workspace holds, for any clients (the composition is
`Content`):

- `FreshViewsAreCurrent`, and `FreshAmongOthers` of the composition:
  `[]FreshIsCurrent`, for any sources. `OrderInv` follows the
  order in which a refresh reads: versions are noted before the engine reads the
  sources, and the table is overwritten by one that read them no earlier than the
  last; so the versions of a row never exceed what the rows were computed from, nor
  that the sources. A view is fresh when the first equal the last, and then the
  middle is the same. `OwnInv` adds that each refresh is of the view there is, while
  no view was deleted under one.
- `NamesAreHeld`: `NamesHeldExactly`, an action property, for any names, items and time
  that a name is held. Until two requests overlap, one is under way at most, so a
  deletion holds the name that its item had to the end (`NameRead`) and the stored
  rows are the deletions answered (`RowsKept`). A name that was found free stays free
  until its item is there (`NameFree`): this takes that differing in case only is
  transitive, which is in `NamesAssumption`, since two spellings of a row could else
  hide each other.
- `HandshakeKept`: `[]IdentityAgrees`, for any identities, names and failures.
  `Handled`: until requests are tangled, one at a time deals with the identity, entra
  has what is linked and granted when none does, and else just what the steps before
  the one it is at have made of it (`Midway`). For the name, requests one after
  another are followed through the rename too (`IdentityNames`).
- `FoldersAreTrees`: `[]FoldersSound`, for any number of folders, names and items.
  `FoldersInv` is what a lone request is sure of when it comes to write: a
  creation, that its parent is there; a deletion, that nothing is below; a
  move, that the folders it has walked hold the way from the target up to where it is,
  and not the folder it moves, hence, at the root, that the target is `RootedAway`
  from it; a bulk move, that what is left of its items is there, and that none is
  left to ask about once the first has moved.
- `TableIsWhatWasAcknowledged`: `[]TableIsAcked`, and `ReadersGetOneVersion`:
  `[]ReadsVersion`, for any writers, engines, readers, writes and crashes. While every
  write of the emulator was that of a lone writer, the version it looked up is still the
  next one, and what it is going to remove is all that is active (`Lone`); an engine's
  plan is either that too or out of date, and then not committed (`Planned`). A
  commit adds a path that no earlier one names, and the rows at it are those of one
  write (`Stored`, `Owned`, `Apart`), so that the files of a version that was listed stay
  as they are while others commit. A replay holds what was active after the commits it
  has read (`TableReading`).
  What is active is a recursive function of the length of the log, and that a longer
  log has the same value at a shorter length takes induction. The theorems of the
  library that offer it have an operator for a parameter; the lemma `Induction` says it
  with a set instead (a set of numbers with 0 and with the successor of each of its
  members holds them all), and is proved by the pigeonhole principle.
- `GraphFollowsBuilds`: `[]LineageFollows`, for any names, sessions and statements. The
  property is about states in which nothing is left to observe; `GraphFollows` says
  what holds in the others, until a flow is missed. The flows under way are about names
  that no other one changes (`FlowsApart`). A name that none changes has the edges due,
  is known as a view if it is one, and was announced (`GraphRight`). For a flow under
  way, what its observation will add, move or take away makes its names right
  (`FlowPending`). That the sources the observer sees are those the engine read
  takes that no view selects from another, which is why `Nested` sets `missed`.

A lemma (`EachHoldsAsAlone`) carries the theorems of the six parts over to `Content`. They
share no variable, so it says nothing of the code.

`ServicesProofs`, of what runs beside it, for any callers (the composition is
`Services`):

- `SessionsAreClosed`: `[]NoBackendLeft`, for any tags and number of REPLs, DELETEs that
  fail and answers without an id. It is
  inductive with the types of REPLs and requests and with `UnderWay`: a statement
  about to open a backend session is for a REPL that is there, or that was released
  under it.
- `LoginsShowTheLake`: `[]ReflectedIsSource`, for any tables, logins and Reflectors. Two
  Reflectors have a lock and a memory each, and one can undo in the engine what the
  other remembers; the invariant is about the tables where this has not happened.
  `ReflectionInv`: a login past its lock holds it (`Locked`), so who replaces a table
  has no other login at work, or the table is crossed (`AloneOrCrossed`); sources only
  grow (`Appended`); the copy of a table that is not crossed is no older than any
  fingerprint remembered for it, or lost, or being loaded, or half loaded and then
  behind its source (`Copied`); what the engine said it had is there until it is dropped
  (`StillThere`); the tables a login is done with show at least what the sources
  had when it began (`DoneTables`), and the one in hand is on the way
  (`TableInHand`). A table stops being crossed when a login that read its newest commit
  loads it with no other replacing it: then every memory of it is of that commit or
  before (`Settled`).
- `HistoryIsOfItsTable`: `[]HistorySound`, for any names, connections, retention,
  statements and crashes. Commits are dated in order and each adds the file of its
  version and removes the one before (`InOrder`), so that what is live after k
  commits is the last file (a recursion over k: by `Induction`, as in
  `ContentProofs`). The files from the base on are there (`WindowKept`): what expires
  was removed before the base, which only grows with the clock and the log. An
  observer between its file and its commit holds the lock (`DataUnderLock`), so no
  other takes its version. `ObjectInv`: a name that is not torn has one statement
  under way at most. When it has none its history is that of its table
  (`HistorySettled`), and when it has one, what the observer is about to write or move
  makes it so (`Writing`, `Renaming`).
- `CommitsHold`: `[]StorageSound`, for any paths, blocks and clients. `OneCommitWins` is
  inductive by itself: a conditional creation writes only where nothing is stored. For
  the stage, `StageInv`: each blob with blocks is once in the order of age, and the
  count is that of the pairs of blob and block, which are finitely many. An eviction
  takes the shortest run of oldest blobs that makes the stage fit, or all but the one
  being written (`EvictedIs`). What is left of a sequence without some of its blobs is a
  recursion over its length (`RemainingIs`, by `Induction`).

A lemma (`EachRunsAsAlone`) carries the theorems of a part over to `Services`, whose seven
parts share no variable, and with them those of the next modules:
`WritesFireTheirTriggers`, `SyncedWorkspaceIsBranch`, `PairsJoinAssigned` and
`DeployLeavesPartners`.

`DeploymentProofs`, for any workspaces, items, names and callers:

- `PairsAreCurrent`: `[]PairsCurrent`. A pair stored, or held by a request that is
  steady (no assignment came in between), joins an item of each of the workspaces
  that the two stages have now; an assignment replaces the stored ones together
  with the workspace, and leaves no other request steady.
- `DeploysAgree`: `[]DeployedAgrees`. `WorkInv`: what a lone deploy took is still
  in its source, and each item of it is still to do, or has a partner of the same
  content, or is the one whose clone is not paired yet (`DoneBut`).

`GitSyncProofs`, for any workspaces, callers, names and versions:

- `SyncedMeansEqual`: `[]SyncedAgrees`. `QuietInv` says what a request nobody
  interfered with knows at each step: a commit, the definitions of the items it is
  done with (`ReadAll`), hence that the branch it writes is the workspace; an
  update, that every name it is done with is an item with the branch's definition
  and that every other item is of the branch or about to be deleted (`AppliedAll`).
  That what it read is not out of date needs the items of a workspace to have one
  name each (`ItemsInv`). A step that changes items or the branch leaves nobody else
  quiet (`Disturbing`), a step that changes neither disturbs no one
  (`Undisturbing`), and a failure ends the request (`Ends`).

`EventTriggersProofs`, for any triggers, items, threads and cap:

- `TriggersHaveFired`: `[]TriggersFire`. `Fine` says how far a dispatch has come: a
  trigger that is sure to match is still stored and matching, or listed and to be
  entered, or being fired, or its job is there; a change or deletion of a trigger
  takes it out of what running dispatches are sure of (`UnsureFine`). `CountInv` is
  the count: the threads between `enter` and `leave` of a trigger are finitely many,
  as many as its counter says, and no more than the cap; only `EnterCounts` and
  `LeaveCounts` change it, and every way out of `Fire` passes through `Leave`. That
  an event is the one its dispatch began with needs `StoreInv`: events are only
  ever appended.

The assumptions are those the modules state. `JobsAssumption` and
`FlowBusAssumption` are ASSUMEs: finite set of jobs, natural bounds, thread names
that do not clash. The other modules state theirs as definitions, which
the theorems name (`ASSUME SchedulesAssumption PROVE ...`) and which `MCServices` and `MCContent`
assume together for their instances, so that TLC evaluates them all.
`HCSessions`, `GitSync` and `DeltaTable` need none for their theorems.

The invariants of `Jobs`, `LakeViews`, `HCSessions`, `GitSync`, `EventTriggers`,
`Deployment` and `WorkspaceIdentity` were checked by TLC on small instances before
they were proved.

Only model-checked, and why:

- all liveness (`liveness`, `GapSurfaces`, `CloseEnds`): fairness and ENABLED are
  outside what the prover does;
- `RowFilter` and what rests on it (`EndpointSecurity`, hence `SecuritySound`):
  the tree of a filter is walked by RECURSIVE operators, the only ones there are;
- properties of what a recursion over sequences computes: roles in `OneLakePolicy`, frames in `PipelineRun` (`RunFollowsGraph`,
  `ReportComplete`), calendar walks in `ScheduleCalendar` (`OccurrencesSound`). Where the
  recursion is a function of a number, `Induction` would do as it does for Delta tables;
  where it is a fold over a set or a sequence, each would take lemmas about the fold of
  the community modules first.

Next: `ReportComplete` and `RunFollowsGraph`. A record of an activity of the pipeline itself
is never discarded, and the frame at the bottom of the stack agrees with those records.

## 9. Not modelled, and why

- Jobs: a definition edited while its job waits (the kind is fixed at
  submission; the code parses it again when it dispatches); a workspace moved to
  another capacity; item deletion; the clock set back (it is in `Schedules` and
  `WebhookPark`); sessions, parameters, cells and lineage of a notebook run.
- Schedules: JSON and names of zones; deletion of the item. `Schedules` counts in whole
  seconds, `ScheduleCalendar` in less.
- Flow: what events say; kinds beyond file, table and one other; `?since=` given
  by hand; a second concurrent `Close`.
- Pipelines: expressions, variables and what leaf activities do; only whether they
  end well. The connection from a run to its job is the `Jobs` action
  `EngineReturns`.
- OneLake: shortcuts, access rules, listing pages. Deployment: history of deploys
  and the pipelines' own CRUD. Livy: ordinary sessions and batches.
- Warehouse: the TDS wire, dialect fixes, type conversion, SQL Database mirrors,
  shortcuts that are blocked or external (a blocked one
  is a view that is made anew like a table); several statements in one batch,
  which the observer treats one after the other; schemas other than `dbo`, which
  are not versioned.
- OneLake security: text with its collation and dates in filters, and the grammar
  (a filter is a tree, or not of the grammar, and then it is refused before it names
  a column the table has not); shortcut tables and the roles of their
  sources; the switch between the endpoint's modes; a principal whose access to the
  item changes; what DFS and Blob refuse (they ask the same two questions).
- Long-running operations: the row is written once and its status is a function of
  the clock; there is no second step.
- Workspaces, roles, capacities, domains, typed item properties and definitions:
  one transaction per request, over rows that no other actor caches.
- Lake views: sources that are dropped and created anew. Lineage: the tokenizer
  (the flow it yields is modelled), joins and subqueries of more than two sources,
  statements in one batch. Delta tables: partitions, checkpoints, deletion vectors,
  ALTER TABLE, the encoding of rows.
- Eventstreams: each request is an insertion and an append of a Delta table, whose
  write is in `DeltaTable`.
- Semantic models, XMLA, T-SQL, KQL, connectors, Purview, signatures: sequential
  translation and evaluation over data. Their correctness is that of functions on
  unbounded text and tables, which a model checker would only sample, as the
  repository's tests do.
- Authentication: what tokens say is data; no protocol state is kept.
- Portal, Python engines, end-to-end suites: clients and harnesses.

## 10. Plan

The modules planned are written. What is left, in order: the theorems named at
the end of section 8; an abstract job (submitted,
queued, running, ended, cancelled) that `Jobs` implements; and `Schedules` with
`Jobs` under one clock.
