-------------------------------- MODULE Jobs --------------------------------
(***************************************************************************)
(* The item-job lifecycle: a job instance is submitted, admitted into a    *)
(* capacity slot, queued or refused, dispatched to whatever executes it,   *)
(* finalised and announced (internal/api/jobs.go, internal/store/jobs.go). *)
(*                                                                         *)
(* Threads of control: one request thread per submitted job (startJob),    *)
(* the threads that run DrainCapacityQueues, one engine goroutine per job  *)
(* that has one, the external notebook callback, and clients that cancel.  *)
(* A step of this module is what one thread does between two points at     *)
(* which another may see or change the store.                              *)
(***************************************************************************)
EXTENDS Naturals, FiniteSets

CONSTANTS
  Job,                \* job instances that may be submitted
  Drainer,            \* threads that can be inside DrainCapacityQueues
  Capacity,           \* the capacities workspaces are assigned to
  MaxConcurrentJobs,  \* capacity -> ceiling; 0 means unlimited
  Workloads,          \* the assignments of a request to each job to explore
  LRODelay,           \* completion delay of a clock-derived job, in seconds
  Nobody              \* no thread, no job

CONSTANTS             \* bounds of the model
  Horizon,            \* the last second the clock reaches
  MaxReports,         \* callbacks an external engine posts per job
  MaxCancels,         \* jobs that are cancelled
  MaxRestarts         \* process restarts

(***************************************************************************)
(* What a job runs decides who may finish it:                              *)
(*   Clock     no engine: virtual time finishes it (most item types, and a *)
(*             notebook with no code cells)                                *)
(*   Pipeline  DataPipeline and CopyJob: a goroutine of the emulator       *)
(*   Notebook  RunNotebook with cells: the driving goroutine if an agent   *)
(*             is attached, and an external engine's callback in any case  *)
(*   Refused   RunNotebook whose definition does not parse or bind: fails  *)
(*             when it is dispatched                                       *)
(*   Dataflow  Refresh/Publish of a Dataflow: no engine implements it      *)
(***************************************************************************)
Kind == {"Clock", "Pipeline", "Notebook", "Refused", "Dataflow"}

\* "agent": whether a Spark agent is attached (runsNotebooksItself); to the
\* process, so that it is the same for all the jobs of a workload.
Request == [kind : Kind, invoke : {"Manual", "Background"},
            capacity : Capacity, fault : BOOLEAN, agent : BOOLEAN]

ASSUME JobsAssumption ==
  /\ IsFiniteSet(Job)
  /\ Job \cap Drainer = {} /\ Nobody \notin Job \cup Drainer
  /\ MaxConcurrentJobs \in [Capacity -> Nat]
  /\ Workloads \subseteq [Job -> Request]
  /\ \A w \in Workloads : \A i, j \in Job : w[i].agent = w[j].agent
  /\ LRODelay \in Nat /\ Horizon \in Nat
  /\ MaxReports \in Nat /\ MaxCancels \in Nat /\ MaxRestarts \in Nat

VARIABLES
  now,        \* the emulator's clock
  want,       \* what each job's submission asks for; fixed by Init
  pc,         \* job -> where its request thread is
  due,        \* job -> completion time computed before admission, 0 when used
  admitMu,    \* holder of the admission mutex
  rowid,      \* job -> insertion order of its row; 0 while it has none
  completeAt, \* job -> complete_at
  queued,     \* rows with queued = 1
  cancelled,  \* rows with cancelled = 1
  failed,     \* rows whose fail_with is not empty
  run,        \* job -> status of its pipeline or notebook run detail
  writer,     \* job -> who reports its outcome -> where that thread is
  code,       \* job -> who -> it is about to finalise the job as failed
  reports,    \* job -> callbacks accepted so far
  dpc,        \* drainer -> where it is
  todo,       \* drainer -> rest of its ListQueuedJobs snapshot
  cur,        \* drainer -> the job it is admitting
  starts,     \* job -> Started events published for it
  verdicts,   \* job -> terminal statuses announced for it
  restarts

rowVars    == <<rowid, completeAt, queued, cancelled, failed, run>>
threadVars == <<pc, due, admitMu>>
drainVars  == <<dpc, todo, cur>>
engineVars == <<writer, code, reports>>
flowVars   == <<starts, verdicts>>
vars == <<now, want, threadVars, rowVars, engineVars, drainVars, flowVars,
          restarts>>

-----------------------------------------------------------------------------
\* Who reports an outcome: the emulator's goroutine, or an external engine's
\* callback (reportNotebookRun).
Who == {"engine", "report"}

\* math.MaxInt64, the completion time of a parked job: no clock value reaches it.
Never == Horizon + LRODelay + 1

Created == {j \in Job : rowid[j] > 0}

\* Jobs whose completion an engine decides, so that the clock may not.
Parked(j) == want[j].kind \in {"Pipeline", "Notebook"}

\* JobInstance.StatusAt; NotStarted (the very second of creation) is read as
\* InProgress, which no property here tells apart from it.
StatusAt(j) ==
  CASE j \in cancelled      -> "Cancelled"
    [] j \notin cancelled /\ j \in queued -> "Queued"
    [] j \notin cancelled /\ j \notin queued /\ now < completeAt[j] -> "InProgress"
    [] OTHER -> IF j \in failed THEN "Failed" ELSE "Completed"

\* jobBody: the status a client reads. reconcileNotebookJobBody lets the run
\* detail of a notebook override the row.
JobBody(j) ==
  IF want[j].kind \in {"Notebook", "Refused"} /\ run[j] = "failed" THEN "Failed"
  ELSE IF /\ want[j].kind \in {"Notebook", "Refused"}
          /\ run[j] = "open" /\ StatusAt(j) = "Completed"
  THEN "InProgress"
  ELSE StatusAt(j)

\* Mutant: the count without its "j.queued = 0".
ActiveOrQueued(c) ==
  {j \in Created : /\ want[j].capacity = c /\ j \notin cancelled
                   /\ completeAt[j] > now}

\* CountActiveJobsOnCapacity, as the set it counts.
Active(c) ==
  {j \in Created : /\ want[j].capacity = c
                   /\ j \notin queued /\ j \notin cancelled
                   /\ completeAt[j] > now}

\* Mutant: n <= MaxConcurrentJobs.
HasSlotOffByOne(c) == \/ MaxConcurrentJobs[c] = 0
                      \/ Cardinality(Active(c)) <= MaxConcurrentJobs[c]

\* capacityAdmissionLocked / capacityHasSlot.
HasSlot(c) == \/ MaxConcurrentJobs[c] = 0
              \/ Cardinality(Active(c)) < MaxConcurrentJobs[c]

\* Mutants: the delay is added to MaxInt64; pipelines are not parked.
StartCompleteAtOverflow(j) ==
  IF Parked(j) THEN Never + LRODelay ELSE now + LRODelay
StartCompleteAtByClock(j) == now + LRODelay

\* The completion time startJob computes on entry, before the admission lock.
StartCompleteAt(j) == IF Parked(j) THEN Never ELSE now + LRODelay

\* Mutant: a queued engine job comes back on the clock.
QueuedCompleteAtByClock(j) == now + LRODelay

\* queuedCompleteAt, evaluated under the lock at admission.
QueuedCompleteAt(j) == IF Parked(j) THEN Never ELSE now + LRODelay

-----------------------------------------------------------------------------
Init ==
  /\ now = 0
  /\ want \in Workloads
  /\ pc = [j \in Job |-> "idle"]
  /\ due = [j \in Job |-> 0]
  /\ admitMu = Nobody
  /\ rowid = [j \in Job |-> 0]
  /\ completeAt = [j \in Job |-> 0]
  /\ queued = {} /\ cancelled = {} /\ failed = {}
  /\ run = [j \in Job |-> "none"]
  /\ writer = [j \in Job |-> [w \in Who |-> "none"]]
  /\ code = [j \in Job |-> [w \in Who |-> FALSE]]
  /\ reports = [j \in Job |-> 0]
  /\ dpc = [d \in Drainer |-> "idle"]
  /\ todo = [d \in Drainer |-> {}]
  /\ cur = [d \in Drainer |-> Nobody]
  /\ starts = [j \in Job |-> 0]
  /\ verdicts = [j \in Job |-> {}]
  /\ restarts = 0

-----------------------------------------------------------------------------
(***************************************************************************)
(* startJob, the request thread of job j.                                  *)
(***************************************************************************)
Submit(j) ==
  /\ pc[j] = "idle"
  /\ pc' = [pc EXCEPT ![j] = "admit"]
  /\ due' = [due EXCEPT ![j] = StartCompleteAt(j)]
  /\ UNCHANGED <<now, want, admitMu, rowVars, engineVars, drainVars, flowVars,
                 restarts>>

\* Take admitMu and count: a manual job on a full capacity is refused (430), a
\* background one will be queued. The lock is kept until the row is written.
AdmitCheck(j) ==
  /\ pc[j] = "admit" /\ admitMu = Nobody
  /\ \/ /\ HasSlot(want[j].capacity)
        /\ pc' = [pc EXCEPT ![j] = "insert"]
        /\ admitMu' = j
     \/ /\ ~HasSlot(want[j].capacity) /\ want[j].invoke = "Manual"
        /\ pc' = [pc EXCEPT ![j] = "refused"]
        /\ UNCHANGED admitMu
     \/ /\ ~HasSlot(want[j].capacity) /\ want[j].invoke # "Manual"
        /\ pc' = [pc EXCEPT ![j] = "enqueue"]
        /\ admitMu' = j
  /\ UNCHANGED <<now, want, due, rowVars, engineVars, drainVars, flowVars,
                 restarts>>

Unlock == admitMu' = Nobody

\* createJobInstance: the row and, for a pipeline, its run detail in the same
\* transaction. FailWith is already set for an injected fault and for a
\* notebook that did not parse.
WriteRow(j, at, runDetail) ==
  /\ rowid' = [rowid EXCEPT ![j] = Cardinality(Created) + 1]
  /\ completeAt' = [completeAt EXCEPT ![j] = at]
  /\ failed' = IF want[j].fault \/ want[j].kind = "Refused"
               THEN failed \cup {j} ELSE failed
  /\ run' = IF want[j].kind = "Pipeline"
            THEN [run EXCEPT ![j] = runDetail] ELSE run
  /\ due' = [due EXCEPT ![j] = 0]
  /\ Unlock
  /\ UNCHANGED <<now, want, cancelled, engineVars, drainVars, flowVars, restarts>>

\* Mutant: the Started event is not published.
InsertUnannounced(j) ==
  /\ pc[j] = "insert"
  /\ pc' = [pc EXCEPT ![j] = "dispatch"]
  /\ UNCHANGED queued
  /\ WriteRow(j, due[j], "open")

Insert(j) ==
  /\ pc[j] = "insert"
  /\ pc' = [pc EXCEPT ![j] = "publish"]
  /\ UNCHANGED queued
  /\ WriteRow(j, due[j], "open")

\* Mutant: the queue branch does not return.
EnqueueFallsThrough(j) ==
  /\ pc[j] = "enqueue"
  /\ pc' = [pc EXCEPT ![j] = "publish"]
  /\ queued' = queued \cup {j}
  /\ WriteRow(j, Never, "queued")

Enqueue(j) ==
  /\ pc[j] = "enqueue"
  /\ pc' = [pc EXCEPT ![j] = "done"]
  /\ queued' = queued \cup {j}
  /\ WriteRow(j, Never, "queued")

PublishStarted(j) ==
  /\ pc[j] = "publish"
  /\ pc' = [pc EXCEPT ![j] = "dispatch"]
  /\ starts' = [starts EXCEPT ![j] = @ + 1]
  /\ UNCHANGED <<now, want, due, admitMu, rowVars, engineVars, drainVars,
                 verdicts, restarts>>

\* Mutant: a success does not clear fail_with.
FinalizeJobKeepsCode(j, fails) ==
  /\ completeAt' = [completeAt EXCEPT ![j] = now]
  /\ failed' = IF fails THEN failed \cup {j} ELSE failed

\* Store.FinalizeJob: terminal now, whatever the row said before.
FinalizeJob(j, fails) ==
  /\ completeAt' = [completeAt EXCEPT ![j] = now]
  /\ failed' = IF fails THEN failed \cup {j} ELSE failed \ {j}

\* The kinds that dispatch settles at once: the run detail it records.
RefusedRun(j) == IF want[j].kind = "Refused" THEN {"open", "failed"} ELSE {run[j]}

\* What is left of startJob after the Started event, by kind. A fault injected
\* into a notebook fails it here; one injected into a pipeline is applied by
\* the goroutine when the pipeline returns.
Dispatch(j) ==
  /\ pc[j] = "dispatch"
  /\ \/ /\ want[j].kind = "Clock"
        /\ pc' = [pc EXCEPT ![j] = "done"]
        /\ UNCHANGED <<run, writer, completeAt, failed>>
     \/ /\ want[j].kind = "Pipeline"
        /\ pc' = [pc EXCEPT ![j] = "done"]
        /\ writer' = [writer EXCEPT ![j]["engine"] = "running"]
        /\ UNCHANGED <<run, completeAt, failed>>
     \/ /\ want[j].kind = "Notebook" /\ want[j].fault
        /\ run' = [run EXCEPT ![j] = "open"]
        /\ FinalizeJob(j, TRUE)
        /\ pc' = [pc EXCEPT ![j] = "announce"]
        /\ UNCHANGED writer
     \/ /\ want[j].kind = "Notebook" /\ ~want[j].fault
        /\ run' = [run EXCEPT ![j] = "open"]
        /\ pc' = [pc EXCEPT ![j] = "done"]
        /\ writer' = IF want[j].agent
                     THEN [writer EXCEPT ![j]["engine"] = "running"] ELSE writer
        /\ UNCHANGED <<completeAt, failed>>
     \/ /\ want[j].kind \in {"Refused", "Dataflow"}
        /\ \E r \in RefusedRun(j) : run' = [run EXCEPT ![j] = r]
        /\ FinalizeJob(j, TRUE)
        /\ pc' = [pc EXCEPT ![j] = "announce"]
        /\ UNCHANGED writer
  /\ UNCHANGED <<now, want, due, admitMu, rowid, queued, cancelled, code, reports,
                 drainVars, flowVars, restarts>>

\* The deferred announcement of an outcome startJob settled itself.
AnnounceRefusal(j) ==
  /\ pc[j] = "announce"
  /\ pc' = [pc EXCEPT ![j] = "done"]
  /\ verdicts' = [verdicts EXCEPT ![j] = @ \cup {"Failed"}]
  /\ UNCHANGED <<now, want, due, admitMu, rowVars, engineVars, drainVars, starts,
                 restarts>>

-----------------------------------------------------------------------------
(***************************************************************************)
(* DrainCapacityQueues, on the clock endpoint and on List Item Job         *)
(* Instances: thread d walks a snapshot of the queue, oldest first.        *)
(***************************************************************************)
\* ListQueuedJobs, read outside the lock. An empty list ends the drain at once.
DrainBegin(d) ==
  /\ dpc[d] = "idle"
  /\ queued \ cancelled # {}
  /\ todo' = [todo EXCEPT ![d] = queued \ cancelled]
  /\ dpc' = [dpc EXCEPT ![d] = "loop"]
  /\ UNCHANGED <<now, want, threadVars, rowVars, engineVars, cur, flowVars,
                 restarts>>

Oldest(S) == {j \in S : \A k \in S : rowid[j] <= rowid[k]}

\* Lock, and pass over a job whose capacity is full.
DrainCheck(d) ==
  /\ dpc[d] = "loop" /\ todo[d] # {} /\ admitMu = Nobody
  /\ \E j \in Oldest(todo[d]) :
       /\ todo' = [todo EXCEPT ![d] = @ \ {j}]
       /\ \/ /\ HasSlot(want[j].capacity)
             /\ admitMu' = d
             /\ cur' = [cur EXCEPT ![d] = j]
             /\ dpc' = [dpc EXCEPT ![d] = "admit"]
          \/ /\ ~HasSlot(want[j].capacity)
             /\ UNCHANGED <<admitMu, cur, dpc>>
  /\ UNCHANGED <<now, want, pc, due, rowVars, engineVars, flowVars, restarts>>

\* Mutant: the UPDATE without its "AND queued = 1".
AnyRow(j) == j \in Created

\* The WHERE clause of AdmitQueuedJob, which fails on a job another drain
\* admitted since the snapshot. It does not ask whether the job was cancelled.
AdmissibleRow(j) == j \in queued

\* AdmitQueuedJob; a job it fails on is skipped.
DrainAdmit(d) ==
  /\ dpc[d] = "admit"
  /\ Unlock
  /\ \/ /\ AdmissibleRow(cur[d])
        /\ queued' = queued \ {cur[d]}
        /\ completeAt' = [completeAt EXCEPT ![cur[d]] = QueuedCompleteAt(cur[d])]
        /\ dpc' = [dpc EXCEPT ![d] = "publish"]
        /\ UNCHANGED cur
     \/ /\ ~AdmissibleRow(cur[d])
        /\ dpc' = [dpc EXCEPT ![d] = "loop"]
        /\ cur' = [cur EXCEPT ![d] = Nobody]
        /\ UNCHANGED <<queued, completeAt>>
  /\ UNCHANGED <<now, want, pc, due, rowid, cancelled, failed, run, engineVars,
                 todo, flowVars, restarts>>

\* dispatchExisting, first half.
DrainPublish(d) ==
  /\ dpc[d] = "publish"
  /\ starts' = [starts EXCEPT ![cur[d]] = @ + 1]
  /\ dpc' = [dpc EXCEPT ![d] = "dispatch"]
  /\ UNCHANGED <<now, want, threadVars, rowVars, engineVars, todo, cur, verdicts,
                 restarts>>

\* Mutant: dispatchExisting without its engine branches.
DrainDispatchGeneric(d) ==
  /\ dpc[d] = "dispatch"
  /\ dpc' = [dpc EXCEPT ![d] = "loop"]
  /\ cur' = [cur EXCEPT ![d] = Nobody]
  /\ UNCHANGED <<now, want, threadVars, rowVars, engineVars, todo, flowVars,
                 restarts>>

\* dispatchExisting, second half: as Dispatch, but a fault injected into a
\* notebook is not looked at and a Dataflow has no branch, so that the clock
\* finishes it.
DrainDispatch(d) ==
  LET j == cur[d] IN
  /\ dpc[d] = "dispatch"
  /\ \/ /\ want[j].kind \in {"Clock", "Dataflow"}
        /\ UNCHANGED <<run, writer, completeAt, failed>>
        /\ dpc' = [dpc EXCEPT ![d] = "loop"]
        /\ cur' = [cur EXCEPT ![d] = Nobody]
     \/ /\ want[j].kind \in {"Pipeline", "Notebook"}
        /\ run' = [run EXCEPT ![j] = "open"]
        /\ writer' = IF want[j].kind = "Pipeline" \/ want[j].agent
                     THEN [writer EXCEPT ![j]["engine"] = "running"] ELSE writer
        /\ dpc' = [dpc EXCEPT ![d] = "loop"]
        /\ cur' = [cur EXCEPT ![d] = Nobody]
        /\ UNCHANGED <<completeAt, failed>>
     \/ /\ want[j].kind = "Refused"
        /\ \E r \in RefusedRun(j) : run' = [run EXCEPT ![j] = r]
        /\ FinalizeJob(j, TRUE)
        /\ dpc' = [dpc EXCEPT ![d] = "announce"]
        /\ UNCHANGED <<writer, cur>>
  /\ UNCHANGED <<now, want, threadVars, rowid, queued, cancelled, code, reports,
                 todo, flowVars, restarts>>

DrainAnnounce(d) ==
  /\ dpc[d] = "announce"
  /\ verdicts' = [verdicts EXCEPT ![cur[d]] = @ \cup {"Failed"}]
  /\ dpc' = [dpc EXCEPT ![d] = "loop"]
  /\ cur' = [cur EXCEPT ![d] = Nobody]
  /\ UNCHANGED <<now, want, threadVars, rowVars, engineVars, todo, starts,
                 restarts>>

DrainEnd(d) ==
  /\ dpc[d] = "loop" /\ todo[d] = {}
  /\ dpc' = [dpc EXCEPT ![d] = "idle"]
  /\ UNCHANGED <<now, want, threadVars, rowVars, engineVars, todo, cur, flowVars,
                 restarts>>

-----------------------------------------------------------------------------
(***************************************************************************)
(* Outcomes. A writer saves the run detail, then finalises the row, then   *)
(* announces the outcome: three separate statements.                       *)
(***************************************************************************)
SaveRun(j, w, fails) ==
  /\ run' = [run EXCEPT ![j] = IF fails THEN "failed" ELSE "ok"]
  /\ code' = [code EXCEPT ![j][w] =
                fails \/ (want[j].kind = "Pipeline" /\ want[j].fault)]
  /\ writer' = [writer EXCEPT ![j][w] = "finalise"]

\* The goroutine's work ends: runPipelineWith returns, or driveNotebookRun has
\* its cells' results. Its failure paths all end in a recorded failure.
EngineReturns(j) ==
  /\ writer[j]["engine"] = "running"
  /\ \E fails \in BOOLEAN : SaveRun(j, "engine", fails)
  /\ UNCHANGED <<now, want, threadVars, rowid, completeAt, queued, cancelled, failed,
                 reports, drainVars, flowVars, restarts>>

\* reportNotebookRun: any job with a notebook run, in whatever state it is.
ReportArrives(j) ==
  /\ want[j].kind \in {"Notebook", "Refused"} /\ run[j] # "none"
  /\ writer[j]["report"] = "none" /\ reports[j] < MaxReports
  /\ reports' = [reports EXCEPT ![j] = @ + 1]
  /\ \E fails \in BOOLEAN : SaveRun(j, "report", fails)
  /\ UNCHANGED <<now, want, threadVars, rowid, completeAt, queued, cancelled, failed,
                 drainVars, flowVars, restarts>>

Finalise(j, w) ==
  /\ writer[j][w] = "finalise"
  /\ FinalizeJob(j, code[j][w])
  /\ writer' = [writer EXCEPT ![j][w] = "announce"]
  /\ UNCHANGED <<now, want, threadVars, rowid, queued, cancelled, run, code, reports,
                 drainVars, flowVars, restarts>>

\* Mutant: the outcome of a cancelled job is not announced.
OutcomeUnlessCancelled(j, w) ==
  IF j \in cancelled THEN {} ELSE {IF code[j][w] THEN "Failed" ELSE "Completed"}

Outcome(j, w) == {IF code[j][w] THEN "Failed" ELSE "Completed"}

\* publishJobOutcome: announces the writer's own verdict, not the row's status.
AnnounceOutcome(j, w) ==
  /\ writer[j][w] = "announce"
  /\ verdicts' = [verdicts EXCEPT ![j] = @ \cup Outcome(j, w)]
  /\ writer' = [writer EXCEPT ![j][w] = "none"]
  /\ code' = [code EXCEPT ![j][w] = FALSE]
  /\ UNCHANGED <<now, want, threadVars, rowVars, reports, drainVars, starts,
                 restarts>>

-----------------------------------------------------------------------------
\* cancelJobInstance: one unconditional UPDATE; nothing is stopped or announced.
Cancel(j) ==
  /\ j \in Created \ cancelled
  /\ Cardinality(cancelled) < MaxCancels
  /\ cancelled' = cancelled \cup {j}
  /\ UNCHANGED <<now, want, threadVars, rowid, completeAt, queued, failed, run,
                 engineVars, drainVars, flowVars, restarts>>

\* Time passes, or POST /_emulator/clock moves it forward.
AdvanceClock ==
  /\ now < Horizon
  /\ now' = now + 1
  /\ UNCHANGED <<want, threadVars, rowVars, engineVars, drainVars, flowVars,
                 restarts>>

\* The process stops and starts again on its data directory: rows survive,
\* every thread and goroutine is gone and nothing on the way up resumes them.
Restart ==
  /\ restarts < MaxRestarts
  /\ restarts' = restarts + 1
  /\ pc' = [j \in Job |-> IF pc[j] = "idle" THEN "idle"
                          ELSE IF j \in Created THEN "done" ELSE "refused"]
  /\ admitMu' = Nobody
  /\ due' = [j \in Job |-> 0]
  /\ writer' = [j \in Job |-> [w \in Who |-> "none"]]
  /\ code' = [j \in Job |-> [w \in Who |-> FALSE]]
  /\ dpc' = [d \in Drainer |-> "idle"]
  /\ todo' = [d \in Drainer |-> {}]
  /\ cur' = [d \in Drainer |-> Nobody]
  /\ UNCHANGED <<now, want, rowVars, reports, flowVars>>

StartStep(j) == \/ AdmitCheck(j) \/ Insert(j) \/ Enqueue(j) \/ PublishStarted(j)
                \/ Dispatch(j) \/ AnnounceRefusal(j)

DrainStep(d) == \/ DrainCheck(d) \/ DrainAdmit(d) \/ DrainPublish(d)
                \/ DrainDispatch(d) \/ DrainAnnounce(d) \/ DrainEnd(d)

Next ==
  \/ \E j \in Job : Submit(j) \/ StartStep(j) \/ EngineReturns(j) \/ ReportArrives(j)
                    \/ Cancel(j)
  \/ \E j \in Job, w \in Who : Finalise(j, w) \/ AnnounceOutcome(j, w)
  \/ \E d \in Drainer : DrainBegin(d) \/ DrainStep(d)
  \/ AdvanceClock
  \/ Restart

Spec == Init /\ [][Next]_vars

\* Go runs every goroutine that can run; sync.Mutex hands the lock over in its
\* starvation mode, so a waiter that keeps finding it free again gets it; engines
\* return; and a client keeps polling List Item Job Instances. Nothing obliges a
\* client to submit or cancel, an engine to call back, or time to pass.
Fairness ==
  /\ \A j \in Job : /\ SF_vars(AdmitCheck(j)) /\ WF_vars(StartStep(j))
                    /\ WF_vars(EngineReturns(j))
  /\ \A j \in Job, w \in Who : WF_vars(Finalise(j, w)) /\ WF_vars(AnnounceOutcome(j, w))
  /\ \A d \in Drainer : /\ WF_vars(DrainBegin(d)) /\ SF_vars(DrainCheck(d))
                        /\ WF_vars(DrainStep(d))

FairSpec == Spec /\ Fairness

-----------------------------------------------------------------------------
(***************************************************************************)
(* Properties.                                                             *)
(***************************************************************************)
Pc == {"idle", "admit", "insert", "enqueue", "publish", "dispatch", "announce",
       "done", "refused"}
DrainPc == {"idle", "loop", "admit", "publish", "dispatch", "announce"}
WriterPc == {"none", "running", "finalise", "announce"}
RunStatus == {"none", "queued", "open", "ok", "failed"}

\* Every variable has its type, and the rows the flags name exist.
TypeOK ==
  /\ now \in 0..Horizon
  /\ want \in [Job -> Request]
  /\ pc \in [Job -> Pc]
  /\ due \in [Job -> 0..Never]
  /\ admitMu \in Job \cup Drainer \cup {Nobody}
  /\ rowid \in [Job -> Nat]
  /\ completeAt \in [Job -> 0..Never]
  /\ queued \subseteq Created /\ cancelled \subseteq Created
  /\ failed \subseteq Created
  /\ run \in [Job -> RunStatus]
  /\ writer \in [Job -> [Who -> WriterPc]]
  /\ code \in [Job -> [Who -> BOOLEAN]]
  /\ reports \in [Job -> 0..MaxReports]
  /\ dpc \in [Drainer -> DrainPc]
  /\ todo \in [Drainer -> SUBSET Created]
  /\ cur \in [Drainer -> Created \cup {Nobody}]
  /\ starts \in [Job -> Nat]
  /\ verdicts \in [Job -> SUBSET {"Completed", "Failed"}]
  /\ restarts \in 0..MaxRestarts

\* A capacity never runs more jobs than MaxConcurrentJobs, although requests and
\* drains admit concurrently and counting is separate from writing the row
\* (admitMu in startJob and DrainCapacityQueues).
CapacityRespected ==
  \A c \in Capacity : MaxConcurrentJobs[c] > 0 =>
    Cardinality(Active(c)) <= MaxConcurrentJobs[c]

\* No job is dispatched twice, although several drains may hold it in their
\* snapshots (AdmitQueuedJob's WHERE queued = 1).
StartedOnce == \A j \in Job : starts[j] <= 1

\* A job read as Queued has left no trace of running: no event, no run detail
\* in progress, no thread reporting on it (startJob's early return).
QueuedIsUntouched ==
  \A j \in queued : /\ starts[j] = 0 /\ verdicts[j] = {}
                    /\ run[j] \in {"none", "queued"}
                    /\ \A w \in Who : writer[j][w] = "none"

\* The flow stream never announces the end of a job before its start.
NoVerdictBeforeStart == \A j \in Job : verdicts[j] # {} => starts[j] = 1

\* A client that reads Completed of a job an engine must run reads it of a run
\* that ended well: the clock never completes such a job, whichever way it was
\* admitted ("a green job that means nothing", startJob).
GreenMeansRan ==
  \A j \in Created :
    want[j].kind \in {"Pipeline", "Notebook", "Refused"} /\ JobBody(j) = "Completed"
      => run[j] = "ok"

\* What was announced is what polling shows, unless the job was cancelled or an
\* external engine reported on it as well.
AnnouncedMatchesStatus ==
  \A j \in Created : reports[j] = 0 =>
    \A v \in verdicts[j] : StatusAt(j) \in {v, "Cancelled"}

\* Without a restart, a slot is held by an engine's job only while a thread is
\* on its way to start it or to finish it, or an external engine is awaited.
NoOrphanedSlot ==
  restarts = 0 =>
    \A c \in Capacity : \A j \in Active(c) : Parked(j) =>
      \/ pc[j] \in {"publish", "dispatch"}
      \/ \E d \in Drainer : cur[d] = j /\ dpc[d] \in {"publish", "dispatch"}
      \/ writer[j]["engine"] # "none"
      \/ want[j].kind = "Notebook" /\ ~want[j].agent

\* Once a job has been seen to end it keeps its verdict, short of a cancel or an
\* external report. (A Dataflow is left out: startJob does not park it, so a
\* poll between its insertion and its failure can see it Completed.)
VerdictKept ==
  \A j \in Job :
    /\ j \in Created /\ want[j].kind # "Dataflow" /\ reports'[j] = 0
    /\ StatusAt(j) \in {"Completed", "Failed"}
    => StatusAt(j)' \in {StatusAt(j), "Cancelled"}
VerdictStable == [][VerdictKept]_vars

\* A queued job is admitted once slots come free: polling drains the queue.
QueuedIsAdmitted == \A j \in Job : j \in queued ~> (j \notin queued \/ j \in cancelled)

\* A pipeline that was started is announced to end.
PipelineEnds ==
  \A j \in Job : (starts[j] = 1 /\ want[j].kind = "Pipeline") ~> verdicts[j] # {}

\* docs/36: queued jobs "are admitted FIFO when a slot frees". Taking j out of
\* the queue leaves no older job of its capacity waiting in it.
AdmitsOldest ==
  \A j \in queued \ queued', k \in queued' \ cancelled :
    want[k].capacity = want[j].capacity => rowid[j] < rowid[k]
FIFOAdmission == [][AdmitsOldest]_vars

\* store/jobs.go: status is derived "with Cancelled overriding everything".
CancelledOverrides == \A j \in cancelled : JobBody(j) = "Cancelled"

=============================================================================
