----------------------------- MODULE MCLiveness -----------------------------
(* What must eventually happen, over five parts of the emulator that run side  *)
(* by side in one process and share no state at the grain of their modules:    *)
(* jobs (Jobs), schedules (Schedules), a pipeline run (PipelineRun), a WebHook *)
(* activity that waits for its callback (WebhookPark, extended here) and a     *)
(* client that logs in to a lakehouse's SQL endpoint (Reflection).             *)
(* A behaviour is one of one part, so that the states of the parts add up      *)
(* instead of multiplying. The fairness of each part is its module's.          *)
EXTENDS WebhookPark, PipelineSamples, Sequences

CONSTANTS
  Nobody, Root,
  j1, j2, small, open,
  every, second

VARIABLES
  part,
  jobNow, want, jobPc, due, admitMu, rowid, completeAt, queued, cancelled, failed, run, writer, code,
  reports, dpc, todo, cur, starts, verdicts, restarts,
  schNow, row, tickMu, cpc, target, held, list, at, schDue, mark, jobs, patches, errors, schRestarts,
  pipe, stack, runs, emitted, stream, result,
  src, dst, seen, itemMu, loginPc, loginTodo, loginCur, present, known, fp, read, since, loaded, half, crossed,
  failures, silences, losses

jobVars == <<jobNow, want, jobPc, due, admitMu, rowid, completeAt, queued, cancelled, failed, run, writer,
             code, reports, dpc, todo, cur, starts, verdicts, restarts>>
schVars == <<schNow, row, tickMu, cpc, target, held, list, at, schDue, mark, jobs, patches, errors, schRestarts>>
pipeVars == <<pipe, stack, runs, emitted, stream, result>>
loginVars == <<src, dst, seen, itemMu, loginPc, loginTodo, loginCur, present, known, fp, read, since, loaded,
               half, crossed, failures, silences, losses>>

-----------------------------------------------------------------------------
(* Jobs: every engine that ends by itself, in the single slot or waiting for *)
(* it, and two drains.                                                       *)
Bg(kind, fault) == [kind |-> kind, invoke |-> "Background", capacity |-> small, fault |-> fault,
                     agent |-> TRUE]
Pair(a, b) == (j1 :> a) @@ (j2 :> b)
LiveMixes == {
  Pair(Bg("Pipeline", FALSE), Bg("Pipeline", FALSE)),
  Pair(Bg("Pipeline", FALSE), Bg("Notebook", FALSE)),
  Pair(Bg("Pipeline", TRUE), Bg("Refused", FALSE)),
  Pair([Bg("Pipeline", FALSE) EXCEPT !.invoke = "Manual"], Bg("Dataflow", FALSE))
}

J == INSTANCE Jobs WITH
  Job <- {j1, j2}, Drainer <- {"d1", "d2"}, Capacity <- {small, open},
  MaxConcurrentJobs <- (small :> 1) @@ (open :> 0), Workloads <- LiveMixes,
  LRODelay <- 0,
  Horizon <- 0, MaxReports <- 0, MaxCancels <- 1, MaxRestarts <- 0, now <- jobNow, pc <- jobPc

(* Schedules: one configuration due every second, one due once.              *)
S == INSTANCE Schedules WITH
  Schedule <- {"s1"}, Config <- {every, second}, Occurs <- (every :> 1 .. 2) @@ (second :> {2}),
  Client <- {"c1", "c2"}, MaxPerTick <- 1, MaxSchedules <- 2,
  Horizon <- 2, MaxPatches <- 0, MaxErrors <- 1, MaxRestarts <- 0,
  now <- schNow, due <- schDue, runs <- jobs, restarts <- schRestarts

(* Pipelines: every kind of container, with and without a circle.            *)
P == INSTANCE PipelineRun WITH Activity <- Act, Pipelines <- EndingSamples, MaxItems <- 2, MaxUntil <- 2

(* The endpoint: two tables, of which an attempt may manage only one.        *)
R == INSTANCE Reflection WITH
  Table <- {"a", "b"}, Reflector <- {"tds"}, Login <- {"c1"}, Uses <- [c \in {"c1"} |-> "tds"],
  MaxCommits <- 1, MaxFailures <- 1, MaxSilences <- 1, MaxLosses <- 1,
  pc <- loginPc, todo <- loginTodo, cur <- loginCur

-----------------------------------------------------------------------------
AnyMix == CHOOSE w \in LiveMixes : TRUE
AnyPipe == CHOOSE p \in EndingSamples : TRUE

\* Where parts differ in their initial states, those of the part that runs.
PartInit ==
  /\ part \in {"jobs", "schedules", "pipeline", "webhook", "endpoint"}
  /\ J!Init /\ (part # "jobs" => want = AnyMix)
  /\ S!Init /\ (part # "schedules" => row["s1"].config = every)
  /\ Init /\ (part # "webhook" => frozen)
  /\ P!Init /\ (part # "pipeline" => pipe = AnyPipe)
  /\ R!Init

PartNext ==
  /\ UNCHANGED part
  /\ \/ part = "jobs" /\ J!Next /\ UNCHANGED <<schVars, vars, pipeVars, loginVars>>
     \/ part = "schedules" /\ S!Next /\ UNCHANGED <<jobVars, vars, pipeVars, loginVars>>
     \/ part = "pipeline" /\ P!Next /\ UNCHANGED <<jobVars, schVars, vars, loginVars>>
     \/ part = "webhook" /\ Next /\ UNCHANGED <<jobVars, schVars, pipeVars, loginVars>>
     \/ part = "endpoint" /\ R!Next /\ UNCHANGED <<jobVars, schVars, vars, pipeVars>>

\* Jobs!Fairness and the others', of the part that runs.
JobsFair ==
  /\ \A j \in {j1, j2} : /\ SF_jobVars(part = "jobs" /\ J!AdmitCheck(j))
                         /\ WF_jobVars(part = "jobs" /\ J!StartStep(j))
                         /\ WF_jobVars(part = "jobs" /\ J!EngineReturns(j))
                         /\ \A w \in J!Who : /\ WF_jobVars(part = "jobs" /\ J!Finalise(j, w))
                                             /\ WF_jobVars(part = "jobs" /\ J!AnnounceOutcome(j, w))
  /\ \A d \in {"d1", "d2"} : /\ WF_jobVars(part = "jobs" /\ J!DrainBegin(d))
                             /\ SF_jobVars(part = "jobs" /\ J!DrainCheck(d))
                             /\ WF_jobVars(part = "jobs" /\ J!DrainStep(d))

SchedulesFair ==
  \A c \in {"c1", "c2"} : /\ WF_schVars(part = "schedules" /\ S!CreateInsert(c))
                          /\ WF_schVars(part = "schedules" /\ S!PatchWrite(c))
                          /\ WF_schVars(part = "schedules" /\ S!ListEnabled(c))
                          /\ SF_schVars(part = "schedules" /\ S!Lock(c))
                          /\ WF_schVars(part = "schedules" /\ S!EvaluationStep(c))

ActivitiesFair ==
  /\ WF_pipeVars(part = "pipeline" /\ P!Next)
  /\ WF_vars(part = "webhook" /\ Activity)
  /\ \A r \in Receiver : WF_vars(part = "webhook" /\ Deliver(r))
  /\ WF_loginVars(part = "endpoint" /\ R!Connect("c1"))
  /\ SF_loginVars(part = "endpoint" /\ R!Lock("c1"))
  /\ WF_loginVars(part = "endpoint" /\ R!Step("c1"))

PartSpec ==
  /\ PartInit /\ [][PartNext]_<<part, jobVars, schVars, vars, pipeVars, loginVars>>
  /\ JobsFair /\ SchedulesFair /\ ActivitiesFair

-----------------------------------------------------------------------------
\* Jobs: a job that waits in a queue is admitted once a slot stays free.
QueuedIsAdmitted == part = "jobs" => J!QueuedIsAdmitted
\* Jobs: a pipeline job that started is announced to have ended.
PipelineEnds == part = "jobs" => J!PipelineEnds
\* Schedules: an occurrence that came due is fired.
DueIsFired == part = "schedules" => S!DueIsFired
\* PipelineRun: every run reaches a verdict.
RunEnds == part = "pipeline" => P!RunEnds
\* Reflection: a client whose logins are cut off gets in in the end.
LoginsConverge == part = "endpoint" => R!LoginsConverge
=============================================================================
