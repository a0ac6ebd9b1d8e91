----------------------------- MODULE Schedules -----------------------------
(***************************************************************************)
(* The Job Scheduler of one item and job type: its schedules, and their    *)
(* evaluation on demand (internal/api/schedules.go,                        *)
(* internal/store/schedules.go, the window of internal/schedule).          *)
(*                                                                         *)
(* Nothing ticks in the background. A client that creates or changes a     *)
(* schedule, lists them, lists the item's jobs or moves the clock runs     *)
(* fireDue itself afterwards, so several evaluations may run at once; they *)
(* share tickMu, which the requests that write schedules do not take.      *)
(* Occurrences are whole seconds here; ScheduleCalendar has those that are *)
(* not.                                                                    *)
(***************************************************************************)
EXTENDS Naturals, FiniteSets

CONSTANTS
  Schedule,       \* schedules that may be created; an id is used once
  Config,         \* configurations a request may carry
  Occurs,         \* configuration -> the seconds it has an occurrence at
  Client,         \* request threads
  MaxPerTick,     \* MaxOccurrencesPerTick
  MaxSchedules,   \* MaxSchedulesPerItem
  Nobody

CONSTANTS         \* bounds of the model
  Horizon,        \* the last second the clock can be at
  MaxPatches,     \* PATCH requests
  MaxErrors,      \* startJob calls that fail
  MaxRestarts     \* process restarts

SchedulesAssumption ==
  /\ Horizon \in Nat /\ MaxPatches \in Nat /\ MaxErrors \in Nat /\ MaxRestarts \in Nat
  /\ Occurs \in [Config -> SUBSET (1..Horizon)]
  /\ MaxPerTick \in Nat \ {0} /\ MaxSchedules \in Nat
  /\ Nobody \notin Client \cup Schedule

Time == 0..Horizon

VARIABLES
  now,       \* the emulator's clock; POST /_emulator/clock moves it both ways
  row,       \* schedule -> its row of item_schedules
  tickMu,    \* holder of the evaluation mutex
  cpc,       \* client -> where its request is
  target,    \* client -> the schedule it creates, patches or evaluates
  held,      \* client -> the row it will write, or is evaluating
  list,      \* client -> rows its evaluation has not come to
  at,        \* client -> the time its evaluation read
  due,       \* client -> occurrences of target it still has to start
  mark,      \* client -> high-water mark it will record
  runs,      \* schedule -> <<config, series, occurrence>> -> jobs started
  patches, errors, restarts

\* A row. FiredThrough is the newest occurrence already started, 0 for none.
\* "series" is no column: it counts the replacements of its configuration.
Row == [status : {"absent", "live", "deleted"}, enabled : BOOLEAN,
        config : Config, fired : Time, series : 0..MaxPatches]

\* What a job is started for: an instant of a configuration of the schedule.
Occurrence == Config \X (0..MaxPatches) \X (1..Horizon)

tickVars == <<list, at, due, mark>>
clientVars == <<cpc, target, held>>
counters == <<patches, errors, restarts>>
vars == <<now, row, tickMu, clientVars, tickVars, runs, counters>>

-----------------------------------------------------------------------------
Live == {s \in Schedule : row[s].status = "live"}

Newest(S) == CHOOSE t \in S : \A u \in S : u <= t

Earliest(S) == CHOOSE t \in S : \A u \in S : t <= u

\* Mutant: the window opens a second late.
WindowLate(k, after, until) ==
  LET W == {t \in Occurs[k] : after + 1 < t /\ t <= until}
  IN  {t \in W : Cardinality({u \in W : u > t}) < MaxPerTick}

\* Config.Occurrences: the occurrences in (after, until], the newest
\* MaxPerTick of them.
Window(k, after, until) ==
  LET W == {t \in Occurs[k] : after < t /\ t <= until}
  IN  {t \in W : Cardinality({u \in W : u > t}) < MaxPerTick}

\* Mutant: the mark is not read again under the lock.
AfterSnapshot(sc, s) == sc.fired

\* Where the window of a listed row sc opens: at the mark read again under the
\* lock, if there is a row and it has one; at the listed one otherwise.
After(sc, s) ==
  IF row[s].status = "live" /\ row[s].fired # 0 THEN row[s].fired ELSE sc.fired

-----------------------------------------------------------------------------
Init ==
  /\ now = 0
  /\ \E k \in Config :
       row = [s \in Schedule |-> [status |-> "absent", enabled |-> FALSE, config |-> k,
                                  fired |-> 0, series |-> 0]]
  /\ tickMu = Nobody
  /\ cpc = [c \in Client |-> "idle"]
  /\ target = [c \in Client |-> Nobody]
  /\ held = [c \in Client |-> Nobody]
  /\ list = [c \in Client |-> {}]
  /\ at = [c \in Client |-> 0]
  /\ due = [c \in Client |-> {}]
  /\ mark = [c \in Client |-> 0]
  /\ runs = [s \in Schedule |-> [o \in Occurrence |-> 0]]
  /\ patches = [s \in Schedule |-> 0] /\ errors = 0 /\ restarts = 0

\* createItemSchedule: the count is read before the row is inserted.
Create(c, s) ==
  /\ cpc[c] = "idle" /\ row[s].status = "absent"
  /\ \A e \in Client : target[e] # s
  /\ Cardinality(Live) < MaxSchedules
  /\ \E k \in Config, on \in BOOLEAN :
       held' = [held EXCEPT ![c] = [status |-> "live", enabled |-> on, config |-> k,
                                    fired |-> 0, series |-> 0]]
  /\ target' = [target EXCEPT ![c] = s]
  /\ cpc' = [cpc EXCEPT ![c] = "insert"]
  /\ UNCHANGED <<now, row, tickMu, tickVars, runs, counters>>

\* updateItemSchedule: the row is read, changed and written back outside tickMu.
\* A configuration that differs from the one read starts a new series.
PatchRead(c, s) ==
  /\ cpc[c] = "idle" /\ s \in Live /\ row[s].series < MaxPatches
  /\ \E k \in Config, on \in BOOLEAN :
       held' = [held EXCEPT ![c] =
                  IF k = row[s].config THEN [row[s] EXCEPT !.enabled = on]
                  ELSE [row[s] EXCEPT !.enabled = on, !.config = k, !.fired = 0,
                                      !.series = @ + 1]]
  /\ target' = [target EXCEPT ![c] = s]
  /\ cpc' = [cpc EXCEPT ![c] = "write"]
  /\ UNCHANGED <<now, row, tickMu, tickVars, runs, counters>>

CreateInsert(c) ==
  /\ cpc[c] = "insert"
  /\ row' = [row EXCEPT ![target[c]] = held[c]]
  /\ cpc' = [cpc EXCEPT ![c] = "list"]
  /\ target' = [target EXCEPT ![c] = Nobody]
  /\ held' = [held EXCEPT ![c] = Nobody]
  /\ UNCHANGED <<now, tickMu, tickVars, runs, counters>>

\* UpdateItemSchedule: an UPDATE that finds no row is an error to the client.
PatchWrite(c) ==
  LET s == target[c] IN
  /\ cpc[c] = "write"
  /\ target' = [target EXCEPT ![c] = Nobody]
  /\ held' = [held EXCEPT ![c] = Nobody]
  /\ \/ /\ s \notin Live
        /\ cpc' = [cpc EXCEPT ![c] = "idle"]
        /\ UNCHANGED <<row, patches>>
     \/ /\ s \in Live /\ patches[s] < MaxPatches
        /\ row' = [row EXCEPT ![s] = held[c]]
        /\ patches' = [patches EXCEPT ![s] = @ + 1]
        /\ cpc' = [cpc EXCEPT ![c] = "list"]
  /\ UNCHANGED <<now, tickMu, tickVars, runs, errors, restarts>>

Delete(c, s) ==
  /\ cpc[c] = "idle" /\ s \in Live
  /\ row' = [row EXCEPT ![s].status = "deleted"]
  /\ UNCHANGED <<now, tickMu, clientVars, tickVars, runs, counters>>

-----------------------------------------------------------------------------
\* TickSchedules and tickItemSchedules: the enabled rows, read before the lock.
\* Also what a poll of the schedules or of the job instances begins with.
ListEnabled(c) ==
  /\ cpc[c] \in {"idle", "list"}
  /\ LET L == {s \in Live : row[s].enabled} IN
       /\ list' = [list EXCEPT ![c] = {[id |-> s, row |-> row[s]] : s \in L}]
       /\ cpc' = [cpc EXCEPT ![c] = IF L = {} THEN "idle" ELSE "lock"]
  /\ UNCHANGED <<now, row, tickMu, target, held, at, due, mark, runs, counters>>

\* fireDue: one time for the whole evaluation.
Lock(c) ==
  /\ cpc[c] = "lock" /\ tickMu = Nobody
  /\ tickMu' = c
  /\ at' = [at EXCEPT ![c] = now]
  /\ cpc' = [cpc EXCEPT ![c] = "loop"]
  /\ UNCHANGED <<now, row, target, held, list, due, mark, runs, counters>>

\* The next listed schedule: its configuration as listed, its mark as it is now.
\* Whether it is still enabled, or still there, is not asked.
Evaluate(c) ==
  /\ cpc[c] = "loop"
  /\ \E x \in list[c] :
       LET W == Window(x.row.config, After(x.row, x.id), at[c]) IN
         /\ list' = [list EXCEPT ![c] = @ \ {x}]
         /\ \/ /\ W = {}
               /\ UNCHANGED <<cpc, target, held, due, mark>>
            \/ /\ W # {}
               /\ due' = [due EXCEPT ![c] = W]
               /\ mark' = [mark EXCEPT ![c] = Newest(W)]
               /\ target' = [target EXCEPT ![c] = x.id]
               /\ held' = [held EXCEPT ![c] = x.row]
               /\ cpc' = [cpc EXCEPT ![c] = "start"]
  /\ UNCHANGED <<now, row, tickMu, at, runs, counters>>

\* startJob for the oldest occurrence left.
Start(c) ==
  /\ cpc[c] = "start" /\ due[c] # {}
  /\ LET t == Earliest(due[c]) IN
       /\ runs' = [runs EXCEPT ![target[c]][<<held[c].config, held[c].series, t>>] = @ + 1]
       /\ due' = [due EXCEPT ![c] = @ \ {t}]
  /\ UNCHANGED <<now, row, tickMu, clientVars, list, at, mark, counters>>

\* startJob fails: the rest of the window is given up, and marked all the same.
StartFails(c) ==
  /\ cpc[c] = "start" /\ due[c] # {} /\ errors < MaxErrors
  /\ errors' = errors + 1
  /\ due' = [due EXCEPT ![c] = {}]
  /\ UNCHANGED <<now, row, tickMu, clientVars, list, at, mark, runs, patches, restarts>>

\* SetScheduleFiredThrough; on a deleted row it changes nothing.
Mark(c) ==
  /\ cpc[c] = "start" /\ due[c] = {}
  /\ row' = IF target[c] \in Live
            THEN [row EXCEPT ![target[c]].fired = mark[c]] ELSE row
  /\ cpc' = [cpc EXCEPT ![c] = "loop"]
  /\ target' = [target EXCEPT ![c] = Nobody]
  /\ held' = [held EXCEPT ![c] = Nobody]
  /\ mark' = [mark EXCEPT ![c] = 0]
  /\ UNCHANGED <<now, tickMu, list, at, due, runs, counters>>

\* Mutant: the deferred unlock is missing.
FinishLocked(c) ==
  /\ cpc[c] = "loop" /\ list[c] = {}
  /\ at' = [at EXCEPT ![c] = 0]
  /\ cpc' = [cpc EXCEPT ![c] = "idle"]
  /\ UNCHANGED <<now, row, tickMu, target, held, list, due, mark, runs, counters>>

Finish(c) ==
  /\ cpc[c] = "loop" /\ list[c] = {}
  /\ tickMu' = Nobody
  /\ at' = [at EXCEPT ![c] = 0]
  /\ cpc' = [cpc EXCEPT ![c] = "idle"]
  /\ UNCHANGED <<now, row, target, held, list, due, mark, runs, counters>>

-----------------------------------------------------------------------------
MoveClock ==
  /\ \E t \in Time \ {now} : now' = t
  /\ UNCHANGED <<row, tickMu, clientVars, tickVars, runs, counters>>

\* The rows survive; every request is gone.
Restart ==
  /\ restarts < MaxRestarts
  /\ restarts' = restarts + 1
  /\ tickMu' = Nobody
  /\ cpc' = [c \in Client |-> "idle"]
  /\ target' = [c \in Client |-> Nobody]
  /\ held' = [c \in Client |-> Nobody]
  /\ list' = [c \in Client |-> {}]
  /\ at' = [c \in Client |-> 0]
  /\ due' = [c \in Client |-> {}]
  /\ mark' = [c \in Client |-> 0]
  /\ UNCHANGED <<now, row, runs, patches, errors>>

EvaluationStep(c) ==
  Lock(c) \/ Evaluate(c) \/ Start(c) \/ Mark(c) \/ Finish(c)

Next ==
  \/ \E c \in Client, s \in Schedule : Create(c, s) \/ PatchRead(c, s) \/ Delete(c, s)
  \/ \E c \in Client : \/ CreateInsert(c) \/ PatchWrite(c) \/ ListEnabled(c)
                       \/ EvaluationStep(c) \/ StartFails(c)
  \/ MoveClock
  \/ Restart

Spec == Init /\ [][Next]_vars

\* Requests run to their end, the mutex comes to whoever waits for it, and some
\* client keeps polling. Nothing makes time pass.
Fairness ==
  \A c \in Client : /\ WF_vars(CreateInsert(c)) /\ WF_vars(PatchWrite(c))
                    /\ WF_vars(ListEnabled(c)) /\ SF_vars(Lock(c))
                    /\ WF_vars(EvaluationStep(c))

FairSpec == Spec /\ Fairness

-----------------------------------------------------------------------------
(***************************************************************************)
(* Properties.                                                             *)
(***************************************************************************)
Listed == [id : Schedule, row : Row]

TypeOK ==
  /\ now \in Time
  /\ row \in [Schedule -> Row]
  /\ tickMu \in Client \cup {Nobody}
  /\ cpc \in [Client -> {"idle", "insert", "write", "list", "lock", "loop", "start"}]
  /\ target \in [Client -> Schedule \cup {Nobody}]
  /\ held \in [Client -> Row \cup {Nobody}]
  /\ list \in [Client -> SUBSET Listed]
  /\ at \in [Client -> Time]
  /\ due \in [Client -> SUBSET Time]
  /\ mark \in [Client -> Time]
  /\ runs \in [Schedule -> [Occurrence -> Nat]]
  /\ patches \in [Schedule -> 0..MaxPatches]
  /\ errors \in 0..MaxErrors /\ restarts \in 0..MaxRestarts

\* A schedule that was created and since then only evaluated.
Undisturbed(s) == row[s].status # "deleted" /\ patches[s] = 0

\* However many evaluations overlap, an occurrence starts one job: the window
\* opens at the mark read again under tickMu. A crash between a job and its mark
\* repeats it, so a restart is left out.
FiredOnce ==
  restarts = 0 =>
    \A s \in Schedule : Undisturbed(s) => \A o \in Occurrence : runs[s][o] <= 1

\* What the mark has passed was started, unless a start failed or at least
\* MaxPerTick newer occurrences were: nothing else is ever skipped, not even by
\* a crash ("nothing is missed", schedules.go).
NothingSkipped ==
  errors = 0 =>
    \A s \in Schedule : Undisturbed(s) =>
      LET k == row[s].config
          Ran == {t \in Occurs[k] : runs[s][<<k, 0, t>>] > 0}
      IN  \A t \in Occurs[k] \ Ran :
            t <= row[s].fired => Cardinality({u \in Ran : u > t}) >= MaxPerTick

\* A due occurrence of a schedule that is left alone is started, or overtaken by
\* MaxPerTick newer ones.
DueIsFired ==
  \A s \in Schedule, k \in Config : \A t \in Occurs[k] :
    (s \in Live /\ row[s].enabled /\ row[s].config = k /\ now >= t)
      ~> \/ runs[s][<<k, row[s].series, t>>] > 0
         \/ Cardinality({u \in Occurs[k] : u > t /\ runs[s][<<k, row[s].series, u>>] > 0})
              >= MaxPerTick
         \/ now < t \/ errors > 0 \/ ~Undisturbed(s) \/ ~row[s].enabled

\* store/schedules.go: "no occurrence is ever run twice".
OccurrenceRunsOnce ==
  \A s \in Schedule : row[s].status = "live" => \A o \in Occurrence : runs[s][o] <= 1

=============================================================================
