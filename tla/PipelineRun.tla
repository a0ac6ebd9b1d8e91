----------------------------- MODULE PipelineRun -----------------------------
(***************************************************************************)
(* The pipeline interpreter (internal/pipeline): one run of a pipeline,    *)
(* from its first activity to its verdict.                                 *)
(*                                                                         *)
(* The interpreter is one thread; what it does not decide is how each      *)
(* activity ends, which branch a condition takes and how many items a loop *)
(* gets. Its call stack is `stack': the frame at the end belongs to the    *)
(* activity being attempted, the first one to the pipeline. An activity is *)
(* known by its name, unique in its list; values, variables and durations  *)
(* are left out, but for a duration being longer than the timeout.         *)
(***************************************************************************)
EXTENDS Integers, Sequences, FiniteSets

CONSTANTS
  Activity,
  Root,          \* stands for the pipeline itself among the frames
  Pipelines,     \* the definitions a run may be of
  MaxItems,      \* items of a ForEach (bound of the model)
  MaxUntil       \* maxUntilIterations

Condition == {"Succeeded", "Failed", "Completed", "Skipped"}
Final == {"Succeeded", "Failed", "Skipped"}
Container == {"Branch", "ForEach", "Until"}   \* IfCondition and Switch are Branch

Dependency == [on: Activity, when: SUBSET Condition]

\* What the definitions are.
PipelineAssumption ==
  /\ Root \notin Activity
  /\ MaxItems \in Nat /\ MaxUntil \in Nat \ {0}
  /\ \A p \in Pipelines :
       /\ p.kind \in [Activity -> {"Leaf"} \cup Container]
       /\ p.top \in Seq(Activity)
       /\ p.bodies \in [Activity -> SUBSET Seq(Activity)]
       /\ p.deps \in [Activity -> SUBSET Dependency]
       /\ p.mark \in [Activity -> {"active"} \cup Final]
       /\ p.retry \in [Activity -> Nat]
       /\ p.timed \in [Activity -> BOOLEAN]

VARIABLES
  pipe,          \* the definition being run
  stack,         \* frames, the innermost last
  runs,          \* the records of the report, in order
  emitted,       \* how many of them were announced
  stream,        \* the records announced as flow events, in order
  result         \* "running", then the verdict

vars == <<pipe, stack, runs, emitted, stream, result>>

-----------------------------------------------------------------------------
(* A frame: `act' is being attempted for the (attempt + 1)-th time, since   *)
(* the report had `snap' records. In phase "list" its body `acts' is run:   *)
(* `status' says how each activity of it ended, `pos' where the scan of     *)
(* the list goes on, `left' how many iterations are left, this one          *)
(* included, and `failed' that one of them failed.                          *)
Frame(a, acts, phase) ==
  [act |-> a, acts |-> acts, phase |-> phase, status |-> <<>>, pos |-> 1,
   left |-> 1, failed |-> FALSE, attempt |-> 0, snap |-> Len(runs)]

Top == stack[Len(stack)]
Below == SubSeq(stack, 1, Len(stack) - 1)
WithTop(f) == Append(Below, f)

Rec(a, st, n, why) == [act |-> a, status |-> st, retry |-> n, error |-> why]

Least(S) == CHOOSE i \in S : \A j \in S : i <= j

\* status[a] is set: it is how dependents see a.
Settled(f, a, st) ==
  [f EXCEPT !.status = [x \in DOMAIN f.status \cup {a} |-> IF x = a THEN st ELSE f.status[x]],
            !.pos = 1 + (CHOOSE i \in DOMAIN f.acts : f.acts[i] = a)]

Done(f) == \A i \in DOMAIN f.acts : f.acts[i] \in DOMAIN f.status

ConditionMet(when, st) ==
  LET conds == IF when = {} THEN {"Succeeded"} ELSE when
  IN  \/ st \in conds
      \/ "Completed" \in conds /\ st \in {"Succeeded", "Failed"}

DepsReady(a, status) == \A d \in pipe.deps[a] : d.on \in DOMAIN status

\* Mutant: one dependency with the end asked for is enough.
SatisfiedByOne(a, status) ==
  pipe.deps[a] = {} \/ \E d \in pipe.deps[a] : ConditionMet(d.when, status[d.on])

Satisfied(a, status) == \A d \in pipe.deps[a] : ConditionMet(d.when, status[d.on])

\* A scan goes through the list and starts again as long as it got on.
Ready(f) == {i \in DOMAIN f.acts : /\ f.acts[i] \notin DOMAIN f.status
                                   /\ DepsReady(f.acts[i], f.status)}
Due == IF stack = <<>> \/ Top.phase # "list" \/ Ready(Top) = {} THEN {}
       ELSE LET ahead == {i \in Ready(Top) : i >= Top.pos}
            IN  {Top.acts[Least(IF ahead # {} THEN ahead ELSE Ready(Top))]}

\* record, then flushActivities: what was not announced yet is.
FlushActivities(rs) ==
  /\ runs' = rs
  /\ stream' = stream \o SubSeq(rs, emitted + 1, Len(rs))
  /\ emitted' = Len(rs)

-----------------------------------------------------------------------------
Init ==
  /\ pipe \in Pipelines
  /\ runs = <<>> /\ emitted = 0 /\ stream = <<>> /\ result = "running"
  /\ stack = <<Frame(Root, pipe.top, "list")>>

\* A dependency ended otherwise than this activity asked for.
Skip == \E a \in Due :
  /\ ~Satisfied(a, Top.status)
  /\ FlushActivities(Append(runs, Rec(a, "Skipped", 0, "")))
  /\ stack' = WithTop(Settled(Top, a, "Skipped"))
  /\ UNCHANGED <<pipe, result>>

\* The report says Inactive, the dependents see the mark.
Deactivated == \E a \in Due :
  /\ Satisfied(a, Top.status) /\ pipe.mark[a] # "active"
  /\ FlushActivities(Append(runs, Rec(a, "Inactive", 0, "")))
  /\ stack' = WithTop(Settled(Top, a, pipe.mark[a]))
  /\ UNCHANGED <<pipe, result>>

Begin == \E a \in Due :
  /\ Satisfied(a, Top.status) /\ pipe.mark[a] = "active"
  /\ stack' = Append(stack, Frame(a, <<>>, "start"))
  /\ UNCHANGED <<pipe, runs, emitted, stream, result>>

\* Mutant: the scan goes on although it does not get on.
ScanAgain ==
  /\ stack # <<>> /\ Top.phase = "list" /\ Ready(Top) = {} /\ ~Done(Top)
  /\ stack' = WithTop([Top EXCEPT !.pos = 1])
  /\ UNCHANGED <<pipe, runs, emitted, stream, result>>

\* A cycle, or a dependency on a name this list does not have: everything
\* left fails, in list order.
Unresolvable ==
  /\ stack # <<>> /\ Top.phase = "list" /\ Ready(Top) = {} /\ ~Done(Top)
  /\ LET stuck == SelectSeq(Top.acts, LAMBDA a : a \notin DOMAIN Top.status)
     IN  /\ FlushActivities(runs \o [i \in DOMAIN stuck |-> Rec(stuck[i], "Failed", 0, "unresolvable")])
         /\ stack' = WithTop([Top EXCEPT
              !.failed = TRUE,
              !.status = [a \in {Top.acts[i] : i \in DOMAIN Top.acts} |->
                            IF a \in DOMAIN Top.status THEN Top.status[a] ELSE "Failed"]])
  /\ UNCHANGED <<pipe, result>>

-----------------------------------------------------------------------------
\* The attempt that settles the activity: its record is the last one, a
\* container's own behind those of its body.
Settle(st, why) ==
  /\ FlushActivities(Append(runs, Rec(Top.act, st, Top.attempt, why)))
  /\ LET up == Below[Len(Below)]
         ended == Settled(up, Top.act, st)
     IN  stack' = Append(SubSeq(Below, 1, Len(Below) - 1),
                         [ended EXCEPT !.failed = @ \/ st = "Failed"])

\* Mutant: the discarded records still count as announced.
RetryKeepsEmitted ==
  /\ runs' = SubSeq(runs, 1, Top.snap)
  /\ stack' = WithTop([Frame(Top.act, <<>>, "start") EXCEPT
                         !.attempt = Top.attempt + 1, !.snap = Top.snap])
  /\ UNCHANGED <<emitted, stream>>

\* A failed attempt is discarded with all it recorded; what was announced of
\* it counts as unannounced again.
Retry ==
  /\ runs' = SubSeq(runs, 1, Top.snap)
  /\ emitted' = IF emitted > Top.snap THEN Top.snap ELSE emitted
  /\ stack' = WithTop([Frame(Top.act, <<>>, "start") EXCEPT
                         !.attempt = Top.attempt + 1, !.snap = Top.snap])
  /\ UNCHANGED stream

EndAttempt(st, why) ==
  /\ UNCHANGED <<pipe, result>>
  /\ IF st = "Failed" /\ Top.attempt < pipe.retry[Top.act]
     THEN Retry
     ELSE Settle(st, why)

\* A duration past the timeout fails an attempt that succeeded.
EndsWell(slow) ==
  IF slow THEN EndAttempt("Failed", "timeout") ELSE EndAttempt("Succeeded", "")

\* Only a Wait and a ForEach have a duration of their own.
MaySlow == IF pipe.timed[Top.act] /\ pipe.kind[Top.act] \in {"Leaf", "ForEach"} THEN BOOLEAN ELSE {FALSE}

Starting == stack # <<>> /\ Top.phase = "start"

RunLeaf ==
  /\ Starting /\ pipe.kind[Top.act] = "Leaf"
  /\ \/ \E slow \in MaySlow : EndsWell(slow)
     \/ EndAttempt("Failed", "error")

\* An expression of the container cannot be resolved: r.fail.
ContainerFails ==
  /\ Starting /\ pipe.kind[Top.act] \in Container
  /\ EndAttempt("Failed", "error")

Enter ==
  /\ Starting /\ pipe.kind[Top.act] \in Container
  /\ \E body \in pipe.bodies[Top.act],
        n \in CASE pipe.kind[Top.act] = "Branch" -> {1}
                [] pipe.kind[Top.act] = "Until" -> {MaxUntil}
                [] pipe.kind[Top.act] = "ForEach" -> 1 .. MaxItems :
       stack' = WithTop([Top EXCEPT !.phase = "list", !.acts = body, !.left = n])
  /\ UNCHANGED <<pipe, runs, emitted, stream, result>>

NoItems ==
  /\ Starting /\ pipe.kind[Top.act] = "ForEach"
  /\ EndAttempt("Succeeded", "")

-----------------------------------------------------------------------------
ListEnds == stack # <<>> /\ Top.phase = "list" /\ Done(Top)

\* finishContainerDur
FinishContainer ==
  IF Top.failed THEN EndAttempt("Failed", "inner")
  ELSE \E slow \in MaySlow : EndsWell(slow)

\* Mutant: the failure of an iteration is forgotten by the next one.
NextIterationForgets ==
  /\ stack' = WithTop([Top EXCEPT !.left = @ - 1, !.status = <<>>, !.pos = 1, !.failed = FALSE])
  /\ UNCHANGED <<pipe, runs, emitted, stream, result>>

NextIteration ==
  /\ stack' = WithTop([Top EXCEPT !.left = @ - 1, !.status = <<>>, !.pos = 1])
  /\ UNCHANGED <<pipe, runs, emitted, stream, result>>

BranchEnds ==
  /\ ListEnds /\ Top.act # Root /\ pipe.kind[Top.act] = "Branch"
  /\ FinishContainer

\* A failed iteration does not keep the next ones from running.
ForEachTurns ==
  /\ ListEnds /\ Top.act # Root /\ pipe.kind[Top.act] = "ForEach"
  /\ IF Top.left > 1 THEN NextIteration ELSE FinishContainer

UntilTurns ==
  /\ ListEnds /\ Top.act # Root /\ pipe.kind[Top.act] = "Until"
  /\ IF Top.failed THEN FinishContainer
     ELSE \/ FinishContainer                          \* the expression is true
          \/ EndAttempt("Failed", "error")            \* it cannot be resolved
          \/ IF Top.left > 1 THEN NextIteration
             ELSE EndAttempt("Failed", "iterations")

Finish ==
  /\ ListEnds /\ Top.act = Root
  /\ FlushActivities(runs)
  /\ result' = IF Top.failed THEN "Failed" ELSE "Succeeded"
  /\ stack' = <<>>
  /\ UNCHANGED pipe

Next ==
  \/ Skip \/ Deactivated \/ Begin \/ Unresolvable
  \/ RunLeaf \/ ContainerFails \/ Enter \/ NoItems
  \/ BranchEnds \/ ForEachTurns \/ UntilTurns \/ Finish

Spec == Init /\ [][Next]_vars

\* The interpreter's goroutine is scheduled until it returns, and what it
\* calls returns: nothing in it waits.
FairSpec == Spec /\ WF_vars(Next)
-----------------------------------------------------------------------------
\* The frames, the report and the stream are made of what the interpreter
\* puts in them, and what it counts as announced was announced.
TypeOK ==
  /\ pipe \in Pipelines
  /\ result \in {"running", "Succeeded", "Failed"}
  /\ emitted \in 0 .. Len(runs) /\ emitted <= Len(stream)
  /\ \A i \in DOMAIN runs : runs[i].act \in Activity /\ runs[i].retry \in 0 .. pipe.retry[runs[i].act]
  /\ \A i \in DOMAIN stack :
       /\ stack[i].act = Root <=> i = 1
       /\ stack[i].phase \in IF i = Len(stack) THEN {"start", "list"} ELSE {"list"}
       /\ stack[i].snap \in 0 .. Len(runs)
       /\ DOMAIN stack[i].status \subseteq {stack[i].acts[j] : j \in DOMAIN stack[i].acts}

TopLevel == {pipe.top[i] : i \in DOMAIN pipe.top}

\* How a record of the report is seen by the dependents of its activity.
Seen(r) == IF r.status = "Inactive" THEN pipe.mark[r.act] ELSE r.status

\* dependsOn over the whole report, whatever was retried in between: an
\* activity ran only behind the ends it asked for, was skipped only when all
\* its dependencies had ended and one otherwise, and failed as unresolvable
\* only with a dependency that never ended or failed that way itself
\* (depsReady, runActivities).
BranchesHonoured ==
  \A i \in DOMAIN runs : runs[i].act \in TopLevel =>
    LET deps == pipe.deps[runs[i].act]
        Ends(d) == {runs[j] : j \in {k \in 1 .. i - 1 : runs[k].act = d.on /\ d.on \in TopLevel}}
    IN  IF runs[i].error = "unresolvable"
        THEN \E d \in deps : \A r \in Ends(d) : r.error = "unresolvable"
        ELSE /\ \A d \in deps : Ends(d) # {}
             /\ runs[i].status = "Skipped" <=>
                  \E d \in deps : \A r \in Ends(d) : ~ConditionMet(d.when, Seen(r))

\* The verdicts agree with the report: the run failed exactly when one of its
\* own activities is reported Failed, a failure some other activity handled
\* included, and an activity reported Succeeded has no failure among the
\* records of its body, which no discarded attempt may have left behind.
VerdictsAgree ==
  /\ result # "running" =>
       (result = "Failed" <=> \E i \in DOMAIN runs : runs[i].act \in TopLevel /\ runs[i].status = "Failed")
  /\ \A i, j \in DOMAIN runs :
       (/\ j < i /\ runs[i].act \in TopLevel /\ runs[i].status = "Succeeded"
        /\ \A k \in j .. i - 1 : runs[k].act \notin TopLevel)
       => runs[j].status # "Failed"

\* What ran follows the graph, and the verdicts what ran.
RunFollowsGraph == BranchesHonoured /\ VerdictsAgree

\* How many records of the report the first k of the stream go through.
Matched ==
  LET m[k \in 0 .. Len(stream)] ==
        IF k = 0 THEN 0
        ELSE LET before == m[k - 1]
             IN  IF before < Len(runs) /\ runs[before + 1] = stream[k] THEN before + 1 ELSE before
  IN m[Len(stream)]

\* A finished run reports each of its own activities once, and everything it
\* reports, in that order, was announced in its settled form: the retries of
\* nested activities lose nothing (flushActivities, runWithPolicy).
ReportComplete ==
  result # "running" =>
    /\ \A a \in TopLevel : Cardinality({i \in DOMAIN runs : runs[i].act = a}) = 1
    /\ Matched = Len(runs)

\* "Flushing only at points where the records are settled keeps the stream and
\* `queryactivityruns` in agreement" (flushActivities). The body of a container
\* that is retried was announced before the attempt was discarded.
StreamAgrees == result # "running" => stream = runs

\* Every run reaches a verdict: unresolvable dependencies, loops whose
\* condition never holds and retries all come to an end.
RunEnds == <>(result # "running")
=============================================================================
