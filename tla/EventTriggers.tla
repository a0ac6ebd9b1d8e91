---------------------------- MODULE EventTriggers ----------------------------
(***************************************************************************)
(* Event triggers (internal/api/triggers.go, internal/store/events.go).    *)
(*                                                                         *)
(* A committed write emits a file event; the writer's own thread hands it  *)
(* to every trigger that matches, and returns when each has started its    *)
(* job. The job's pipeline runs in a goroutine and may write files again.  *)
(* A path prefix is part of the kind of an event. Triggers are kept by id; *)
(* the order in which a dispatch takes them is left open.                  *)
(***************************************************************************)
EXTENDS Integers, Sequences, FiniteSets

CONSTANTS
  Trigger,          \* ids
  Item,             \* items, watched for writes and targets of triggers
  Kind,             \* kinds of event
  Thread,           \* request and pipeline threads that write
  MaxActivations,   \* maxTriggerActivations
  MaxEvents         \* bound of the model: file events

\* A trigger may activate, and events are bounded.
TriggersAssumption ==
  /\ MaxActivations \in Nat \ {0} /\ MaxEvents \in Nat

Row == [enabled : BOOLEAN, kind : Kind, source : Item, target : Item]

VARIABLES
  row,              \* the stored triggers: id -> row
  item,             \* the items that exist
  event,            \* emitted events: kind, source, and per trigger how many
                    \* of its activations led to the event
  job,              \* jobs started, each [trigger, event]
  firing,           \* firingSet.on, 0 when absent
  thread,           \* thread -> its dispatch
  patch             \* a PATCH between its read and its write

vars == <<row, item, event, job, firing, thread, patch>>

Idle == [at |-> "idle"]
NoPatch == [of |-> "none"]

Init ==
  /\ row = <<>> /\ item = Item
  /\ event = <<>> /\ job = {}
  /\ firing = [t \in Trigger |-> 0]
  /\ thread = [th \in Thread |-> Idle]
  /\ patch = NoPatch

-----------------------------------------------------------------------------
\* EventTrigger.Matches.
Matches(r, e) == r.enabled /\ r.kind = e.kind /\ r.source = e.source

\* A write has committed and emits. `sure' are the triggers that match from now
\* until the write returns: whatever their owner does to them takes them out.
Emit(th, nested) ==
  /\ thread[th] = Idle
  /\ Len(event) < MaxEvents
  /\ \E k \in Kind, i \in item :
       LET e == [kind |-> k, source |-> i, nested |-> nested]
       IN  /\ event' = Append(event, e)
           /\ thread' = [thread EXCEPT ![th] =
                [at |-> "list", event |-> Len(event) + 1,
                 sure |-> {t \in DOMAIN row : Matches(row[t], e)}]]
  /\ UNCHANGED <<row, item, job, firing, patch>>

ClientWrites(th) == Emit(th, [t \in Trigger |-> 0])

\* A write of a running pipeline, or of what it runs.
JobWrites(th) ==
  \E j \in job : Emit(th, [event[j.event].nested EXCEPT ![j.trigger] = @ + 1])

\* TriggersForItem, and the rows of it that match.
List(th) ==
  /\ thread[th].at = "list"
  /\ thread' = [thread EXCEPT ![th] =
       [at |-> "loop", event |-> @.event, sure |-> @.sure,
        todo |-> {<<t, row[t]>> : t \in {u \in DOMAIN row : Matches(row[u], event[@.event])}}]]
  /\ UNCHANGED <<row, item, event, job, firing, patch>>

\* Mutant: a trigger at its cap ends the dispatch.
EnterOrStop(th) ==
  /\ thread[th].at = "loop"
  /\ \E x \in thread[th].todo :
       IF firing[x[1]] >= MaxActivations
       THEN /\ thread' = [thread EXCEPT ![th].todo = {}, ![th].sure = @ \ {x[1]}]
            /\ UNCHANGED firing
       ELSE /\ thread' = [thread EXCEPT ![th] =
                 [at |-> "fire", event |-> @.event, sure |-> @.sure,
                  todo |-> @.todo \ {x}, trigger |-> x[1], target |-> x[2].target]]
            /\ firing' = [firing EXCEPT ![x[1]] = @ + 1]
  /\ UNCHANGED <<row, item, event, job, patch>>

\* firingSet.enter; a trigger at its cap is skipped.
Enter(th) ==
  /\ thread[th].at = "loop"
  /\ \E x \in thread[th].todo :
       IF firing[x[1]] >= MaxActivations
       THEN /\ thread' = [thread EXCEPT ![th].todo = @ \ {x}, ![th].sure = @ \ {x[1]}]
            /\ UNCHANGED firing
       ELSE /\ thread' = [thread EXCEPT ![th] =
                 [at |-> "fire", event |-> @.event, sure |-> @.sure,
                  todo |-> @.todo \ {x}, trigger |-> x[1], target |-> x[2].target]]
            /\ firing' = [firing EXCEPT ![x[1]] = @ + 1]
  /\ UNCHANGED <<row, item, event, job, patch>>

\* fireTrigger: GetItem, then startJob, which may refuse.
Fire(th) ==
  /\ thread[th].at = "fire"
  /\ \/ /\ thread[th].target \in item
        /\ job' = job \cup {[trigger |-> thread[th].trigger, event |-> thread[th].event]}
        /\ thread' = [thread EXCEPT ![th].at = "leave"]
     \/ thread' = [thread EXCEPT ![th].at = "leave", ![th].sure = @ \ {thread[th].trigger}]
        /\ UNCHANGED job
  /\ UNCHANGED <<row, item, event, firing, patch>>

Loop(th) == [at |-> "loop", event |-> thread[th].event, sure |-> thread[th].sure, todo |-> thread[th].todo]

\* Mutant: an activation that started no job does not leave.
LeaveStarted(th) ==
  /\ thread[th].at = "leave"
  /\ firing' = IF [trigger |-> thread[th].trigger, event |-> thread[th].event] \in job
               THEN [firing EXCEPT ![thread[th].trigger] = @ - 1] ELSE firing
  /\ thread' = [thread EXCEPT ![th] = Loop(th)]
  /\ UNCHANGED <<row, item, event, job, patch>>

\* firingSet.leave, whether or not a job was started.
Leave(th) ==
  /\ thread[th].at = "leave"
  /\ firing' = [firing EXCEPT ![thread[th].trigger] = IF @ <= 1 THEN 0 ELSE @ - 1]
  /\ thread' = [thread EXCEPT ![th] = Loop(th)]
  /\ UNCHANGED <<row, item, event, job, patch>>

\* The write returns to its caller.
Return(th) ==
  /\ thread[th].at = "loop" /\ thread[th].todo = {}
  /\ thread' = [thread EXCEPT ![th] = Idle]
  /\ UNCHANGED <<row, item, event, job, firing, patch>>

-----------------------------------------------------------------------------
\* What a change of trigger t leaves of the `sure' of the running dispatches.
Unsure(t) == [th \in Thread |->
  IF thread[th] = Idle THEN Idle ELSE [thread[th] EXCEPT !.sure = @ \ {t}]]

\* createEventTrigger and applyTriggerRequest: the target must be there.
CreateTrigger(t, r) ==
  /\ t \notin DOMAIN row /\ patch.of # t
  /\ \A j \in job : j.trigger # t   \* ids are never used again
  /\ r.enabled /\ r.target \in item
  /\ row' = [u \in DOMAIN row \cup {t} |-> IF u = t THEN r ELSE row[u]]
  /\ UNCHANGED <<item, event, job, firing, thread, patch>>

\* updateEventTrigger reads the row, ...
ReadPatch(t) ==
  /\ patch = NoPatch /\ t \in DOMAIN row
  /\ patch' = [of |-> t, row |-> row[t]]
  /\ UNCHANGED <<row, item, event, job, firing, thread>>

\* ... and writes it all back with the fields of the request changed.
WritePatch(r) ==
  /\ patch # NoPatch
  /\ r.target \in item
  /\ Cardinality({f \in DOMAIN r : r[f] # patch.row[f]}) <= 1   \* one field will do
  /\ row' = [u \in DOMAIN row |-> IF u = patch.of THEN r ELSE row[u]]
  /\ thread' = Unsure(patch.of)
  /\ patch' = NoPatch
  /\ UNCHANGED <<item, event, job, firing>>

DeleteTrigger(t) ==
  /\ t \in DOMAIN row
  /\ row' = [u \in DOMAIN row \ {t} |-> row[u]]
  /\ thread' = Unsure(t)
  /\ UNCHANGED <<item, event, job, firing, patch>>

\* Nothing tells the triggers that an item is deleted.
DeleteItem(i) ==
  /\ i \in item
  /\ item' = item \ {i}
  /\ UNCHANGED <<row, event, job, firing, thread, patch>>

Next ==
  \/ \E th \in Thread : \/ ClientWrites(th) \/ JobWrites(th) \/ List(th)
                        \/ Enter(th) \/ Fire(th) \/ Leave(th) \/ Return(th)
  \/ \E t \in Trigger : ReadPatch(t) \/ DeleteTrigger(t) \/ \E r \in Row : CreateTrigger(t, r)
  \/ \E r \in Row : WritePatch(r)
  \/ \E i \in Item : DeleteItem(i)

Spec == Init /\ [][Next]_vars

-----------------------------------------------------------------------------
\* The counter of a trigger is the number of its activations under way, through
\* refused jobs, deleted targets and triggers deleted meanwhile, and within the
\* cap: a count that leaks silences the trigger for good (triggers.go:311-321).
ActivationsCounted ==
  \A t \in Trigger :
    /\ firing[t] = Cardinality({th \in Thread : thread[th].at \in {"fire", "leave"} /\ thread[th].trigger = t})
    /\ firing[t] <= MaxActivations

\* "A Reflex must have fired by the time the write returns" (events.go:43): every
\* trigger that matched throughout, that was not at its cap and whose job was not
\* refused has started its job when the write returns.
FiredBeforeReturn ==
  \A th \in Thread :
    thread[th].at = "loop" /\ thread[th].todo = {}
      => \A t \in thread[th].sure : [trigger |-> t, event |-> thread[th].event] \in job

\* Both together: only a trigger with MaxActivations jobs being started at the
\* time can be passed over by a write that matches it.
TriggersFire == ActivationsCounted /\ FiredBeforeReturn

\* "A cycle climbs to the cap and is cut there" (triggers.go:269-271): a trigger
\* starts no job for an event that its own activations led to that often.
CycleIsCut == \A j \in job : event[j.event].nested[j.trigger] < MaxActivations
=============================================================================
