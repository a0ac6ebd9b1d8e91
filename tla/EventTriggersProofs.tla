------------------------- MODULE EventTriggersProofs -------------------------
(* Theorems about EventTriggers, for any triggers, items, kinds, threads and   *)
(* cap: the count of a trigger's activations does not leak, and a write        *)
(* returns only once the triggers it matched have started their jobs.          *)
EXTENDS EventTriggers, FiniteSetTheorems, SequenceTheorems, TLAPS

Nested == [Trigger -> Nat]

IsList(r) == r = [at |-> "list", event |-> r.event, sure |-> r.sure]
IsLoop(r) == r = [at |-> "loop", event |-> r.event, sure |-> r.sure, todo |-> r.todo]
IsActivation(r) ==
  /\ r.at \in {"fire", "leave"}
  /\ r = [at |-> r.at, event |-> r.event, sure |-> r.sure, todo |-> r.todo,
          trigger |-> r.trigger, target |-> r.target]

\* The triggers that a dispatch has still to enter.
Left(r) == {x[1] : x \in r.todo}
Started(t, r) == [trigger |-> t, event |-> r.event] \in job

\* How far the dispatch r of an event has come: a trigger that is sure to match
\* is still stored, still to be entered, being fired, or has started its job.
Fine(r) ==
  \/ r = Idle
  \/ /\ r.event \in 1 .. Len(event)
     /\ \/ /\ IsList(r)
           /\ \A t \in r.sure : t \in DOMAIN row /\ Matches(row[t], event[r.event])
        \/ /\ IsLoop(r) /\ Left(r) \subseteq Trigger
           /\ \A t \in r.sure : t \in Left(r) \/ Started(t, r)
        \/ /\ IsActivation(r) /\ Left(r) \subseteq Trigger /\ r.trigger \in Trigger
           /\ \A t \in r.sure :
                t \in Left(r) \/ Started(t, r) \/ (r.at = "fire" /\ t = r.trigger)

DispatchInv ==
  /\ thread = [th \in Thread |-> thread[th]]
  /\ \A th \in Thread : Fine(thread[th])

\* Triggers, events and jobs are of one another.
StoreInv ==
  /\ DOMAIN row \subseteq Trigger
  /\ event \in Seq([kind : Kind, source : Item, nested : Nested])
  /\ item \subseteq Item
  /\ job \subseteq [trigger : Trigger, event : 1 .. Len(event)]

\* The activations of a trigger under way.
Active(t) == {th \in Thread : thread[th].at \in {"fire", "leave"} /\ thread[th].trigger = t}

CountInv ==
  /\ firing = [t \in Trigger |-> firing[t]]
  /\ \A t \in Trigger :
       /\ IsFiniteSet(Active(t)) /\ firing[t] = Cardinality(Active(t))
       /\ firing[t] <= MaxActivations

Inv == StoreInv /\ DispatchInv /\ CountInv

-----------------------------------------------------------------------------
(* Dispatches.                                                               *)

\* What a dispatch has come to stays so while events and jobs are added and the
\* triggers it is sure of are left alone.
LEMMA FineKept ==
  ASSUME NEW r, Fine(r), event \in Seq([kind : Kind, source : Item, nested : Nested]),
         Len(event) \in Nat, Len(event') \in Nat, Len(event) <= Len(event'),
         \A n \in 1 .. Len(event) : event'[n] = event[n], job \subseteq job',
         \A t \in DOMAIN row : t \in DOMAIN row' /\ row'[t] = row[t]
  PROVE  Fine(r)'
<1>1. CASE r = Idle
  BY <1>1 DEF Fine
<1>2. CASE r.event \in 1 .. Len(event) /\ IsList(r)
             /\ \A t \in r.sure : t \in DOMAIN row /\ Matches(row[t], event[r.event])
  <2>1. r.event \in 1 .. Len(event')
    BY <1>2
  <2>2. ASSUME NEW t \in r.sure PROVE t \in DOMAIN row' /\ Matches(row'[t], event'[r.event])
    BY <1>2, <2>2
  <2> QED BY <1>2, <2>1, <2>2 DEF Fine, Matches
<1>3. CASE r.event \in 1 .. Len(event) /\ IsLoop(r) /\ Left(r) \subseteq Trigger
             /\ \A t \in r.sure : t \in Left(r) \/ Started(t, r)
  <2>1. r.event \in 1 .. Len(event') /\ \A t : Started(t, r) => Started(t, r)'
    BY <1>3 DEF Started
  <2> QED BY <1>3, <2>1 DEF Fine
<1>4. CASE r.event \in 1 .. Len(event) /\ IsActivation(r) /\ Left(r) \subseteq Trigger
             /\ r.trigger \in Trigger
             /\ \A t \in r.sure :
                  t \in Left(r) \/ Started(t, r) \/ (r.at = "fire" /\ t = r.trigger)
  <2>1. r.event \in 1 .. Len(event') /\ \A t : Started(t, r) => Started(t, r)'
    BY <1>4 DEF Started
  <2> QED BY <1>4, <2>1 DEF Fine
<1> QED BY <1>1, <1>2, <1>3, <1>4 DEF Fine

\* One thread goes on.
LEMMA GoesOn ==
  ASSUME StoreInv, DispatchInv, NEW th \in Thread, NEW r, thread' = [thread EXCEPT ![th] = r],
         Fine(r)', Len(event') \in Nat, Len(event) <= Len(event'),
         \A n \in 1 .. Len(event) : event'[n] = event[n], job \subseteq job', row' = row
  PROVE  DispatchInv' /\ thread'[th] = r /\ \A d \in Thread \ {th} : thread'[d] = thread[d]
<1>1. /\ thread' = [d \in Thread |-> thread'[d]] /\ thread'[th] = r
      /\ \A d \in Thread \ {th} : thread'[d] = thread[d]
  BY DEF DispatchInv
<1>2. ASSUME NEW d \in Thread, d # th PROVE Fine(thread[d])'
  <2>1. PICK y : y = thread[d]
    OBVIOUS
  <2>2. Fine(y) /\ thread'[d] = y
    BY <1>1, <1>2, <2>1 DEF DispatchInv
  <2>3. Len(event) \in Nat /\ event \in Seq([kind : Kind, source : Item, nested : Nested])
        /\ \A t \in DOMAIN row : t \in DOMAIN row' /\ row'[t] = row[t]
    BY DEF StoreInv
  <2>4. Fine(y)'
    BY <2>2, <2>3, FineKept
  <2> QED BY <2>2, <2>4 DEF Fine, Started, Left, IsList, IsLoop, IsActivation
<1>3. Fine(thread[th])'
  BY <1>1 DEF Fine, Started, Left, IsList, IsLoop, IsActivation
<1> QED BY <1>1, <1>2, <1>3 DEF DispatchInv

-----------------------------------------------------------------------------
(* Counts.                                                                   *)
Activates(r, t) == r.at \in {"fire", "leave"} /\ r.trigger = t

\* The activations of a trigger, when one thread goes on.
LEMMA ActiveIs ==
  ASSUME NEW th \in Thread, NEW t, \A d \in Thread \ {th} : thread'[d] = thread[d]
  PROVE  Active(t)' = (Active(t) \ {th}) \cup (IF Activates(thread[th], t)' THEN {th} ELSE {})
  BY DEF Active, Activates

LEMMA CountKept ==
  ASSUME CountInv, firing' = firing, \A t \in Trigger : Active(t)' = Active(t)
  PROVE  CountInv'
<1>1. \A t \in Trigger : IsFiniteSet(Active(t)') /\ firing'[t] = Cardinality(Active(t)')
  BY DEF CountInv
<1> QED BY <1>1 DEF CountInv

\* A step of one thread that enters or leaves no trigger.
LEMMA StepKeepsCount ==
  ASSUME CountInv, NEW th \in Thread, \A d \in Thread \ {th} : thread'[d] = thread[d],
         firing' = firing, \A t \in Trigger : Activates(thread[th], t)' <=> Activates(thread[th], t)
  PROVE  CountInv'
<1>1. ASSUME NEW t \in Trigger PROVE Active(t)' = Active(t)
  <2>1. Active(t)' = (Active(t) \ {th}) \cup (IF Activates(thread[th], t)' THEN {th} ELSE {})
    BY ActiveIs
  <2>2. th \in Active(t) <=> Activates(thread[th], t)
    BY DEF Active, Activates
  <2> QED BY <2>1, <2>2
<1> QED BY <1>1, CountKept

\* firingSet.enter.
LEMMA EnterCounts ==
  ASSUME MaxActivations \in Nat, CountInv, NEW th \in Thread, NEW k \in Trigger,
         \A d \in Thread \ {th} : thread'[d] = thread[d],
         ~(firing[k] >= MaxActivations), firing' = [firing EXCEPT ![k] = @ + 1],
         thread[th].at \notin {"fire", "leave"}, Activates(thread[th], k)'
  PROVE  CountInv'
<1>1. firing' = [t \in Trigger |-> firing'[t]] /\ firing'[k] = firing[k] + 1
      /\ \A t \in Trigger \ {k} : firing'[t] = firing[t]
  BY DEF CountInv
<1>2. \A t \in Trigger : th \notin Active(t)
  BY DEF Active
<1>3. Active(k)' = Active(k) \cup {th}
  BY <1>2, ActiveIs
<1>4. IsFiniteSet(Active(k)') /\ Cardinality(Active(k)') = Cardinality(Active(k)) + 1
  BY <1>2, <1>3, FS_AddElement DEF CountInv
<1>5. firing[k] \in Nat /\ firing[k] < MaxActivations
  BY FS_CardinalityType DEF CountInv
<1>6. ASSUME NEW t \in Trigger, t # k PROVE Active(t)' = Active(t)
  <2>1. Active(t)' = (Active(t) \ {th}) \cup (IF Activates(thread[th], t)' THEN {th} ELSE {})
    BY ActiveIs
  <2>2. ~Activates(thread[th], t)'
    BY <1>6 DEF Activates
  <2> QED BY <1>2, <2>1, <2>2
<1>7. ASSUME NEW t \in Trigger
      PROVE  /\ IsFiniteSet(Active(t)') /\ firing'[t] = Cardinality(Active(t)')
             /\ firing'[t] <= MaxActivations
  <2>1. CASE t = k
    <3>1. firing[k] = Cardinality(Active(k))
      BY DEF CountInv
    <3> QED BY <1>1, <1>4, <1>5, <2>1, <3>1
  <2>2. CASE t # k
    BY <1>1, <1>6, <2>2 DEF CountInv
  <2> QED BY <2>1, <2>2
<1> QED BY <1>1, <1>7 DEF CountInv

\* firingSet.leave.
LEMMA LeaveCounts ==
  ASSUME MaxActivations \in Nat, CountInv, NEW th \in Thread, NEW k \in Trigger,
         \A d \in Thread \ {th} : thread'[d] = thread[d],
         firing' = [firing EXCEPT ![k] = IF @ <= 1 THEN 0 ELSE @ - 1],
         Activates(thread[th], k), thread'[th].at \notin {"fire", "leave"}
  PROVE  CountInv'
<1>1. /\ firing' = [t \in Trigger |-> firing'[t]]
      /\ firing'[k] = IF firing[k] <= 1 THEN 0 ELSE firing[k] - 1
      /\ \A t \in Trigger \ {k} : firing'[t] = firing[t]
  BY DEF CountInv
<1>2. th \in Active(k) /\ \A t \in Trigger \ {k} : th \notin Active(t)
  BY DEF Active, Activates
<1>3. \A t : ~Activates(thread[th], t)'
  BY DEF Activates
<1>4. Active(k)' = Active(k) \ {th}
  BY <1>3, ActiveIs
<1>5. IsFiniteSet(Active(k)') /\ Cardinality(Active(k)') = Cardinality(Active(k)) - 1
  BY <1>2, <1>4, FS_RemoveElement DEF CountInv
<1>6. firing[k] = Cardinality(Active(k)) /\ Cardinality(Active(k)) \in Nat
      /\ Cardinality(Active(k)') \in Nat /\ firing[k] <= MaxActivations
  BY <1>5, FS_CardinalityType DEF CountInv
<1>7. firing'[k] = Cardinality(Active(k)') /\ firing'[k] <= MaxActivations
  BY <1>1, <1>5, <1>6
<1>8. ASSUME NEW t \in Trigger, t # k PROVE Active(t)' = Active(t)
  <2>1. Active(t)' = (Active(t) \ {th}) \cup (IF Activates(thread[th], t)' THEN {th} ELSE {})
    BY ActiveIs
  <2> QED BY <1>2, <1>3, <1>8, <2>1
<1>9. ASSUME NEW t \in Trigger
      PROVE  /\ IsFiniteSet(Active(t)') /\ firing'[t] = Cardinality(Active(t)')
             /\ firing'[t] <= MaxActivations
  <2>1. CASE t = k
    BY <1>5, <1>7, <2>1
  <2>2. CASE t # k
    BY <1>1, <1>8, <2>2 DEF CountInv
  <2> QED BY <2>1, <2>2
<1> QED BY <1>1, <1>9 DEF CountInv

-----------------------------------------------------------------------------
(* The steps of a dispatch.                                                  *)

\* A step of one thread that enters or leaves no trigger, and adds at most jobs.
LEMMA Steps ==
  ASSUME Inv, NEW th \in Thread, NEW r, thread' = [thread EXCEPT ![th] = r], Fine(r)',
         job \subseteq job', UNCHANGED <<row, item, event, firing>>,
         job' \subseteq [trigger : Trigger, event : 1 .. Len(event)],
         \A t \in Trigger : Activates(r, t) <=> Activates(thread[th], t)
  PROVE  Inv'
<1>1. StoreInv'
  BY DEF Inv, StoreInv
<1>2. Len(event') \in Nat /\ Len(event) <= Len(event')
  BY DEF Inv, StoreInv
<1>3. DispatchInv' /\ thread'[th] = r /\ \A d \in Thread \ {th} : thread'[d] = thread[d]
  BY <1>2, GoesOn DEF Inv
<1>4. \A t \in Trigger : Activates(thread[th], t)' <=> Activates(thread[th], t)
  BY <1>3 DEF Activates
<1>5. CountInv'
  BY <1>3, <1>4, StepKeepsCount DEF Inv
<1> QED BY <1>1, <1>3, <1>5 DEF Inv

LEMMA EmitInv ==
  ASSUME Inv, NEW th \in Thread, NEW nested \in Nested, Emit(th, nested) PROVE Inv'
<1>1. PICK k \in Kind, i \in item :
        LET e == [kind |-> k, source |-> i, nested |-> nested]
        IN  /\ event' = Append(event, e)
            /\ thread' = [thread EXCEPT ![th] =
                 [at |-> "list", event |-> Len(event) + 1,
                  sure |-> {t \in DOMAIN row : Matches(row[t], e)}]]
  BY DEF Emit
<1> DEFINE e == [kind |-> k, source |-> i, nested |-> nested]
<1>0. PICK r : r = [at |-> "list", event |-> Len(event) + 1,
                    sure |-> {t \in DOMAIN row : Matches(row[t], e)}]
  OBVIOUS
<1>2. /\ event' = Append(event, e) /\ thread' = [thread EXCEPT ![th] = r]
      /\ thread[th] = Idle /\ UNCHANGED <<row, item, job, firing>>
  BY <1>1, <1>0 DEF Emit
<1>3. event \in Seq([kind : Kind, source : Item, nested : Nested])
      /\ e \in [kind : Kind, source : Item, nested : Nested]
  BY DEF Inv, StoreInv
<1> HIDE DEF e
<1>4. /\ event' \in Seq([kind : Kind, source : Item, nested : Nested])
      /\ Len(event) \in Nat /\ Len(event') = Len(event) + 1 /\ event'[Len(event) + 1] = e
      /\ \A n \in 1 .. Len(event) : event'[n] = event[n]
  BY <1>2, <1>3
<1>5. StoreInv'
  <2>1. [trigger : Trigger, event : 1 .. Len(event)]
          \subseteq [trigger : Trigger, event : 1 .. Len(event')]
    BY <1>4
  <2> QED BY <1>2, <1>4, <2>1 DEF Inv, StoreInv
<1>6. Fine(r)'
  <2>1. r.event = Len(event) + 1 /\ r.event \in 1 .. Len(event') /\ IsList(r)
        /\ r.sure = {t \in DOMAIN row : Matches(row[t], e)}
    BY <1>4, <1>0 DEF IsList
  <2>2. row' = row /\ event'[r.event] = e
    BY <1>2, <1>4, <2>1
  <2>3. \A t \in r.sure : t \in DOMAIN row' /\ Matches(row'[t], event'[r.event])
    BY <2>1, <2>2, Zenon
  <2> QED BY <2>1, <2>3 DEF Fine, IsList, Matches
<1>7. DispatchInv' /\ thread'[th] = r /\ \A d \in Thread \ {th} : thread'[d] = thread[d]
  <2>1. Len(event') \in Nat /\ Len(event) <= Len(event') /\ job \subseteq job'
    BY <1>2, <1>4
  <2>2. \A n \in 1 .. Len(event) : event'[n] = event[n]
    BY <1>4
  <2> QED BY <1>2, <1>6, <2>1, <2>2, GoesOn DEF Inv
<1>8. \A t \in Trigger : Activates(thread[th], t)' <=> Activates(thread[th], t)
  BY <1>2, <1>7, <1>0 DEF Activates, Idle
<1>9. CountInv'
  BY <1>2, <1>7, <1>8, StepKeepsCount DEF Inv
<1> QED BY <1>5, <1>7, <1>9 DEF Inv

LEMMA JobWritesInv == ASSUME Inv, NEW th \in Thread, JobWrites(th) PROVE Inv'
<1>1. PICK j \in job : Emit(th, [event[j.event].nested EXCEPT ![j.trigger] = @ + 1])
  BY DEF JobWrites
<1>2. j \in [trigger : Trigger, event : 1 .. Len(event)]
      /\ event \in Seq([kind : Kind, source : Item, nested : Nested])
  BY DEF Inv, StoreInv
<1>3. event[j.event].nested \in Nested /\ j.trigger \in Trigger
  <2>1. event[j.event] \in [kind : Kind, source : Item, nested : Nested]
    <3>1. j.event \in 1 .. Len(event) /\ j.event \in DOMAIN event
      BY <1>2
    <3> QED BY <1>2, <3>1, ElementOfSeq
  <2> QED BY <1>2, <2>1
<1>4. [event[j.event].nested EXCEPT ![j.trigger] = @ + 1] \in Nested
  BY <1>3 DEF Nested
<1> QED BY <1>1, <1>4, EmitInv

LEMMA ListInv == ASSUME Inv, NEW th \in Thread, List(th) PROVE Inv'
<1>1. PICK x : x = thread[th]
  OBVIOUS
<1>2. Fine(x) /\ x.at = "list"
  BY <1>1 DEF List, Inv, DispatchInv
<1> DEFINE todo == {<<t, row[t]>> : t \in {u \in DOMAIN row : Matches(row[u], event[x.event])}}
<1>0. PICK r : r = [at |-> "loop", event |-> x.event, sure |-> x.sure, todo |-> todo]
  OBVIOUS
<1>3. thread' = [thread EXCEPT ![th] = r] /\ UNCHANGED <<row, item, event, job, firing>>
  BY <1>1, <1>0 DEF List, Inv, DispatchInv
<1>4. /\ x.event \in 1 .. Len(event)
      /\ \A t \in x.sure : t \in DOMAIN row /\ Matches(row[t], event[x.event])
  BY <1>2 DEF Fine, Idle, IsLoop, IsActivation
<1>5. \A t \in x.sure : t \in Left(r)
  <2>1. ASSUME NEW t \in x.sure PROVE <<t, row[t]>> \in todo /\ <<t, row[t]>>[1] = t
    BY <1>4
  <2> QED BY <1>0, <2>1 DEF Left
<1>6. Left(r) \subseteq Trigger
  BY <1>0 DEF Left, Inv, StoreInv
<1> HIDE DEF todo
<1>7. Fine(r)'
  BY <1>3, <1>4, <1>5, <1>6, <1>0 DEF Fine, IsLoop, Left
<1>8. \A t \in Trigger : Activates(r, t) <=> Activates(thread[th], t)
  BY <1>1, <1>2, <1>0 DEF Activates
<1> QED BY <1>3, <1>7, <1>8, Steps DEF Inv, StoreInv

LEMMA ReturnInv == ASSUME Inv, NEW th \in Thread, Return(th) PROVE Inv'
<1>1. thread' = [thread EXCEPT ![th] = Idle] /\ UNCHANGED <<row, item, event, job, firing>>
  BY DEF Return
<1>2. Fine(Idle)'
  BY DEF Fine
<1>3. \A t \in Trigger : Activates(Idle, t) <=> Activates(thread[th], t)
  BY DEF Activates, Idle, Return
<1> QED BY <1>1, <1>2, <1>3, Steps DEF Inv, StoreInv

LEMMA EnterInv ==
  ASSUME MaxActivations \in Nat, Inv, NEW th \in Thread, Enter(th) PROVE Inv'
<1>1. PICK x \in thread[th].todo :
        IF firing[x[1]] >= MaxActivations
        THEN /\ thread' = [thread EXCEPT ![th].todo = @ \ {x}, ![th].sure = @ \ {x[1]}]
             /\ UNCHANGED firing
        ELSE /\ thread' = [thread EXCEPT ![th] =
                  [at |-> "fire", event |-> @.event, sure |-> @.sure,
                   todo |-> @.todo \ {x}, trigger |-> x[1], target |-> x[2].target]]
             /\ firing' = [firing EXCEPT ![x[1]] = @ + 1]
  BY DEF Enter
<1>2. PICK y : y = thread[th]
  OBVIOUS
<1>3. Fine(y) /\ y.at = "loop"
  BY <1>2 DEF Enter, Inv, DispatchInv
<1>4. /\ y.event \in 1 .. Len(event) /\ IsLoop(y) /\ Left(y) \subseteq Trigger
      /\ \A t \in y.sure : t \in Left(y) \/ Started(t, y)
  BY <1>3 DEF Fine, Idle, IsList, IsActivation
<1>5. PICK e, sure, todo : y = [at |-> "loop", event |-> e, sure |-> sure, todo |-> todo]
  BY <1>4 DEF IsLoop
<1>6. x \in todo /\ x[1] \in Trigger
  BY <1>1, <1>2, <1>4, <1>5 DEF Left
<1>7. CASE firing[x[1]] >= MaxActivations
  <2>1. PICK r : r = [at |-> "loop", event |-> e, sure |-> sure \ {x[1]}, todo |-> todo \ {x}]
    OBVIOUS
  <2>2. thread' = [thread EXCEPT ![th] = r] /\ UNCHANGED <<row, item, event, job, firing>>
    <3>1. thread' = [thread EXCEPT ![th].todo = @ \ {x}, ![th].sure = @ \ {x[1]}]
      BY <1>1, <1>7
    <3>2. thread[th] = [at |-> "loop", event |-> e, sure |-> sure, todo |-> todo]
      BY <1>2, <1>5
    <3> DEFINE once == [at |-> "loop", event |-> e, sure |-> sure, todo |-> todo \ {x}]
    <3>3. thread' = [thread EXCEPT ![th] =
                       [[thread[th] EXCEPT !.todo = @ \ {x}]
                          EXCEPT !.sure = thread[th].sure \ {x[1]}]]
      BY <3>1 DEF Inv, DispatchInv
    <3>4. thread[th].sure \ {x[1]} = sure \ {x[1]} /\ [thread[th] EXCEPT !.todo = @ \ {x}] = once
      BY <3>2
    <3>5. [once EXCEPT !.sure = sure \ {x[1]}] = r
      BY <2>1
    <3>6. thread' = [thread EXCEPT ![th] = r]
      BY <3>3, <3>4, <3>5, Zenon
    <3> QED BY <1>1, <1>7, <3>6 DEF Enter
  <2>3. ASSUME NEW t \in r.sure PROVE t \in Left(r) \/ Started(t, r)
    <3>1. t \in Left(y) \/ Started(t, y)
      BY <1>4, <1>5, <2>1, <2>3
    <3>2. t # x[1]
      BY <2>1, <2>3
    <3> QED BY <1>5, <2>1, <3>1, <3>2 DEF Left, Started
  <2>4. Fine(r)'
    <3>1. Left(r) \subseteq Trigger /\ IsLoop(r) /\ r.event \in 1 .. Len(event)
      BY <1>4, <1>5, <2>1 DEF Left, IsLoop
    <3> QED BY <2>2, <2>3, <3>1 DEF Fine, IsLoop, Left, Started
  <2>5. \A t \in Trigger : Activates(r, t) <=> Activates(thread[th], t)
    BY <1>2, <1>3, <2>1 DEF Activates
  <2> QED BY <2>2, <2>4, <2>5, Steps DEF Inv, StoreInv
<1>8. CASE ~(firing[x[1]] >= MaxActivations)
  <2>1. PICK r : r = [at |-> "fire", event |-> e, sure |-> sure, todo |-> todo \ {x},
                      trigger |-> x[1], target |-> x[2].target]
    OBVIOUS
  <2>2. /\ thread' = [thread EXCEPT ![th] = r] /\ UNCHANGED <<row, item, event, job>>
        /\ firing' = [firing EXCEPT ![x[1]] = @ + 1]
    BY <1>1, <1>2, <1>5, <1>8, <2>1 DEF Enter, Inv, DispatchInv
  <2>3. ASSUME NEW t \in r.sure PROVE t \in Left(r) \/ Started(t, r) \/ t = r.trigger
    <3>1. t \in Left(y) \/ Started(t, y)
      BY <1>4, <1>5, <2>1, <2>3
    <3> QED BY <1>5, <2>1, <3>1 DEF Left, Started
  <2>4. Fine(r)'
    <3>1. Left(r) \subseteq Trigger /\ r.trigger \in Trigger /\ r.event \in 1 .. Len(event)
      BY <1>4, <1>5, <1>6, <2>1 DEF Left
    <3>2. IsActivation(r) /\ r.at = "fire"
      BY <2>1 DEF IsActivation
    <3> QED BY <2>2, <2>3, <3>1, <3>2 DEF Fine, IsActivation, Left, Started
  <2>5. Len(event') \in Nat /\ Len(event) <= Len(event') /\ StoreInv'
    BY <2>2 DEF Inv, StoreInv
  <2>6. DispatchInv' /\ thread'[th] = r /\ \A d \in Thread \ {th} : thread'[d] = thread[d]
    BY <2>2, <2>4, <2>5, GoesOn DEF Inv
  <2>7. CountInv'
    <3>1. Activates(thread[th], x[1])' /\ thread[th].at \notin {"fire", "leave"}
      BY <1>2, <1>3, <2>1, <2>6 DEF Activates
    <3> QED BY <1>6, <1>8, <2>2, <2>6, <3>1, EnterCounts DEF Inv
  <2> QED BY <2>5, <2>6, <2>7 DEF Inv
<1> QED BY <1>7, <1>8

LEMMA FireInv == ASSUME Inv, NEW th \in Thread, Fire(th) PROVE Inv'
<1>1. PICK y : y = thread[th]
  OBVIOUS
<1>2. Fine(y) /\ y.at = "fire"
  BY <1>1 DEF Fire, Inv, DispatchInv
<1>3. /\ y.event \in 1 .. Len(event) /\ IsActivation(y) /\ Left(y) \subseteq Trigger
      /\ y.trigger \in Trigger
      /\ \A t \in y.sure : t \in Left(y) \/ Started(t, y) \/ t = y.trigger
  BY <1>2 DEF Fine, Idle, IsList, IsLoop
<1>4. PICK e, sure, todo, k, target :
        y = [at |-> "fire", event |-> e, sure |-> sure, todo |-> todo,
             trigger |-> k, target |-> target]
  BY <1>2, <1>3 DEF IsActivation
<1>5. CASE /\ thread[th].target \in item
           /\ job' = job \cup {[trigger |-> thread[th].trigger, event |-> thread[th].event]}
           /\ thread' = [thread EXCEPT ![th].at = "leave"]
  <2>1. PICK r : r = [at |-> "leave", event |-> e, sure |-> sure, todo |-> todo,
                      trigger |-> k, target |-> target]
    OBVIOUS
  <2>2. [thread[th] EXCEPT !.at = "leave"] = r
    BY <1>1, <1>4, <2>1
  <2>3. /\ thread' = [thread EXCEPT ![th] = r] /\ UNCHANGED <<row, item, event, firing>>
        /\ job' = job \cup {[trigger |-> k, event |-> e]}
    <3>1. thread' = [thread EXCEPT ![th] = r]
      BY <1>5, <2>2, Zenon
    <3>2. thread[th].trigger = k /\ thread[th].event = e
      BY <1>1, <1>4
    <3>3. UNCHANGED <<row, item, event, firing>>
      BY DEF Fire
    <3> QED BY <1>5, <3>1, <3>2, <3>3, Zenon
  <2>4. ASSUME NEW t \in r.sure PROVE t \in Left(r) \/ Started(t, r)'
    <3>1. t \in Left(y) \/ Started(t, y) \/ t = k
      BY <1>3, <1>4, <2>1, <2>4
    <3> QED BY <1>4, <2>1, <2>3, <3>1 DEF Left, Started
  <2>5. Fine(r)'
    <3>1. /\ Left(r) \subseteq Trigger /\ r.trigger \in Trigger /\ r.event \in 1 .. Len(event)
          /\ IsActivation(r)
      BY <1>3, <1>4, <2>1 DEF Left, IsActivation
    <3> QED BY <2>3, <2>4, <3>1 DEF Fine, IsActivation, Left, Started
  <2>6. \A t \in Trigger : Activates(r, t) <=> Activates(thread[th], t)
    BY <1>1, <1>4, <2>1 DEF Activates
  <2>7. job \subseteq job' /\ job' \subseteq [trigger : Trigger, event : 1 .. Len(event)]
    BY <1>3, <1>4, <2>3 DEF Inv, StoreInv
  <2> QED BY <2>3, <2>5, <2>6, <2>7, Steps
<1>6. CASE /\ thread' = [thread EXCEPT ![th].at = "leave", ![th].sure = @ \ {thread[th].trigger}]
           /\ UNCHANGED job
  <2>1. PICK r : r = [at |-> "leave", event |-> e, sure |-> sure \ {k}, todo |-> todo,
                      trigger |-> k, target |-> target]
    OBVIOUS
  <2>2. thread' = [thread EXCEPT ![th] = r] /\ UNCHANGED <<row, item, event, job, firing>>
    <3> DEFINE once == [at |-> "leave", event |-> e, sure |-> sure, todo |-> todo,
                         trigger |-> k, target |-> target]
    <3>1. thread' = [thread EXCEPT ![th] =
                       [[thread[th] EXCEPT !.at = "leave"]
                          EXCEPT !.sure = thread[th].sure \ {thread[th].trigger}]]
      BY <1>6 DEF Inv, DispatchInv
    <3>2. /\ thread[th].sure \ {thread[th].trigger} = sure \ {k}
          /\ [thread[th] EXCEPT !.at = "leave"] = once
      BY <1>1, <1>4
    <3>3. [once EXCEPT !.sure = sure \ {k}] = r
      BY <2>1
    <3>4. thread' = [thread EXCEPT ![th] = r]
      BY <3>1, <3>2, <3>3, Zenon
    <3> QED BY <1>6, <3>4 DEF Fire
  <2>3. ASSUME NEW t \in r.sure PROVE t \in Left(r) \/ Started(t, r)
    <3>1. (t \in Left(y) \/ Started(t, y) \/ t = k) /\ t # k
      BY <1>3, <1>4, <2>1, <2>3
    <3> QED BY <1>4, <2>1, <3>1 DEF Left, Started
  <2>4. Fine(r)'
    <3>1. /\ Left(r) \subseteq Trigger /\ r.trigger \in Trigger /\ r.event \in 1 .. Len(event)
          /\ IsActivation(r)
      BY <1>3, <1>4, <2>1 DEF Left, IsActivation
    <3> QED BY <2>2, <2>3, <3>1 DEF Fine, IsActivation, Left, Started
  <2>5. \A t \in Trigger : Activates(r, t) <=> Activates(thread[th], t)
    BY <1>1, <1>4, <2>1 DEF Activates
  <2> QED BY <2>2, <2>4, <2>5, Steps DEF Inv, StoreInv
<1> QED BY <1>5, <1>6 DEF Fire

LEMMA LeaveInv ==
  ASSUME MaxActivations \in Nat, Inv, NEW th \in Thread, Leave(th) PROVE Inv'
<1>1. PICK y : y = thread[th]
  OBVIOUS
<1>2. Fine(y) /\ y.at = "leave"
  BY <1>1 DEF Leave, Inv, DispatchInv
<1>3. /\ y.event \in 1 .. Len(event) /\ Left(y) \subseteq Trigger /\ y.trigger \in Trigger
      /\ \A t \in y.sure : t \in Left(y) \/ Started(t, y)
  BY <1>2 DEF Fine, Idle, IsList, IsLoop
<1>4. PICK r : r = [at |-> "loop", event |-> y.event, sure |-> y.sure, todo |-> y.todo]
  OBVIOUS
<1>5. /\ thread' = [thread EXCEPT ![th] = r] /\ UNCHANGED <<row, item, event, job>>
      /\ firing' = [firing EXCEPT ![y.trigger] = IF @ <= 1 THEN 0 ELSE @ - 1]
  BY <1>1, <1>4 DEF Leave, Loop
<1>6. Fine(r)'
  BY <1>3, <1>4, <1>5 DEF Fine, IsLoop, Left, Started
<1>7. Len(event') \in Nat /\ Len(event) <= Len(event') /\ StoreInv'
  BY <1>5 DEF Inv, StoreInv
<1>8. DispatchInv' /\ thread'[th] = r /\ \A d \in Thread \ {th} : thread'[d] = thread[d]
  BY <1>5, <1>6, <1>7, GoesOn DEF Inv
<1>9. CountInv'
  <2>1. Activates(thread[th], y.trigger) /\ thread'[th].at \notin {"fire", "leave"}
    BY <1>1, <1>2, <1>4, <1>8 DEF Activates
  <2> QED BY <1>3, <1>5, <1>8, <2>1, LeaveCounts DEF Inv
<1> QED BY <1>7, <1>8, <1>9 DEF Inv

-----------------------------------------------------------------------------
(* Triggers that are created, changed and deleted.                           *)

\* A dispatch that is no longer sure of a trigger.
LEMMA UnsureFine ==
  ASSUME NEW y, Fine(y), NEW k, UNCHANGED <<event, job>>,
         \A u \in DOMAIN row \ {k} : u \in DOMAIN row' /\ row'[u] = row[u]
  PROVE  \E z : /\ z = (IF y = Idle THEN Idle ELSE [y EXCEPT !.sure = @ \ {k}])
                /\ Fine(z)' /\ \A t : Activates(z, t) <=> Activates(y, t)
<1>1. CASE y = Idle
  <2>1. Fine(Idle)'
    BY DEF Fine
  <2> QED BY <1>1, <2>1
<1>2. CASE /\ y.event \in 1 .. Len(event) /\ IsList(y)
           /\ \A t \in y.sure : t \in DOMAIN row /\ Matches(row[t], event[y.event])
  <2>1. PICK e, sure : y = [at |-> "list", event |-> e, sure |-> sure]
    BY <1>2 DEF IsList
  <2>2. PICK z : z = [at |-> "list", event |-> e, sure |-> sure \ {k}]
    OBVIOUS
  <2>3. y # Idle /\ z = [y EXCEPT !.sure = @ \ {k}]
    BY <2>1, <2>2 DEF Idle
  <2>4. ASSUME NEW t \in z.sure PROVE t \in DOMAIN row' /\ Matches(row'[t], event'[z.event])
    <3>1. t \in DOMAIN row \ {k} /\ Matches(row[t], event[e])
      BY <1>2, <2>1, <2>2, <2>4
    <3>2. t \in DOMAIN row' /\ row'[t] = row[t] /\ event' = event /\ z.event = e
      BY <2>2, <3>1
    <3> QED BY <3>1, <3>2, Zenon
  <2>5. IsList(z) /\ z.event \in 1 .. Len(event')
    BY <1>2, <2>1, <2>2 DEF IsList
  <2>6. Fine(z)'
    BY <2>4, <2>5 DEF Fine, IsList, Matches
  <2>7. \A t : Activates(z, t) <=> Activates(y, t)
    BY <2>1, <2>2 DEF Activates
  <2> QED BY <2>3, <2>6, <2>7
<1>3. CASE /\ y.event \in 1 .. Len(event) /\ IsLoop(y) /\ Left(y) \subseteq Trigger
           /\ \A t \in y.sure : t \in Left(y) \/ Started(t, y)
  <2>1. PICK e, sure, todo : y = [at |-> "loop", event |-> e, sure |-> sure, todo |-> todo]
    BY <1>3 DEF IsLoop
  <2>2. PICK z : z = [at |-> "loop", event |-> e, sure |-> sure \ {k}, todo |-> todo]
    OBVIOUS
  <2>3. y # Idle /\ z = [y EXCEPT !.sure = @ \ {k}]
    BY <2>1, <2>2 DEF Idle
  <2>4. Fine(z)'
    BY <1>3, <2>1, <2>2 DEF Fine, IsLoop, Left, Started
  <2>5. \A t : Activates(z, t) <=> Activates(y, t)
    BY <2>1, <2>2 DEF Activates
  <2> QED BY <2>3, <2>4, <2>5
<1>4. CASE /\ y.event \in 1 .. Len(event) /\ IsActivation(y) /\ Left(y) \subseteq Trigger
           /\ y.trigger \in Trigger
           /\ \A t \in y.sure :
                t \in Left(y) \/ Started(t, y) \/ (y.at = "fire" /\ t = y.trigger)
  <2>1. PICK at, e, sure, todo, g, target :
          y = [at |-> at, event |-> e, sure |-> sure, todo |-> todo,
               trigger |-> g, target |-> target]
    BY <1>4 DEF IsActivation
  <2>2. PICK z : z = [at |-> at, event |-> e, sure |-> sure \ {k}, todo |-> todo,
                      trigger |-> g, target |-> target]
    OBVIOUS
  <2>3. y # Idle /\ z = [y EXCEPT !.sure = @ \ {k}]
    <3>1. at \in {"fire", "leave"}
      BY <1>4, <2>1 DEF IsActivation
    <3>2. y # Idle
      BY <2>1, <3>1 DEF Idle
    <3>3. z = [y EXCEPT !.sure = @ \ {k}]
      BY <2>1, <2>2
    <3> QED BY <3>2, <3>3
  <2>4. Fine(z)'
    BY <1>4, <2>1, <2>2 DEF Fine, IsActivation, Left, Started
  <2>5. \A t : Activates(z, t) <=> Activates(y, t)
    BY <2>1, <2>2 DEF Activates
  <2> QED BY <2>3, <2>4, <2>5
<1> QED BY <1>1, <1>2, <1>3, <1>4 DEF Fine

LEMMA UnsureInv ==
  ASSUME Inv, NEW k, thread' = Unsure(k), UNCHANGED <<item, event, job, firing>>,
         DOMAIN row' \subseteq Trigger,
         \A u \in DOMAIN row \ {k} : u \in DOMAIN row' /\ row'[u] = row[u]
  PROVE  Inv'
<1>1. StoreInv'
  BY DEF Inv, StoreInv
<1>2. ASSUME NEW th \in Thread
      PROVE  Fine(thread[th])' /\ \A t : Activates(thread[th], t)' <=> Activates(thread[th], t)
  <2>1. PICK y : y = thread[th]
    OBVIOUS
  <2>2. PICK z : /\ z = (IF y = Idle THEN Idle ELSE [y EXCEPT !.sure = @ \ {k}])
                 /\ Fine(z)' /\ \A t : Activates(z, t) <=> Activates(y, t)
    BY <2>1, UnsureFine DEF Inv, DispatchInv
  <2>3. thread'[th] = z
    BY <2>1, <2>2 DEF Unsure
  <2>4. Fine(thread[th])'
    BY <2>2, <2>3 DEF Fine, Started, Left, IsList, IsLoop, IsActivation
  <2> QED BY <2>1, <2>2, <2>3, <2>4 DEF Activates
<1>3. DispatchInv'
  BY <1>2 DEF DispatchInv, Unsure
<1>4. \A t \in Trigger : Active(t)' = Active(t)
  BY <1>2 DEF Active, Activates
<1>5. CountInv'
  BY <1>4, CountKept DEF Inv
<1> QED BY <1>1, <1>3, <1>5 DEF Inv

\* Whatever else happens to the store, and leaves dispatches and events alone.
LEMMA StoreChanges ==
  ASSUME Inv, UNCHANGED <<event, job, firing, thread>>, item' \subseteq Item,
         DOMAIN row' \subseteq Trigger, \A u \in DOMAIN row : u \in DOMAIN row' /\ row'[u] = row[u]
  PROVE  Inv'
<1>1. StoreInv'
  BY DEF Inv, StoreInv
<1>2. ASSUME NEW th \in Thread PROVE Fine(thread[th])'
  <2>1. PICK y : y = thread[th]
    OBVIOUS
  <2>2. Fine(y) /\ event \in Seq([kind : Kind, source : Item, nested : Nested])
        /\ Len(event) \in Nat /\ Len(event) <= Len(event') /\ Len(event') \in Nat
    BY <2>1 DEF Inv, StoreInv, DispatchInv
  <2>3. Fine(y)'
    BY <2>2, FineKept
  <2> QED BY <2>1, <2>3 DEF Fine, Started, Left, IsList, IsLoop, IsActivation
<1>3. DispatchInv'
  BY <1>2 DEF Inv, DispatchInv
<1>4. CountInv'
  BY CountKept DEF Inv, Active
<1> QED BY <1>1, <1>3, <1>4 DEF Inv

-----------------------------------------------------------------------------
LEMMA InitInv == ASSUME MaxActivations \in Nat, Init PROVE Inv
<1>1. StoreInv
  BY DEF Init, StoreInv
<1>2. DispatchInv
  BY DEF Init, DispatchInv, Fine
<1>3. \A t \in Trigger : Active(t) = {} /\ firing[t] = 0
  BY DEF Init, Active, Idle
<1>4. CountInv
  <2>1. IsFiniteSet({}) /\ Cardinality({}) = 0
    BY FS_EmptySet
  <2>2. \A t \in Trigger : IsFiniteSet(Active(t)) /\ Cardinality(Active(t)) = 0
    BY <1>3, <2>1, Zenon
  <2> QED BY <1>3, <2>2 DEF Init, CountInv
<1> QED BY <1>1, <1>2, <1>4 DEF Inv

LEMMA NextInv == ASSUME MaxActivations \in Nat, Inv, [Next]_vars PROVE Inv'
<1>1. ASSUME NEW th \in Thread, ClientWrites(th) PROVE Inv'
  <2>1. [t \in Trigger |-> 0] \in Nested
    BY DEF Nested
  <2> QED BY <1>1, <2>1, EmitInv DEF ClientWrites
<1>2. ASSUME NEW t \in Trigger, NEW r \in Row, CreateTrigger(t, r) PROVE Inv'
  <2>1. /\ DOMAIN row' = DOMAIN row \cup {t} /\ \A u \in DOMAIN row : row'[u] = row[u]
        /\ UNCHANGED <<item, event, job, firing, thread>>
    BY <1>2 DEF CreateTrigger
  <2> QED BY <2>1, StoreChanges DEF Inv, StoreInv
<1>3. ASSUME NEW t \in Trigger, DeleteTrigger(t) PROVE Inv'
  <2>1. /\ DOMAIN row' = DOMAIN row \ {t} /\ \A u \in DOMAIN row \ {t} : row'[u] = row[u]
        /\ thread' = Unsure(t) /\ UNCHANGED <<item, event, job, firing>>
    BY <1>3 DEF DeleteTrigger
  <2> QED BY <2>1, UnsureInv DEF Inv, StoreInv
<1>4. ASSUME NEW r \in Row, WritePatch(r) PROVE Inv'
  <2>1. PICK k : k = patch.of
    OBVIOUS
  <2>2. /\ DOMAIN row' = DOMAIN row /\ \A u \in DOMAIN row \ {k} : row'[u] = row[u]
        /\ thread' = Unsure(k) /\ UNCHANGED <<item, event, job, firing>>
    BY <1>4, <2>1 DEF WritePatch
  <2> QED BY <2>2, UnsureInv DEF Inv, StoreInv
<1>5. ASSUME NEW t \in Trigger, ReadPatch(t) PROVE Inv'
  BY <1>5, StoreChanges DEF ReadPatch, Inv, StoreInv
<1>6. ASSUME NEW i \in Item, DeleteItem(i) PROVE Inv'
  BY <1>6, StoreChanges DEF DeleteItem, Inv, StoreInv
<1>7. CASE UNCHANGED vars
  BY <1>7, StoreChanges DEF vars, Inv, StoreInv
<1> QED BY <1>1, <1>2, <1>3, <1>4, <1>5, <1>6, <1>7, JobWritesInv, ListInv, EnterInv, FireInv,
           LeaveInv, ReturnInv DEF Next

-----------------------------------------------------------------------------
\* firingSet and dispatchTriggers: a trigger's count is the number of its activations under
\* way, whatever becomes of them, and within the cap; and a write returns to its
\* caller only once every trigger that matched it throughout has started its job,
\* but for those at their cap and those whose job was refused.
THEOREM TriggersHaveFired == ASSUME TriggersAssumption PROVE Spec => []TriggersFire
<1>1. MaxActivations \in Nat
  BY DEF TriggersAssumption
<1>2. Inv => TriggersFire
  <2> SUFFICES ASSUME Inv PROVE TriggersFire
    OBVIOUS
  <2>1. ActivationsCounted
    BY DEF Inv, CountInv, Active, ActivationsCounted
  <2>2. ASSUME NEW th \in Thread, thread[th].at = "loop", thread[th].todo = {},
               NEW t \in thread[th].sure
        PROVE  Started(t, thread[th])
    <3>1. Left(thread[th]) = {}
      BY <2>2 DEF Left
    <3>2. Fine(thread[th])
      BY DEF Inv, DispatchInv
    <3> QED BY <2>2, <3>1, <3>2 DEF Fine, Idle, IsList, IsActivation
  <2> QED BY <2>1, <2>2 DEF TriggersFire, FiredBeforeReturn, Started
<1>3. Init => Inv
  BY <1>1, InitInv
<1>4. Inv /\ [Next]_vars => Inv'
  BY <1>1, NextInv
<1> QED BY <1>2, <1>3, <1>4, PTL DEF Spec
=============================================================================
