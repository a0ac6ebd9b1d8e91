----------------------------- MODULE JobsProofs -----------------------------
(***************************************************************************)
(* Theorems about Jobs, for any number of jobs, drains and capacities.     *)
(***************************************************************************)
EXTENDS Jobs, FiniteSetTheorems, TLAPS

\* A job whose request thread has not written its row, or never will.
Unwritten == {"idle", "admit", "insert", "enqueue", "refused"}

\* What a thread works on exists, and only what exists has left traces.
RowsInv ==
  /\ \A j \in Job : pc[j] \in Unwritten => j \notin Created
  /\ \A j \in Job : pc[j] \in {"publish", "dispatch", "announce"} => j \in Created
  /\ \A d \in Drainer : dpc[d] \in {"admit", "publish", "dispatch", "announce"}
                          => cur[d] \in Created
  /\ \A j \in Job \ Created : /\ starts[j] = 0 /\ verdicts[j] = {} /\ run[j] = "none"
                              /\ \A w \in Who : writer[j][w] = "none"

\* Whoever is about to publish Started of a job is alone in that and first.
StartInv ==
  /\ \A j \in Job : starts[j] \in {0, 1}
  /\ \A j \in Job : pc[j] = "publish" => starts[j] = 0 /\ j \notin queued
  /\ \A d \in Drainer : dpc[d] = "publish"
                          => starts[cur[d]] = 0 /\ cur[d] \notin queued
  /\ \A j \in Job, d \in Drainer :
       pc[j] = "publish" /\ dpc[d] = "publish" => cur[d] # j
  /\ \A d, e \in Drainer :
       d # e /\ dpc[d] = "publish" /\ dpc[e] = "publish" => cur[d] # cur[e]

\* What comes after a Started event comes after it.
OrderInv ==
  /\ \A j \in Job : pc[j] \in {"dispatch", "announce"} => starts[j] = 1
  /\ \A d \in Drainer : dpc[d] \in {"dispatch", "announce"} => starts[cur[d]] = 1
  /\ \A j \in Job, w \in Who : writer[j][w] # "none" => starts[j] = 1
  /\ \A j \in Job : run[j] # "none" /\ want[j].kind \in {"Notebook", "Refused"}
                      => starts[j] = 1
  /\ \A j \in Job : verdicts[j] # {} => starts[j] = 1

\* A queued job waits, whole.
QueueInv ==
  \A j \in queued : /\ pc[j] = "done" /\ starts[j] = 0
                    /\ run[j] \in {"none", "queued"}

\* The thread that has seen a free slot holds the mutex until it has taken it.
LockInv ==
  /\ \A j \in Job : pc[j] = "insert" => admitMu = j /\ HasSlot(want[j].capacity)
  /\ \A j \in Job : pc[j] = "enqueue" => admitMu = j
  /\ \A d \in Drainer :
       dpc[d] = "admit" => admitMu = d /\ HasSlot(want[cur[d]].capacity)

-----------------------------------------------------------------------------
\* Sets of jobs are finite, and have a size.
LEMMA JobsAreFinite ==
  ASSUME NEW S, S \subseteq Job
  PROVE  IsFiniteSet(S) /\ Cardinality(S) \in Nat
BY JobsAssumption, FS_Subset, FS_CardinalityType DEF JobsAssumption

\* What the assumption on the constants says, in the form the leaves need.
LEMMA NatConstants ==
  /\ Horizon \in Nat /\ LRODelay \in Nat /\ MaxReports \in Nat /\ MaxRestarts \in Nat
  /\ Nobody \notin Job /\ Nobody \notin Drainer
BY JobsAssumption DEF JobsAssumption

\* Writing its row adds a job to those created, and no other.
LEMMA WriteRowCreates ==
  ASSUME TypeOK, NEW j \in Job, NEW at, NEW r, WriteRow(j, at, r)
  PROVE  /\ rowid' \in [Job -> Nat]
         /\ Created' = Created \cup {j}
<1>1. Cardinality(Created) + 1 \in Nat \ {0}
  BY JobsAreFinite DEF Created
<1>2. /\ rowid \in [Job -> Nat]
      /\ rowid' = [rowid EXCEPT ![j] = Cardinality(Created) + 1]
  BY DEF TypeOK, WriteRow
<1> HIDE DEF Created
<1>3. rowid' \in [Job -> Nat] /\ rowid'[j] > 0
  BY <1>1, <1>2
<1>4. \A k \in Job \ {j} : rowid'[k] = rowid[k]
  BY <1>2
<1> QED BY <1>3, <1>4 DEF Created

\* Types and rows: the initial states, and every step (one case per action).
LEMMA InitTyped == Init => TypeOK /\ RowsInv
<1> SUFFICES ASSUME Init PROVE TypeOK /\ RowsInv
  OBVIOUS
<1>1. TypeOK
  BY JobsAssumption
  DEF JobsAssumption, Init, TypeOK, Created, Never, Pc, DrainPc, RunStatus, WriterPc
<1>2. RowsInv
  BY <1>1 DEF Init, TypeOK, RowsInv, Created, Unwritten
<1> QED BY <1>1, <1>2

\* Every step keeps types, and works only on rows that exist.
LEMMA NextTyped == TypeOK /\ RowsInv /\ [Next]_vars => TypeOK' /\ RowsInv'
<1> SUFFICES ASSUME TypeOK, RowsInv, [Next]_vars PROVE TypeOK' /\ RowsInv'
  OBVIOUS
<1> USE NatConstants DEF WriterPc, rowVars, threadVars, drainVars, engineVars, flowVars
<1>now. /\ now \in 0..Never /\ now + LRODelay \in 0..Never /\ Never \in Nat
        /\ now \in Nat /\ Horizon \in Nat
  BY JobsAssumption DEF JobsAssumption, TypeOK, Never
<1>types. /\ run \in [Job -> RunStatus] /\ completeAt \in [Job -> 0..Never]
          /\ writer \in [Job -> [Who -> WriterPc]]
          /\ failed \subseteq Created /\ queued \subseteq Created
          /\ Created \subseteq Job /\ Nobody \notin Job
  BY JobsAssumption DEF JobsAssumption, TypeOK, Created
<1>1. ASSUME NEW j \in Job, Submit(j) PROVE TypeOK' /\ RowsInv'
  <2>1. TypeOK'
    BY <1>1 DEF TypeOK, Submit, StartCompleteAt, Never, Created, Pc
  <2>2. RowsInv'
    BY <1>1 DEF TypeOK, RowsInv, Submit, Created, Pc, Unwritten
  <2> QED BY <2>1, <2>2
<1>2. ASSUME NEW j \in Job, AdmitCheck(j) PROVE TypeOK' /\ RowsInv'
  <2>1. TypeOK'
    BY <1>2, ZenonT(40) DEF TypeOK, AdmitCheck, Never, Created, Pc
  <2>2. RowsInv'
    BY <1>2 DEF TypeOK, RowsInv, AdmitCheck, Created, Pc, Unwritten
  <2> QED BY <2>1, <2>2
<1>3. ASSUME NEW j \in Job, Insert(j) PROVE TypeOK' /\ RowsInv'
  <2>1. rowid' \in [Job -> Nat] /\ Created' = Created \cup {j}
    BY <1>3, WriteRowCreates DEF Insert
  <2>2. TypeOK'
    BY <1>3, <2>1 DEF TypeOK, Insert, WriteRow, Unlock, Never, Pc, RunStatus
  <2>3. RowsInv'
    BY <1>3, <2>1 DEF TypeOK, RowsInv, Insert, WriteRow, Unlock, Pc, RunStatus, Unwritten
  <2> QED BY <2>2, <2>3
<1>4. ASSUME NEW j \in Job, Enqueue(j) PROVE TypeOK' /\ RowsInv'
  <2>1. rowid' \in [Job -> Nat] /\ Created' = Created \cup {j}
    BY <1>4, WriteRowCreates DEF Enqueue
  <2>2. TypeOK'
    BY <1>4, <2>1 DEF TypeOK, Enqueue, WriteRow, Unlock, Never, Pc, RunStatus
  <2>3. RowsInv'
    BY <1>4, <2>1 DEF TypeOK, RowsInv, Enqueue, WriteRow, Unlock, Pc, RunStatus, Unwritten
  <2> QED BY <2>2, <2>3
<1>5. ASSUME NEW j \in Job, PublishStarted(j) PROVE TypeOK' /\ RowsInv'
  <2>1. TypeOK'
    BY <1>5 DEF TypeOK, PublishStarted, Never, Created, Pc
  <2>2. RowsInv'
    BY <1>5 DEF TypeOK, RowsInv, PublishStarted, Created, Pc, Unwritten
  <2> QED BY <2>1, <2>2
<1>6. ASSUME NEW j \in Job, Dispatch(j) PROVE TypeOK' /\ RowsInv'
  <2>1. j \in Created /\ Created' = Created
    BY <1>6 DEF RowsInv, Dispatch, Created
  <2>2. /\ \/ pc' = [pc EXCEPT ![j] = "done"]
           \/ pc' = [pc EXCEPT ![j] = "announce"]
        /\ \/ run' = run
           \/ \E r \in {"open", "failed", run[j]} : run' = [run EXCEPT ![j] = r]
        /\ \/ writer' = writer
           \/ writer' = [writer EXCEPT ![j]["engine"] = "running"]
        /\ \/ UNCHANGED <<completeAt, failed>>
           \/ FinalizeJob(j, TRUE)
    BY <1>6 DEF Dispatch, RefusedRun
  <2>3. pc' \in [Job -> Pc]
    <3>1. pc \in [Job -> Pc]
      BY DEF TypeOK
    <3> QED BY <2>2, <3>1 DEF Pc
  <2>4. run' \in [Job -> RunStatus] /\ \A k \in Job \ {j} : run'[k] = run[k]
    BY <1>types, <2>2 DEF RunStatus
  <2>5. /\ writer' \in [Job -> [Who -> WriterPc]]
        /\ \A k \in Job \ {j} : writer'[k] = writer[k]
    BY <1>types, <2>2 DEF Who, WriterPc
  <2>6. completeAt' \in [Job -> 0..Never] /\ failed' \subseteq Created
    BY <1>types, <1>now, <2>1, <2>2 DEF FinalizeJob
  <2>7. TypeOK'
    BY <1>6, <2>1, <2>3, <2>4, <2>5, <2>6 DEF TypeOK, Dispatch, Never
  <2>8. RowsInv'
    BY <1>6, <2>1, <2>2, <2>4, <2>5 DEF TypeOK, RowsInv, Dispatch, Pc, Unwritten
  <2> QED BY <2>7, <2>8
<1>7. ASSUME NEW j \in Job, AnnounceRefusal(j) PROVE TypeOK' /\ RowsInv'
  <2>1. TypeOK'
    BY <1>7 DEF TypeOK, AnnounceRefusal, Never, Created, Pc
  <2>2. RowsInv'
    BY <1>7 DEF TypeOK, RowsInv, AnnounceRefusal, Created, Pc, Unwritten
  <2> QED BY <2>1, <2>2
<1>8. ASSUME NEW d \in Drainer, DrainBegin(d) PROVE TypeOK' /\ RowsInv'
  <2>1. TypeOK'
    BY <1>8 DEF TypeOK, DrainBegin, Never, Created, DrainPc
  <2>2. RowsInv'
    BY <1>8 DEF TypeOK, RowsInv, DrainBegin, Created, DrainPc, Unwritten
  <2> QED BY <2>1, <2>2
<1>9. ASSUME NEW d \in Drainer, DrainCheck(d) PROVE TypeOK' /\ RowsInv'
  <2>1. PICK j \in Created :
          /\ todo' = [todo EXCEPT ![d] = @ \ {j}]
          /\ \/ admitMu' = d /\ cur' = [cur EXCEPT ![d] = j]
                /\ dpc' = [dpc EXCEPT ![d] = "admit"]
             \/ UNCHANGED <<admitMu, cur, dpc>>
    BY <1>9 DEF TypeOK, DrainCheck, Oldest
  <2>2. Created' = Created /\ Created \subseteq Job /\ Nobody \notin Created
    BY <1>9, <1>types DEF DrainCheck, Created
  <2>3. todo' \in [Drainer -> SUBSET Created]
    BY <2>1 DEF TypeOK
  <2>4. /\ admitMu' \in Job \cup Drainer \cup {Nobody}
        /\ dpc' \in [Drainer -> DrainPc]
        /\ cur' \in [Drainer -> Created \cup {Nobody}]
    <3>1. /\ admitMu \in Job \cup Drainer \cup {Nobody}
          /\ dpc \in [Drainer -> DrainPc]
          /\ cur \in [Drainer -> Created \cup {Nobody}]
      BY DEF TypeOK
    <3> QED BY <2>1, <3>1 DEF DrainPc
  <2>5. TypeOK'
    BY <1>9, <2>2, <2>3, <2>4 DEF TypeOK, DrainCheck, Never
  <2>6. \A e \in Drainer : \/ e = d /\ dpc'[e] = "admit" /\ cur'[e] \in Created
                           \/ dpc'[e] = dpc[e] /\ cur'[e] = cur[e]
    BY <2>1 DEF TypeOK
  <2>7. RowsInv'
    BY <1>9, <2>2, <2>6 DEF RowsInv, DrainCheck
  <2> QED BY <2>5, <2>7
<1>10. ASSUME NEW d \in Drainer, DrainAdmit(d) PROVE TypeOK' /\ RowsInv'
  <2>1. cur[d] \in Created /\ Created' = Created /\ Created \subseteq Job
    BY <1>10 DEF RowsInv, DrainAdmit, Created
  <2>2. \/ cur' = cur /\ dpc' = [dpc EXCEPT ![d] = "publish"]
        \/ cur' = [cur EXCEPT ![d] = Nobody] /\ dpc' = [dpc EXCEPT ![d] = "loop"]
    BY <1>10 DEF DrainAdmit
  <2>3. completeAt' \in [Job -> 0..Never] /\ queued' \subseteq queued
    BY <1>10, <1>types, <1>now, <2>1 DEF DrainAdmit, QueuedCompleteAt
  <2>4. TypeOK'
    BY <1>10, <2>1, <2>2, <2>3 DEF TypeOK, DrainAdmit, Unlock, Never, DrainPc
  <2>5. RowsInv'
    <3>1. /\ dpc \in [Drainer -> DrainPc]
          /\ cur \in [Drainer -> Created \cup {Nobody}]
      BY DEF TypeOK
    <3>2. \A e \in Drainer : \/ dpc'[e] \in {"publish", "loop"} /\ e = d /\ 
                                (dpc'[e] = "publish" => cur'[e] \in Created)
                             \/ dpc'[e] = dpc[e] /\ cur'[e] = cur[e]
      BY <2>1, <2>2, <3>1
    <3> QED BY <1>10, <2>1, <3>2 DEF RowsInv, DrainAdmit
  <2> QED BY <2>4, <2>5
<1>11. ASSUME NEW d \in Drainer, DrainPublish(d) PROVE TypeOK' /\ RowsInv'
  <2>1. cur[d] \in Created /\ Created' = Created
    BY <1>11 DEF RowsInv, DrainPublish, Created
  <2>2. TypeOK'
    BY <1>11, <2>1 DEF TypeOK, DrainPublish, Never, Created, DrainPc
  <2>3. RowsInv'
    BY <1>11, <2>1 DEF TypeOK, RowsInv, DrainPublish, DrainPc, Unwritten
  <2> QED BY <2>2, <2>3
<1>12. ASSUME NEW d \in Drainer, DrainDispatch(d) PROVE TypeOK' /\ RowsInv'
  <2>1. cur[d] \in Created /\ Created' = Created /\ Created \subseteq Job
    BY <1>12 DEF RowsInv, DrainDispatch, Created
  <2>2. /\ \/ cur' = cur /\ dpc' = [dpc EXCEPT ![d] = "announce"]
           \/ cur' = [cur EXCEPT ![d] = Nobody] /\ dpc' = [dpc EXCEPT ![d] = "loop"]
        /\ \/ run' = run
           \/ \E r \in {"open", "failed", run[cur[d]]} : run' = [run EXCEPT ![cur[d]] = r]
        /\ \/ writer' = writer
           \/ writer' = [writer EXCEPT ![cur[d]]["engine"] = "running"]
        /\ \/ UNCHANGED <<completeAt, failed>>
           \/ FinalizeJob(cur[d], TRUE)
    BY <1>12 DEF DrainDispatch, RefusedRun
  <2>3. run' \in [Job -> RunStatus] /\ \A k \in Job \ {cur[d]} : run'[k] = run[k]
    BY <1>types, <2>1, <2>2 DEF RunStatus
  <2>4. /\ writer' \in [Job -> [Who -> WriterPc]]
        /\ \A k \in Job \ {cur[d]} : writer'[k] = writer[k]
    BY <1>types, <2>1, <2>2 DEF Who, WriterPc
  <2>5. completeAt' \in [Job -> 0..Never] /\ failed' \subseteq Created
    BY <1>types, <1>now, <2>1, <2>2 DEF FinalizeJob
  <2>6. TypeOK'
    BY <1>12, <2>1, <2>2, <2>3, <2>4, <2>5, ZenonT(40) DEF TypeOK, DrainDispatch, Never, DrainPc
  <2>7. RowsInv'
    <3>1. \A e \in Drainer : \/ dpc'[e] = "announce" /\ cur'[e] \in Created
                             \/ dpc'[e] = "loop"
                             \/ dpc'[e] = dpc[e] /\ cur'[e] = cur[e]
      BY <2>1, <2>2 DEF TypeOK
    <3> QED
      BY <1>12, <2>1, <2>3, <2>4, <3>1 DEF RowsInv, DrainDispatch
  <2> QED BY <2>6, <2>7
<1>13. ASSUME NEW d \in Drainer, DrainAnnounce(d) PROVE TypeOK' /\ RowsInv'
  <2>1. cur[d] \in Created /\ Created' = Created
    BY <1>13 DEF RowsInv, DrainAnnounce, Created
  <2>2. TypeOK'
    BY <1>13, <2>1 DEF TypeOK, DrainAnnounce, Never, Created, DrainPc
  <2>3. RowsInv'
    BY <1>13, <2>1 DEF TypeOK, RowsInv, DrainAnnounce, DrainPc, Unwritten
  <2> QED BY <2>2, <2>3
<1>14. ASSUME NEW d \in Drainer, DrainEnd(d) PROVE TypeOK' /\ RowsInv'
  <2>1. TypeOK'
    BY <1>14 DEF TypeOK, DrainEnd, Never, Created, DrainPc
  <2>2. RowsInv'
    BY <1>14 DEF TypeOK, RowsInv, DrainEnd, Created, DrainPc, Unwritten
  <2> QED BY <2>1, <2>2
<1>15. ASSUME NEW j \in Job, EngineReturns(j) PROVE TypeOK' /\ RowsInv'
  <2>1. j \in Created /\ Created' = Created
    BY <1>15 DEF RowsInv, EngineReturns, Created, Who
  <2>2. TypeOK'
    BY <1>15, <2>1 DEF TypeOK, EngineReturns, SaveRun, Never, RunStatus, Who
  <2>3. RowsInv'
    BY <1>15, <2>1 DEF TypeOK, RowsInv, EngineReturns, SaveRun, Unwritten, Who
  <2> QED BY <2>2, <2>3
<1>16. ASSUME NEW j \in Job, ReportArrives(j) PROVE TypeOK' /\ RowsInv'
  <2>1. j \in Created /\ Created' = Created
    BY <1>16 DEF RowsInv, ReportArrives, Created
  <2>2. TypeOK'
    BY <1>16, <2>1 DEF TypeOK, ReportArrives, SaveRun, Never, RunStatus, Who
  <2>3. RowsInv'
    BY <1>16, <2>1 DEF TypeOK, RowsInv, ReportArrives, SaveRun, Unwritten, Who
  <2> QED BY <2>2, <2>3
<1>17. ASSUME NEW j \in Job, NEW w \in Who, Finalise(j, w) PROVE TypeOK' /\ RowsInv'
  <2>1. j \in Created /\ Created' = Created
    BY <1>17 DEF RowsInv, Finalise, Created
  <2>2. TypeOK'
    BY <1>17, <2>1 DEF TypeOK, Finalise, FinalizeJob, Never
  <2>3. RowsInv'
    BY <1>17, <2>1 DEF TypeOK, RowsInv, Finalise, Unwritten
  <2> QED BY <2>2, <2>3
<1>18. ASSUME NEW j \in Job, NEW w \in Who, AnnounceOutcome(j, w) PROVE TypeOK' /\ RowsInv'
  <2>1. j \in Created /\ Created' = Created
    BY <1>18 DEF RowsInv, AnnounceOutcome, Created
  <2>2. TypeOK'
    BY <1>18, <2>1 DEF TypeOK, AnnounceOutcome, Outcome, Never
  <2>3. RowsInv'
    BY <1>18, <2>1 DEF TypeOK, RowsInv, AnnounceOutcome, Unwritten
  <2> QED BY <2>2, <2>3
<1>19. ASSUME NEW j \in Job, Cancel(j) PROVE TypeOK' /\ RowsInv'
  BY <1>19 DEF TypeOK, RowsInv, Cancel, Never, Created, Unwritten
<1>20. CASE AdvanceClock
  BY <1>20 DEF TypeOK, RowsInv, AdvanceClock, Never, Created, Unwritten
<1>21. CASE Restart
  <2>1. TypeOK'
    BY <1>21 DEF TypeOK, Restart, Never, Created, Pc, DrainPc
  <2>2. RowsInv'
    BY <1>21 DEF TypeOK, RowsInv, Restart, Created, Pc, Unwritten
  <2> QED BY <2>1, <2>2
<1>22. CASE UNCHANGED vars
  BY <1>22 DEF TypeOK, RowsInv, vars, Never, Created
<1> QED
  BY <1>1, <1>2, <1>3, <1>4, <1>5, <1>6, <1>7, <1>8, <1>9, <1>10, <1>11, <1>12, <1>13,
     <1>14, <1>15, <1>16, <1>17, <1>18, <1>19, <1>20, <1>21, <1>22
  DEF Next, StartStep, DrainStep

\* Every variable keeps its type, and the row flags name rows that exist.
THEOREM TypeCorrect == Spec => []TypeOK
<1> QED BY InitTyped, NextTyped, PTL DEF Spec

-----------------------------------------------------------------------------
\* A job counts against its capacity while its row says so.
Counts(j) == j \in Created /\ j \notin queued /\ j \notin cancelled /\ completeAt[j] > now

\* The jobs that hold a slot can be counted.
LEMMA ActiveIsFinite ==
  ASSUME NEW c
  PROVE  Active(c) \subseteq Job /\ IsFiniteSet(Active(c)) /\ Cardinality(Active(c)) \in Nat
BY JobsAreFinite DEF Active, Created

\* A step after which no other job counts leaves every slot that was free free.
LEMMA SlotsStayFree ==
  ASSUME UNCHANGED want, \A j \in Job : Counts(j)' => Counts(j)
  PROVE  \A c \in Capacity :
           /\ Active(c)' \subseteq Active(c)
           /\ Cardinality(Active(c)') <= Cardinality(Active(c))
           /\ HasSlot(c) => HasSlot(c)'
<1> TAKE c \in Capacity
<1>1. Active(c)' \subseteq Active(c)
  BY DEF Active, Counts, Created
<1>2. /\ IsFiniteSet(Active(c)) /\ Cardinality(Active(c)) \in Nat
      /\ Cardinality(Active(c)') \in Nat
  <2>1. Active(c)' \subseteq Job
    BY <1>1, ActiveIsFinite
  <2> QED BY <2>1, ActiveIsFinite, JobsAreFinite
<1>3. Cardinality(Active(c)') <= Cardinality(Active(c))
  BY <1>1, <1>2, FS_Subset
<1>4. MaxConcurrentJobs[c] \in Nat
  BY JobsAssumption DEF JobsAssumption
<1>5. HasSlot(c) => HasSlot(c)'
  BY <1>2, <1>3, <1>4 DEF HasSlot
<1> QED BY <1>1, <1>3, <1>5

\* A step that admits one job into a free slot keeps the capacity's ceiling.
LEMMA OneMoreFits ==
  ASSUME TypeOK, CapacityRespected, UNCHANGED want, NEW j \in Job, HasSlot(want[j].capacity),
         \A k \in Job \ {j} : Counts(k)' => Counts(k)
  PROVE  CapacityRespected'
<1>1. SUFFICES ASSUME NEW c \in Capacity, MaxConcurrentJobs[c] > 0
               PROVE  Cardinality(Active(c)') <= MaxConcurrentJobs[c]
  BY DEF CapacityRespected
<1>2. MaxConcurrentJobs[c] \in Nat
  BY JobsAssumption DEF JobsAssumption
<1>3. /\ IsFiniteSet(Active(c)) /\ Cardinality(Active(c)) \in Nat
      /\ Cardinality(Active(c)) <= MaxConcurrentJobs[c]
  BY <1>1, ActiveIsFinite DEF CapacityRespected
<1>4. CASE c = want[j].capacity
  <2>1. Active(c)' \subseteq Active(c) \cup {j}
    BY DEF Active, Counts, Created
  <2>2. /\ IsFiniteSet(Active(c) \cup {j})
        /\ Cardinality(Active(c) \cup {j}) =
             IF j \in Active(c) THEN Cardinality(Active(c)) ELSE Cardinality(Active(c)) + 1
    BY <1>3, FS_AddElement
  <2>3. /\ Cardinality(Active(c)') <= Cardinality(Active(c) \cup {j})
        /\ Cardinality(Active(c)') \in Nat
    BY <2>1, <2>2, FS_Subset, FS_CardinalityType
  <2>4. Cardinality(Active(c)) < MaxConcurrentJobs[c]
    BY <1>1, <1>2, <1>4 DEF HasSlot
  <2> QED BY <1>2, <1>3, <2>2, <2>3, <2>4
<1>5. CASE c # want[j].capacity
  <2>1. Active(c)' \subseteq Active(c)
    BY <1>5 DEF Active, Counts, Created
  <2>2. Cardinality(Active(c)') <= Cardinality(Active(c)) /\ Cardinality(Active(c)') \in Nat
    BY <1>3, <2>1, FS_Subset, FS_CardinalityType
  <2> QED BY <1>2, <1>3, <2>2
<1> QED BY <1>4, <1>5

\* A step after which no other job counts keeps the ceilings.
LEMMA CeilingsHold ==
  ASSUME CapacityRespected, UNCHANGED want, \A j \in Job : Counts(j)' => Counts(j)
  PROVE  CapacityRespected'
<1>1. SUFFICES ASSUME NEW c \in Capacity, MaxConcurrentJobs[c] > 0
               PROVE  Cardinality(Active(c)') <= MaxConcurrentJobs[c]
  BY DEF CapacityRespected
<1>2. /\ Cardinality(Active(c)') <= Cardinality(Active(c))
      /\ Active(c)' \subseteq Job
  BY SlotsStayFree, ActiveIsFinite
<1>3. Cardinality(Active(c)) \in Nat /\ Cardinality(Active(c)') \in Nat
  BY <1>2, ActiveIsFinite, JobsAreFinite
<1>4. MaxConcurrentJobs[c] \in Nat /\ Cardinality(Active(c)) <= MaxConcurrentJobs[c]
  BY <1>1, JobsAssumption DEF JobsAssumption, CapacityRespected
<1> QED BY <1>2, <1>3, <1>4

\* A step that neither takes nor releases the mutex nor makes a job count.
LEMMA QuietStep ==
  ASSUME TypeOK, LockInv, CapacityRespected, UNCHANGED <<want, admitMu>>,
         \A j \in Job : Counts(j)' => Counts(j),
         \A j \in Job : pc'[j] \in {"insert", "enqueue"} => pc'[j] = pc[j],
         \A d \in Drainer : dpc'[d] = "admit" => dpc[d] = "admit" /\ cur'[d] = cur[d],
         \A d \in Drainer : dpc[d] = "admit" => cur[d] \in Job
  PROVE  LockInv' /\ CapacityRespected'
<1>1. \A c \in Capacity : HasSlot(c) => HasSlot(c)'
  BY SlotsStayFree
<1>2. \A j \in Job : want[j].capacity \in Capacity
  BY DEF TypeOK, Request
<1>3. LockInv'
  BY <1>1, <1>2 DEF LockInv
<1> QED BY <1>3, CeilingsHold

\* Initially nobody holds the mutex and no slot is taken.
LEMMA InitAdmission == Init => LockInv /\ CapacityRespected
<1> SUFFICES ASSUME Init PROVE LockInv /\ CapacityRespected
  OBVIOUS
<1>1. LockInv
  BY DEF Init, LockInv
<1>2. \A c \in Capacity : Active(c) = {}
  BY DEF Init, Active, Created
<1>3. \A c \in Capacity : MaxConcurrentJobs[c] \in Nat
  BY JobsAssumption DEF JobsAssumption
<1>4. Cardinality({}) = 0
  BY FS_EmptySet
<1>5. CapacityRespected
  BY <1>2, <1>3, <1>4 DEF CapacityRespected
<1> QED BY <1>1, <1>5

\* Only the holder of the mutex takes a slot, and it has seen one free: the
\* count cannot grow between its check and its write.
LEMMA NextAdmission ==
  TypeOK /\ RowsInv /\ LockInv /\ CapacityRespected /\ [Next]_vars
    => LockInv' /\ CapacityRespected'
<1> SUFFICES ASSUME TypeOK, RowsInv, LockInv, CapacityRespected, [Next]_vars
             PROVE  LockInv' /\ CapacityRespected'
  OBVIOUS
<1> USE DEF rowVars, threadVars, drainVars, engineVars, flowVars
<1>thr. /\ pc \in [Job -> Pc] /\ dpc \in [Drainer -> DrainPc]
        /\ cur \in [Drainer -> Created \cup {Nobody}]
        /\ completeAt \in [Job -> 0..Never] /\ now \in Nat /\ Created \subseteq Job
        /\ \A d \in Drainer : dpc[d] = "admit" => cur[d] \in Job
  BY DEF TypeOK, RowsInv, Created
<1>1. ASSUME NEW j \in Job, Submit(j) PROVE LockInv' /\ CapacityRespected'
  <2>1. UNCHANGED <<want, admitMu>>
    BY <1>1 DEF Submit
  <2>2. \A k \in Job : Counts(k)' => Counts(k)
    BY <1>1, <1>thr DEF Submit, Counts, Created
  <2>3. \A k \in Job : pc'[k] \in {"insert", "enqueue"} => pc'[k] = pc[k]
    BY <1>1, <1>thr DEF Submit
  <2>4. \A e \in Drainer : dpc'[e] = "admit" => dpc[e] = "admit" /\ cur'[e] = cur[e]
    BY <1>1, <1>thr DEF Submit
  <2> QED BY <1>thr, <2>1, <2>2, <2>3, <2>4, QuietStep
<1>2. ASSUME NEW j \in Job, AdmitCheck(j) PROVE LockInv' /\ CapacityRespected'
  <2>1. UNCHANGED <<want, dpc, cur>> /\ \A k \in Job : Counts(k)' => Counts(k)
    BY <1>2 DEF AdmitCheck, Counts, Created
  <2>2. \A c \in Capacity : HasSlot(c) => HasSlot(c)'
    BY <2>1, SlotsStayFree
  <2>3. want[j].capacity \in Capacity
    BY DEF TypeOK, Request
  <2>4. /\ \A k \in Job : pc[k] \notin {"insert", "enqueue"}
        /\ \A d \in Drainer : dpc[d] # "admit"
    BY <1>2, NatConstants DEF AdmitCheck, LockInv
  <2>5. /\ \A k \in Job \ {j} : pc'[k] = pc[k]
        /\ pc'[j] \in {"insert", "enqueue"} => admitMu' = j
        /\ pc'[j] = "insert" => HasSlot(want[j].capacity)
    BY <1>2, <1>thr DEF AdmitCheck
  <2>6. LockInv'
    BY <2>1, <2>2, <2>3, <2>4, <2>5 DEF LockInv
  <2> QED BY <2>1, <2>6, CeilingsHold
<1>3. ASSUME NEW j \in Job, Insert(j) PROVE LockInv' /\ CapacityRespected'
  <2>1. /\ UNCHANGED <<want, now, queued, cancelled, dpc, cur>>
        /\ Created' = Created \cup {j}
    BY <1>3, WriteRowCreates DEF Insert, WriteRow
  <2>2. HasSlot(want[j].capacity) /\ admitMu = j
    BY <1>3 DEF Insert, LockInv
  <2>3. \A k \in Job \ {j} : Counts(k)' => Counts(k)
    BY <1>3, <1>thr, <2>1 DEF Insert, WriteRow, Counts
  <2>4. \A k \in Job : pc'[k] \notin {"insert", "enqueue"}
    BY <1>3, <1>thr, <2>2 DEF Insert, LockInv
  <2>5. \A d \in Drainer : dpc'[d] # "admit"
    BY <2>1, <2>2, JobsAssumption DEF JobsAssumption, LockInv
  <2>6. LockInv'
    BY <2>4, <2>5 DEF LockInv
  <2> QED BY <2>1, <2>2, <2>3, <2>6, OneMoreFits
<1>4. ASSUME NEW j \in Job, Enqueue(j) PROVE LockInv' /\ CapacityRespected'
  <2>1. /\ UNCHANGED <<want, now, cancelled, dpc, cur>>
        /\ queued' = queued \cup {j} /\ Created' = Created \cup {j}
    BY <1>4, WriteRowCreates DEF Enqueue, WriteRow
  <2>2. admitMu = j
    BY <1>4 DEF Enqueue, LockInv
  <2>3. \A k \in Job : Counts(k)' => Counts(k)
    BY <1>4, <1>thr, <2>1 DEF Enqueue, WriteRow, Counts
  <2>4. \A k \in Job : pc'[k] \notin {"insert", "enqueue"}
    BY <1>4, <1>thr, <2>2 DEF Enqueue, LockInv
  <2>5. \A d \in Drainer : dpc'[d] # "admit"
    BY <2>1, <2>2, JobsAssumption DEF JobsAssumption, LockInv
  <2>6. LockInv'
    BY <2>4, <2>5 DEF LockInv
  <2> QED BY <2>1, <2>3, <2>6, CeilingsHold
<1>5. ASSUME NEW j \in Job, PublishStarted(j) PROVE LockInv' /\ CapacityRespected'
  <2>1. UNCHANGED <<want, admitMu>>
    BY <1>5 DEF PublishStarted
  <2>2. \A k \in Job : Counts(k)' => Counts(k)
    BY <1>5, <1>thr DEF PublishStarted, Counts, Created
  <2>3. \A k \in Job : pc'[k] \in {"insert", "enqueue"} => pc'[k] = pc[k]
    BY <1>5, <1>thr DEF PublishStarted
  <2>4. \A e \in Drainer : dpc'[e] = "admit" => dpc[e] = "admit" /\ cur'[e] = cur[e]
    BY <1>5, <1>thr DEF PublishStarted
  <2> QED BY <1>thr, <2>1, <2>2, <2>3, <2>4, QuietStep
<1>6. ASSUME NEW j \in Job, Dispatch(j) PROVE LockInv' /\ CapacityRespected'
  <2>1. UNCHANGED <<want, admitMu>>
    BY <1>6 DEF Dispatch
  <2>2. \A k \in Job : Counts(k)' => Counts(k)
    BY <1>6, <1>thr DEF Dispatch, FinalizeJob, Counts, Created
  <2>3. \A k \in Job : pc'[k] \in {"insert", "enqueue"} => pc'[k] = pc[k]
    BY <1>6, <1>thr DEF Dispatch
  <2>4. \A e \in Drainer : dpc'[e] = "admit" => dpc[e] = "admit" /\ cur'[e] = cur[e]
    BY <1>6, <1>thr DEF Dispatch
  <2> QED BY <1>thr, <2>1, <2>2, <2>3, <2>4, QuietStep
<1>7. ASSUME NEW j \in Job, AnnounceRefusal(j) PROVE LockInv' /\ CapacityRespected'
  <2>1. UNCHANGED <<want, admitMu>>
    BY <1>7 DEF AnnounceRefusal
  <2>2. \A k \in Job : Counts(k)' => Counts(k)
    BY <1>7, <1>thr DEF AnnounceRefusal, Counts, Created
  <2>3. \A k \in Job : pc'[k] \in {"insert", "enqueue"} => pc'[k] = pc[k]
    BY <1>7, <1>thr DEF AnnounceRefusal
  <2>4. \A e \in Drainer : dpc'[e] = "admit" => dpc[e] = "admit" /\ cur'[e] = cur[e]
    BY <1>7, <1>thr DEF AnnounceRefusal
  <2> QED BY <1>thr, <2>1, <2>2, <2>3, <2>4, QuietStep
<1>8. ASSUME NEW d \in Drainer, DrainBegin(d) PROVE LockInv' /\ CapacityRespected'
  <2>1. UNCHANGED <<want, admitMu>>
    BY <1>8 DEF DrainBegin
  <2>2. \A k \in Job : Counts(k)' => Counts(k)
    BY <1>8, <1>thr DEF DrainBegin, Counts, Created
  <2>3. \A k \in Job : pc'[k] \in {"insert", "enqueue"} => pc'[k] = pc[k]
    BY <1>8, <1>thr DEF DrainBegin
  <2>4. \A e \in Drainer : dpc'[e] = "admit" => dpc[e] = "admit" /\ cur'[e] = cur[e]
    BY <1>8, <1>thr DEF DrainBegin
  <2> QED BY <1>thr, <2>1, <2>2, <2>3, <2>4, QuietStep
<1>9. ASSUME NEW d \in Drainer, DrainCheck(d) PROVE LockInv' /\ CapacityRespected'
  <2>1. UNCHANGED <<want, pc>> /\ \A k \in Job : Counts(k)' => Counts(k)
    BY <1>9 DEF DrainCheck, Counts, Created
  <2>2. \A c \in Capacity : HasSlot(c) => HasSlot(c)'
    BY <2>1, SlotsStayFree
  <2>3. /\ \A k \in Job : pc[k] \notin {"insert", "enqueue"}
        /\ \A e \in Drainer : dpc[e] # "admit"
    BY <1>9, NatConstants DEF DrainCheck, LockInv
  <2>4. PICK j \in Job :
          \/ /\ HasSlot(want[j].capacity) /\ admitMu' = d
             /\ cur' = [cur EXCEPT ![d] = j]
             /\ dpc' = [dpc EXCEPT ![d] = "admit"]
          \/ UNCHANGED dpc
    BY <1>9, <1>thr DEF DrainCheck, Oldest, TypeOK
  <2>5. want[j].capacity \in Capacity
    BY DEF TypeOK, Request
  <2>6. \A e \in Drainer : dpc'[e] = "admit" =>
                           admitMu' = e /\ HasSlot(want[cur'[e]].capacity)
    BY <1>thr, <2>3, <2>4
  <2>7. LockInv'
    <3>1. \A e \in Drainer : dpc'[e] = "admit" => want[cur'[e]].capacity = want[j].capacity
      BY <1>thr, <2>3, <2>4
    <3> QED BY <2>1, <2>2, <2>3, <2>5, <2>6, <3>1 DEF LockInv
  <2> QED BY <2>1, <2>7, CeilingsHold
<1>10. ASSUME NEW d \in Drainer, DrainAdmit(d) PROVE LockInv' /\ CapacityRespected'
  <2>1. /\ UNCHANGED <<want, now, rowid, cancelled, pc>> /\ Created' = Created
        /\ cur[d] \in Job
    BY <1>10, <1>thr DEF DrainAdmit, Created
  <2>2. HasSlot(want[cur[d]].capacity) /\ admitMu = d
    BY <1>10 DEF DrainAdmit, LockInv
  <2>3. \A k \in Job \ {cur[d]} : Counts(k)' => Counts(k)
    BY <1>10, <1>thr, <2>1 DEF DrainAdmit, Counts
  <2>4. \A e \in Drainer : dpc'[e] # "admit"
    BY <1>10, <1>thr, <2>2 DEF DrainAdmit, LockInv
  <2>5. \A k \in Job : pc'[k] \notin {"insert", "enqueue"}
    BY <2>1, <2>2, JobsAssumption DEF JobsAssumption, LockInv
  <2>6. LockInv'
    BY <2>4, <2>5 DEF LockInv
  <2> QED BY <2>1, <2>2, <2>3, <2>6, OneMoreFits
<1>11. ASSUME NEW d \in Drainer, DrainPublish(d) PROVE LockInv' /\ CapacityRespected'
  <2>1. UNCHANGED <<want, admitMu>>
    BY <1>11 DEF DrainPublish
  <2>2. \A k \in Job : Counts(k)' => Counts(k)
    BY <1>11, <1>thr DEF DrainPublish, Counts, Created
  <2>3. \A k \in Job : pc'[k] \in {"insert", "enqueue"} => pc'[k] = pc[k]
    BY <1>11, <1>thr DEF DrainPublish
  <2>4. \A e \in Drainer : dpc'[e] = "admit" => dpc[e] = "admit" /\ cur'[e] = cur[e]
    BY <1>11, <1>thr DEF DrainPublish
  <2> QED BY <1>thr, <2>1, <2>2, <2>3, <2>4, QuietStep
<1>12. ASSUME NEW d \in Drainer, DrainDispatch(d) PROVE LockInv' /\ CapacityRespected'
  <2>1. UNCHANGED <<want, admitMu>>
    BY <1>12 DEF DrainDispatch
  <2>2. \A k \in Job : Counts(k)' => Counts(k)
    BY <1>12, <1>thr DEF DrainDispatch, FinalizeJob, Counts, Created
  <2>3. \A k \in Job : pc'[k] \in {"insert", "enqueue"} => pc'[k] = pc[k]
    BY <1>12, <1>thr DEF DrainDispatch
  <2>4. \A e \in Drainer : dpc'[e] = "admit" => dpc[e] = "admit" /\ cur'[e] = cur[e]
    BY <1>12, <1>thr DEF DrainDispatch
  <2> QED BY <1>thr, <2>1, <2>2, <2>3, <2>4, QuietStep
<1>13. ASSUME NEW d \in Drainer, DrainAnnounce(d) PROVE LockInv' /\ CapacityRespected'
  <2>1. UNCHANGED <<want, admitMu>>
    BY <1>13 DEF DrainAnnounce
  <2>2. \A k \in Job : Counts(k)' => Counts(k)
    BY <1>13, <1>thr DEF DrainAnnounce, Counts, Created
  <2>3. \A k \in Job : pc'[k] \in {"insert", "enqueue"} => pc'[k] = pc[k]
    BY <1>13, <1>thr DEF DrainAnnounce
  <2>4. \A e \in Drainer : dpc'[e] = "admit" => dpc[e] = "admit" /\ cur'[e] = cur[e]
    BY <1>13, <1>thr DEF DrainAnnounce
  <2> QED BY <1>thr, <2>1, <2>2, <2>3, <2>4, QuietStep
<1>14. ASSUME NEW d \in Drainer, DrainEnd(d) PROVE LockInv' /\ CapacityRespected'
  <2>1. UNCHANGED <<want, admitMu>>
    BY <1>14 DEF DrainEnd
  <2>2. \A k \in Job : Counts(k)' => Counts(k)
    BY <1>14, <1>thr DEF DrainEnd, Counts, Created
  <2>3. \A k \in Job : pc'[k] \in {"insert", "enqueue"} => pc'[k] = pc[k]
    BY <1>14, <1>thr DEF DrainEnd
  <2>4. \A e \in Drainer : dpc'[e] = "admit" => dpc[e] = "admit" /\ cur'[e] = cur[e]
    BY <1>14, <1>thr DEF DrainEnd
  <2> QED BY <1>thr, <2>1, <2>2, <2>3, <2>4, QuietStep
<1>15. ASSUME NEW j \in Job, EngineReturns(j) PROVE LockInv' /\ CapacityRespected'
  <2>1. UNCHANGED <<want, admitMu>>
    BY <1>15 DEF EngineReturns
  <2>2. \A k \in Job : Counts(k)' => Counts(k)
    BY <1>15, <1>thr DEF EngineReturns, SaveRun, Counts, Created
  <2>3. \A k \in Job : pc'[k] \in {"insert", "enqueue"} => pc'[k] = pc[k]
    BY <1>15, <1>thr DEF EngineReturns
  <2>4. \A e \in Drainer : dpc'[e] = "admit" => dpc[e] = "admit" /\ cur'[e] = cur[e]
    BY <1>15, <1>thr DEF EngineReturns
  <2> QED BY <1>thr, <2>1, <2>2, <2>3, <2>4, QuietStep
<1>16. ASSUME NEW j \in Job, ReportArrives(j) PROVE LockInv' /\ CapacityRespected'
  <2>1. UNCHANGED <<want, admitMu>>
    BY <1>16 DEF ReportArrives
  <2>2. \A k \in Job : Counts(k)' => Counts(k)
    BY <1>16, <1>thr DEF ReportArrives, SaveRun, Counts, Created
  <2>3. \A k \in Job : pc'[k] \in {"insert", "enqueue"} => pc'[k] = pc[k]
    BY <1>16, <1>thr DEF ReportArrives
  <2>4. \A e \in Drainer : dpc'[e] = "admit" => dpc[e] = "admit" /\ cur'[e] = cur[e]
    BY <1>16, <1>thr DEF ReportArrives
  <2> QED BY <1>thr, <2>1, <2>2, <2>3, <2>4, QuietStep
<1>17. ASSUME NEW j \in Job, NEW w \in Who, Finalise(j, w) PROVE LockInv' /\ CapacityRespected'
  <2>1. UNCHANGED <<want, admitMu>>
    BY <1>17 DEF Finalise
  <2>2. \A k \in Job : Counts(k)' => Counts(k)
    BY <1>17, <1>thr DEF Finalise, FinalizeJob, Counts, Created
  <2>3. \A k \in Job : pc'[k] \in {"insert", "enqueue"} => pc'[k] = pc[k]
    BY <1>17, <1>thr DEF Finalise
  <2>4. \A e \in Drainer : dpc'[e] = "admit" => dpc[e] = "admit" /\ cur'[e] = cur[e]
    BY <1>17, <1>thr DEF Finalise
  <2> QED BY <1>thr, <2>1, <2>2, <2>3, <2>4, QuietStep
<1>18. ASSUME NEW j \in Job, NEW w \in Who, AnnounceOutcome(j, w)
       PROVE  LockInv' /\ CapacityRespected'
  <2>1. UNCHANGED <<want, admitMu>>
    BY <1>18 DEF AnnounceOutcome
  <2>2. \A k \in Job : Counts(k)' => Counts(k)
    BY <1>18, <1>thr DEF AnnounceOutcome, Counts, Created
  <2>3. \A k \in Job : pc'[k] \in {"insert", "enqueue"} => pc'[k] = pc[k]
    BY <1>18, <1>thr DEF AnnounceOutcome
  <2>4. \A e \in Drainer : dpc'[e] = "admit" => dpc[e] = "admit" /\ cur'[e] = cur[e]
    BY <1>18, <1>thr DEF AnnounceOutcome
  <2> QED BY <1>thr, <2>1, <2>2, <2>3, <2>4, QuietStep
<1>19. ASSUME NEW j \in Job, Cancel(j) PROVE LockInv' /\ CapacityRespected'
  <2>1. UNCHANGED <<want, admitMu>>
    BY <1>19 DEF Cancel
  <2>2. \A k \in Job : Counts(k)' => Counts(k)
    BY <1>19, <1>thr DEF Cancel, Counts, Created
  <2>3. \A k \in Job : pc'[k] \in {"insert", "enqueue"} => pc'[k] = pc[k]
    BY <1>19, <1>thr DEF Cancel
  <2>4. \A e \in Drainer : dpc'[e] = "admit" => dpc[e] = "admit" /\ cur'[e] = cur[e]
    BY <1>19, <1>thr DEF Cancel
  <2> QED BY <1>thr, <2>1, <2>2, <2>3, <2>4, QuietStep
<1>20. CASE AdvanceClock
  <2>1. \A k \in Job : Counts(k)' => Counts(k)
    <3>1. completeAt \in [Job -> Nat]
      BY NatConstants, <1>thr DEF Never
    <3> QED BY <1>20, <1>thr, <3>1 DEF AdvanceClock, Counts, Created
  <2> QED BY <1>20, <1>thr, <2>1, QuietStep DEF AdvanceClock
<1>21. CASE Restart
  <2>1. UNCHANGED want /\ \A k \in Job : Counts(k)' => Counts(k)
    BY <1>21 DEF Restart, Counts, Created
  <2>2. LockInv'
    BY <1>21 DEF Restart, LockInv
  <2> QED BY <2>1, <2>2, CeilingsHold
<1>22. CASE UNCHANGED vars
  <2>1. UNCHANGED <<want, admitMu>> /\ \A k \in Job : Counts(k)' => Counts(k)
    BY <1>22 DEF vars, Counts, Created
  <2> QED BY <1>22, <1>thr, <2>1, QuietStep DEF vars
<1> QED
  BY <1>1, <1>2, <1>3, <1>4, <1>5, <1>6, <1>7, <1>8, <1>9, <1>10, <1>11, <1>12, <1>13,
     <1>14, <1>15, <1>16, <1>17, <1>18, <1>19, <1>20, <1>21, <1>22
  DEF Next, StartStep, DrainStep

\* No capacity ever runs more jobs than its ceiling, however many requests and
\* drains admit at once (admitMu in startJob and DrainCapacityQueues).
THEOREM CeilingIsRespected == Spec => []CapacityRespected
<1> QED BY InitTyped, NextTyped, InitAdmission, NextAdmission, PTL DEF Spec

-----------------------------------------------------------------------------
\* Initially nothing has started.
LEMMA InitStarts == Init => StartInv /\ OrderInv /\ QueueInv
BY DEF Init, StartInv, OrderInv, QueueInv

\* A Started event is owed by one thread only, the one that wrote the row
\* unqueued or took it out of the queue.
LEMMA NextStarts ==
  TypeOK /\ RowsInv /\ StartInv /\ OrderInv /\ QueueInv /\ [Next]_vars
    => StartInv' /\ OrderInv' /\ QueueInv'
<1> SUFFICES ASSUME TypeOK, RowsInv, StartInv, OrderInv, QueueInv, [Next]_vars
             PROVE  StartInv' /\ OrderInv' /\ QueueInv'
  OBVIOUS
<1> USE DEF rowVars, threadVars, drainVars, engineVars, flowVars
<1>thr. /\ pc \in [Job -> Pc] /\ dpc \in [Drainer -> DrainPc]
        /\ cur \in [Drainer -> Created \cup {Nobody}]
        /\ starts \in [Job -> Nat] /\ run \in [Job -> RunStatus]
        /\ writer \in [Job -> [Who -> WriterPc]]
        /\ verdicts \in [Job -> SUBSET {"Completed", "Failed"}]
        /\ Created \subseteq Job /\ queued \subseteq Created
  BY DEF TypeOK, Created
<1>1. ASSUME NEW j \in Job, Submit(j) PROVE StartInv' /\ OrderInv' /\ QueueInv'
  <2>1. StartInv'
    BY <1>1, <1>thr DEF Submit, RowsInv, StartInv, OrderInv, QueueInv, Who
  <2>2. OrderInv'
    BY <1>1, <1>thr DEF Submit, RowsInv, StartInv, OrderInv, QueueInv, Who
  <2>3. QueueInv'
    BY <1>1, <1>thr DEF Submit, RowsInv, StartInv, OrderInv, QueueInv, Who
  <2> QED BY <2>1, <2>2, <2>3
<1>2. ASSUME NEW j \in Job, AdmitCheck(j) PROVE StartInv' /\ OrderInv' /\ QueueInv'
  <2>1. StartInv'
    BY <1>2, <1>thr DEF AdmitCheck, RowsInv, StartInv, OrderInv, QueueInv, Who
  <2>2. OrderInv'
    BY <1>2, <1>thr DEF AdmitCheck, RowsInv, StartInv, OrderInv, QueueInv, Who
  <2>3. QueueInv'
    BY <1>2, <1>thr DEF AdmitCheck, RowsInv, StartInv, OrderInv, QueueInv, Who
  <2> QED BY <2>1, <2>2, <2>3
<1>3. ASSUME NEW j \in Job, Insert(j) PROVE StartInv' /\ OrderInv' /\ QueueInv'
  <2>row. j \notin Created
    BY <1>3 DEF Insert, RowsInv, Unwritten
  <2>1. StartInv'
    BY <1>3, <1>thr, <2>row DEF Insert, WriteRow, RowsInv, StartInv, QueueInv
  <2>2. OrderInv'
    BY <1>3, <1>thr DEF Insert, WriteRow, RowsInv, StartInv, OrderInv, QueueInv, Who
  <2>3. QueueInv'
    BY <1>3, <1>thr, <2>row DEF Insert, WriteRow, RowsInv, StartInv, QueueInv
  <2> QED BY <2>1, <2>2, <2>3
<1>4. ASSUME NEW j \in Job, Enqueue(j) PROVE StartInv' /\ OrderInv' /\ QueueInv'
  <2>row. j \notin Created
    BY <1>4 DEF Enqueue, RowsInv, Unwritten
  <2>1. StartInv'
    BY <1>4, <1>thr, <2>row DEF Enqueue, WriteRow, RowsInv, StartInv, QueueInv
  <2>2. OrderInv'
    BY <1>4, <1>thr DEF Enqueue, WriteRow, RowsInv, StartInv, OrderInv, QueueInv, Who
  <2>3. QueueInv'
    BY <1>4, <1>thr, <2>row DEF Enqueue, WriteRow, RowsInv, StartInv, QueueInv
  <2> QED BY <2>1, <2>2, <2>3
<1>5. ASSUME NEW j \in Job, PublishStarted(j) PROVE StartInv' /\ OrderInv' /\ QueueInv'
  <2>1. StartInv'
    BY <1>5, <1>thr DEF PublishStarted, RowsInv, StartInv, OrderInv, QueueInv, Who
  <2>2. OrderInv'
    BY <1>5, <1>thr DEF PublishStarted, RowsInv, StartInv, OrderInv, QueueInv, Who
  <2>3. QueueInv'
    BY <1>5, <1>thr DEF PublishStarted, RowsInv, StartInv, OrderInv, QueueInv, Who
  <2> QED BY <2>1, <2>2, <2>3
<1>6. ASSUME NEW j \in Job, Dispatch(j) PROVE StartInv' /\ OrderInv' /\ QueueInv'
  <2>1. StartInv'
    BY <1>6, <1>thr DEF Dispatch, FinalizeJob, RowsInv, StartInv, OrderInv, QueueInv, Who
  <2>2. OrderInv'
    BY <1>6, <1>thr DEF Dispatch, FinalizeJob, RowsInv, StartInv, OrderInv, QueueInv, Who
  <2>3. QueueInv'
    BY <1>6, <1>thr DEF Dispatch, FinalizeJob, RowsInv, StartInv, OrderInv, QueueInv, Who
  <2> QED BY <2>1, <2>2, <2>3
<1>7. ASSUME NEW j \in Job, AnnounceRefusal(j) PROVE StartInv' /\ OrderInv' /\ QueueInv'
  <2>1. StartInv'
    BY <1>7, <1>thr DEF AnnounceRefusal, RowsInv, StartInv, OrderInv, QueueInv, Who
  <2>2. OrderInv'
    BY <1>7, <1>thr DEF AnnounceRefusal, RowsInv, StartInv, OrderInv, QueueInv, Who
  <2>3. QueueInv'
    BY <1>7, <1>thr DEF AnnounceRefusal, RowsInv, StartInv, OrderInv, QueueInv, Who
  <2> QED BY <2>1, <2>2, <2>3
<1>8. ASSUME NEW d \in Drainer, DrainBegin(d) PROVE StartInv' /\ OrderInv' /\ QueueInv'
  <2>1. StartInv'
    BY <1>8, <1>thr DEF DrainBegin, RowsInv, StartInv, OrderInv, QueueInv, Who
  <2>2. OrderInv'
    BY <1>8, <1>thr DEF DrainBegin, RowsInv, StartInv, OrderInv, QueueInv, Who
  <2>3. QueueInv'
    BY <1>8, <1>thr DEF DrainBegin, RowsInv, StartInv, OrderInv, QueueInv, Who
  <2> QED BY <2>1, <2>2, <2>3
<1>9. ASSUME NEW d \in Drainer, DrainCheck(d) PROVE StartInv' /\ OrderInv' /\ QueueInv'
  <2>1. StartInv'
    <3>1. \A e \in Drainer : dpc'[e] = "publish" => dpc[e] = "publish" /\ cur'[e] = cur[e]
      BY <1>9, <1>thr DEF DrainCheck
    <3> QED BY <1>9, <3>1 DEF DrainCheck, StartInv
  <2>2. OrderInv'
    BY <1>9, <1>thr DEF DrainCheck, RowsInv, StartInv, OrderInv, QueueInv, Who
  <2>3. QueueInv'
    BY <1>9, <1>thr DEF DrainCheck, RowsInv, StartInv, OrderInv, QueueInv, Who
  <2> QED BY <2>1, <2>2, <2>3
<1>10. ASSUME NEW d \in Drainer, DrainAdmit(d) PROVE StartInv' /\ OrderInv' /\ QueueInv'
  <2>1. StartInv'
    BY <1>10, <1>thr, SMTT(20)
    DEF DrainAdmit, AdmissibleRow, RowsInv, StartInv, OrderInv, QueueInv, Who
  <2>2. OrderInv'
    BY <1>10, <1>thr DEF DrainAdmit, AdmissibleRow, RowsInv, StartInv, OrderInv, QueueInv, Who
  <2>3. QueueInv'
    BY <1>10, <1>thr DEF DrainAdmit, AdmissibleRow, RowsInv, StartInv, OrderInv, QueueInv, Who
  <2> QED BY <2>1, <2>2, <2>3
<1>11. ASSUME NEW d \in Drainer, DrainPublish(d) PROVE StartInv' /\ OrderInv' /\ QueueInv'
  <2>1. StartInv'
    BY <1>11, <1>thr DEF DrainPublish, RowsInv, StartInv, OrderInv, QueueInv, Who
  <2>2. OrderInv'
    BY <1>11, <1>thr DEF DrainPublish, RowsInv, StartInv, OrderInv, QueueInv, Who
  <2>3. QueueInv'
    BY <1>11, <1>thr DEF DrainPublish, RowsInv, StartInv, OrderInv, QueueInv, Who
  <2> QED BY <2>1, <2>2, <2>3
<1>12. ASSUME NEW d \in Drainer, DrainDispatch(d) PROVE StartInv' /\ OrderInv' /\ QueueInv'
  <2>0. \A e \in Drainer :
          dpc'[e] \in {"publish", "dispatch"} => dpc'[e] = dpc[e] /\ cur'[e] = cur[e]
    BY <1>12, <1>thr DEF DrainDispatch
  <2>1. StartInv'
    BY <1>12, <2>0 DEF DrainDispatch, StartInv
  <2>2. OrderInv'
    <3>1. \A e \in Drainer : dpc'[e] = "announce" =>
                             cur'[e] = cur[e] /\ dpc[e] \in {"dispatch", "announce"}
      BY <1>12, <1>thr DEF DrainDispatch
    <3>2. \A k \in Job \ {cur[d]} : run'[k] = run[k] /\ writer'[k] = writer[k]
      BY <1>12, <1>thr DEF DrainDispatch
    <3>3. starts[cur[d]] = 1 /\ UNCHANGED <<starts, pc, verdicts, want>>
      BY <1>12 DEF DrainDispatch, OrderInv
    <3> QED BY <2>0, <3>1, <3>2, <3>3 DEF OrderInv
  <2>3. QueueInv'
    BY <1>12, <1>thr DEF DrainDispatch, FinalizeJob, RowsInv, StartInv, OrderInv, QueueInv, Who
  <2> QED BY <2>1, <2>2, <2>3
<1>13. ASSUME NEW d \in Drainer, DrainAnnounce(d) PROVE StartInv' /\ OrderInv' /\ QueueInv'
  <2>1. StartInv'
    BY <1>13, <1>thr DEF DrainAnnounce, RowsInv, StartInv, OrderInv, QueueInv, Who
  <2>2. OrderInv'
    BY <1>13, <1>thr DEF DrainAnnounce, RowsInv, StartInv, OrderInv, QueueInv, Who
  <2>3. QueueInv'
    BY <1>13, <1>thr DEF DrainAnnounce, RowsInv, StartInv, OrderInv, QueueInv, Who
  <2> QED BY <2>1, <2>2, <2>3
<1>14. ASSUME NEW d \in Drainer, DrainEnd(d) PROVE StartInv' /\ OrderInv' /\ QueueInv'
  <2>1. StartInv'
    BY <1>14, <1>thr DEF DrainEnd, RowsInv, StartInv, OrderInv, QueueInv, Who
  <2>2. OrderInv'
    BY <1>14, <1>thr DEF DrainEnd, RowsInv, StartInv, OrderInv, QueueInv, Who
  <2>3. QueueInv'
    BY <1>14, <1>thr DEF DrainEnd, RowsInv, StartInv, OrderInv, QueueInv, Who
  <2> QED BY <2>1, <2>2, <2>3
<1>15. ASSUME NEW j \in Job, EngineReturns(j) PROVE StartInv' /\ OrderInv' /\ QueueInv'
  <2>1. StartInv'
    BY <1>15, <1>thr DEF EngineReturns, SaveRun, RowsInv, StartInv, OrderInv, QueueInv, Who
  <2>2. OrderInv'
    BY <1>15, <1>thr DEF EngineReturns, SaveRun, RowsInv, StartInv, OrderInv, QueueInv, Who
  <2>3. QueueInv'
    BY <1>15, <1>thr DEF EngineReturns, SaveRun, RowsInv, StartInv, OrderInv, QueueInv, Who
  <2> QED BY <2>1, <2>2, <2>3
<1>16. ASSUME NEW j \in Job, ReportArrives(j) PROVE StartInv' /\ OrderInv' /\ QueueInv'
  <2>1. StartInv'
    BY <1>16, <1>thr DEF ReportArrives, SaveRun, RowsInv, StartInv, OrderInv, QueueInv, Who
  <2>2. OrderInv'
    BY <1>16, <1>thr DEF ReportArrives, SaveRun, RowsInv, StartInv, OrderInv, QueueInv, Who
  <2>3. QueueInv'
    BY <1>16, <1>thr DEF ReportArrives, SaveRun, RowsInv, StartInv, OrderInv, QueueInv, Who
  <2> QED BY <2>1, <2>2, <2>3
<1>17. ASSUME NEW j \in Job, NEW w \in Who, Finalise(j, w) PROVE StartInv' /\ OrderInv' /\ QueueInv'
  <2>1. StartInv'
    BY <1>17, <1>thr DEF Finalise, FinalizeJob, RowsInv, StartInv, OrderInv, QueueInv, Who
  <2>2. OrderInv'
    BY <1>17, <1>thr DEF Finalise, FinalizeJob, RowsInv, StartInv, OrderInv, QueueInv, Who
  <2>3. QueueInv'
    BY <1>17, <1>thr DEF Finalise, FinalizeJob, RowsInv, StartInv, OrderInv, QueueInv, Who
  <2> QED BY <2>1, <2>2, <2>3
<1>18. ASSUME NEW j \in Job, NEW w \in Who, AnnounceOutcome(j, w)
       PROVE  StartInv' /\ OrderInv' /\ QueueInv'
  <2>1. StartInv'
    BY <1>18, <1>thr DEF AnnounceOutcome, RowsInv, StartInv, OrderInv, QueueInv, Who
  <2>2. OrderInv'
    BY <1>18, <1>thr DEF AnnounceOutcome, RowsInv, StartInv, OrderInv, QueueInv, Who
  <2>3. QueueInv'
    BY <1>18, <1>thr DEF AnnounceOutcome, RowsInv, StartInv, OrderInv, QueueInv, Who
  <2> QED BY <2>1, <2>2, <2>3
<1>19. ASSUME NEW j \in Job, Cancel(j) PROVE StartInv' /\ OrderInv' /\ QueueInv'
  <2>1. StartInv'
    BY <1>19, <1>thr DEF Cancel, RowsInv, StartInv, OrderInv, QueueInv, Who
  <2>2. OrderInv'
    BY <1>19, <1>thr DEF Cancel, RowsInv, StartInv, OrderInv, QueueInv, Who
  <2>3. QueueInv'
    BY <1>19, <1>thr DEF Cancel, RowsInv, StartInv, OrderInv, QueueInv, Who
  <2> QED BY <2>1, <2>2, <2>3
<1>20. CASE AdvanceClock
  <2>1. StartInv'
    BY <1>20, <1>thr DEF AdvanceClock, RowsInv, StartInv, OrderInv, QueueInv, Who
  <2>2. OrderInv'
    BY <1>20, <1>thr DEF AdvanceClock, RowsInv, StartInv, OrderInv, QueueInv, Who
  <2>3. QueueInv'
    BY <1>20, <1>thr DEF AdvanceClock, RowsInv, StartInv, OrderInv, QueueInv, Who
  <2> QED BY <2>1, <2>2, <2>3
<1>21. CASE Restart
  <2>1. StartInv'
    BY <1>21, <1>thr DEF Restart, RowsInv, StartInv, OrderInv, QueueInv, Who
  <2>2. OrderInv'
    BY <1>21, <1>thr DEF Restart, RowsInv, StartInv, OrderInv, QueueInv, Who
  <2>3. QueueInv'
    BY <1>21, <1>thr DEF Restart, RowsInv, StartInv, OrderInv, QueueInv, Who
  <2> QED BY <2>1, <2>2, <2>3
<1>22. CASE UNCHANGED vars
  BY <1>22 DEF vars, StartInv, OrderInv, QueueInv
<1> QED
  BY <1>1, <1>2, <1>3, <1>4, <1>5, <1>6, <1>7, <1>8, <1>9, <1>10, <1>11, <1>12,
     <1>13, <1>14, <1>15, <1>16, <1>17, <1>18, <1>19, <1>20, <1>21, <1>22
  DEF Next, StartStep, DrainStep

\* No job is dispatched twice, whoever admits it.
THEOREM NothingStartsTwice == Spec => []StartedOnce
<1>1. StartInv => StartedOnce
  BY DEF StartInv, StartedOnce
<1> QED BY <1>1, InitTyped, NextTyped, InitStarts, NextStarts, PTL DEF Spec

\* A queued job has left no trace of running (startJob's early return, and
\* AdmitQueuedJob before anything is dispatched).
THEOREM QueuedHasNoTrace == Spec => []QueuedIsUntouched
<1>1. TypeOK /\ OrderInv /\ QueueInv => QueuedIsUntouched
  BY DEF TypeOK, Created, OrderInv, QueueInv, QueuedIsUntouched
<1> QED BY <1>1, InitTyped, NextTyped, InitStarts, NextStarts, PTL DEF Spec

\* The flow stream tells of a job's start before it tells of its end.
THEOREM StartsBeforeItEnds == Spec => []NoVerdictBeforeStart
<1>1. OrderInv => NoVerdictBeforeStart
  BY DEF OrderInv, NoVerdictBeforeStart
<1> QED BY <1>1, InitTyped, NextTyped, InitStarts, NextStarts, PTL DEF Spec

-----------------------------------------------------------------------------
(***************************************************************************)
(* How a job ends: what its row, its run detail and the flow stream say.   *)
(***************************************************************************)
\* A dispatch, and the announcement of a failure it settled itself, are one
\* thread's, and there is no goroutine for the job yet.
AtWork == {"dispatch", "announce"}
DispatchInv ==
  /\ \A j \in Job, d \in Drainer : pc[j] \in AtWork /\ dpc[d] \in AtWork => cur[d] # j
  /\ \A d, e \in Drainer : d # e /\ dpc[d] \in AtWork /\ dpc[e] \in AtWork => cur[d] # cur[e]
  /\ \A j \in Job : pc[j] \in AtWork => writer[j]["engine"] = "none"
  /\ \A d \in Drainer : dpc[d] \in AtWork => writer[cur[d]]["engine"] = "none"

\* A job that an engine finishes is parked until its goroutine finalises it.
Starting == {"publish", "dispatch"}
ParkedJob(j) ==
  /\ pc[j] \in {"admit", "insert"} /\ Parked(j) => due[j] = Never
  /\ writer[j]["engine"] # "none" => Parked(j)
  /\ writer[j]["report"] # "none" => reports[j] # 0
  /\ reports[j] # 0 => want[j].kind \in {"Notebook", "Refused"}
  /\ Parked(j) /\ reports[j] = 0 =>
       /\ pc[j] \in Starting => completeAt[j] = Never
       /\ writer[j]["engine"] \in {"running", "finalise"} => completeAt[j] = Never
ParkedDrain(d) ==
  dpc[d] \in Starting =>
    (Parked(cur[d]) /\ reports[cur[d]] = 0 => completeAt[cur[d]] = Never)
ParkedInv == (\A j \in Job : ParkedJob(j)) /\ (\A d \in Drainer : ParkedDrain(d))

\* The row says that j ended with verdict v, unless it is cancelled.
Settled(j, v) == /\ j \notin queued /\ completeAt[j] <= now
                 /\ j \in failed <=> v = "Failed"

\* What was announced, or is about to be, is what the row says.
OutcomeJob(j) ==
  reports[j] = 0 =>
    /\ pc[j] = "dispatch" => verdicts[j] = {}
    /\ pc[j] = "announce" => Settled(j, "Failed")
    /\ writer[j]["engine"] \in {"running", "finalise"} => verdicts[j] = {}
    /\ writer[j]["engine"] = "announce" => \A v \in Outcome(j, "engine") : Settled(j, v)
    /\ \A v \in verdicts[j] : Settled(j, v)
OutcomeDrain(d) ==
  /\ dpc[d] = "dispatch" => (reports[cur[d]] = 0 => verdicts[cur[d]] = {})
  /\ dpc[d] = "announce" => (reports[cur[d]] = 0 => Settled(cur[d], "Failed"))
OutcomeInv == (\A j \in Job : OutcomeJob(j)) /\ (\A d \in Drainer : OutcomeDrain(d))

\* No row says Completed of a pipeline whose run did not end well, or of a
\* notebook nothing has run.
GreenJob(j) ==
  /\ j \in Created =>
       /\ want[j].kind = "Pipeline" =>
            run[j] # "none" /\ (completeAt[j] = Never \/ j \in failed \/ run[j] = "ok")
       /\ want[j].kind = "Notebook" /\ run[j] = "none" => completeAt[j] = Never
       /\ want[j].kind = "Refused" /\ reports[j] = 0 => j \in failed
  /\ want[j].kind = "Pipeline" /\ writer[j]["engine"] = "finalise" =>
       code[j]["engine"] \/ run[j] = "ok"
  /\ run[j] = "queued" => want[j].kind = "Pipeline"
  /\ \A w \in Who : writer[j][w] # "none" => run[j] # "none"
  /\ reports[j] # 0 => run[j] # "none"
GreenInv == \A j \in Job : GreenJob(j)

\* Without a restart, somebody is on its way to finish what holds a slot.
OnItsWay(j) == \/ pc[j] \in Starting
               \/ \E d \in Drainer : cur[d] = j /\ dpc[d] \in Starting
               \/ writer[j]["engine"] # "none"
               \/ want[j].kind = "Notebook" /\ ~want[j].agent
SlotJob(j) ==
  /\ writer[j]["engine"] = "announce" => j \notin queued /\ completeAt[j] <= now
  /\ restarts = 0 /\ j \in Created /\ Parked(j) /\ j \notin queued /\ completeAt[j] > now =>
       OnItsWay(j)
SlotInv == \A j \in Job : SlotJob(j)

EndInv == DispatchInv /\ ParkedInv /\ OutcomeInv /\ GreenInv /\ SlotInv

StartsInv == TypeOK /\ RowsInv /\ StartInv /\ OrderInv /\ QueueInv

\* Types of what a thread is at, one thread at a time, and where the clock ends.
LEMMA Threads ==
  ASSUME TypeOK, RowsInv
  PROVE  /\ pc \in [Job -> Pc] /\ due \in [Job -> 0..Never]
         /\ completeAt \in [Job -> 0..Never] /\ run \in [Job -> RunStatus]
         /\ writer \in [Job -> [Who -> WriterPc]] /\ code \in [Job -> [Who -> BOOLEAN]]
         /\ reports \in [Job -> Nat] /\ verdicts \in [Job -> SUBSET {"Completed", "Failed"}]
         /\ dpc \in [Drainer -> DrainPc] /\ cur \in [Drainer -> Created \cup {Nobody}]
         /\ Created \subseteq Job /\ queued \subseteq Created /\ failed \subseteq Created
         /\ now \in Nat /\ now < Never /\ Never \in Nat /\ LRODelay \in Nat
         /\ \A d \in Drainer : dpc[d] \in {"admit", "publish", "dispatch", "announce"}
                                 => cur[d] \in Created /\ cur[d] \in Job
<1>1. now \in Nat /\ now < Never /\ Never \in Nat /\ LRODelay \in Nat
  BY NatConstants DEF TypeOK, Never
<1>2. reports \in [Job -> Nat]
  BY NatConstants DEF TypeOK
<1> QED BY <1>1, <1>2 DEF TypeOK, RowsInv, Created

\* A step that begins no dispatch and no goroutine keeps them apart.
LEMMA NoNewWork ==
  ASSUME DispatchInv,
         \A k \in Job : pc'[k] \in AtWork => pc[k] \in AtWork,
         \A e \in Drainer : dpc'[e] \in AtWork => dpc[e] \in AtWork /\ cur'[e] = cur[e],
         \A k \in Job : writer'[k]["engine"] = "none" \/ writer[k]["engine"] # "none",
         \A e \in Drainer : dpc[e] \in AtWork => cur[e] \in Job
  PROVE  DispatchInv'
BY DEF DispatchInv

\* Whoever dispatches a job is alone in that.
LEMMA NextDispatch == StartsInv /\ DispatchInv /\ [Next]_vars => DispatchInv'
<1> SUFFICES ASSUME StartsInv, DispatchInv, [Next]_vars PROVE DispatchInv'
  OBVIOUS
<1> USE DEF StartsInv, rowVars, threadVars, drainVars, engineVars, flowVars
<1>thr. /\ pc \in [Job -> Pc] /\ dpc \in [Drainer -> DrainPc]
        /\ cur \in [Drainer -> Created \cup {Nobody}]
        /\ writer \in [Job -> [Who -> WriterPc]]
        /\ \A d \in Drainer : dpc[d] \in AtWork => cur[d] \in Job
        /\ "engine" \in Who
  BY Threads DEF AtWork, Who
<1>1. ASSUME NEW j \in Job,
             Submit(j) \/ AdmitCheck(j) \/ Insert(j) \/ Enqueue(j) \/ AnnounceRefusal(j)
      PROVE  DispatchInv'
  <2>1. UNCHANGED <<dpc, cur, writer>> /\ \A k \in Job : pc'[k] \in AtWork => pc[k] \in AtWork
    BY <1>1, <1>thr DEF Submit, AdmitCheck, Insert, Enqueue, AnnounceRefusal, WriteRow, AtWork
  <2> QED BY <1>thr, <2>1, NoNewWork
<1>2. ASSUME NEW j \in Job, PublishStarted(j) PROVE DispatchInv'
  <2>1. starts[j] = 0
    BY <1>2 DEF PublishStarted, StartInv
  <2>2. writer[j]["engine"] = "none" /\ \A d \in Drainer : dpc[d] \in AtWork => cur[d] # j
    BY <2>1, <1>thr DEF OrderInv, AtWork
  <2>3. /\ UNCHANGED <<dpc, cur, writer>>
        /\ \A k \in Job : pc'[k] \in AtWork => k = j \/ pc[k] \in AtWork
    BY <1>2, <1>thr DEF PublishStarted, AtWork
  <2> QED BY <2>2, <2>3 DEF DispatchInv
<1>3. ASSUME NEW j \in Job, Dispatch(j) PROVE DispatchInv'
  <2>1. /\ UNCHANGED <<dpc, cur>> /\ pc[j] \in AtWork
        /\ \A k \in Job \ {j} : pc'[k] = pc[k] /\ writer'[k] = writer[k]
        /\ pc'[j] \in AtWork => writer'[j] = writer[j]
    BY <1>3, <1>thr DEF Dispatch, AtWork
  <2>2. \A e \in Drainer : dpc[e] \in AtWork => cur[e] \in Job \ {j}
    BY <1>thr, <2>1 DEF DispatchInv
  <2>3. \A k \in Job : pc'[k] \in AtWork => pc[k] \in AtWork /\ writer'[k] = writer[k]
    BY <2>1
  <2> QED BY <2>1, <2>2, <2>3 DEF DispatchInv
<1>4. ASSUME NEW d \in Drainer,
             DrainBegin(d) \/ DrainCheck(d) \/ DrainAdmit(d) \/ DrainAnnounce(d) \/ DrainEnd(d)
      PROVE  DispatchInv'
  <2>1. /\ UNCHANGED <<pc, writer>>
        /\ \A e \in Drainer : dpc'[e] \in AtWork => dpc[e] \in AtWork /\ cur'[e] = cur[e]
    BY <1>4, <1>thr DEF DrainBegin, DrainCheck, DrainAdmit, DrainAnnounce, DrainEnd, AtWork
  <2> QED BY <1>thr, <2>1, NoNewWork
<1>5. ASSUME NEW d \in Drainer, DrainPublish(d) PROVE DispatchInv'
  <2>1. starts[cur[d]] = 0 /\ cur[d] \in Job
    BY <1>5, Threads DEF DrainPublish, StartInv
  <2>2. /\ writer[cur[d]]["engine"] = "none" /\ pc[cur[d]] \notin AtWork
        /\ \A e \in Drainer : dpc[e] \in AtWork => cur[e] # cur[d]
    BY <2>1, <1>thr DEF OrderInv, AtWork
  <2>3. /\ UNCHANGED <<pc, cur, writer>>
        /\ \A e \in Drainer : dpc'[e] \in AtWork => e = d \/ dpc[e] \in AtWork
    BY <1>5, <1>thr DEF DrainPublish, AtWork
  <2> QED BY <2>2, <2>3 DEF DispatchInv
<1>6. ASSUME NEW d \in Drainer, DrainDispatch(d) PROVE DispatchInv'
  <2>1. /\ UNCHANGED pc /\ dpc[d] \in AtWork /\ cur[d] \in Job
        /\ \A e \in Drainer \ {d} : dpc'[e] = dpc[e] /\ cur'[e] = cur[e]
        /\ \A k \in Job \ {cur[d]} : writer'[k] = writer[k]
        /\ dpc'[d] \in AtWork => writer' = writer /\ cur' = cur
    BY <1>6, <1>thr DEF DrainDispatch, AtWork
  <2> QED BY <1>thr, <2>1 DEF DispatchInv
<1>7. ASSUME NEW j \in Job, EngineReturns(j) \/ ReportArrives(j) PROVE DispatchInv'
  <2>1. /\ UNCHANGED <<pc, dpc, cur>>
        /\ \A k \in Job : writer'[k]["engine"] = "none" \/ writer[k]["engine"] # "none"
    BY <1>7, <1>thr DEF EngineReturns, ReportArrives, SaveRun, Who
  <2> QED BY <1>thr, <2>1, NoNewWork
<1>8. ASSUME NEW j \in Job, NEW w \in Who, Finalise(j, w) \/ AnnounceOutcome(j, w)
      PROVE  DispatchInv'
  <2>1. /\ UNCHANGED <<pc, dpc, cur>>
        /\ \A k \in Job : writer'[k]["engine"] = "none" \/ writer[k]["engine"] # "none"
    BY <1>8, <1>thr DEF Finalise, AnnounceOutcome, Who
  <2> QED BY <1>thr, <2>1, NoNewWork
<1>9. CASE Restart
  BY <1>9, <1>thr DEF Restart, DispatchInv, AtWork
<1>10. ASSUME UNCHANGED <<pc, dpc, cur, writer>> PROVE DispatchInv'
  BY <1>10 DEF DispatchInv
<1>11. ASSUME NEW j \in Job, Cancel(j) PROVE DispatchInv'
  BY <1>10, <1>11 DEF Cancel
<1>12. CASE AdvanceClock \/ UNCHANGED vars
  BY <1>10, <1>12 DEF AdvanceClock, vars
<1> QED
  BY <1>1, <1>2, <1>3, <1>4, <1>5, <1>6, <1>7, <1>8, <1>9, <1>11, <1>12
  DEF Next, StartStep, DrainStep

\* A parked job stays parked until its goroutine, of which there is one, ends it.
LEMMA NextParked == StartsInv /\ DispatchInv /\ ParkedInv /\ [Next]_vars => ParkedInv'
<1> SUFFICES ASSUME StartsInv, DispatchInv, ParkedInv, [Next]_vars PROVE ParkedInv'
  OBVIOUS
<1> USE DEF StartsInv, rowVars, threadVars, drainVars, engineVars, flowVars, Starting, Parked
<1>thr. /\ pc \in [Job -> Pc] /\ due \in [Job -> 0..Never] /\ completeAt \in [Job -> 0..Never]
        /\ writer \in [Job -> [Who -> WriterPc]] /\ reports \in [Job -> Nat]
        /\ dpc \in [Drainer -> DrainPc] /\ cur \in [Drainer -> Created \cup {Nobody}]
        /\ \A d \in Drainer : dpc[d] \in {"admit", "publish", "dispatch", "announce"}
                                => cur[d] \in Created /\ cur[d] \in Job
        /\ "engine" \in Who /\ "report" \in Who /\ \A w \in Who : w \in {"engine", "report"}
  BY Threads DEF Who
<1>never. Never' = Never
  BY DEF Never
<1> HIDE DEF Never
<1>1. ASSUME NEW j \in Job, Submit(j) PROVE ParkedInv'
  <2>1. /\ UNCHANGED <<want, completeAt, writer, reports, dpc, cur>>
        /\ \A k \in Job \ {j} : pc'[k] = pc[k] /\ due'[k] = due[k]
        /\ pc'[j] = "admit" /\ (Parked(j) => due'[j] = Never)
    BY <1>1, <1>thr DEF Submit, StartCompleteAt
  <2> QED BY <1>never, <2>1 DEF ParkedInv, ParkedJob, ParkedDrain
<1>2. ASSUME NEW j \in Job, AdmitCheck(j) \/ PublishStarted(j) \/ AnnounceRefusal(j)
      PROVE  ParkedInv'
  <2>1. /\ UNCHANGED <<want, due, completeAt, writer, reports, dpc, cur>>
        /\ \A k \in Job : /\ pc'[k] \in {"admit", "insert"} => pc[k] \in {"admit", "insert"}
                          /\ pc'[k] \in Starting => pc[k] \in Starting
    BY <1>2, <1>thr DEF AdmitCheck, PublishStarted, AnnounceRefusal
  <2> QED BY <1>never, <2>1 DEF ParkedInv, ParkedJob, ParkedDrain
<1>3. ASSUME NEW j \in Job, Insert(j) \/ Enqueue(j) PROVE ParkedInv'
  <2>1. /\ UNCHANGED <<want, writer, reports, dpc, cur>> /\ j \notin Created
        /\ \A k \in Job \ {j} : /\ pc'[k] = pc[k] /\ due'[k] = due[k]
                                /\ completeAt'[k] = completeAt[k]
        /\ pc'[j] \in {"publish", "done"} /\ (Parked(j) => completeAt'[j] = Never)
    BY <1>3, <1>thr DEF Insert, Enqueue, WriteRow, ParkedInv, ParkedJob, RowsInv, Unwritten
  <2>2. ASSUME NEW k \in Job PROVE ParkedJob(k)'
    BY <1>never, <2>1 DEF ParkedInv, ParkedJob
  <2>3. ASSUME NEW e \in Drainer PROVE ParkedDrain(e)'
    <3>1. dpc[e] \in Starting => cur[e] \in Job \ {j}
      BY <1>thr, <2>1
    <3> QED BY <1>never, <2>1, <3>1 DEF ParkedInv, ParkedDrain
  <2> QED BY <2>2, <2>3 DEF ParkedInv
<1>4. ASSUME NEW j \in Job, Dispatch(j) PROVE ParkedInv'
  <2>1. /\ UNCHANGED <<want, due, reports, dpc, cur>> /\ pc[j] = "dispatch"
        /\ pc'[j] \in {"done", "announce"}
        /\ \A k \in Job \ {j} : /\ pc'[k] = pc[k] /\ writer'[k] = writer[k]
                                /\ completeAt'[k] = completeAt[k]
        /\ writer'[j]["report"] = writer[j]["report"]
        /\ \/ writer'[j] = writer[j]
           \/ writer'[j]["engine"] = "running" /\ Parked(j) /\ completeAt'[j] = completeAt[j]
    BY <1>4, <1>thr DEF Dispatch, FinalizeJob
  <2>2. /\ writer[j]["engine"] = "none"
        /\ \A d \in Drainer : dpc[d] \in Starting => cur[d] # j
    BY <2>1, <1>thr DEF DispatchInv, AtWork, StartInv, OrderInv
  <2>3. ASSUME NEW k \in Job PROVE ParkedJob(k)'
    BY <1>never, <2>1, <2>2 DEF ParkedInv, ParkedJob
  <2>4. ASSUME NEW e \in Drainer PROVE ParkedDrain(e)'
    <3>1. dpc[e] \in Starting => cur[e] \in Job \ {j}
      BY <1>thr, <2>2
    <3> QED BY <1>never, <2>1, <3>1 DEF ParkedInv, ParkedDrain
  <2> QED BY <2>3, <2>4 DEF ParkedInv
<1>5. ASSUME NEW d \in Drainer,
             DrainBegin(d) \/ DrainCheck(d) \/ DrainPublish(d) \/ DrainAnnounce(d) \/ DrainEnd(d)
      PROVE  ParkedInv'
  <2>1. /\ UNCHANGED <<want, pc, due, completeAt, writer, reports>>
        /\ \A e \in Drainer : dpc'[e] \in Starting => dpc[e] \in Starting /\ cur'[e] = cur[e]
    BY <1>5, <1>thr DEF DrainBegin, DrainCheck, DrainPublish, DrainAnnounce, DrainEnd
  <2> QED BY <1>never, <2>1 DEF ParkedInv, ParkedJob, ParkedDrain
<1>6. ASSUME NEW d \in Drainer, DrainAdmit(d) PROVE ParkedInv'
  <2>1. /\ UNCHANGED <<want, pc, due, writer, reports>> /\ cur[d] \in Job
        /\ \A k \in Job : completeAt'[k] = completeAt[k] \/ (Parked(k) => completeAt'[k] = Never)
        /\ \A e \in Drainer \ {d} : dpc'[e] = dpc[e] /\ cur'[e] = cur[e]
        /\ \/ dpc'[d] = "loop"
           \/ cur'[d] = cur[d] /\ (Parked(cur[d]) => completeAt'[cur[d]] = Never)
    BY <1>6, <1>thr DEF DrainAdmit, QueuedCompleteAt
  <2> QED BY <1>never, <1>thr, <2>1 DEF ParkedInv, ParkedJob, ParkedDrain
<1>7. ASSUME NEW d \in Drainer, DrainDispatch(d) PROVE ParkedInv'
  <2> DEFINE j == cur[d]
  <2>1. j \in Job /\ dpc[d] = "dispatch"
    BY <1>7, <1>thr DEF DrainDispatch
  <2>2. /\ UNCHANGED <<want, pc, due, reports>> /\ dpc'[d] \in {"loop", "announce"}
        /\ \A e \in Drainer \ {d} : dpc'[e] = dpc[e] /\ cur'[e] = cur[e]
        /\ \A k \in Job \ {j} : writer'[k] = writer[k] /\ completeAt'[k] = completeAt[k]
        /\ Parked(j) => completeAt'[j] = completeAt[j]
        /\ writer'[j]["report"] = writer[j]["report"]
        /\ \/ writer'[j] = writer[j]
           \/ writer'[j]["engine"] = "running" /\ Parked(j)
    BY <1>7, <1>thr, <2>1 DEF DrainDispatch, FinalizeJob
  <2>3. Parked(j) /\ reports[j] = 0 => completeAt[j] = Never
    BY <2>1 DEF ParkedInv, ParkedDrain
  <2>4. ASSUME NEW k \in Job PROVE ParkedJob(k)'
    <3>1. CASE k = j
      BY <1>never, <2>1, <2>2, <2>3, <3>1 DEF ParkedInv, ParkedJob
    <3>2. CASE k # j
      BY <1>never, <2>2, <3>2 DEF ParkedInv, ParkedJob
    <3> QED BY <3>1, <3>2
  <2>5. ASSUME NEW e \in Drainer PROVE ParkedDrain(e)'
    <3>1. dpc'[e] \in Starting => e # d /\ dpc[e] \in Starting /\ cur'[e] = cur[e] /\ cur[e] \in Job
      BY <1>thr, <2>2
    <3> HIDE DEF j
    <3> QED BY <1>never, <2>2, <3>1 DEF ParkedInv, ParkedDrain
  <2> QED BY <2>4, <2>5 DEF ParkedInv
<1>8. ASSUME NEW j \in Job, EngineReturns(j) \/ ReportArrives(j) PROVE ParkedInv'
  <2>1. /\ UNCHANGED <<want, pc, due, completeAt, dpc, cur>>
        /\ \A k \in Job \ {j} : writer'[k] = writer[k] /\ reports'[k] = reports[k]
    BY <1>8, <1>thr DEF EngineReturns, ReportArrives, SaveRun
  <2>2. CASE EngineReturns(j)
    <3>1. /\ writer'[j]["report"] = writer[j]["report"] /\ reports' = reports
          /\ writer[j]["engine"] = "running" /\ writer'[j]["engine"] = "finalise"
      BY <1>thr, <2>2 DEF EngineReturns, SaveRun
    <3> QED BY <1>never, <1>thr, <2>1, <3>1 DEF ParkedInv, ParkedJob, ParkedDrain
  <2>3. CASE ReportArrives(j)
    <3>1. /\ writer'[j]["engine"] = writer[j]["engine"] /\ reports'[j] # 0
          /\ want[j].kind \in {"Notebook", "Refused"}
      BY <1>thr, <2>3 DEF ReportArrives, SaveRun
    <3>2. ASSUME NEW k \in Job PROVE ParkedJob(k)'
      BY <1>never, <2>1, <3>1 DEF ParkedInv, ParkedJob
    <3>3. ASSUME NEW e \in Drainer PROVE ParkedDrain(e)'
      <4>1. dpc[e] \in Starting => cur[e] \in Job
        BY <1>thr
      <4> QED BY <1>never, <2>1, <3>1, <4>1 DEF ParkedInv, ParkedDrain
    <3> QED BY <3>2, <3>3 DEF ParkedInv
  <2> QED BY <1>8, <2>2, <2>3
<1>9. ASSUME NEW j \in Job, NEW w \in Who, Finalise(j, w) PROVE ParkedInv'
  <2>1. /\ UNCHANGED <<want, pc, due, reports, dpc, cur>> /\ writer[j][w] = "finalise"
        /\ \A k \in Job \ {j} : writer'[k] = writer[k] /\ completeAt'[k] = completeAt[k]
        /\ \A u \in Who \ {w} : writer'[j][u] = writer[j][u]
        /\ writer'[j][w] = "announce"
    BY <1>9, <1>thr DEF Finalise, FinalizeJob
  <2>2. CASE w = "report"
    <3>1. reports[j] # 0
      BY <2>1, <2>2 DEF ParkedInv, ParkedJob, ParkedDrain
    <3> QED BY <1>never, <1>thr, <2>1, <2>2, <3>1 DEF ParkedInv, ParkedJob, ParkedDrain
  <2>3. CASE w = "engine"
    <3>1. /\ pc[j] \notin Starting
          /\ \A d \in Drainer : dpc[d] \in Starting => cur[d] # j
      BY <1>thr, <2>1, <2>3 DEF DispatchInv, AtWork, StartInv, OrderInv
    <3> QED BY <1>never, <1>thr, <2>1, <2>3, <3>1 DEF ParkedInv, ParkedJob, ParkedDrain
  <2> QED BY <1>thr, <2>2, <2>3
<1>10. ASSUME NEW j \in Job, NEW w \in Who, AnnounceOutcome(j, w) PROVE ParkedInv'
  <2>1. /\ UNCHANGED <<want, pc, due, completeAt, reports, dpc, cur>>
        /\ \A k \in Job, u \in Who : writer'[k][u] = writer[k][u] \/ writer'[k][u] = "none"
    BY <1>10, <1>thr DEF AnnounceOutcome
  <2> QED BY <1>never, <1>thr, <2>1 DEF ParkedInv, ParkedJob, ParkedDrain
<1>11. CASE Restart
  BY <1>11, <1>never, <1>thr DEF Restart, ParkedInv, ParkedJob, ParkedDrain
<1>12. ASSUME UNCHANGED <<want, pc, due, completeAt, reports, dpc, cur, writer>> PROVE ParkedInv'
  BY <1>12, <1>never DEF ParkedInv, ParkedJob, ParkedDrain
<1>13. ASSUME NEW j \in Job, Cancel(j) PROVE ParkedInv'
  BY <1>12, <1>13 DEF Cancel
<1>14. CASE AdvanceClock \/ UNCHANGED vars
  BY <1>12, <1>14 DEF AdvanceClock, vars
<1> QED
  BY <1>1, <1>2, <1>3, <1>4, <1>5, <1>6, <1>7, <1>8, <1>9, <1>10, <1>11, <1>13, <1>14
  DEF Next, StartStep, DrainStep

\* What a step must leave alone for a verdict to stay what the row says.
SameEnd(k) ==
  /\ completeAt'[k] = completeAt[k] /\ (k \in failed' <=> k \in failed)
  /\ (k \in queued' => k \in queued) /\ now <= now'

LEMMA SettledStays ==
  ASSUME TypeOK, RowsInv, NEW k \in Job, NEW v, Settled(k, v), SameEnd(k), now' \in Nat
  PROVE  Settled(k, v)'
<1>1. completeAt[k] \in Nat /\ now \in Nat
  BY Threads
<1> QED BY <1>1 DEF Settled, SameEnd

\* A job to which nothing happens but that its threads go away.
LEMMA OutcomeFrame ==
  ASSUME TypeOK, RowsInv, NEW k \in Job, OutcomeJob(k), SameEnd(k), now' \in Nat,
         reports'[k] = reports[k], verdicts'[k] = verdicts[k],
         pc'[k] \in AtWork => pc'[k] = pc[k],
         writer'[k]["engine"] # "none" =>
           writer'[k]["engine"] = writer[k]["engine"] /\ code'[k]["engine"] = code[k]["engine"]
  PROVE  OutcomeJob(k)'
<1> SUFFICES ASSUME reports[k] = 0
             PROVE /\ pc'[k] = "dispatch" => verdicts[k] = {}
                   /\ pc'[k] = "announce" => Settled(k, "Failed")'
                   /\ writer'[k]["engine"] \in {"running", "finalise"} => verdicts[k] = {}
                   /\ writer'[k]["engine"] = "announce" =>
                        \A v \in Outcome(k, "engine")' : Settled(k, v)'
                   /\ \A v \in verdicts[k] : Settled(k, v)'
  BY DEF OutcomeJob
<1>1. \A v : Settled(k, v) => Settled(k, v)'
  BY SettledStays
<1>2. writer'[k]["engine"] = "announce" =>
        writer[k]["engine"] = "announce" /\ Outcome(k, "engine")' = Outcome(k, "engine")
  BY DEF Outcome
<1> QED BY <1>1, <1>2 DEF OutcomeJob, AtWork

LEMMA OutcomeDrainFrame ==
  ASSUME TypeOK, RowsInv, NEW e \in Drainer, OutcomeDrain(e), now' \in Nat,
         dpc'[e] \in AtWork => /\ dpc'[e] = dpc[e] /\ cur'[e] = cur[e]
                               /\ cur[e] \in Job => /\ reports'[cur[e]] = reports[cur[e]]
                                                    /\ verdicts'[cur[e]] = verdicts[cur[e]]
                                                    /\ SameEnd(cur[e])
  PROVE  OutcomeDrain(e)'
<1>1. CASE dpc'[e] \notin AtWork
  BY <1>1 DEF OutcomeDrain, AtWork
<1>2. CASE dpc'[e] \in AtWork
  <2>1. dpc'[e] = dpc[e] /\ cur'[e] = cur[e] /\ cur[e] \in Job
    BY <1>2, Threads DEF AtWork
  <2>2. PICK k \in Job : k = cur[e]
    BY <2>1
  <2>3. Settled(k, "Failed") => Settled(k, "Failed")'
    BY <1>2, <2>1, <2>2, SettledStays
  <2>4. Settled(cur[e], "Failed")' <=> Settled(k, "Failed")'
    BY <2>1, <2>2 DEF Settled
  <2> QED BY <1>2, <2>1, <2>2, <2>3, <2>4 DEF OutcomeDrain
<1> QED BY <1>1, <1>2

\* What was announced, or is about to be, is what the row says.
LEMMA NextOutcome ==
  StartsInv /\ DispatchInv /\ ParkedInv /\ OutcomeInv /\ TypeOK' /\ [Next]_vars => OutcomeInv'
<1> SUFFICES ASSUME StartsInv, DispatchInv, ParkedInv, OutcomeInv, TypeOK', [Next]_vars
             PROVE  OutcomeInv'
  OBVIOUS
<1> USE DEF StartsInv, rowVars, threadVars, drainVars, engineVars, flowVars
<1>thr. /\ pc \in [Job -> Pc] /\ completeAt \in [Job -> 0..Never]
        /\ writer \in [Job -> [Who -> WriterPc]] /\ code \in [Job -> [Who -> BOOLEAN]]
        /\ reports \in [Job -> Nat] /\ verdicts \in [Job -> SUBSET {"Completed", "Failed"}]
        /\ dpc \in [Drainer -> DrainPc] /\ cur \in [Drainer -> Created \cup {Nobody}]
        /\ \A d \in Drainer : dpc[d] \in {"admit", "publish", "dispatch", "announce"}
                                => cur[d] \in Created /\ cur[d] \in Job
        /\ "engine" \in Who /\ "report" \in Who /\ \A w \in Who : w \in {"engine", "report"}
  BY Threads DEF Who
<1>now. now \in Nat /\ now' \in Nat
  BY NatConstants DEF TypeOK
\* A step that touches neither rows nor outcomes, and sends nobody to work.
<1>quiet. ASSUME UNCHANGED <<reports, verdicts, completeAt, failed, queued, now>>,
                 \A k \in Job : pc'[k] \in AtWork => pc'[k] = pc[k],
                 \A e \in Drainer : dpc'[e] \in AtWork => dpc'[e] = dpc[e] /\ cur'[e] = cur[e],
                 \A k \in Job : writer'[k]["engine"] # "none" =>
                                 /\ writer'[k]["engine"] = writer[k]["engine"]
                                 /\ code'[k]["engine"] = code[k]["engine"]
          PROVE  OutcomeInv'
  <2>1. \A k : SameEnd(k)
    BY <1>now, <1>quiet DEF SameEnd
  <2>2. ASSUME NEW k \in Job PROVE OutcomeJob(k)'
    <3>1. OutcomeJob(k) /\ SameEnd(k) /\ reports'[k] = reports[k] /\ verdicts'[k] = verdicts[k]
      BY <1>quiet, <2>1 DEF OutcomeInv
    <3>2. /\ pc'[k] \in AtWork => pc'[k] = pc[k]
          /\ writer'[k]["engine"] # "none" => /\ writer'[k]["engine"] = writer[k]["engine"]
                                             /\ code'[k]["engine"] = code[k]["engine"]
      BY <1>quiet
    <3> QED BY <1>now, <3>1, <3>2, OutcomeFrame
  <2>3. ASSUME NEW e \in Drainer PROVE OutcomeDrain(e)'
    BY <1>now, <1>quiet, <2>1, OutcomeDrainFrame DEF OutcomeInv
  <2> QED BY <2>2, <2>3 DEF OutcomeInv
\* A step that touches only what concerns one job, and that job is not a drain's work.
<1>one. ASSUME NEW j \in Job, OutcomeJob(j)', UNCHANGED <<dpc, cur>>,
               \A k \in Job \ {j} :
                 /\ pc'[k] = pc[k] /\ writer'[k] = writer[k] /\ code'[k] = code[k]
                 /\ reports'[k] = reports[k] /\ verdicts'[k] = verdicts[k] /\ SameEnd(k),
               \A e \in Drainer : dpc[e] \in AtWork => cur[e] # j
        PROVE  OutcomeInv'
  <2>1. ASSUME NEW k \in Job PROVE OutcomeJob(k)'
    <3>1. CASE k = j
      BY <1>one, <3>1
    <3>2. CASE k # j
      BY <1>now, <1>one, <3>2, OutcomeFrame DEF OutcomeInv
    <3> QED BY <3>1, <3>2
  <2>2. ASSUME NEW e \in Drainer PROVE OutcomeDrain(e)'
    BY <1>now, <1>one, OutcomeDrainFrame DEF OutcomeInv
  <2> QED BY <2>1, <2>2 DEF OutcomeInv
\* A step of one job that an external engine has reported on.
<1>reported. ASSUME NEW j \in Job, UNCHANGED <<dpc, cur>>, reports'[j] # 0,
                    \A k \in Job \ {j} :
                      /\ pc'[k] = pc[k] /\ writer'[k] = writer[k] /\ code'[k] = code[k]
                      /\ reports'[k] = reports[k] /\ verdicts'[k] = verdicts[k] /\ SameEnd(k)
             PROVE  OutcomeInv'
  <2>1. ASSUME NEW k \in Job PROVE OutcomeJob(k)'
    <3>1. CASE k = j
      BY <1>reported, <3>1 DEF OutcomeJob
    <3>2. CASE k # j
      BY <1>now, <1>reported, <3>2, OutcomeFrame DEF OutcomeInv
    <3> QED BY <3>1, <3>2
  <2>2. ASSUME NEW e \in Drainer PROVE OutcomeDrain(e)'
    <3>1. CASE cur[e] = j
      BY <1>reported, <3>1 DEF OutcomeDrain
    <3>2. CASE cur[e] # j
      BY <1>now, <1>reported, <3>2, OutcomeDrainFrame DEF OutcomeInv
    <3> QED BY <3>1, <3>2
  <2> QED BY <2>1, <2>2 DEF OutcomeInv
<1>1. ASSUME NEW j \in Job, Submit(j) \/ AdmitCheck(j) PROVE OutcomeInv'
  BY <1>1, <1>thr, <1>quiet DEF Submit, AdmitCheck, AtWork
<1>2. ASSUME NEW j \in Job, Insert(j) \/ Enqueue(j) PROVE OutcomeInv'
  <2>1. /\ j \notin Created /\ verdicts[j] = {} /\ writer[j]["engine"] = "none"
        /\ \A e \in Drainer : dpc[e] \in AtWork => cur[e] # j
    BY <1>2, <1>thr DEF Insert, Enqueue, RowsInv, Unwritten, AtWork
  <2>2. /\ UNCHANGED <<dpc, cur, writer, code, reports, verdicts, now>>
        /\ pc'[j] \in {"publish", "done"} /\ \A k \in Job \ {j} : pc'[k] = pc[k] /\ SameEnd(k)
    BY <1>2, <1>thr, <1>now DEF Insert, Enqueue, WriteRow, SameEnd
  <2>3. OutcomeJob(j)'
    BY <2>1, <2>2 DEF OutcomeJob
  <2> QED BY <1>one, <2>1, <2>2, <2>3
<1>3. ASSUME NEW j \in Job, PublishStarted(j) PROVE OutcomeInv'
  <2>1. starts[j] = 0
    BY <1>3 DEF PublishStarted, StartInv
  <2>2. /\ verdicts[j] = {} /\ writer[j]["engine"] = "none"
        /\ \A e \in Drainer : dpc[e] \in AtWork => cur[e] # j
    BY <2>1, <1>thr DEF OrderInv, AtWork
  <2>3. /\ UNCHANGED <<dpc, cur, writer, code, reports, verdicts, now>> /\ pc'[j] = "dispatch"
        /\ \A k \in Job \ {j} : pc'[k] = pc[k] /\ SameEnd(k)
    BY <1>3, <1>thr, <1>now DEF PublishStarted, SameEnd
  <2>4. OutcomeJob(j)'
    BY <2>2, <2>3 DEF OutcomeJob
  <2> QED BY <1>one, <2>2, <2>3, <2>4
<1>4. ASSUME NEW j \in Job, Dispatch(j) PROVE OutcomeInv'
  <2>1. /\ pc[j] = "dispatch" /\ writer[j]["engine"] = "none" /\ j \notin queued
        /\ \A e \in Drainer : dpc[e] \in AtWork => cur[e] # j
    BY <1>4, <1>thr DEF Dispatch, DispatchInv, AtWork, QueueInv
  <2>2. /\ UNCHANGED <<dpc, cur, code, reports, verdicts, now, queued>>
        /\ \A k \in Job \ {j} : pc'[k] = pc[k] /\ writer'[k] = writer[k] /\ SameEnd(k)
    BY <1>4, <1>thr, <1>now DEF Dispatch, FinalizeJob, SameEnd
  <2>3. /\ pc'[j] \in {"done", "announce"} /\ writer'[j]["engine"] \in {"none", "running"}
        /\ pc'[j] = "announce" => completeAt'[j] = now /\ j \in failed'
    BY <1>4, <1>thr, <2>1 DEF Dispatch, FinalizeJob
  <2>4. OutcomeJob(j)'
    <3>1. reports[j] = 0 => verdicts[j] = {}
      BY <2>1 DEF OutcomeInv, OutcomeJob
    <3>2. pc'[j] = "announce" => Settled(j, "Failed")'
      BY <1>now, <2>1, <2>2, <2>3 DEF Settled
    <3> QED BY <2>2, <2>3, <3>1, <3>2 DEF OutcomeJob
  <2> QED BY <1>one, <2>1, <2>2, <2>4
<1>5. ASSUME NEW j \in Job, AnnounceRefusal(j) PROVE OutcomeInv'
  <2>1. /\ pc[j] = "announce" /\ writer[j]["engine"] = "none"
        /\ \A e \in Drainer : dpc[e] \in AtWork => cur[e] # j
    BY <1>5, <1>thr DEF AnnounceRefusal, DispatchInv, AtWork
  <2>2. /\ UNCHANGED <<dpc, cur, code, writer, reports, now>> /\ \A k : SameEnd(k)
        /\ \A k \in Job \ {j} : pc'[k] = pc[k] /\ verdicts'[k] = verdicts[k]
        /\ pc'[j] = "done" /\ verdicts'[j] = verdicts[j] \cup {"Failed"}
    BY <1>5, <1>thr, <1>now DEF AnnounceRefusal, SameEnd
  <2>3. OutcomeJob(j)'
    <3>1. reports[j] = 0 => \A v \in verdicts'[j] : Settled(j, v)
      BY <2>1, <2>2 DEF OutcomeInv, OutcomeJob
    <3>2. \A v : Settled(j, v) => Settled(j, v)'
      BY <1>now, <2>2, SettledStays
    <3> QED BY <2>1, <2>2, <3>1, <3>2 DEF OutcomeJob
  <2> QED BY <1>one, <2>1, <2>2, <2>3
<1>6. ASSUME NEW d \in Drainer, DrainBegin(d) \/ DrainCheck(d) \/ DrainEnd(d) PROVE OutcomeInv'
  BY <1>6, <1>thr, <1>quiet DEF DrainBegin, DrainCheck, DrainEnd, AtWork
<1>7. ASSUME NEW d \in Drainer, DrainAdmit(d) PROVE OutcomeInv'
  <2>1. CASE ~AdmissibleRow(cur[d])
    BY <1>7, <1>thr, <1>quiet, <2>1 DEF DrainAdmit, AtWork
  <2>2. CASE AdmissibleRow(cur[d])
    <3>1. PICK j \in Job : j = cur[d]
      BY <1>7, <1>thr DEF DrainAdmit
    <3>2. j \in queued /\ starts[j] = 0
      BY <2>2, <3>1 DEF AdmissibleRow, QueueInv
    <3>3. /\ verdicts[j] = {} /\ writer[j]["engine"] = "none" /\ pc[j] \notin AtWork
          /\ \A e \in Drainer : dpc[e] \in AtWork => cur[e] # j
      BY <1>thr, <3>2 DEF OrderInv, AtWork
    <3>4. /\ UNCHANGED <<pc, cur, writer, code, reports, verdicts, now>>
          /\ \A e \in Drainer : dpc'[e] \in AtWork => e # d /\ dpc'[e] = dpc[e]
          /\ \A k \in Job \ {j} : SameEnd(k)
      BY <1>7, <1>thr, <1>now, <2>2, <3>1 DEF DrainAdmit, SameEnd, AtWork
    <3>5. ASSUME NEW k \in Job PROVE OutcomeJob(k)'
      <4>1. CASE k = j
        BY <3>3, <3>4, <4>1 DEF OutcomeJob, AtWork
      <4>2. CASE k # j
        BY <1>now, <3>4, <4>2, OutcomeFrame DEF OutcomeInv
      <4> QED BY <4>1, <4>2
    <3>6. ASSUME NEW e \in Drainer PROVE OutcomeDrain(e)'
      BY <1>now, <3>3, <3>4, OutcomeDrainFrame DEF OutcomeInv
    <3> QED BY <3>5, <3>6 DEF OutcomeInv
  <2> QED BY <2>1, <2>2
<1>8. ASSUME NEW d \in Drainer, DrainPublish(d) \/ DrainDispatch(d) \/ DrainAnnounce(d)
      PROVE  OutcomeInv'
  <2>1. PICK j \in Job : j = cur[d]
    BY <1>8, <1>thr DEF DrainPublish, DrainDispatch, DrainAnnounce
  <2>2. /\ UNCHANGED <<pc, code, reports, now, queued>>
        /\ \A e \in Drainer \ {d} : dpc'[e] = dpc[e] /\ cur'[e] = cur[e]
        /\ \A k \in Job \ {j} : /\ writer'[k] = writer[k] /\ verdicts'[k] = verdicts[k]
                                /\ SameEnd(k)
    BY <1>8, <1>thr, <1>now, <2>1
    DEF DrainPublish, DrainDispatch, DrainAnnounce, FinalizeJob, SameEnd
  <2>3. /\ writer[j]["engine"] = "none" /\ pc[j] \notin AtWork
        /\ \A e \in Drainer \ {d} : dpc[e] \in AtWork => cur[e] # j
    <3>1. CASE DrainPublish(d)
      <4>1. starts[j] = 0
        BY <2>1, <3>1 DEF DrainPublish, StartInv
      <4> QED BY <1>thr, <4>1 DEF OrderInv, AtWork
    <3>2. CASE DrainDispatch(d) \/ DrainAnnounce(d)
      BY <1>thr, <2>1, <3>2 DEF DrainDispatch, DrainAnnounce, DispatchInv, AtWork
    <3> QED BY <1>8, <3>1, <3>2
  <2>4. OutcomeJob(j)' /\ OutcomeDrain(d)'
    <3>1. CASE DrainPublish(d)
      <4>1. verdicts[j] = {}
        BY <2>1, <3>1 DEF DrainPublish, StartInv, OrderInv
      <4>2. UNCHANGED <<writer, verdicts, cur>> /\ dpc'[d] = "dispatch"
        BY <1>thr, <3>1 DEF DrainPublish
      <4> QED BY <2>1, <2>2, <2>3, <4>1, <4>2 DEF OutcomeJob, OutcomeDrain, AtWork
    <3>2. CASE DrainDispatch(d)
      <4>1. reports[j] = 0 => verdicts[j] = {}
        BY <2>1, <3>2 DEF DrainDispatch, OutcomeInv, OutcomeDrain
      <4>2. j \notin queued
        BY <2>1, <3>2 DEF DrainDispatch, OrderInv, QueueInv
      <4>3. /\ verdicts' = verdicts /\ writer'[j]["engine"] \in {"none", "running"}
            /\ \/ dpc'[d] = "loop"
               \/ dpc'[d] = "announce" /\ cur' = cur /\ completeAt'[j] = now /\ j \in failed'
        BY <1>thr, <2>1, <2>3, <3>2 DEF DrainDispatch, FinalizeJob
      <4>4. dpc'[d] = "announce" => Settled(cur[d], "Failed")'
        BY <1>now, <2>1, <2>2, <4>2, <4>3 DEF Settled
      <4> QED BY <2>1, <2>2, <2>3, <4>1, <4>3, <4>4 DEF OutcomeJob, OutcomeDrain, AtWork
    <3>3. CASE DrainAnnounce(d)
      <4>1. /\ verdicts'[j] = verdicts[j] \cup {"Failed"} /\ writer' = writer /\ SameEnd(j)
            /\ dpc'[d] = "loop"
        BY <1>thr, <1>now, <2>1, <3>3 DEF DrainAnnounce, SameEnd
      <4>2. reports[j] = 0 => \A v \in verdicts'[j] : Settled(j, v)
        BY <2>1, <3>3, <4>1 DEF DrainAnnounce, OutcomeInv, OutcomeJob, OutcomeDrain
      <4>3. \A v : Settled(j, v) => Settled(j, v)'
        BY <1>now, <4>1, SettledStays
      <4> QED BY <2>2, <2>3, <4>1, <4>2, <4>3 DEF OutcomeJob, OutcomeDrain, AtWork
    <3> QED BY <1>8, <3>1, <3>2, <3>3
  <2>5. ASSUME NEW k \in Job, k # j PROVE OutcomeJob(k)'
    BY <1>now, <2>2, <2>5, OutcomeFrame DEF OutcomeInv
  <2>6. ASSUME NEW e \in Drainer, e # d PROVE OutcomeDrain(e)'
    BY <1>now, <2>2, <2>3, <2>6, OutcomeDrainFrame DEF OutcomeInv
  <2> QED BY <2>4, <2>5, <2>6 DEF OutcomeInv
<1>9. ASSUME NEW j \in Job, EngineReturns(j) PROVE OutcomeInv'
  <2>1. /\ writer[j]["engine"] = "running" /\ writer'[j]["engine"] = "finalise"
        /\ UNCHANGED <<pc, dpc, cur, reports, verdicts, now, completeAt, failed, queued>>
        /\ \A k \in Job \ {j} : writer'[k] = writer[k] /\ code'[k] = code[k]
    BY <1>9, <1>thr DEF EngineReturns, SaveRun
  <2>2. /\ pc[j] \notin AtWork /\ \A e \in Drainer : dpc[e] \in AtWork => cur[e] # j
        /\ \A k : SameEnd(k)
    BY <1>now, <2>1 DEF DispatchInv, SameEnd
  <2>3. OutcomeJob(j)'
    BY <2>1, <2>2 DEF OutcomeInv, OutcomeJob, AtWork
  <2> QED BY <1>one, <2>1, <2>2, <2>3
<1>10. ASSUME NEW j \in Job, ReportArrives(j) PROVE OutcomeInv'
  <2>1. /\ UNCHANGED <<pc, dpc, cur, verdicts, now, completeAt, failed, queued>>
        /\ \A k \in Job \ {j} : writer'[k] = writer[k] /\ code'[k] = code[k]
                                /\ reports'[k] = reports[k]
        /\ reports'[j] # 0
    BY <1>10, <1>thr DEF ReportArrives, SaveRun
  <2>2. \A k : SameEnd(k)
    BY <1>now, <2>1 DEF SameEnd
  <2> QED BY <1>reported, <2>1, <2>2
<1>11. ASSUME NEW j \in Job, NEW w \in Who, Finalise(j, w) PROVE OutcomeInv'
  <2>1. /\ UNCHANGED <<pc, dpc, cur, code, reports, verdicts, now, queued>>
        /\ \A k \in Job \ {j} : writer'[k] = writer[k] /\ SameEnd(k)
        /\ \A u \in Who \ {w} : writer'[j][u] = writer[j][u]
        /\ writer[j][w] = "finalise" /\ writer'[j][w] = "announce"
        /\ completeAt'[j] = now /\ (j \in failed' <=> code[j][w])
    BY <1>11, <1>thr, <1>now DEF Finalise, FinalizeJob, SameEnd
  <2>2. CASE w = "report"
    <3>1. reports[j] # 0
      BY <2>1, <2>2 DEF ParkedInv, ParkedJob
    <3> QED BY <1>reported, <2>1, <3>1
  <2>3. CASE w = "engine"
    <3>1. pc[j] \notin AtWork /\ \A e \in Drainer : dpc[e] \in AtWork => cur[e] # j
      BY <2>1, <2>3 DEF DispatchInv
    <3>2. j \notin queued
      BY <2>1, <2>3, <1>thr DEF OrderInv, QueueInv
    <3>3. OutcomeJob(j)'
      <4>1. reports[j] = 0 => verdicts[j] = {}
        BY <2>1, <2>3 DEF OutcomeInv, OutcomeJob
      <4>2. \A v \in Outcome(j, "engine")' : Settled(j, v)'
        BY <1>now, <2>1, <2>3, <3>2 DEF Outcome, Settled
      <4> QED BY <2>1, <2>3, <3>1, <4>1, <4>2 DEF OutcomeJob, AtWork
    <3> QED BY <1>one, <2>1, <3>1, <3>3
  <2> QED BY <1>thr, <2>2, <2>3
<1>12. ASSUME NEW j \in Job, NEW w \in Who, AnnounceOutcome(j, w) PROVE OutcomeInv'
  <2>1. /\ UNCHANGED <<pc, dpc, cur, reports, now, completeAt, failed, queued>>
        /\ \A k \in Job \ {j} : /\ writer'[k] = writer[k] /\ code'[k] = code[k]
                                /\ verdicts'[k] = verdicts[k]
        /\ \A u \in Who \ {w} : writer'[j][u] = writer[j][u] /\ code'[j][u] = code[j][u]
        /\ writer[j][w] = "announce" /\ writer'[j][w] = "none"
        /\ verdicts'[j] = verdicts[j] \cup Outcome(j, w)
    BY <1>12, <1>thr DEF AnnounceOutcome
  <2>2. \A k : SameEnd(k)
    BY <1>now, <2>1 DEF SameEnd
  <2>3. CASE w = "report"
    <3>1. reports[j] # 0
      BY <2>1, <2>3 DEF ParkedInv, ParkedJob
    <3> QED BY <1>reported, <2>1, <2>2, <3>1
  <2>4. CASE w = "engine"
    <3>1. pc[j] \notin AtWork /\ \A e \in Drainer : dpc[e] \in AtWork => cur[e] # j
      BY <2>1, <2>4 DEF DispatchInv
    <3>2. OutcomeJob(j)'
      <4>1. reports[j] = 0 => \A v \in verdicts'[j] : Settled(j, v)
        BY <2>1, <2>4 DEF OutcomeInv, OutcomeJob
      <4>2. \A v : Settled(j, v) => Settled(j, v)'
        BY <1>now, <2>2, SettledStays
      <4> QED BY <2>1, <2>4, <3>1, <4>1, <4>2 DEF OutcomeJob, AtWork
    <3> QED BY <1>one, <2>1, <2>2, <3>1, <3>2
  <2> QED BY <1>thr, <2>3, <2>4
<1>13. ASSUME NEW j \in Job, Cancel(j) PROVE OutcomeInv'
  BY <1>13, <1>quiet DEF Cancel
<1>14. CASE AdvanceClock
  <2>1. UNCHANGED <<pc, dpc, cur, writer, code, reports, verdicts>> /\ \A k : SameEnd(k)
    BY <1>14, <1>now DEF AdvanceClock, SameEnd
  <2>2. ASSUME NEW k \in Job PROVE OutcomeJob(k)'
    BY <1>now, <2>1, OutcomeFrame DEF OutcomeInv
  <2>3. ASSUME NEW e \in Drainer PROVE OutcomeDrain(e)'
    BY <1>now, <2>1, OutcomeDrainFrame DEF OutcomeInv
  <2> QED BY <2>2, <2>3 DEF OutcomeInv
<1>15. CASE Restart
  BY <1>15, <1>thr, <1>quiet DEF Restart, AtWork
<1>16. CASE UNCHANGED vars
  BY <1>16, <1>quiet DEF vars
<1> QED
  BY <1>1, <1>2, <1>3, <1>4, <1>5, <1>6, <1>7, <1>8, <1>9, <1>10, <1>11, <1>12, <1>13, <1>14,
     <1>15, <1>16 DEF Next, StartStep, DrainStep

\* A row that says Completed stands for work that was done.
LEMMA NextGreen ==
  StartsInv /\ DispatchInv /\ ParkedInv /\ GreenInv /\ [Next]_vars => GreenInv'
<1> SUFFICES ASSUME StartsInv, DispatchInv, ParkedInv, GreenInv, [Next]_vars PROVE GreenInv'
  OBVIOUS
<1> USE DEF StartsInv, rowVars, threadVars, drainVars, engineVars, flowVars
<1>thr. /\ want \in [Job -> Request] /\ pc \in [Job -> Pc]
        /\ completeAt \in [Job -> 0..Never] /\ run \in [Job -> RunStatus]
        /\ writer \in [Job -> [Who -> WriterPc]] /\ code \in [Job -> [Who -> BOOLEAN]]
        /\ reports \in [Job -> Nat] /\ due \in [Job -> 0..Never] /\ rowid \in [Job -> Nat]
        /\ "engine" \in Who /\ "report" \in Who /\ \A w \in Who : w \in {"engine", "report"}
        /\ \A d \in Drainer : dpc[d] \in {"admit", "publish", "dispatch", "announce"}
                                => cur[d] \in Created /\ cur[d] \in Job
  BY Threads DEF TypeOK, Who
<1>never. Never' = Never
  BY DEF Never
<1> HIDE DEF Never
\* A step that changes what one job has done, and nothing of the others.
<1>one. ASSUME NEW j \in Job, GreenJob(j)', want' = want,
               \A k \in Job \ {j} :
                 /\ (k \in Created' <=> k \in Created) /\ (k \in failed' <=> k \in failed)
                 /\ completeAt'[k] = completeAt[k] /\ run'[k] = run[k]
                 /\ writer'[k] = writer[k] /\ code'[k] = code[k] /\ reports'[k] = reports[k]
        PROVE  GreenInv'
  <2>1. ASSUME NEW k \in Job, k # j PROVE GreenJob(k)'
    <3>1. GreenJob(k)
      BY DEF GreenInv
    <3> QED BY <1>never, <1>one, <2>1, <3>1 DEF GreenJob
  <2> QED BY <1>one, <2>1 DEF GreenInv
\* A step that changes none of it.
<1>none. ASSUME UNCHANGED <<want, rowid, completeAt, failed, run, writer, code, reports>>
         PROVE  GreenInv'
  BY <1>none, <1>never DEF GreenInv, GreenJob, Created
<1>1. ASSUME NEW j \in Job,
             Submit(j) \/ AdmitCheck(j) \/ PublishStarted(j) \/ AnnounceRefusal(j) \/ Cancel(j)
      PROVE  GreenInv'
  BY <1>1, <1>none DEF Submit, AdmitCheck, PublishStarted, AnnounceRefusal, Cancel
<1>2. ASSUME NEW j \in Job, Insert(j) \/ Enqueue(j) PROVE GreenInv'
  <2>1. /\ UNCHANGED <<want, writer, code, reports>> /\ j \notin Created
        /\ writer[j]["engine"] = "none" /\ writer[j]["report"] = "none"
        /\ Parked(j) => completeAt'[j] = Never
        /\ want[j].kind = "Refused" => j \in failed'
        /\ IF want[j].kind = "Pipeline" THEN run'[j] # "none" ELSE run'[j] = run[j]
        /\ \A k \in Job \ {j} : /\ (k \in Created' <=> k \in Created)
                                /\ (k \in failed' <=> k \in failed)
                                /\ completeAt'[k] = completeAt[k] /\ run'[k] = run[k]
    BY <1>2, <1>thr DEF Insert, Enqueue, WriteRow, Created, ParkedInv, ParkedJob, Parked, RowsInv,
                        Unwritten
  <2>2. GreenJob(j)'
    BY <1>never, <1>thr, <2>1 DEF GreenInv, GreenJob, Parked
  <2> QED BY <1>one, <2>1, <2>2
<1>3. ASSUME NEW j \in Job, Dispatch(j) PROVE GreenInv'
  <2>1. writer[j]["engine"] = "none"
    BY <1>3 DEF Dispatch, DispatchInv, AtWork
  <2>2. /\ UNCHANGED <<want, reports, code>> /\ Created' = Created
        /\ \A k \in Job \ {j} : /\ (k \in failed' <=> k \in failed)
                                /\ completeAt'[k] = completeAt[k] /\ run'[k] = run[k]
                                /\ writer'[k] = writer[k]
    BY <1>3, <1>thr DEF Dispatch, FinalizeJob, Created
  <2>3. GreenJob(j)'
    <3>1. GreenJob(j) /\ (Parked(j) /\ reports[j] = 0 => completeAt[j] = Never)
      BY <1>3 DEF GreenInv, ParkedInv, ParkedJob, Dispatch, Starting
    <3>2. CASE want[j].kind = "Pipeline"
      <4>1. /\ UNCHANGED <<run, completeAt, failed>> /\ writer'[j]["engine"] = "running"
            /\ writer'[j]["report"] = writer[j]["report"]
        BY <1>3, <1>thr, <3>2 DEF Dispatch
      <4>2. reports[j] = 0
        BY <3>2 DEF ParkedInv, ParkedJob
      <4>3. j \in Created
        BY <1>3, <1>thr DEF Dispatch, RowsInv, Unwritten
      <4> QED BY <1>never, <1>thr, <2>2, <3>1, <3>2, <4>1, <4>2, <4>3 DEF GreenJob, Parked
    <3>3. CASE want[j].kind = "Notebook"
      <4>1. run'[j] = "open"
        BY <1>3, <1>thr, <3>3 DEF Dispatch
      <4> QED BY <1>thr, <2>2, <3>1, <3>3, <4>1 DEF GreenJob
    <3>4. CASE want[j].kind = "Refused"
      <4>1. j \in failed' /\ run'[j] \in {"open", "failed"}
        BY <1>3, <1>thr, <3>4 DEF Dispatch, FinalizeJob, RefusedRun
      <4> QED BY <1>thr, <2>2, <3>1, <3>4, <4>1 DEF GreenJob
    <3>5. CASE want[j].kind \in {"Clock", "Dataflow"}
      <4>1. run'[j] = run[j] /\ writer' = writer
        BY <1>3, <1>thr, <3>5 DEF Dispatch, FinalizeJob, RefusedRun
      <4> QED BY <1>thr, <2>2, <3>1, <3>5, <4>1 DEF GreenJob
    <3> QED BY <1>3, <3>2, <3>3, <3>4, <3>5 DEF Dispatch
  <2> QED BY <1>one, <2>2, <2>3
<1>4. ASSUME NEW d \in Drainer,
             \/ DrainBegin(d) \/ DrainCheck(d) \/ DrainPublish(d) \/ DrainAnnounce(d) \/ DrainEnd(d)
      PROVE  GreenInv'
  BY <1>4, <1>none DEF DrainBegin, DrainCheck, DrainPublish, DrainAnnounce, DrainEnd
<1>5. ASSUME NEW d \in Drainer, DrainAdmit(d) PROVE GreenInv'
  <2>1. /\ UNCHANGED <<want, rowid, failed, run, writer, code, reports>> /\ Created' = Created
        /\ \A k \in Job : completeAt'[k] = completeAt[k] \/ (Parked(k) => completeAt'[k] = Never)
    BY <1>5, <1>thr DEF DrainAdmit, QueuedCompleteAt, Created
  <2> QED BY <1>never, <2>1 DEF GreenInv, GreenJob, Parked
<1>6. ASSUME NEW d \in Drainer, DrainDispatch(d) PROVE GreenInv'
  <2>1. PICK j \in Job : j = cur[d]
    BY <1>6, <1>thr DEF DrainDispatch
  <2>2. writer[j]["engine"] = "none"
    BY <1>6, <2>1 DEF DrainDispatch, DispatchInv, AtWork
  <2>3. /\ UNCHANGED <<want, reports, code>> /\ Created' = Created
        /\ \A k \in Job \ {j} : /\ (k \in failed' <=> k \in failed)
                                /\ completeAt'[k] = completeAt[k] /\ run'[k] = run[k]
                                /\ writer'[k] = writer[k]
    BY <1>6, <1>thr, <2>1 DEF DrainDispatch, FinalizeJob, Created
  <2>4. GreenJob(j)'
    <3>1. GreenJob(j) /\ (Parked(j) /\ reports[j] = 0 => completeAt[j] = Never)
      BY <1>6, <2>1 DEF GreenInv, ParkedInv, ParkedDrain, DrainDispatch, Starting
    <3>2. CASE want[j].kind = "Pipeline"
      <4>1. /\ UNCHANGED <<completeAt, failed>> /\ writer'[j]["engine"] = "running"
            /\ run'[j] = "open"
        BY <1>6, <1>thr, <2>1, <3>2 DEF DrainDispatch
      <4>2. reports[j] = 0
        BY <3>2 DEF ParkedInv, ParkedJob
      <4> QED BY <1>never, <1>thr, <2>3, <3>1, <3>2, <4>1, <4>2 DEF GreenJob, Parked
    <3>3. CASE want[j].kind = "Notebook"
      <4>1. run'[j] = "open"
        BY <1>6, <1>thr, <2>1, <3>3 DEF DrainDispatch
      <4> QED BY <1>thr, <2>3, <3>1, <3>3, <4>1 DEF GreenJob
    <3>4. CASE want[j].kind = "Refused"
      <4>1. j \in failed' /\ run'[j] \in {"open", "failed"}
        BY <1>6, <1>thr, <2>1, <3>4 DEF DrainDispatch, FinalizeJob, RefusedRun
      <4> QED BY <1>thr, <2>3, <3>1, <3>4, <4>1 DEF GreenJob
    <3>5. CASE want[j].kind \in {"Clock", "Dataflow"}
      <4>1. run' = run /\ writer' = writer
        BY <1>6, <1>thr, <2>1, <3>5 DEF DrainDispatch
      <4> QED BY <1>thr, <2>3, <3>1, <3>5, <4>1 DEF GreenJob
    <3> QED BY <1>6, <2>1, <3>2, <3>3, <3>4, <3>5 DEF DrainDispatch
  <2> QED BY <1>one, <2>3, <2>4
<1>7. ASSUME NEW j \in Job, EngineReturns(j) PROVE GreenInv'
  <2>1. /\ UNCHANGED <<want, completeAt, failed, reports>> /\ Created' = Created
        /\ writer[j]["engine"] = "running" /\ writer'[j]["engine"] = "finalise"
        /\ \A k \in Job \ {j} : run'[k] = run[k] /\ writer'[k] = writer[k] /\ code'[k] = code[k]
        /\ run'[j] \in {"ok", "failed"} /\ (run'[j] = "failed" => code'[j]["engine"])
    BY <1>7, <1>thr DEF EngineReturns, SaveRun, Created
  <2>2. want[j].kind = "Pipeline" => completeAt[j] = Never
    BY <2>1 DEF ParkedInv, ParkedJob
  <2>3. GreenJob(j)'
    <3>1. GreenJob(j)
      BY DEF GreenInv
    <3> QED BY <1>never, <2>1, <2>2, <3>1 DEF GreenJob
  <2> QED BY <1>one, <2>1, <2>3
<1>8. ASSUME NEW j \in Job, ReportArrives(j) PROVE GreenInv'
  <2>1. /\ UNCHANGED <<want, completeAt, failed>> /\ Created' = Created
        /\ want[j].kind \in {"Notebook", "Refused"} /\ reports'[j] # 0
        /\ \A k \in Job \ {j} : /\ run'[k] = run[k] /\ writer'[k] = writer[k]
                                /\ code'[k] = code[k] /\ reports'[k] = reports[k]
        /\ run'[j] \in {"ok", "failed"}
    BY <1>8, <1>thr DEF ReportArrives, SaveRun, Created
  <2>2. GreenJob(j)'
    BY <2>1 DEF GreenJob
  <2> QED BY <1>one, <2>1, <2>2
<1>9. ASSUME NEW j \in Job, NEW w \in Who, Finalise(j, w) PROVE GreenInv'
  <2>1. /\ UNCHANGED <<want, run, code, reports>> /\ Created' = Created
        /\ writer[j][w] = "finalise" /\ writer'[j][w] = "announce"
        /\ \A k \in Job \ {j} : /\ writer'[k] = writer[k] /\ completeAt'[k] = completeAt[k]
                                /\ (k \in failed' <=> k \in failed)
        /\ \A u \in Who \ {w} : writer'[j][u] = writer[j][u]
        /\ j \in failed' <=> code[j][w]
    BY <1>9, <1>thr DEF Finalise, FinalizeJob, Created
  <2>2. GreenJob(j) /\ run[j] # "none"
    BY <2>1 DEF GreenInv, GreenJob
  <2>3. CASE w = "report"
    <3>1. reports[j] # 0 /\ want[j].kind \in {"Notebook", "Refused"}
      BY <2>1, <2>3 DEF ParkedInv, ParkedJob
    <3> QED BY <1>one, <1>thr, <2>1, <2>2, <3>1 DEF GreenJob
  <2>4. CASE w = "engine"
    <3>1. Parked(j)
      BY <2>1, <2>4 DEF ParkedInv, ParkedJob
    <3>2. GreenJob(j)'
      BY <1>thr, <2>1, <2>2, <2>4, <3>1 DEF GreenJob, Parked
    <3> QED BY <1>one, <2>1, <3>2
  <2> QED BY <1>thr, <2>3, <2>4
<1>10. ASSUME NEW j \in Job, NEW w \in Who, AnnounceOutcome(j, w) PROVE GreenInv'
  <2>1. /\ UNCHANGED <<want, completeAt, failed, run, reports>> /\ Created' = Created
        /\ \A k \in Job \ {j} : writer'[k] = writer[k] /\ code'[k] = code[k]
        /\ \A u \in Who \ {w} : writer'[j][u] = writer[j][u] /\ code'[j][u] = code[j][u]
        /\ writer'[j][w] = "none"
    BY <1>10, <1>thr DEF AnnounceOutcome, Created
  <2>2. GreenJob(j)'
    <3>1. GreenJob(j)
      BY DEF GreenInv
    <3>2. \A u \in Who : writer'[j][u] # "none" =>
            writer'[j][u] = writer[j][u] /\ code'[j][u] = code[j][u]
      BY <2>1
    <3> QED BY <1>never, <1>thr, <2>1, <3>1, <3>2 DEF GreenJob
  <2> QED BY <1>one, <2>1, <2>2
<1>11. CASE Restart
  <2>1. /\ UNCHANGED <<want, completeAt, failed, run, reports>> /\ Created' = Created
        /\ \A k \in Job, w \in Who : writer'[k][w] = "none"
    BY <1>11 DEF Restart, Created
  <2> QED BY <1>never, <1>thr, <2>1 DEF GreenInv, GreenJob
<1>12. CASE AdvanceClock \/ UNCHANGED vars
  BY <1>12, <1>none DEF AdvanceClock, vars
<1> QED
  BY <1>1, <1>2, <1>3, <1>4, <1>5, <1>6, <1>7, <1>8, <1>9, <1>10, <1>11, <1>12
  DEF Next, StartStep, DrainStep

\* Short of a restart, a job that holds a slot has somebody at work on it.
LEMMA NextSlot ==
  StartsInv /\ DispatchInv /\ SlotInv /\ TypeOK' /\ [Next]_vars => SlotInv'
<1> SUFFICES ASSUME StartsInv, DispatchInv, SlotInv, TypeOK', [Next]_vars PROVE SlotInv'
  OBVIOUS
<1> USE DEF StartsInv, rowVars, threadVars, drainVars, engineVars, flowVars, Parked
<1>thr. /\ pc \in [Job -> Pc] /\ completeAt \in [Job -> 0..Never]
        /\ writer \in [Job -> [Who -> WriterPc]] /\ rowid \in [Job -> Nat]
        /\ dpc \in [Drainer -> DrainPc] /\ cur \in [Drainer -> Created \cup {Nobody}]
        /\ \A d \in Drainer : dpc[d] \in {"admit", "publish", "dispatch", "announce"}
                                => cur[d] \in Created /\ cur[d] \in Job
        /\ "engine" \in Who /\ "report" \in Who /\ \A w \in Who : w \in {"engine", "report"}
        /\ now \in Nat /\ now' \in Nat
  BY Threads, NatConstants DEF TypeOK, Who
\* A step that leaves the row of a job and its threads alone.
<1>frame. ASSUME NEW k \in Job, want' = want, restarts' = restarts, now <= now',
                 completeAt'[k] = completeAt[k], k \in queued' <=> k \in queued,
                 k \in Created' <=> k \in Created,
                 writer'[k]["engine"] = writer[k]["engine"],
                 pc[k] \in Starting => pc'[k] \in Starting,
                 \A d \in Drainer : dpc[d] \in Starting /\ cur[d] = k =>
                                      dpc'[d] \in Starting /\ cur'[d] = k
          PROVE  SlotJob(k)'
  <2>1. SlotJob(k) /\ completeAt[k] \in Nat
    BY Threads DEF SlotInv
  <2>2. OnItsWay(k) => OnItsWay(k)'
    BY <1>frame DEF OnItsWay
  <2> QED BY <1>thr, <1>frame, <2>1, <2>2 DEF SlotJob
\* A job that has just been settled.
<1>ended. ASSUME NEW k \in Job, completeAt'[k] = now, now' = now,
                 writer'[k]["engine"] = "announce" => k \notin queued'
          PROVE  SlotJob(k)'
  BY <1>thr, <1>ended DEF SlotJob
\* A job that somebody is at work on.
<1>works. ASSUME NEW k \in Job, OnItsWay(k)', writer'[k]["engine"] # "announce"
          PROVE  SlotJob(k)'
  BY <1>works DEF SlotJob
<1>1. ASSUME NEW j \in Job, Submit(j) \/ AdmitCheck(j) \/ PublishStarted(j) \/ AnnounceRefusal(j)
      PROVE  SlotInv'
  <2>1. /\ UNCHANGED <<want, restarts, now, completeAt, queued, rowid, writer, dpc, cur>>
        /\ \A k \in Job : pc[k] \in Starting => pc'[k] \in Starting
    BY <1>1, <1>thr DEF Submit, AdmitCheck, PublishStarted, AnnounceRefusal, Starting
  <2> QED BY <1>thr, <1>frame, <2>1 DEF SlotInv, Created
<1>2. ASSUME NEW j \in Job, Insert(j) \/ Enqueue(j) PROVE SlotInv'
  <2>1. /\ UNCHANGED <<want, restarts, now, writer, dpc, cur>>
        /\ pc'[j] = "publish" \/ j \in queued'
    BY <1>2, <1>thr DEF Insert, Enqueue, WriteRow
  <2>2. \A k \in Job \ {j} : /\ pc'[k] = pc[k] /\ completeAt'[k] = completeAt[k]
                             /\ (k \in queued' <=> k \in queued)
                             /\ (k \in Created' <=> k \in Created)
    BY <1>2, <1>thr DEF Insert, Enqueue, WriteRow, Created
  <2>3. writer[j]["engine"] = "none"
    BY <1>2, <1>thr DEF Insert, Enqueue, RowsInv, Unwritten
  <2>4. SlotJob(j)'
    BY <2>1, <2>3 DEF SlotJob, OnItsWay, Starting
  <2>5. ASSUME NEW k \in Job, k # j PROVE SlotJob(k)'
    BY <1>thr, <1>frame, <2>1, <2>2, <2>5
  <2> QED BY <2>4, <2>5 DEF SlotInv
<1>3. ASSUME NEW j \in Job, Dispatch(j) PROVE SlotInv'
  <2>1. /\ UNCHANGED <<want, restarts, now, queued, rowid, dpc, cur>>
        /\ \A k \in Job \ {j} : /\ pc'[k] = pc[k] /\ completeAt'[k] = completeAt[k]
                                /\ writer'[k] = writer[k]
    BY <1>3, <1>thr DEF Dispatch, FinalizeJob
  <2>2. writer[j]["engine"] = "none"
    BY <1>3 DEF Dispatch, DispatchInv, AtWork
  <2>3. /\ writer'[j]["engine"] # "announce"
        /\ \/ completeAt'[j] = now
           \/ writer'[j]["engine"] = "running"
           \/ ~Parked(j)
           \/ want[j].kind = "Notebook" /\ ~want[j].agent
    BY <1>3, <1>thr, <2>2 DEF Dispatch, FinalizeJob
  <2>4. SlotJob(j)'
    BY <1>thr, <2>1, <2>3 DEF SlotJob, OnItsWay
  <2>5. ASSUME NEW k \in Job, k # j PROVE SlotJob(k)'
    BY <1>thr, <1>frame, <2>1, <2>5 DEF Created
  <2> QED BY <2>4, <2>5 DEF SlotInv
<1>4. ASSUME NEW d \in Drainer,
             DrainBegin(d) \/ DrainCheck(d) \/ DrainPublish(d) \/ DrainAnnounce(d) \/ DrainEnd(d)
      PROVE  SlotInv'
  <2>1. /\ UNCHANGED <<want, restarts, now, completeAt, queued, rowid, writer, pc>>
        /\ \A e \in Drainer : dpc[e] \in Starting => dpc'[e] \in Starting /\ cur'[e] = cur[e]
    BY <1>4, <1>thr DEF DrainBegin, DrainCheck, DrainPublish, DrainAnnounce, DrainEnd, Starting
  <2> QED BY <1>thr, <1>frame, <2>1 DEF SlotInv, Created
<1>5. ASSUME NEW d \in Drainer, DrainAdmit(d) PROVE SlotInv'
  <2>1. PICK j \in Job : j = cur[d]
    BY <1>5, <1>thr DEF DrainAdmit
  <2>2. /\ UNCHANGED <<want, restarts, now, rowid, writer, pc>> /\ dpc[d] = "admit"
        /\ \A e \in Drainer \ {d} : dpc'[e] = dpc[e] /\ cur'[e] = cur[e]
        /\ \A k \in Job \ {j} : completeAt'[k] = completeAt[k] /\ (k \in queued' <=> k \in queued)
    BY <1>5, <1>thr, <2>1 DEF DrainAdmit
  <2>3. ASSUME NEW k \in Job, k # j PROVE SlotJob(k)'
    BY <1>thr, <1>frame, <2>2, <2>3 DEF Created, Starting
  <2>4. CASE j \in queued
    <3>1. dpc'[d] = "publish" /\ cur'[d] = j
      BY <1>5, <1>thr, <2>1, <2>4 DEF DrainAdmit, AdmissibleRow
    <3>2. writer[j]["engine"] # "announce"
      BY <2>4 DEF SlotInv, SlotJob
    <3>3. SlotJob(j)'
      BY <1>works, <2>2, <3>1, <3>2 DEF OnItsWay, Starting
    <3> QED BY <2>3, <3>3 DEF SlotInv
  <2>5. CASE j \notin queued
    <3>1. UNCHANGED <<completeAt, queued>>
      BY <1>5, <2>1, <2>5 DEF DrainAdmit, AdmissibleRow
    <3>2. SlotJob(j)'
      BY <1>thr, <1>frame, <2>2, <3>1 DEF Created, Starting
    <3> QED BY <2>3, <3>2 DEF SlotInv
  <2> QED BY <2>4, <2>5
<1>6. ASSUME NEW d \in Drainer, DrainDispatch(d) PROVE SlotInv'
  <2>1. PICK j \in Job : j = cur[d]
    BY <1>6, <1>thr DEF DrainDispatch
  <2>2. /\ UNCHANGED <<want, restarts, now, queued, rowid, pc>>
        /\ \A e \in Drainer \ {d} : dpc'[e] = dpc[e] /\ cur'[e] = cur[e]
        /\ \A k \in Job \ {j} : completeAt'[k] = completeAt[k] /\ writer'[k] = writer[k]
    BY <1>6, <1>thr, <2>1 DEF DrainDispatch, FinalizeJob
  <2>3. writer[j]["engine"] = "none"
    BY <1>6, <2>1 DEF DrainDispatch, DispatchInv, AtWork
  <2>4. /\ writer'[j]["engine"] # "announce"
        /\ \/ completeAt'[j] = now
           \/ writer'[j]["engine"] = "running"
           \/ ~Parked(j)
           \/ want[j].kind = "Notebook" /\ ~want[j].agent
    BY <1>6, <1>thr, <2>1, <2>3 DEF DrainDispatch, FinalizeJob
  <2>5. SlotJob(j)'
    BY <1>thr, <2>2, <2>4 DEF SlotJob, OnItsWay
  <2>6. ASSUME NEW k \in Job, k # j PROVE SlotJob(k)'
    <3>1. \A e \in Drainer : dpc[e] \in Starting /\ cur[e] = k =>
                                dpc'[e] \in Starting /\ cur'[e] = k
      BY <2>1, <2>2, <2>6
    <3> QED BY <1>thr, <1>frame, <2>2, <2>6, <3>1 DEF Created
  <2> QED BY <2>5, <2>6 DEF SlotInv
<1>7. ASSUME NEW j \in Job, EngineReturns(j) PROVE SlotInv'
  <2>1. /\ UNCHANGED <<want, restarts, now, completeAt, queued, rowid, pc, dpc, cur>>
        /\ writer'[j]["engine"] = "finalise"
        /\ \A k \in Job \ {j} : writer'[k] = writer[k]
    BY <1>7, <1>thr DEF EngineReturns, SaveRun
  <2>2. SlotJob(j)'
    BY <1>works, <2>1 DEF OnItsWay
  <2>3. ASSUME NEW k \in Job, k # j PROVE SlotJob(k)'
    BY <1>thr, <1>frame, <2>1, <2>3 DEF Created
  <2> QED BY <2>2, <2>3 DEF SlotInv
<1>8. ASSUME NEW j \in Job, ReportArrives(j) PROVE SlotInv'
  <2>1. /\ UNCHANGED <<want, restarts, now, completeAt, queued, rowid, pc, dpc, cur>>
        /\ \A k \in Job : writer'[k]["engine"] = writer[k]["engine"]
    BY <1>8, <1>thr DEF ReportArrives, SaveRun
  <2> QED BY <1>thr, <1>frame, <2>1 DEF SlotInv, Created
<1>9. ASSUME NEW j \in Job, NEW w \in Who, Finalise(j, w) PROVE SlotInv'
  <2>1. /\ UNCHANGED <<want, restarts, now, queued, rowid, pc, dpc, cur>>
        /\ completeAt'[j] = now /\ writer[j][w] = "finalise"
        /\ \A u \in Who \ {w} : writer'[j][u] = writer[j][u]
        /\ \A k \in Job \ {j} : writer'[k] = writer[k] /\ completeAt'[k] = completeAt[k]
    BY <1>9, <1>thr DEF Finalise, FinalizeJob
  <2>2. writer'[j]["engine"] = "announce" => j \notin queued'
    <3>1. CASE w = "engine"
      BY <1>thr, <2>1, <3>1 DEF OrderInv, QueueInv
    <3>2. CASE w = "report"
      BY <1>thr, <2>1, <3>2 DEF SlotInv, SlotJob
    <3> QED BY <1>thr, <3>1, <3>2
  <2>3. SlotJob(j)'
    BY <1>ended, <2>1, <2>2
  <2>4. ASSUME NEW k \in Job, k # j PROVE SlotJob(k)'
    BY <1>thr, <1>frame, <2>1, <2>4 DEF Created
  <2> QED BY <2>3, <2>4 DEF SlotInv
<1>10. ASSUME NEW j \in Job, NEW w \in Who, AnnounceOutcome(j, w) PROVE SlotInv'
  <2>1. /\ UNCHANGED <<want, restarts, now, completeAt, queued, rowid, pc, dpc, cur>>
        /\ writer[j][w] = "announce" /\ writer'[j][w] = "none"
        /\ \A u \in Who \ {w} : writer'[j][u] = writer[j][u]
        /\ \A k \in Job \ {j} : writer'[k] = writer[k]
    BY <1>10, <1>thr DEF AnnounceOutcome
  <2>2. SlotJob(j)'
    <3>1. CASE w = "engine"
      BY <1>thr, <2>1, <3>1 DEF SlotInv, SlotJob, Created
    <3>2. CASE w = "report"
      BY <1>thr, <1>frame, <2>1, <3>2 DEF Created
    <3> QED BY <1>thr, <3>1, <3>2
  <2>3. ASSUME NEW k \in Job, k # j PROVE SlotJob(k)'
    BY <1>thr, <1>frame, <2>1, <2>3 DEF Created
  <2> QED BY <2>2, <2>3 DEF SlotInv
<1>11. CASE Restart
  BY <1>11, <1>thr, NatConstants DEF Restart, SlotInv, SlotJob, TypeOK
<1>12. ASSUME NEW j \in Job, Cancel(j) PROVE SlotInv'
  BY <1>12, <1>thr, <1>frame DEF Cancel, SlotInv, Created
<1>13. CASE AdvanceClock
  BY <1>13, <1>thr, <1>frame DEF AdvanceClock, SlotInv, Created
<1>14. CASE UNCHANGED vars
  BY <1>14, <1>thr, <1>frame DEF vars, SlotInv, Created
<1> QED
  BY <1>1, <1>2, <1>3, <1>4, <1>5, <1>6, <1>7, <1>8, <1>9, <1>10, <1>11, <1>12, <1>13, <1>14
  DEF Next, StartStep, DrainStep

LEMMA InitEnd == Init => EndInv
<1> SUFFICES ASSUME Init PROVE EndInv
  OBVIOUS
<1>1. /\ pc = [j \in Job |-> "idle"] /\ dpc = [d \in Drainer |-> "idle"]
      /\ reports = [j \in Job |-> 0] /\ verdicts = [j \in Job |-> {}]
      /\ run = [j \in Job |-> "none"] /\ rowid = [j \in Job |-> 0]
      /\ writer = [j \in Job |-> [w \in Who |-> "none"]]
      /\ "engine" \in Who /\ "report" \in Who
  BY DEF Init, Who
<1>2. \A j \in Job, w \in Who : writer[j][w] = "none"
  BY <1>1
<1>3. Created = {}
  BY <1>1 DEF Created
<1>4. DispatchInv /\ ParkedInv
  BY <1>1, <1>2 DEF DispatchInv, ParkedInv, ParkedJob, ParkedDrain, AtWork, Starting
<1>5. OutcomeInv
  BY <1>1, <1>2 DEF OutcomeInv, OutcomeJob, OutcomeDrain, AtWork
<1>6. GreenInv
  BY <1>1, <1>2, <1>3 DEF GreenInv, GreenJob
<1>7. SlotInv
  BY <1>1, <1>2, <1>3 DEF SlotInv, SlotJob
<1> QED BY <1>4, <1>5, <1>6, <1>7 DEF EndInv

LEMMA NextEnd == StartsInv /\ EndInv /\ TypeOK' /\ [Next]_vars => EndInv'
BY NextDispatch, NextParked, NextOutcome, NextGreen, NextSlot DEF EndInv

\* In every state that is reached the threads, rows and outcomes agree.
LEMMA EndsAgree == Spec => [](StartsInv /\ EndInv)
<1>1. Init => StartsInv /\ EndInv
  BY InitTyped, InitStarts, InitEnd DEF StartsInv
<1>2. StartsInv /\ EndInv /\ [Next]_vars => (StartsInv /\ EndInv)'
  BY NextTyped, NextStarts, NextEnd DEF StartsInv
<1> QED BY <1>1, <1>2, PTL DEF Spec

\* A job read Completed that an engine had to run was run, and ended well: the
\* clock never completes it (startJob, queuedCompleteAt, FinalizeJob).
THEOREM GreenJobsRan == Spec => []GreenMeansRan
<1>1. StartsInv /\ EndInv => GreenMeansRan
  <2> SUFFICES ASSUME StartsInv, EndInv, NEW j \in Created,
                      want[j].kind \in {"Pipeline", "Notebook", "Refused"},
                      JobBody(j) = "Completed"
               PROVE  run[j] = "ok"
    BY DEF GreenMeansRan
  <2>1. /\ j \in Job /\ run[j] \in RunStatus /\ completeAt[j] \in Nat /\ now < Never
        /\ now \in Nat /\ Never \in Nat
    BY Threads DEF StartsInv
  <2>2. StatusAt(j) = "Completed" /\ completeAt[j] <= now /\ j \notin failed
    BY <2>1 DEF JobBody, StatusAt
  <2>3. GreenJob(j)
    BY <2>1 DEF EndInv, GreenInv
  <2>4. completeAt[j] # Never
    BY <2>1, <2>2
  <2>5. CASE want[j].kind = "Pipeline"
    BY <2>2, <2>3, <2>4, <2>5 DEF GreenJob
  <2>6. CASE want[j].kind \in {"Notebook", "Refused"}
    <3>1. run[j] \notin {"failed", "open"}
      BY <2>2, <2>6 DEF JobBody
    <3>2. run[j] \notin {"queued", "none"}
      BY <2>2, <2>3, <2>4, <2>6 DEF GreenJob
    <3> QED BY <2>1, <3>1, <3>2 DEF RunStatus
  <2> QED BY <2>5, <2>6
<1> QED BY <1>1, EndsAgree, PTL

\* What the flow stream announced of a job is what polling shows of it
\* (publishJobOutcome tells its own verdict, StatusAt derives the row's).
THEOREM AnnouncedIsStatus == Spec => []AnnouncedMatchesStatus
<1>1. StartsInv /\ EndInv => AnnouncedMatchesStatus
  <2> SUFFICES ASSUME StartsInv, EndInv, NEW j \in Created, reports[j] = 0,
                      NEW v \in verdicts[j]
               PROVE  StatusAt(j) \in {v, "Cancelled"}
    BY DEF AnnouncedMatchesStatus
  <2>1. /\ j \in Job /\ completeAt[j] \in Nat /\ now \in Nat /\ v \in {"Completed", "Failed"}
    BY Threads DEF StartsInv
  <2>2. Settled(j, v)
    BY <2>1 DEF EndInv, OutcomeInv, OutcomeJob
  <2> QED BY <2>1, <2>2 DEF Settled, StatusAt
<1> QED BY <1>1, EndsAgree, PTL

\* Short of a restart, an engine's job that holds a slot of its capacity has a
\* thread on its way to end it, or an external engine is awaited.
THEOREM SlotsAreHeldForAReason == Spec => []NoOrphanedSlot
<1>1. StartsInv /\ EndInv => NoOrphanedSlot
  <2> SUFFICES ASSUME StartsInv, EndInv, restarts = 0, NEW c \in Capacity, NEW j \in Active(c),
                      Parked(j)
               PROVE  OnItsWay(j)
    BY DEF NoOrphanedSlot, OnItsWay, Starting
  <2>1. j \in Created /\ j \in Job /\ j \notin queued /\ completeAt[j] > now
    BY DEF Active, Created
  <2>2. SlotJob(j)
    BY <2>1 DEF EndInv, SlotInv
  <2> QED BY <2>1, <2>2 DEF SlotJob
<1> QED BY <1>1, EndsAgree, PTL

\* No step changes the verdict that polling shows of a job that ended, short of
\* a cancel or an external report.
LEMMA NextKeepsVerdicts ==
  StartsInv /\ EndInv /\ TypeOK' /\ [Next]_vars => VerdictKept
<1> SUFFICES ASSUME StartsInv, EndInv, TypeOK', [Next]_vars, NEW j \in Created,
                    want[j].kind # "Dataflow", reports'[j] = 0,
                    StatusAt(j) \in {"Completed", "Failed"}
             PROVE  StatusAt(j)' \in {StatusAt(j), "Cancelled"}
  BY DEF VerdictKept, StartsInv, TypeOK
<1> USE DEF StartsInv, EndInv, rowVars, threadVars, drainVars, engineVars, flowVars
<1>thr. /\ j \in Job /\ completeAt \in [Job -> 0..Never] /\ completeAt[j] \in Nat
        /\ now < Never /\ now \in Nat /\ now' \in Nat /\ Never \in Nat
        /\ "engine" \in Who /\ "report" \in Who /\ \A w \in Who : w \in {"engine", "report"}
        /\ \A d \in Drainer : dpc[d] \in {"admit", "publish", "dispatch", "announce"}
                                => cur[d] \in Created /\ cur[d] \in Job
  BY Threads, NatConstants DEF TypeOK, Who
<1>ended. /\ j \notin cancelled /\ j \notin queued /\ completeAt[j] <= now /\ completeAt[j] # Never
          /\ StatusAt(j) = IF j \in failed THEN "Failed" ELSE "Completed"
  BY <1>thr DEF StatusAt
\* The row stays ended as it was.
<1>kept. ASSUME completeAt'[j] <= now', j \notin queued', j \in failed' <=> j \in failed
         PROVE  StatusAt(j)' \in {StatusAt(j), "Cancelled"}
  <2>1. completeAt'[j] \in Nat
    BY <1>thr DEF TypeOK, Never
  <2>2. CASE j \in cancelled'
    BY <2>2 DEF StatusAt
  <2>3. CASE j \notin cancelled'
    <3>1. ~(now' < completeAt'[j])
      BY <1>thr, <1>kept, <2>1
    <3>2. StatusAt(j)' = IF j \in failed' THEN "Failed" ELSE "Completed"
      BY <1>kept, <2>3, <3>1 DEF StatusAt
    <3> QED BY <1>ended, <1>kept, <3>2
  <2> QED BY <2>2, <2>3
\* Another job's row, or none, is written.
<1>same. ASSUME SameEnd(j) PROVE StatusAt(j)' \in {StatusAt(j), "Cancelled"}
  BY <1>thr, <1>ended, <1>kept, <1>same DEF SameEnd
\* What fails at once was written failed.
<1>refused. want[j].kind = "Refused" /\ reports[j] = 0 => j \in failed
  BY <1>thr DEF GreenInv, GreenJob
<1>1. ASSUME UNCHANGED <<completeAt, queued, failed, now>>
      PROVE  StatusAt(j)' \in {StatusAt(j), "Cancelled"}
  BY <1>1, <1>thr, <1>same DEF SameEnd
<1>2. ASSUME NEW i \in Job, Insert(i) \/ Enqueue(i)
      PROVE  StatusAt(j)' \in {StatusAt(j), "Cancelled"}
  <2>1. i # j
    BY <1>2, <1>thr DEF Insert, Enqueue, RowsInv, Unwritten
  <2> QED BY <1>2, <1>thr, <1>same, <2>1 DEF Insert, Enqueue, WriteRow, SameEnd
<1>3. ASSUME NEW i \in Job, Dispatch(i) PROVE StatusAt(j)' \in {StatusAt(j), "Cancelled"}
  <2>1. CASE i # j
    BY <1>3, <1>thr, <1>same, <2>1 DEF Dispatch, FinalizeJob, SameEnd
  <2>2. CASE i = j
    <3>1. ~Parked(j)
      BY <1>3, <1>thr, <1>ended, <2>2 DEF Dispatch, ParkedInv, ParkedJob, Starting
    <3>2. CASE want[j].kind = "Refused"
      <4>1. /\ completeAt'[j] = now /\ now' = now /\ queued' = queued /\ j \in failed'
            /\ j \in failed
        BY <1>3, <1>thr, <1>refused, <2>2, <3>2 DEF Dispatch, FinalizeJob
      <4> QED BY <1>thr, <1>ended, <1>kept, <4>1
    <3>3. CASE want[j].kind # "Refused"
      BY <1>1, <1>3, <2>2, <3>1, <3>3 DEF Dispatch, Parked
    <3> QED BY <3>2, <3>3
  <2> QED BY <2>1, <2>2
<1>4. ASSUME NEW d \in Drainer, DrainAdmit(d) PROVE StatusAt(j)' \in {StatusAt(j), "Cancelled"}
  <2>1. CASE cur[d] # j
    BY <1>4, <1>thr, <1>same, <2>1 DEF DrainAdmit, SameEnd
  <2>2. CASE cur[d] = j
    BY <1>1, <1>4, <1>ended, <2>2 DEF DrainAdmit, AdmissibleRow
  <2> QED BY <2>1, <2>2
<1>5. ASSUME NEW d \in Drainer, DrainDispatch(d) PROVE StatusAt(j)' \in {StatusAt(j), "Cancelled"}
  <2>1. CASE cur[d] # j
    BY <1>5, <1>thr, <1>same, <2>1 DEF DrainDispatch, FinalizeJob, SameEnd
  <2>2. CASE cur[d] = j
    <3>1. CASE want[j].kind = "Refused"
      <4>1. /\ completeAt'[j] = now /\ now' = now /\ queued' = queued /\ j \in failed'
            /\ j \in failed
        BY <1>5, <1>thr, <1>refused, <2>2, <3>1 DEF DrainDispatch, FinalizeJob
      <4> QED BY <1>thr, <1>ended, <1>kept, <4>1
    <3>2. CASE want[j].kind # "Refused"
      BY <1>1, <1>5, <2>2, <3>2 DEF DrainDispatch
    <3> QED BY <3>1, <3>2
  <2> QED BY <2>1, <2>2
<1>6. ASSUME NEW i \in Job, NEW w \in Who, Finalise(i, w)
      PROVE  StatusAt(j)' \in {StatusAt(j), "Cancelled"}
  <2>1. i # j
    <3> SUFFICES ASSUME i = j PROVE FALSE
      OBVIOUS
    <3>1. writer[j][w] = "finalise" /\ reports[j] = 0
      BY <1>6 DEF Finalise
    <3>2. w = "engine"
      BY <1>thr, <3>1 DEF ParkedInv, ParkedJob
    <3>3. completeAt[j] = Never
      BY <1>thr, <3>1, <3>2 DEF ParkedInv, ParkedJob
    <3> QED BY <1>ended, <3>3
  <2> QED BY <1>6, <1>thr, <1>same, <2>1 DEF Finalise, FinalizeJob, SameEnd
<1>7. ASSUME NEW i \in Job, \/ Submit(i) \/ AdmitCheck(i) \/ PublishStarted(i)
                            \/ AnnounceRefusal(i) \/ EngineReturns(i) \/ ReportArrives(i)
                            \/ Cancel(i)
      PROVE  StatusAt(j)' \in {StatusAt(j), "Cancelled"}
  BY <1>1, <1>7 DEF Submit, AdmitCheck, PublishStarted, AnnounceRefusal, EngineReturns, SaveRun,
                    ReportArrives, Cancel
<1>8. ASSUME NEW d \in Drainer,
             DrainBegin(d) \/ DrainCheck(d) \/ DrainPublish(d) \/ DrainAnnounce(d) \/ DrainEnd(d)
      PROVE  StatusAt(j)' \in {StatusAt(j), "Cancelled"}
  BY <1>1, <1>8 DEF DrainBegin, DrainCheck, DrainPublish, DrainAnnounce, DrainEnd
<1>9. ASSUME NEW i \in Job, NEW w \in Who, AnnounceOutcome(i, w)
      PROVE  StatusAt(j)' \in {StatusAt(j), "Cancelled"}
  BY <1>1, <1>9 DEF AnnounceOutcome
<1>10. CASE AdvanceClock
  BY <1>10, <1>thr, <1>same DEF AdvanceClock, SameEnd
<1>11. CASE Restart \/ UNCHANGED vars
  BY <1>1, <1>11 DEF Restart, vars
<1> QED
  BY <1>2, <1>3, <1>4, <1>5, <1>6, <1>7, <1>8, <1>9, <1>10, <1>11 DEF Next, StartStep, DrainStep

\* A job that was seen to end keeps its verdict (FinalizeJob may write the row
\* again; AdmitQueuedJob may set its completion time).
THEOREM VerdictsStand == Spec => VerdictStable
<1>1. StartsInv /\ EndInv /\ TypeOK' /\ [Next]_vars => [VerdictKept]_vars
  BY NextKeepsVerdicts
<1>2. StartsInv => TypeOK
  BY DEF StartsInv
<1> QED BY <1>1, <1>2, EndsAgree, PTL DEF Spec, VerdictStable
=============================================================================
