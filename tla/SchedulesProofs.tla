-------------------------- MODULE SchedulesProofs --------------------------
(***************************************************************************)
(* Theorems about Schedules, for any schedules, clients, calendars, bounds *)
(* and cap: an occurrence starts one job, and nothing the high-water mark  *)
(* has passed was skipped.                                                 *)
(***************************************************************************)
EXTENDS Schedules, FiniteSetTheorems, TLAPS

\* Client c is inside the evaluation of schedule s.
Evaluating(c, s) == cpc[c] = "start" /\ target[c] = s

\* The occurrences of s that have started, while its configuration is its first.
Ran(s) == {t \in Occurs[row[s].config] : runs[s][<<row[s].config, 0, t>>] > 0}

\* The occurrences in S after t.
Newer(S, t) == {u \in S : u > t}

\* tickMu is held by the client that loops over its list, and by nobody else.
MutexInv == \A c \in Client : cpc[c] \in {"loop", "start"} <=> tickMu = c

\* What a client's request holds, while it holds something.
HoldInv ==
  /\ \A c \in Client : cpc[c] \in {"insert", "write", "start"}
                         => target[c] \in Schedule /\ held[c] \in Row
  /\ \A c \in Client : cpc[c] \notin {"insert", "write", "start"} => target[c] = Nobody
  /\ \A c \in Client : cpc[c] \in {"insert", "write"} => held[c].status = "live"
  /\ \A c \in Client : cpc[c] = "insert" =>
       /\ row[target[c]].status = "absent" /\ held[c].fired = 0 /\ held[c].series = 0
       /\ \A e \in Client \ {c} : target[e] # target[c]

\* A row that is not there yet has left no trace and is on nobody's list.
RowsInv ==
  /\ \A s \in Schedule : patches[s] = 0 => row[s].series = 0
  /\ \A s \in Schedule : row[s].status = "absent" =>
       /\ row[s].fired = 0
       /\ \A k \in Config, n \in 0..MaxPatches, t \in 1..Horizon : runs[s][<<k, n, t>>] = 0
       /\ \A c \in Client : /\ cpc[c] \in {"write", "start"} => target[c] # s
                            /\ \A x \in list[c] : x.id # s

\* A list, however old, has the configuration of a schedule left alone, and a
\* mark that has not fallen since.
ListInv ==
  \A c \in Client : \A x \in list[c] :
    Undisturbed(x.id) => /\ x.row.config = row[x.id].config
                         /\ x.row.series = 0
                         /\ x.row.fired <= row[x.id].fired

\* What an evaluation still has to start lies between the mark of the row and
\* the mark it will write.
StartInv ==
  \A c \in Client, s \in Schedule :
    Evaluating(c, s) /\ Undisturbed(s) =>
      /\ held[c].config = row[s].config /\ held[c].series = 0
      /\ due[c] \subseteq Occurs[row[s].config]
      /\ \A t \in due[c] : row[s].fired < t /\ t <= mark[c]
      /\ row[s].fired < mark[c]

\* What has started is behind the mark, or behind the mark being worked towards
\* and no longer due.
OnlyBehind(s) ==
  \A k \in Config, n \in 0..MaxPatches, t \in 1..Horizon :
    /\ runs[s][<<k, n, t>>] <= 1
    /\ runs[s][<<k, n, t>>] > 0 =>
         /\ k = row[s].config /\ n = 0
         /\ \/ t <= row[s].fired
            \/ \E c \in Client : Evaluating(c, s) /\ t <= mark[c] /\ t \notin due[c]

FiredInv == restarts = 0 => \A s \in Schedule : Undisturbed(s) => OnlyBehind(s)

\* An occurrence behind the mark has started or was overtaken; one behind the
\* mark being worked towards has started, is due, or is overtaken by such.
NoneMissed(s) ==
  /\ \A t \in Occurs[row[s].config] \ Ran(s) :
       t <= row[s].fired => Cardinality(Newer(Ran(s), t)) >= MaxPerTick
  /\ \A c \in Client : Evaluating(c, s) =>
       \A t \in Occurs[row[s].config] \ (Ran(s) \cup due[c]) :
         t <= mark[c] => Cardinality(Newer(Ran(s) \cup due[c], t)) >= MaxPerTick

SkippedInv == errors = 0 => \A s \in Schedule : Undisturbed(s) => NoneMissed(s)

-----------------------------------------------------------------------------
\* What the assumption on the constants says, in the form the leaves need.
LEMMA Bounds ==
  ASSUME SchedulesAssumption
  PROVE  /\ Horizon \in Nat /\ MaxPatches \in Nat /\ MaxErrors \in Nat
         /\ MaxRestarts \in Nat /\ MaxPerTick \in Nat
         /\ \A k \in Config : Occurs[k] \subseteq 1..Horizon
         /\ Nobody \notin Client /\ Nobody \notin Schedule
BY DEF SchedulesAssumption

\* A nonempty set of seconds has a last one: were each followed by another, the
\* seconds up to some member of the set would be as many as those but the first.
LEMMA LastExists ==
  ASSUME NEW n \in Nat, NEW S \in SUBSET (0..n), S # {}
  PROVE  \E m \in S : \A u \in S : u <= m
<1> SUFFICES ASSUME \A m \in S : \E u \in S : m < u
             PROVE  FALSE
  OBVIOUS
<1> DEFINE V == {x \in 0..n : \E u \in S : x <= u}
           f == [x \in V |-> x + 1]
<1>1. 0 \in V
  <2>1. PICK u \in S : TRUE
    OBVIOUS
  <2> QED BY <2>1
<1>2. \A x \in V : x + 1 \in V \ {0}
  OBVIOUS
<1>3. IsFiniteSet(V)
  <2>1. IsFiniteSet(0..n) /\ V \in SUBSET (0..n)
    BY FS_Interval
  <2> QED BY <2>1, FS_Subset
<1>4. f \in Injection(V, V \ {0})
  BY <1>2 DEF Injection, IsInjective
<1> HIDE DEF V, f
<1>5. IsFiniteSet(V \ {0}) /\ Cardinality(V \ {0}) = Cardinality(V) - 1
  BY <1>1, <1>3, FS_RemoveElement
<1>6. Cardinality(V) <= Cardinality(V \ {0})
  BY <1>4, <1>5, FS_Injection
<1>7. Cardinality(V) \in Nat
  BY <1>3, FS_CardinalityType
<1> QED BY <1>5, <1>6, <1>7

\* And a first one, by the same argument downwards.
LEMMA FirstExists ==
  ASSUME NEW n \in Nat, NEW S \in SUBSET (0..n), S # {}
  PROVE  \E m \in S : \A u \in S : m <= u
<1> SUFFICES ASSUME \A m \in S : \E u \in S : u < m
             PROVE  FALSE
  OBVIOUS
<1> DEFINE V == {x \in 0..n : \E u \in S : u <= x}
           f == [x \in V |-> x - 1]
<1>1. n \in V
  <2>1. PICK u \in S : TRUE
    OBVIOUS
  <2> QED BY <2>1
<1>2. \A x \in V : x - 1 \in V \ {n}
  OBVIOUS
<1>3. IsFiniteSet(V)
  <2>1. IsFiniteSet(0..n) /\ V \in SUBSET (0..n)
    BY FS_Interval
  <2> QED BY <2>1, FS_Subset
<1>4. f \in Injection(V, V \ {n})
  BY <1>2 DEF Injection, IsInjective
<1> HIDE DEF V, f
<1>5. IsFiniteSet(V \ {n}) /\ Cardinality(V \ {n}) = Cardinality(V) - 1
  BY <1>1, <1>3, FS_RemoveElement
<1>6. Cardinality(V) <= Cardinality(V \ {n})
  BY <1>4, <1>5, FS_Injection
<1>7. Cardinality(V) \in Nat
  BY <1>3, FS_CardinalityType
<1> QED BY <1>5, <1>6, <1>7

\* So the choices in the code's loops have a value: the newest of a window, which
\* becomes the mark, and the oldest of what is due, which is started next.
LEMMA NewestOf ==
  ASSUME SchedulesAssumption, NEW S \in SUBSET Time, S # {}
  PROVE  Newest(S) \in S /\ \A u \in S : u <= Newest(S)
<1>1. \E m \in S : \A u \in S : u <= m
  BY Bounds, LastExists DEF Time
<1> QED BY <1>1 DEF Newest

\* The oldest of a set of seconds is in it and before the others.
LEMMA EarliestOf ==
  ASSUME SchedulesAssumption, NEW S \in SUBSET Time, S # {}
  PROVE  Earliest(S) \in S /\ \A u \in S : Earliest(S) <= u
<1>1. \E m \in S : \A u \in S : m <= u
  BY Bounds, FirstExists DEF Time
<1> QED BY <1>1 DEF Earliest

\* Sets of seconds are finite and a subset has no more members.
LEMMA Seconds ==
  ASSUME SchedulesAssumption, NEW S \in SUBSET Time, NEW T \in SUBSET S
  PROVE  /\ Cardinality(S) \in Nat /\ Cardinality(T) \in Nat
         /\ Cardinality(T) <= Cardinality(S)
<1>1. IsFiniteSet(Time)
  BY Bounds, FS_Interval DEF Time
<1>2. IsFiniteSet(S)
  BY <1>1, FS_Subset
<1>3. IsFiniteSet(T) /\ Cardinality(T) <= Cardinality(S)
  BY <1>2, FS_Subset
<1> QED BY <1>2, <1>3, FS_CardinalityType

\* The cap keeps the newest: an occurrence between the ends of the window that
\* is not in it has MaxPerTick newer ones in it.
LEMMA WindowKeepsNewest ==
  ASSUME SchedulesAssumption, NEW k \in Config, NEW after \in Time, NEW until \in Time,
         NEW t \in Occurs[k], after < t, t <= until,
         t \notin Window(k, after, until)
  PROVE  Cardinality(Newer(Window(k, after, until), t)) >= MaxPerTick
<1> DEFINE W == {u \in Occurs[k] : after < u /\ u <= until}
           Later(u) == {v \in W : v > u}
           Kept == {u \in W : Cardinality(Later(u)) < MaxPerTick}
           Passed == {u \in W : u > t /\ Cardinality(Later(u)) >= MaxPerTick}
           K == {u \in Kept : u > t}
<1>1. Window(k, after, until) = Kept
  BY DEF Window
<1>2. W \subseteq Time /\ t \in W /\ MaxPerTick \in Nat
  BY Bounds DEF Time
<1> HIDE DEF W
<1>3. \A u \in W : Later(u) \in SUBSET Time /\ Cardinality(Later(u)) \in Nat
  BY <1>2, Seconds
<1>4. Cardinality(Later(t)) >= MaxPerTick
  BY <1>1, <1>2, <1>3
<1>5. CASE Passed = {}
  <2>1. Later(t) \subseteq K
    BY <1>2, <1>3, <1>5
  <2>2. K \subseteq Later(t)
    OBVIOUS
  <2> QED BY <1>1, <1>4, <2>1, <2>2 DEF Newer
<1>6. CASE Passed # {}
  <2>1. PICK m \in Passed : \A u \in Passed : u <= m
    BY <1>2, <1>6, Bounds, LastExists DEF Time
  <2>2. Later(m) \subseteq K
    <3> SUFFICES ASSUME NEW v \in W, v > m
                 PROVE  v > t /\ Cardinality(Later(v)) < MaxPerTick
      OBVIOUS
    <3>1. m \in Nat /\ v \in Nat /\ t \in Nat /\ m > t
      BY <1>2 DEF Time
    <3>2. v \notin Passed
      BY <2>1, <3>1
    <3> QED BY <1>2, <1>3, <3>1, <3>2
  <2>3. Cardinality(Later(m)) >= MaxPerTick
    OBVIOUS
  <2>4. K \in SUBSET Time
    BY <1>2
  <2> HIDE DEF K, Later
  <2>5. /\ Cardinality(Later(m)) <= Cardinality(K)
        /\ Cardinality(Later(m)) \in Nat /\ Cardinality(K) \in Nat
    BY <2>2, <2>4, Seconds
  <2>6. Cardinality(K) >= MaxPerTick
    BY <1>2, <2>3, <2>5
  <2> QED BY <1>1, <2>6 DEF K, Newer
<1> QED BY <1>5, <1>6

-----------------------------------------------------------------------------
\* The changes the requests make to a row leave it a row.
LEMMA RowUpdates ==
  ASSUME SchedulesAssumption, NEW r \in Row
  PROVE  /\ [r EXCEPT !.status = "deleted"] \in Row
         /\ \A t \in Time : [r EXCEPT !.fired = t] \in Row
         /\ \A on \in BOOLEAN : [r EXCEPT !.enabled = on] \in Row
         /\ \A k \in Config, on \in BOOLEAN :
              r.series < MaxPatches =>
                [r EXCEPT !.enabled = on, !.config = k, !.fired = 0, !.series = @ + 1] \in Row
<1>1. r.series \in 0..MaxPatches /\ MaxPatches \in Nat /\ 0 \in Time
  BY Bounds DEF Row, Time
<1>2. r.series < MaxPatches => r.series + 1 \in 0..MaxPatches
  BY <1>1
<1>3. [r EXCEPT !.status = "deleted"] \in Row
  BY DEF Row
<1>4. \A t \in Time : [r EXCEPT !.fired = t] \in Row
  BY DEF Row
<1>5. \A on \in BOOLEAN : [r EXCEPT !.enabled = on] \in Row
  BY DEF Row
<1>6. \A k \in Config, on \in BOOLEAN :
        r.series < MaxPatches =>
          [r EXCEPT !.enabled = on, !.config = k, !.fired = 0, !.series = @ + 1] \in Row
  BY <1>1, <1>2 DEF Row
<1> QED BY <1>3, <1>4, <1>5, <1>6

\* Types: the initial states.
LEMMA InitTyped ==
  ASSUME SchedulesAssumption, Init
  PROVE  TypeOK
<1>1. PICK k \in Config :
        row = [s \in Schedule |-> [status |-> "absent", enabled |-> FALSE, config |-> k,
                                   fired |-> 0, series |-> 0]]
  BY DEF Init
<1>2. row \in [Schedule -> Row]
  BY <1>1, Bounds DEF Row, Time
<1>3. runs \in [Schedule -> [Occurrence -> Nat]]
  BY DEF Init
<1>4. /\ now \in Time /\ at \in [Client -> Time] /\ mark \in [Client -> Time]
      /\ errors \in 0..MaxErrors /\ restarts \in 0..MaxRestarts
      /\ patches \in [Schedule -> 0..MaxPatches]
  BY Bounds DEF Init, Time
<1>5. /\ due \in [Client -> SUBSET Time] /\ list \in [Client -> SUBSET Listed]
      /\ target \in [Client -> Schedule \cup {Nobody}]
      /\ held \in [Client -> Row \cup {Nobody}] /\ tickMu \in Client \cup {Nobody}
  BY DEF Init
<1>6. cpc \in [Client -> {"idle", "insert", "write", "list", "lock", "loop", "start"}]
  BY DEF Init
<1> QED BY <1>2, <1>3, <1>4, <1>5, <1>6 DEF TypeOK

\* Every step keeps the types: a row is only ever overwritten by one that a
\* request holds, and the mark is a second of the calendar.
LEMMA NextTyped ==
  ASSUME SchedulesAssumption, TypeOK, HoldInv, [Next]_vars
  PROVE  TypeOK'
<1> USE Bounds
<1> USE DEF tickVars, clientVars, counters
<1>1. ASSUME NEW c \in Client, NEW s \in Schedule, Create(c, s) PROVE TypeOK'
  <2>1. held' \in [Client -> Row \cup {Nobody}]
    BY <1>1 DEF TypeOK, Create, Row, Time
  <2> QED BY <1>1, <2>1 DEF TypeOK, Create
<1>2. ASSUME NEW c \in Client, NEW s \in Schedule, PatchRead(c, s) PROVE TypeOK'
  <2>1. held' \in [Client -> Row \cup {Nobody}]
    <3>1. row[s] \in Row /\ row[s].series < MaxPatches
      BY <1>2 DEF TypeOK, PatchRead
    <3>2. \E r \in Row : held' = [held EXCEPT ![c] = r]
      BY <1>2, <3>1, RowUpdates DEF PatchRead
    <3> QED BY <3>2 DEF TypeOK
  <2> QED BY <1>2, <2>1 DEF TypeOK, PatchRead
<1>3. ASSUME NEW c \in Client, NEW s \in Schedule, Delete(c, s) PROVE TypeOK'
  <2>1. row' \in [Schedule -> Row]
    <3>1. [row[s] EXCEPT !.status = "deleted"] \in Row
      BY RowUpdates DEF TypeOK
    <3> QED BY <1>3, <3>1 DEF TypeOK, Delete
  <2> QED BY <1>3, <2>1 DEF TypeOK, Delete
<1>4. ASSUME NEW c \in Client, CreateInsert(c) PROVE TypeOK'
  <2>1. held[c] \in Row
    BY <1>4 DEF HoldInv, CreateInsert
  <2> QED BY <1>4, <2>1 DEF TypeOK, CreateInsert
<1>5. ASSUME NEW c \in Client, PatchWrite(c) PROVE TypeOK'
  <2>1. held[c] \in Row
    BY <1>5 DEF HoldInv, PatchWrite
  <2>2. row' \in [Schedule -> Row] /\ patches' \in [Schedule -> 0..MaxPatches]
    <3>1. CASE UNCHANGED <<row, patches>>
      BY <3>1 DEF TypeOK
    <3>2. CASE /\ target[c] \in Schedule /\ patches[target[c]] < MaxPatches
               /\ row' = [row EXCEPT ![target[c]] = held[c]]
               /\ patches' = [patches EXCEPT ![target[c]] = @ + 1]
      <4>1. patches[target[c]] + 1 \in 0..MaxPatches
        BY <3>2 DEF TypeOK
      <4> QED BY <2>1, <3>2, <4>1 DEF TypeOK
    <3> QED BY <1>5, <3>1, <3>2 DEF PatchWrite, Live
  <2>3. cpc' \in [Client -> {"idle", "insert", "write", "list", "lock", "loop", "start"}]
    BY <1>5 DEF TypeOK, PatchWrite
  <2> QED BY <1>5, <2>2, <2>3 DEF TypeOK, PatchWrite
<1>6. ASSUME NEW c \in Client, ListEnabled(c) PROVE TypeOK'
  <2>1. list' \in [Client -> SUBSET Listed]
    BY <1>6 DEF TypeOK, ListEnabled, Listed, Live
  <2> QED BY <1>6, <2>1 DEF TypeOK, ListEnabled
<1>7. ASSUME NEW c \in Client, Lock(c) PROVE TypeOK'
  BY <1>7 DEF TypeOK, Lock
<1>8. ASSUME NEW c \in Client, Evaluate(c) PROVE TypeOK'
  <2>1. PICK x \in list[c] :
          LET W == Window(x.row.config, After(x.row, x.id), at[c]) IN
            /\ list' = [list EXCEPT ![c] = @ \ {x}]
            /\ \/ UNCHANGED <<cpc, target, held, due, mark>>
               \/ /\ W # {}
                  /\ due' = [due EXCEPT ![c] = W]
                  /\ mark' = [mark EXCEPT ![c] = Newest(W)]
                  /\ target' = [target EXCEPT ![c] = x.id]
                  /\ held' = [held EXCEPT ![c] = x.row]
                  /\ cpc' = [cpc EXCEPT ![c] = "start"]
    BY <1>8 DEF Evaluate
  <2> DEFINE W == Window(x.row.config, After(x.row, x.id), at[c])
  <2>2. x.id \in Schedule /\ x.row \in Row /\ x.row.config \in Config
    BY DEF TypeOK, Listed, Row
  <2>3. W \in SUBSET Time
    BY <2>2 DEF Window, Time
  <2>4. W # {} => Newest(W) \in Time
    BY <2>3, NewestOf
  <2> HIDE DEF W
  <2>5. /\ list' \in [Client -> SUBSET Listed] /\ due' \in [Client -> SUBSET Time]
        /\ mark' \in [Client -> Time] /\ held' \in [Client -> Row \cup {Nobody}]
        /\ target' \in [Client -> Schedule \cup {Nobody}]
        /\ cpc' \in [Client -> {"idle", "insert", "write", "list", "lock", "loop", "start"}]
    <3>1. CASE UNCHANGED <<cpc, target, held, due, mark>>
      BY <2>1, <3>1 DEF TypeOK
    <3>2. CASE /\ W # {} /\ due' = [due EXCEPT ![c] = W]
               /\ mark' = [mark EXCEPT ![c] = Newest(W)]
               /\ target' = [target EXCEPT ![c] = x.id]
               /\ held' = [held EXCEPT ![c] = x.row]
               /\ cpc' = [cpc EXCEPT ![c] = "start"]
      BY <2>1, <2>2, <2>3, <2>4, <3>2 DEF TypeOK
    <3> QED BY <2>1, <3>1, <3>2 DEF W
  <2> QED BY <1>8, <2>5 DEF TypeOK, Evaluate
<1>9. ASSUME NEW c \in Client, Start(c) PROVE TypeOK'
  <2>1. runs' \in [Schedule -> [Occurrence -> Nat]]
    <3>1. runs[target[c]][<<held[c].config, held[c].series, Earliest(due[c])>>] + 1 \in Nat
          \/ target[c] \notin Schedule
          \/ <<held[c].config, held[c].series, Earliest(due[c])>> \notin Occurrence
      BY DEF TypeOK
    <3> QED BY <1>9, <3>1 DEF TypeOK, Start
  <2> QED BY <1>9, <2>1 DEF TypeOK, Start
<1>10. ASSUME NEW c \in Client, StartFails(c) PROVE TypeOK'
  BY <1>10 DEF TypeOK, StartFails
<1>11. ASSUME NEW c \in Client, Mark(c) PROVE TypeOK'
  <2>1. row' \in [Schedule -> Row]
    <3>1. mark[c] \in Time
      BY DEF TypeOK
    <3>2. target[c] \in Live => [row[target[c]] EXCEPT !.fired = mark[c]] \in Row
      BY <3>1, RowUpdates DEF TypeOK, Live
    <3> QED BY <1>11, <3>2 DEF TypeOK, Mark, Live
  <2>2. 0 \in Time
    BY DEF Time
  <2> QED BY <1>11, <2>1, <2>2 DEF TypeOK, Mark
<1>12. ASSUME NEW c \in Client, Finish(c) PROVE TypeOK'
  BY <1>12 DEF TypeOK, Finish, Time
<1>13. CASE MoveClock
  BY <1>13 DEF TypeOK, MoveClock
<1>14. CASE Restart
  BY <1>14 DEF TypeOK, Restart, Time
<1>15. CASE UNCHANGED vars
  BY <1>15 DEF TypeOK, vars
<1> QED
  BY <1>1, <1>2, <1>3, <1>4, <1>5, <1>6, <1>7, <1>8, <1>9, <1>10, <1>11, <1>12, <1>13, <1>14,
     <1>15 DEF Next, EvaluationStep

\* The mutex: only Lock and Finish move it, and a client that loops holds it.
LEMMA NextMutex ==
  ASSUME SchedulesAssumption, TypeOK, MutexInv, [Next]_vars
  PROVE  MutexInv'
<1> USE Bounds DEF tickVars, clientVars, counters
<1>1. ASSUME NEW c \in Client, NEW s \in Schedule, Create(c, s) PROVE MutexInv'
  BY <1>1 DEF TypeOK, MutexInv, Create
<1>2. ASSUME NEW c \in Client, NEW s \in Schedule, PatchRead(c, s) PROVE MutexInv'
  BY <1>2 DEF TypeOK, MutexInv, PatchRead
<1>3. ASSUME NEW c \in Client, NEW s \in Schedule, Delete(c, s) PROVE MutexInv'
  BY <1>3 DEF TypeOK, MutexInv, Delete
<1>4. ASSUME NEW c \in Client, CreateInsert(c) PROVE MutexInv'
  BY <1>4 DEF TypeOK, MutexInv, CreateInsert
<1>5. ASSUME NEW c \in Client, PatchWrite(c) PROVE MutexInv'
  BY <1>5 DEF TypeOK, MutexInv, PatchWrite
<1>6. ASSUME NEW c \in Client, ListEnabled(c) PROVE MutexInv'
  BY <1>6 DEF TypeOK, MutexInv, ListEnabled
<1>7. ASSUME NEW c \in Client, Lock(c) PROVE MutexInv'
  BY <1>7 DEF TypeOK, MutexInv, Lock
<1>8. ASSUME NEW c \in Client, Evaluate(c) PROVE MutexInv'
  BY <1>8 DEF TypeOK, MutexInv, Evaluate
<1>9. ASSUME NEW c \in Client, Start(c) PROVE MutexInv'
  BY <1>9 DEF TypeOK, MutexInv, Start
<1>10. ASSUME NEW c \in Client, StartFails(c) PROVE MutexInv'
  BY <1>10 DEF TypeOK, MutexInv, StartFails
<1>11. ASSUME NEW c \in Client, Mark(c) PROVE MutexInv'
  BY <1>11 DEF TypeOK, MutexInv, Mark
<1>12. ASSUME NEW c \in Client, Finish(c) PROVE MutexInv'
  BY <1>12 DEF TypeOK, MutexInv, Finish
<1>13. CASE MoveClock
  BY <1>13 DEF TypeOK, MutexInv, MoveClock
<1>14. CASE Restart
  BY <1>14 DEF TypeOK, MutexInv, Restart
<1>15. CASE UNCHANGED vars
  BY <1>15 DEF TypeOK, MutexInv, vars
<1> QED
  BY <1>1, <1>2, <1>3, <1>4, <1>5, <1>6, <1>7, <1>8, <1>9, <1>10, <1>11, <1>12, <1>13, <1>14,
     <1>15 DEF Next, EvaluationStep

\* What requests hold: two insertions never carry one id.
LEMMA NextHold ==
  ASSUME SchedulesAssumption, TypeOK, RowsInv, HoldInv, [Next]_vars
  PROVE  HoldInv'
<1> USE Bounds DEF tickVars, clientVars, counters
<1>1. ASSUME NEW c \in Client, NEW s \in Schedule, Create(c, s) PROVE HoldInv'
  <2>1. PICK k \in Config, on \in BOOLEAN :
          held' = [held EXCEPT ![c] = [status |-> "live", enabled |-> on, config |-> k,
                                       fired |-> 0, series |-> 0]]
    BY <1>1 DEF Create
  <2>2. held'[c] \in Row
    BY <2>1 DEF TypeOK, Row, Time
  <2>3. held'[c].status = "live" /\ held'[c].fired = 0 /\ held'[c].series = 0
    BY <2>1 DEF TypeOK
  <2>4. \A e \in Client \ {c} : held'[e] = held[e]
    BY <2>1 DEF TypeOK
  <2> QED BY <1>1, <2>2, <2>3, <2>4 DEF TypeOK, HoldInv, Create
<1>2. ASSUME NEW c \in Client, NEW s \in Schedule, PatchRead(c, s) PROVE HoldInv'
  <2>1. row[s] \in Row /\ row[s].status = "live" /\ row[s].series < MaxPatches
    BY <1>2 DEF TypeOK, PatchRead, Live
  <2>2. PICK r \in Row : r.status = "live" /\ held' = [held EXCEPT ![c] = r]
    <3>1. PICK k \in Config, on \in BOOLEAN :
            held' = [held EXCEPT ![c] =
                       IF k = row[s].config THEN [row[s] EXCEPT !.enabled = on]
                       ELSE [row[s] EXCEPT !.enabled = on, !.config = k, !.fired = 0,
                                           !.series = @ + 1]]
      BY <1>2 DEF PatchRead
    <3>2. /\ [row[s] EXCEPT !.enabled = on] \in Row
          /\ [row[s] EXCEPT !.enabled = on, !.config = k, !.fired = 0, !.series = @ + 1] \in Row
      BY <2>1, RowUpdates
    <3>3. /\ [row[s] EXCEPT !.enabled = on].status = "live"
          /\ [row[s] EXCEPT !.enabled = on, !.config = k, !.fired = 0,
                            !.series = @ + 1].status = "live"
      BY <2>1 DEF Row
    <3> QED BY <3>1, <3>2, <3>3
  <2>3. \A e \in Client : cpc[e] = "insert" => target[e] # s
    BY <2>1 DEF HoldInv
  <2>4. /\ cpc'[c] = "write" /\ target'[c] = s /\ held'[c] = r /\ row' = row
        /\ \A e \in Client \ {c} : /\ cpc'[e] = cpc[e] /\ target'[e] = target[e]
                                 /\ held'[e] = held[e]
    BY <1>2, <2>2 DEF TypeOK, PatchRead
  <2> QED BY <2>2, <2>3, <2>4 DEF HoldInv
<1>3. ASSUME NEW c \in Client, NEW s \in Schedule, Delete(c, s) PROVE HoldInv'
  <2>1. s \in Schedule /\ row[s].status = "live"
    BY <1>3 DEF Delete, Live
  <2>2. \A z \in Schedule : row'[z].status = "absent" <=> row[z].status = "absent"
    BY <1>3, <2>1 DEF TypeOK, Delete, Row
  <2> QED BY <1>3, <2>2 DEF TypeOK, HoldInv, Delete
<1>4. ASSUME NEW c \in Client, CreateInsert(c) PROVE HoldInv'
  BY <1>4 DEF TypeOK, HoldInv, CreateInsert
<1>5. ASSUME NEW c \in Client, PatchWrite(c) PROVE HoldInv'
  BY <1>5 DEF TypeOK, HoldInv, PatchWrite
<1>6. ASSUME NEW c \in Client, ListEnabled(c) PROVE HoldInv'
  BY <1>6 DEF TypeOK, HoldInv, ListEnabled
<1>7. ASSUME NEW c \in Client, Lock(c) PROVE HoldInv'
  BY <1>7 DEF TypeOK, HoldInv, Lock
<1>8. ASSUME NEW c \in Client, Evaluate(c) PROVE HoldInv'
  <2>1. PICK x \in list[c] :
          \/ UNCHANGED <<cpc, target, held>>
          \/ /\ target' = [target EXCEPT ![c] = x.id]
             /\ held' = [held EXCEPT ![c] = x.row]
             /\ cpc' = [cpc EXCEPT ![c] = "start"]
    BY <1>8 DEF Evaluate
  <2>2. x.id \in Schedule /\ x.row \in Row /\ row[x.id].status # "absent"
    BY DEF TypeOK, Listed, RowsInv
  <2>3. \A e \in Client : cpc[e] = "insert" => target[e] # x.id
    BY <2>2 DEF HoldInv
  <2>4. CASE UNCHANGED <<cpc, target, held>>
    BY <1>8, <2>4 DEF HoldInv, Evaluate
  <2>5. CASE /\ target' = [target EXCEPT ![c] = x.id]
             /\ held' = [held EXCEPT ![c] = x.row]
             /\ cpc' = [cpc EXCEPT ![c] = "start"]
    <3>1. /\ cpc'[c] = "start" /\ target'[c] = x.id /\ held'[c] = x.row /\ row' = row
          /\ \A e \in Client \ {c} : /\ cpc'[e] = cpc[e] /\ target'[e] = target[e]
                                   /\ held'[e] = held[e]
      BY <1>8, <2>5 DEF TypeOK, Evaluate
    <3> QED BY <2>2, <2>3, <3>1 DEF HoldInv
  <2> QED BY <2>1, <2>4, <2>5
<1>9. ASSUME NEW c \in Client, Start(c) PROVE HoldInv'
  BY <1>9 DEF TypeOK, HoldInv, Start
<1>10. ASSUME NEW c \in Client, StartFails(c) PROVE HoldInv'
  BY <1>10 DEF TypeOK, HoldInv, StartFails
<1>11. ASSUME NEW c \in Client, Mark(c) PROVE HoldInv'
  BY <1>11 DEF TypeOK, HoldInv, Mark
<1>12. ASSUME NEW c \in Client, Finish(c) PROVE HoldInv'
  BY <1>12 DEF TypeOK, HoldInv, Finish
<1>13. CASE MoveClock
  BY <1>13 DEF TypeOK, HoldInv, MoveClock
<1>14. CASE Restart
  BY <1>14 DEF TypeOK, HoldInv, Restart
<1>15. CASE UNCHANGED vars
  BY <1>15 DEF TypeOK, HoldInv, vars
<1> QED
  BY <1>1, <1>2, <1>3, <1>4, <1>5, <1>6, <1>7, <1>8, <1>9, <1>10, <1>11, <1>12, <1>13, <1>14,
     <1>15 DEF Next, EvaluationStep

\* Rows: an id that has no row yet stays unknown to everyone but its creator.
LEMMA NextRows ==
  ASSUME SchedulesAssumption, TypeOK, MutexInv, HoldInv, RowsInv, [Next]_vars
  PROVE  RowsInv'
<1> USE Bounds DEF tickVars, clientVars, counters
<1>1. ASSUME NEW c \in Client, NEW s \in Schedule, Create(c, s) PROVE RowsInv'
  BY <1>1 DEF TypeOK, HoldInv, RowsInv, Create
<1>2. ASSUME NEW c \in Client, NEW s \in Schedule, PatchRead(c, s) PROVE RowsInv'
  <2>1. row[s].status = "live"
    BY <1>2 DEF PatchRead, Live
  <2> QED BY <1>2, <2>1 DEF TypeOK, RowsInv, PatchRead
<1>3. ASSUME NEW c \in Client, NEW s \in Schedule, Delete(c, s) PROVE RowsInv'
  BY <1>3 DEF TypeOK, HoldInv, RowsInv, Delete
<1>4. ASSUME NEW c \in Client, CreateInsert(c) PROVE RowsInv'
  BY <1>4 DEF TypeOK, HoldInv, RowsInv, CreateInsert
<1>5. ASSUME NEW c \in Client, PatchWrite(c) PROVE RowsInv'
  <2>1. CASE UNCHANGED <<row, patches>>
    BY <1>5, <2>1 DEF TypeOK, HoldInv, RowsInv, PatchWrite
  <2>2. CASE /\ target[c] \in Schedule /\ row[target[c]].status = "live"
             /\ row' = [row EXCEPT ![target[c]] = held[c]]
             /\ patches' = [patches EXCEPT ![target[c]] = @ + 1]
    <3>1. row'[target[c]].status = "live" /\ patches'[target[c]] # 0
      BY <1>5, <2>2 DEF TypeOK, HoldInv, PatchWrite
    <3>2. \A z \in Schedule \ {target[c]} : row'[z] = row[z] /\ patches'[z] = patches[z]
      BY <2>2 DEF TypeOK
    <3>3. \A e \in Client : /\ cpc'[e] \in {"write", "start"}
                                 => cpc'[e] = cpc[e] /\ target'[e] = target[e]
                            /\ list'[e] = list[e]
      BY <1>5 DEF TypeOK, PatchWrite, tickVars
    <3>4. runs' = runs
      BY <1>5 DEF PatchWrite
    <3> QED BY <3>1, <3>2, <3>3, <3>4 DEF RowsInv
  <2> QED BY <1>5, <2>1, <2>2 DEF PatchWrite, Live
<1>6. ASSUME NEW c \in Client, ListEnabled(c) PROVE RowsInv'
  <2>1. list' = [list EXCEPT ![c] = {[id |-> z, row |-> row[z]] : z \in {y \in Live : row[y].enabled}}]
    BY <1>6 DEF ListEnabled
  <2>2. \A x \in list'[c] : row[x.id].status # "absent"
    BY <2>1 DEF TypeOK, Live
  <2>3. \A e \in Client \ {c} : list'[e] = list[e]
    BY <2>1 DEF TypeOK
  <2>4. \A e \in Client : cpc'[e] \in {"write", "start"} => cpc[e] = cpc'[e]
    BY <1>6 DEF TypeOK, ListEnabled
  <2> QED BY <1>6, <2>2, <2>3, <2>4 DEF RowsInv, ListEnabled
<1>7. ASSUME NEW c \in Client, Lock(c) PROVE RowsInv'
  <2>1. /\ UNCHANGED <<row, runs, patches, target, held, list>>
        /\ \A e \in Client : cpc'[e] \in {"insert", "write", "start"} => cpc'[e] = cpc[e]
    BY <1>7 DEF TypeOK, Lock, counters
  <2> QED BY <2>1 DEF RowsInv
<1>8. ASSUME NEW c \in Client, Evaluate(c) PROVE RowsInv'
  BY <1>8 DEF TypeOK, HoldInv, RowsInv, Evaluate
<1>9. ASSUME NEW c \in Client, Start(c) PROVE RowsInv'
  BY <1>9 DEF TypeOK, HoldInv, RowsInv, Start
<1>10. ASSUME NEW c \in Client, StartFails(c) PROVE RowsInv'
  BY <1>10 DEF TypeOK, HoldInv, RowsInv, StartFails
<1>11. ASSUME NEW c \in Client, Mark(c) PROVE RowsInv'
  BY <1>11 DEF TypeOK, HoldInv, RowsInv, Mark
<1>12. ASSUME NEW c \in Client, Finish(c) PROVE RowsInv'
  <2>1. /\ UNCHANGED <<row, runs, patches, target, held, list>>
        /\ \A e \in Client : cpc'[e] \in {"insert", "write", "start"} => cpc'[e] = cpc[e]
    BY <1>12 DEF TypeOK, Finish, counters
  <2> QED BY <2>1 DEF RowsInv
<1>13. CASE MoveClock
  BY <1>13 DEF TypeOK, HoldInv, RowsInv, MoveClock
<1>14. CASE Restart
  BY <1>14 DEF TypeOK, HoldInv, RowsInv, Restart
<1>15. CASE UNCHANGED vars
  BY <1>15 DEF TypeOK, HoldInv, RowsInv, vars
<1> QED
  BY <1>1, <1>2, <1>3, <1>4, <1>5, <1>6, <1>7, <1>8, <1>9, <1>10, <1>11, <1>12, <1>13, <1>14,
     <1>15 DEF Next, EvaluationStep

\* Lists: what changes a row others may have listed disturbs it, but for its mark, which rises.
LEMMA NextList ==
  ASSUME SchedulesAssumption, TypeOK, HoldInv, RowsInv, StartInv, ListInv, [Next]_vars
  PROVE  ListInv'
<1> USE Bounds DEF tickVars, clientVars, counters
<1>1. ASSUME NEW c \in Client, NEW s \in Schedule, Create(c, s) PROVE ListInv'
  BY <1>1 DEF TypeOK, ListInv, Undisturbed, Create
<1>2. ASSUME NEW c \in Client, NEW s \in Schedule, PatchRead(c, s) PROVE ListInv'
  BY <1>2 DEF TypeOK, ListInv, Undisturbed, PatchRead
<1>3. ASSUME NEW c \in Client, NEW s \in Schedule, Delete(c, s) PROVE ListInv'
  BY <1>3 DEF TypeOK, ListInv, Undisturbed, Delete
<1>4. ASSUME NEW c \in Client, CreateInsert(c) PROVE ListInv'
  <2>1. \A e \in Client : \A x \in list[e] : x.id # target[c] /\ x.id \in Schedule
    BY <1>4 DEF TypeOK, HoldInv, RowsInv, CreateInsert, Listed
  <2>2. \A z \in Schedule \ {target[c]} : row'[z] = row[z]
    BY <1>4 DEF TypeOK, CreateInsert
  <2> QED BY <1>4, <2>1, <2>2 DEF ListInv, Undisturbed, CreateInsert
<1>5. ASSUME NEW c \in Client, PatchWrite(c) PROVE ListInv'
  <2>1. \A z \in Schedule : Undisturbed(z)' => Undisturbed(z) /\ row'[z] = row[z]
    BY <1>5 DEF TypeOK, PatchWrite, Undisturbed, Live
  <2>2. \A e \in Client : \A x \in list[e] : x.id \in Schedule
    BY DEF TypeOK, Listed
  <2> QED BY <1>5, <2>1, <2>2 DEF ListInv, PatchWrite
<1>6. ASSUME NEW c \in Client, ListEnabled(c) PROVE ListInv'
  <2>1. list' = [list EXCEPT ![c] = {[id |-> z, row |-> row[z]] : z \in {y \in Live : row[y].enabled}}]
    BY <1>6 DEF ListEnabled
  <2>2. \A x \in list'[c] : x.id \in Schedule /\ x.row = row[x.id] /\ row[x.id] \in Row
    BY <2>1 DEF TypeOK, Live
  <2>3. \A x \in list'[c] : Undisturbed(x.id) => x.row.series = 0 /\ x.row.fired <= row[x.id].fired
    BY <2>2 DEF RowsInv, Undisturbed, Row, Time
  <2>4. \A e \in Client \ {c} : list'[e] = list[e]
    BY <2>1 DEF TypeOK
  <2> QED BY <1>6, <2>2, <2>3, <2>4 DEF ListInv, Undisturbed, ListEnabled
<1>7. ASSUME NEW c \in Client, Lock(c) PROVE ListInv'
  BY <1>7 DEF TypeOK, ListInv, Undisturbed, Lock
<1>8. ASSUME NEW c \in Client, Evaluate(c) PROVE ListInv'
  BY <1>8 DEF TypeOK, ListInv, Undisturbed, Evaluate
<1>9. ASSUME NEW c \in Client, Start(c) PROVE ListInv'
  BY <1>9 DEF TypeOK, ListInv, Undisturbed, Start
<1>10. ASSUME NEW c \in Client, StartFails(c) PROVE ListInv'
  BY <1>10 DEF TypeOK, ListInv, Undisturbed, StartFails
<1>11. ASSUME NEW c \in Client, Mark(c) PROVE ListInv'
  <2>1. \A z \in Schedule : Undisturbed(z)' =>
          /\ Undisturbed(z) /\ row'[z].config = row[z].config
          /\ row[z].fired <= row'[z].fired
    <3> SUFFICES ASSUME NEW z \in Schedule, Undisturbed(z)'
                 PROVE  /\ Undisturbed(z) /\ row'[z].config = row[z].config
                        /\ row[z].fired <= row'[z].fired
      OBVIOUS
    <3>1. row[z].fired \in Nat /\ mark[c] \in Nat /\ row[z] \in Row
      BY DEF TypeOK, Row, Time
    <3>2. CASE row'[z] = row[z]
      <4>1. patches' = patches
        BY <1>11 DEF Mark, counters
      <4> QED BY <3>1, <3>2, <4>1 DEF Undisturbed
    <3>3. CASE z = target[c] /\ row'[z] = [row[z] EXCEPT !.fired = mark[c]]
      <4>1. Undisturbed(z) /\ row'[z].config = row[z].config /\ row'[z].fired = mark[c]
        BY <1>11, <3>1, <3>3 DEF Mark, Undisturbed, Row
      <4>2. row[z].fired < mark[c]
        BY <1>11, <3>3, <4>1 DEF StartInv, Evaluating, Mark
      <4> QED BY <3>1, <4>1, <4>2
    <3> QED BY <1>11, <3>2, <3>3 DEF TypeOK, Mark
  <2>2. \A e \in Client : \A x \in list[e] : x.id \in Schedule /\ x.row.fired \in Nat
    BY DEF TypeOK, Listed, Row, Time
  <2>3. \A z \in Schedule : row[z].fired \in Nat /\ row'[z].fired \in Nat
    BY <1>11 DEF TypeOK, Mark, Row, Time, Live
  <2> QED BY <1>11, <2>1, <2>2, <2>3 DEF ListInv, Mark
<1>12. ASSUME NEW c \in Client, Finish(c) PROVE ListInv'
  BY <1>12 DEF TypeOK, ListInv, Undisturbed, Finish
<1>13. CASE MoveClock
  BY <1>13 DEF TypeOK, ListInv, Undisturbed, MoveClock
<1>14. CASE Restart
  BY <1>14 DEF TypeOK, ListInv, Undisturbed, Restart
<1>15. CASE UNCHANGED vars
  BY <1>15 DEF TypeOK, ListInv, Undisturbed, vars
<1> QED
  BY <1>1, <1>2, <1>3, <1>4, <1>5, <1>6, <1>7, <1>8, <1>9, <1>10, <1>11, <1>12, <1>13, <1>14,
     <1>15 DEF Next, EvaluationStep

-----------------------------------------------------------------------------
\* Where the window of a listed schedule that was left alone opens: at the mark
\* its row has now, whatever mark was listed.
LEMMA OpensAtMark ==
  ASSUME TypeOK, RowsInv, ListInv, NEW c \in Client, NEW x \in list[c], Undisturbed(x.id)
  PROVE  /\ x.id \in Schedule /\ x.row.config = row[x.id].config /\ x.row.series = 0
         /\ After(x.row, x.id) = row[x.id].fired
<1>1. x.id \in Schedule /\ row[x.id] \in Row /\ x.row \in Row
  BY DEF TypeOK, Listed
<1>2. row[x.id].status = "live"
  BY <1>1 DEF RowsInv, Undisturbed, Row
<1>3. x.row.fired \in Nat /\ row[x.id].fired \in Nat /\ x.row.fired <= row[x.id].fired
  BY <1>1 DEF ListInv, Row, Time
<1>4. After(x.row, x.id) = row[x.id].fired
  BY <1>2, <1>3 DEF After
<1> QED BY <1>1, <1>4 DEF ListInv

\* One step of the loop of fireDue: nothing is due, or an evaluation of a listed
\* schedule begins, with the newest MaxPerTick occurrences after its mark.
LEMMA EvaluateOpens ==
  ASSUME SchedulesAssumption, TypeOK, MutexInv, RowsInv, ListInv,
         NEW c \in Client, Evaluate(c)
  PROVE  /\ \A e \in Client, z \in Schedule : ~Evaluating(e, z)
         /\ UNCHANGED <<row, runs, patches, errors, restarts>>
         /\ \/ \A e \in Client, z \in Schedule : ~Evaluating(e, z)'
            \/ \E z \in Schedule :
                 /\ Evaluating(c, z)'
                 /\ \A e \in Client, y \in Schedule : Evaluating(e, y)' => e = c /\ y = z
                 /\ Undisturbed(z) =>
                      /\ held'[c].config = row[z].config /\ held'[c].series = 0
                      /\ due'[c] = Window(row[z].config, row[z].fired, at[c])
                      /\ due'[c] # {} /\ mark'[c] = Newest(due'[c])
<1>1. \A e \in Client : cpc[e] # "start"
  BY DEF MutexInv, Evaluate
<1>2. UNCHANGED <<row, runs, patches, errors, restarts>>
  BY DEF Evaluate, counters
<1>3. PICK x \in list[c] :
        LET W == Window(x.row.config, After(x.row, x.id), at[c]) IN
          \/ UNCHANGED <<cpc, target>>
          \/ /\ W # {}
             /\ due' = [due EXCEPT ![c] = W]
             /\ mark' = [mark EXCEPT ![c] = Newest(W)]
             /\ target' = [target EXCEPT ![c] = x.id]
             /\ held' = [held EXCEPT ![c] = x.row]
             /\ cpc' = [cpc EXCEPT ![c] = "start"]
  BY DEF Evaluate
<1>4. CASE UNCHANGED <<cpc, target>>
  BY <1>1, <1>2, <1>4 DEF Evaluating
<1> DEFINE W == Window(x.row.config, After(x.row, x.id), at[c])
<1>5. CASE /\ W # {}
           /\ due' = [due EXCEPT ![c] = W]
           /\ mark' = [mark EXCEPT ![c] = Newest(W)]
           /\ target' = [target EXCEPT ![c] = x.id]
           /\ held' = [held EXCEPT ![c] = x.row]
           /\ cpc' = [cpc EXCEPT ![c] = "start"]
  <2> HIDE DEF W
  <2>1. /\ due'[c] = W /\ mark'[c] = Newest(W) /\ target'[c] = x.id /\ held'[c] = x.row
        /\ cpc'[c] = "start" /\ \A e \in Client \ {c} : cpc'[e] # "start"
    BY <1>1, <1>5 DEF TypeOK
  <2>2. x.id \in Schedule
    BY DEF TypeOK, Listed
  <2>3. Undisturbed(x.id) => /\ x.row.config = row[x.id].config /\ x.row.series = 0
                             /\ W = Window(row[x.id].config, row[x.id].fired, at[c])
    BY OpensAtMark DEF W
  <2> QED BY <1>1, <1>2, <1>5, <2>1, <2>2, <2>3 DEF Evaluating
<1> QED BY <1>3, <1>4, <1>5

\* A step that writes a row another client may be evaluating disturbs it: what
\* stays undisturbed keeps its row, unless the step inserts it or marks it.
LEMMA RowKept ==
  ASSUME TypeOK, HoldInv, RowsInv, NEW z \in Schedule,
         \/ \E c \in Client : CreateInsert(c) /\ target[c] # z
         \/ \E c \in Client : PatchWrite(c)
         \/ \E c \in Client, s \in Schedule : Delete(c, s)
         \/ \E c \in Client : Mark(c) /\ target[c] # z,
         Undisturbed(z)'
  PROVE  Undisturbed(z) /\ row'[z] = row[z]
<1>1. ASSUME NEW c \in Client, CreateInsert(c), target[c] # z PROVE Undisturbed(z) /\ row'[z] = row[z]
  BY <1>1 DEF TypeOK, CreateInsert, counters, Undisturbed
<1>2. ASSUME NEW c \in Client, PatchWrite(c) PROVE Undisturbed(z) /\ row'[z] = row[z]
  BY <1>2 DEF TypeOK, PatchWrite, Undisturbed, Live
<1>3. ASSUME NEW c \in Client, NEW s \in Schedule, Delete(c, s) PROVE Undisturbed(z) /\ row'[z] = row[z]
  BY <1>3 DEF TypeOK, Delete, counters, Undisturbed, Row
<1>4. ASSUME NEW c \in Client, Mark(c), target[c] # z PROVE Undisturbed(z) /\ row'[z] = row[z]
  BY <1>4 DEF TypeOK, Mark, counters, Undisturbed
<1> QED BY <1>1, <1>2, <1>3, <1>4

\* Evaluations: the row they are about keeps its configuration and its mark until their own Mark.
LEMMA NextStart ==
  ASSUME SchedulesAssumption, TypeOK, MutexInv, HoldInv, RowsInv, ListInv, StartInv, [Next]_vars
  PROVE  StartInv'
<1> USE Bounds DEF tickVars, clientVars, counters
<1>1. ASSUME NEW c \in Client, NEW s \in Schedule, Create(c, s) PROVE StartInv'
  BY <1>1 DEF TypeOK, StartInv, Evaluating, Undisturbed, Create
<1>2. ASSUME NEW c \in Client, NEW s \in Schedule, PatchRead(c, s) PROVE StartInv'
  BY <1>2 DEF TypeOK, StartInv, Evaluating, Undisturbed, PatchRead
<1>3. ASSUME NEW c \in Client, NEW s \in Schedule, Delete(c, s) PROVE StartInv'
  <2>1. \A z \in Schedule : Undisturbed(z)' => Undisturbed(z) /\ row'[z] = row[z]
    BY <1>3, RowKept
  <2> QED BY <1>3, <2>1 DEF StartInv, Delete, Evaluating
<1>4. ASSUME NEW c \in Client, CreateInsert(c) PROVE StartInv'
  <2>1. \A e \in Client, z \in Schedule : Evaluating(e, z)' => Evaluating(e, z) /\ z # target[c]
    BY <1>4 DEF TypeOK, HoldInv, RowsInv, CreateInsert, Evaluating
  <2>2. \A z \in Schedule : z # target[c] /\ Undisturbed(z)' => Undisturbed(z) /\ row'[z] = row[z]
    BY <1>4, RowKept
  <2>3. \A e \in Client, z \in Schedule : Evaluating(e, z)' => e # c /\ held'[e] = held[e]
    BY <1>4 DEF TypeOK, CreateInsert, Evaluating
  <2>4. due' = due /\ mark' = mark
    BY <1>4 DEF CreateInsert
  <2> QED BY <2>1, <2>2, <2>3, <2>4 DEF StartInv
<1>5. ASSUME NEW c \in Client, PatchWrite(c) PROVE StartInv'
  <2>1. \A z \in Schedule : Undisturbed(z)' => Undisturbed(z) /\ row'[z] = row[z]
    BY <1>5, RowKept
  <2>2. \A e \in Client, z \in Schedule :
          Evaluating(e, z)' => Evaluating(e, z) /\ held'[e] = held[e]
    BY <1>5 DEF TypeOK, PatchWrite, Evaluating
  <2>3. due' = due /\ mark' = mark
    BY <1>5 DEF PatchWrite
  <2> QED BY <2>1, <2>2, <2>3 DEF StartInv
<1>6. ASSUME NEW c \in Client, ListEnabled(c) PROVE StartInv'
  BY <1>6 DEF TypeOK, StartInv, Evaluating, Undisturbed, ListEnabled
<1>7. ASSUME NEW c \in Client, Lock(c) PROVE StartInv'
  BY <1>7 DEF TypeOK, StartInv, Evaluating, Undisturbed, Lock
<1>8. ASSUME NEW c \in Client, Evaluate(c) PROVE StartInv'
  <2>1. SUFFICES ASSUME NEW z \in Schedule, Evaluating(c, z)', Undisturbed(z)',
                        \A e \in Client, y \in Schedule : Evaluating(e, y)' => e = c /\ y = z,
                        Undisturbed(z), row' = row,
                        held'[c].config = row[z].config, held'[c].series = 0,
                        due'[c] = Window(row[z].config, row[z].fired, at[c]),
                        due'[c] # {}, mark'[c] = Newest(due'[c])
                 PROVE  /\ due'[c] \subseteq Occurs[row[z].config]
                        /\ \A t \in due'[c] : row[z].fired < t /\ t <= mark'[c]
                        /\ row[z].fired < mark'[c]
    BY <1>8, EvaluateOpens DEF StartInv, Undisturbed
  <2>2. row[z].config \in Config /\ row[z].fired \in Nat /\ due'[c] \subseteq Occurs[row[z].config]
    BY <2>1 DEF TypeOK, Row, Time, Window
  <2>3. due'[c] \in SUBSET Time
    BY <2>2 DEF Time
  <2>4. mark'[c] \in due'[c] /\ \A t \in due'[c] : t <= mark'[c]
    BY <2>1, <2>3, NewestOf
  <2>5. \A t \in due'[c] : row[z].fired < t
    BY <2>1 DEF Window
  <2> QED BY <2>2, <2>4, <2>5
<1>9. ASSUME NEW c \in Client, Start(c) PROVE StartInv'
  BY <1>9 DEF TypeOK, StartInv, Evaluating, Undisturbed, Start
<1>10. ASSUME NEW c \in Client, StartFails(c) PROVE StartInv'
  BY <1>10 DEF TypeOK, StartInv, Evaluating, Undisturbed, StartFails
<1>11. ASSUME NEW c \in Client, Mark(c) PROVE StartInv'
  <2>1. \A e \in Client, z \in Schedule : ~Evaluating(e, z)'
    BY <1>11 DEF TypeOK, MutexInv, Mark, Evaluating
  <2> QED BY <2>1 DEF StartInv
<1>12. ASSUME NEW c \in Client, Finish(c) PROVE StartInv'
  BY <1>12 DEF TypeOK, StartInv, Evaluating, Undisturbed, Finish
<1>13. CASE MoveClock
  BY <1>13 DEF TypeOK, StartInv, Evaluating, Undisturbed, MoveClock
<1>14. CASE Restart
  BY <1>14 DEF TypeOK, StartInv, Evaluating, Undisturbed, Restart
<1>15. CASE UNCHANGED vars
  BY <1>15 DEF TypeOK, StartInv, Evaluating, Undisturbed, vars
<1> QED
  BY <1>1, <1>2, <1>3, <1>4, <1>5, <1>6, <1>7, <1>8, <1>9, <1>10, <1>11, <1>12, <1>13, <1>14,
     <1>15 DEF Next, EvaluationStep

-----------------------------------------------------------------------------
\* What a start changes: one more job for the oldest occurrence that was due.
LEMMA StartCounts ==
  ASSUME SchedulesAssumption, TypeOK, MutexInv, HoldInv, NEW c \in Client, Start(c)
  PROVE  \E t \in due[c] :
           /\ due' = [due EXCEPT ![c] = @ \ {t}]
           /\ \A z \in Schedule, k \in Config, n \in 0..MaxPatches, u \in 1..Horizon :
                runs'[z][<<k, n, u>>] =
                  IF z = target[c] /\ k = held[c].config /\ n = held[c].series /\ u = t
                  THEN runs[z][<<k, n, u>>] + 1 ELSE runs[z][<<k, n, u>>]
           /\ \A e \in Client, z \in Schedule :
                /\ Evaluating(e, z)' <=> Evaluating(e, z)
                /\ Evaluating(e, z) => e = c /\ z = target[c]
           /\ UNCHANGED <<row, patches, errors, restarts, mark>>
<1>1. due[c] # {} /\ due[c] \in SUBSET Time
  BY DEF Start, TypeOK
<1>2. Earliest(due[c]) \in due[c]
  BY <1>1, EarliestOf
<1> DEFINE t == Earliest(due[c])
<1>3. /\ runs' = [runs EXCEPT ![target[c]][<<held[c].config, held[c].series, t>>] = @ + 1]
      /\ due' = [due EXCEPT ![c] = @ \ {t}]
      /\ UNCHANGED <<row, patches, errors, restarts, mark, cpc, target>>
      /\ target[c] \in Schedule /\ cpc[c] = "start"
  BY DEF Start, HoldInv, counters, clientVars
<1> HIDE DEF t
<1>4. \A z \in Schedule, k \in Config, n \in 0..MaxPatches, u \in 1..Horizon :
        runs'[z][<<k, n, u>>] =
          IF z = target[c] /\ k = held[c].config /\ n = held[c].series /\ u = t
          THEN runs[z][<<k, n, u>>] + 1 ELSE runs[z][<<k, n, u>>]
  BY <1>3 DEF TypeOK, Occurrence
<1>5. \A e \in Client, z \in Schedule :
        /\ Evaluating(e, z)' <=> Evaluating(e, z)
        /\ Evaluating(e, z) => e = c /\ z = target[c]
  BY <1>3 DEF Evaluating, MutexInv
<1> QED BY <1>2, <1>3, <1>4, <1>5 DEF t

\* Mark writes its high-water mark to a schedule left alone, and nothing else.
LEMMA MarkWrites ==
  ASSUME TypeOK, HoldInv, RowsInv, NEW c \in Client, Mark(c),
         NEW z \in Schedule, z = target[c], Undisturbed(z)'
  PROVE  Undisturbed(z) /\ row'[z].config = row[z].config /\ row'[z].fired = mark[c]
<1>1. row[z] \in Row /\ row[z].status # "absent" /\ patches' = patches
  BY DEF TypeOK, RowsInv, Mark, counters
<1>2. z \in Live
  <2>1. CASE z \notin Live
    <3>1. row' = row
      BY <2>1 DEF Mark
    <3> QED BY <1>1, <3>1 DEF Live, Undisturbed, Row
  <2> QED BY <2>1
<1>3. row'[z] = [row[z] EXCEPT !.fired = mark[c]]
  BY <1>2 DEF TypeOK, Mark
<1>4. /\ row'[z].status = row[z].status /\ row'[z].config = row[z].config
      /\ row'[z].fired = mark[c]
  BY <1>1, <1>3 DEF Row
<1> QED BY <1>1, <1>4 DEF Undisturbed

\* Steps that neither start a job nor write a row, and begin or end no
\* evaluation, leave what the last two invariants speak of alone.
LEMMA Elsewhere ==
  ASSUME TypeOK, NEW c \in Client,
         \/ \E s \in Schedule : Create(c, s) \/ PatchRead(c, s)
         \/ ListEnabled(c) \/ Lock(c) \/ Finish(c)
  PROVE  /\ UNCHANGED <<row, runs, patches, errors, restarts, due, mark>>
         /\ \A e \in Client, z \in Schedule : Evaluating(e, z)' <=> Evaluating(e, z)
<1>1. ASSUME NEW s \in Schedule, Create(c, s) \/ PatchRead(c, s)
      PROVE  /\ UNCHANGED <<row, runs, patches, errors, restarts, due, mark>>
             /\ \A e \in Client, z \in Schedule : Evaluating(e, z)' <=> Evaluating(e, z)
  BY <1>1 DEF TypeOK, Create, PatchRead, Evaluating, tickVars, counters
<1>2. CASE ListEnabled(c)
  BY <1>2 DEF TypeOK, ListEnabled, Evaluating, counters
<1>3. CASE Lock(c) \/ Finish(c)
  BY <1>3 DEF TypeOK, Lock, Finish, Evaluating, counters
<1> QED BY <1>1, <1>2, <1>3

\* A step that starts nothing of s, and ends no evaluation of it, keeps what has
\* started behind the marks.
LEMMA StaysBehind ==
  ASSUME SchedulesAssumption, NEW s \in Schedule, OnlyBehind(s),
         UNCHANGED runs[s], UNCHANGED row[s].config,
         row[s].fired \in Nat, row'[s].fired \in Nat, row[s].fired <= row'[s].fired,
         \A e \in Client : Evaluating(e, s) =>
           /\ Evaluating(e, s)' /\ mark'[e] = mark[e] /\ due'[e] \subseteq due[e]
  PROVE  OnlyBehind(s)'
<1> SUFFICES ASSUME NEW k \in Config, NEW n \in 0..MaxPatches, NEW t \in 1..Horizon
             PROVE  /\ runs'[s][<<k, n, t>>] <= 1
                    /\ runs'[s][<<k, n, t>>] > 0 =>
                         /\ k = row'[s].config /\ n = 0
                         /\ \/ t <= row'[s].fired
                            \/ \E c \in Client :
                                 Evaluating(c, s)' /\ t <= mark'[c] /\ t \notin due'[c]
  BY DEF OnlyBehind
<1>1. /\ runs[s][<<k, n, t>>] <= 1
      /\ runs[s][<<k, n, t>>] > 0 =>
           /\ k = row[s].config /\ n = 0
           /\ \/ t <= row[s].fired
              \/ \E c \in Client : Evaluating(c, s) /\ t <= mark[c] /\ t \notin due[c]
  BY DEF OnlyBehind
<1>2. t \in Nat /\ runs'[s] = runs[s] /\ row'[s].config = row[s].config
  BY Bounds
<1>3. t <= row[s].fired => t <= row'[s].fired
  BY <1>2
<1>4. \A c \in Client : Evaluating(c, s) /\ t <= mark[c] /\ t \notin due[c]
                          => Evaluating(c, s)' /\ t <= mark'[c] /\ t \notin due'[c]
  OBVIOUS
<1> QED BY <1>1, <1>2, <1>3, <1>4

\* Jobs started: a start is of an occurrence beyond the mark that no evaluation has started.
LEMMA NextFired ==
  ASSUME SchedulesAssumption, TypeOK, MutexInv, HoldInv, RowsInv, ListInv, StartInv, FiredInv, [Next]_vars
  PROVE  FiredInv'
<1> USE Bounds DEF tickVars, clientVars, counters
<1>fired. \A z \in Schedule : row[z].fired \in Nat
  BY DEF TypeOK, Row, Time
<1>1. ASSUME NEW c \in Client, NEW s \in Schedule, Create(c, s) PROVE FiredInv'
  <2>1. /\ UNCHANGED <<row, runs, patches, restarts, due, mark>>
        /\ \A e \in Client, z \in Schedule : Evaluating(e, z)' <=> Evaluating(e, z)
    BY <1>1, Elsewhere
  <2> QED BY <2>1, <1>fired, StaysBehind DEF FiredInv, Undisturbed
<1>2. ASSUME NEW c \in Client, NEW s \in Schedule, PatchRead(c, s) PROVE FiredInv'
  <2>1. /\ UNCHANGED <<row, runs, patches, restarts, due, mark>>
        /\ \A e \in Client, z \in Schedule : Evaluating(e, z)' <=> Evaluating(e, z)
    BY <1>2, Elsewhere
  <2> QED BY <2>1, <1>fired, StaysBehind DEF FiredInv, Undisturbed
<1>3. ASSUME NEW c \in Client, NEW s \in Schedule, Delete(c, s) PROVE FiredInv'
  <2>1. \A z \in Schedule : Undisturbed(z)' => Undisturbed(z) /\ row'[z] = row[z]
    BY <1>3, RowKept
  <2>2. /\ UNCHANGED <<runs, restarts, due, mark>>
        /\ \A e \in Client, z \in Schedule : Evaluating(e, z)' <=> Evaluating(e, z)
    BY <1>3 DEF Delete, tickVars, clientVars, counters, Evaluating
  <2> QED BY <1>fired, <2>1, <2>2, StaysBehind DEF FiredInv
<1>4. ASSUME NEW c \in Client, CreateInsert(c) PROVE FiredInv'
  <2>1. \A e \in Client, z \in Schedule : Evaluating(e, z) => Evaluating(e, z)'
    BY <1>4 DEF TypeOK, CreateInsert, Evaluating
  <2>2. \A z \in Schedule : z # target[c] /\ Undisturbed(z)' => Undisturbed(z) /\ row'[z] = row[z]
    BY <1>4, RowKept
  <2>3. \A k \in Config, n \in 0..MaxPatches, t \in 1..Horizon : runs[target[c]][<<k, n, t>>] = 0
    BY <1>4 DEF CreateInsert, HoldInv, RowsInv
  <2>4. UNCHANGED <<runs, due, mark, restarts>>
    BY <1>4 DEF CreateInsert, tickVars, counters
  <2>5. \A z \in Schedule : z # target[c] /\ Undisturbed(z) /\ row'[z] = row[z] /\ OnlyBehind(z)
                              => OnlyBehind(z)'
    BY <1>fired, <2>1, <2>4, StaysBehind
  <2>6. ASSUME NEW z \in Schedule, z = target[c] PROVE OnlyBehind(z)'
    <3> SUFFICES ASSUME NEW k \in Config, NEW n \in 0..MaxPatches, NEW t \in 1..Horizon
                 PROVE  runs'[z][<<k, n, t>>] <= 1 /\ ~(runs'[z][<<k, n, t>>] > 0)
      BY DEF OnlyBehind
    <3> QED BY <2>3, <2>4, <2>6
  <2> QED BY <2>2, <2>4, <2>5, <2>6 DEF FiredInv
<1>5. ASSUME NEW c \in Client, PatchWrite(c) PROVE FiredInv'
  <2>1. \A e \in Client, z \in Schedule : Evaluating(e, z) => Evaluating(e, z)'
    BY <1>5 DEF TypeOK, PatchWrite, Evaluating
  <2>2. \A z \in Schedule : Undisturbed(z)' => Undisturbed(z) /\ row'[z] = row[z]
    BY <1>5, RowKept
  <2>3. UNCHANGED <<runs, due, mark, restarts>>
    BY <1>5 DEF PatchWrite, tickVars
  <2> QED BY <1>fired, <2>1, <2>2, <2>3, StaysBehind DEF FiredInv
<1>6. ASSUME NEW c \in Client, ListEnabled(c) PROVE FiredInv'
  <2>1. /\ UNCHANGED <<row, runs, patches, restarts, due, mark>>
        /\ \A e \in Client, z \in Schedule : Evaluating(e, z)' <=> Evaluating(e, z)
    BY <1>6, Elsewhere
  <2> QED BY <2>1, <1>fired, StaysBehind DEF FiredInv, Undisturbed
<1>7. ASSUME NEW c \in Client, Lock(c) PROVE FiredInv'
  <2>1. /\ UNCHANGED <<row, runs, patches, restarts, due, mark>>
        /\ \A e \in Client, z \in Schedule : Evaluating(e, z)' <=> Evaluating(e, z)
    BY <1>7, Elsewhere
  <2> QED BY <2>1, <1>fired, StaysBehind DEF FiredInv, Undisturbed
<1>8. ASSUME NEW c \in Client, Evaluate(c) PROVE FiredInv'
  <2>1. /\ \A e \in Client, z \in Schedule : ~Evaluating(e, z)
        /\ UNCHANGED <<row, runs, patches, restarts>>
    BY <1>8, EvaluateOpens
  <2> QED BY <1>fired, <2>1, StaysBehind DEF FiredInv, Undisturbed
<1>9. ASSUME NEW c \in Client, Start(c) PROVE FiredInv'
  <2>1. PICK t \in due[c] :
          /\ due' = [due EXCEPT ![c] = @ \ {t}]
          /\ \A z \in Schedule, k \in Config, n \in 0..MaxPatches, u \in 1..Horizon :
               runs'[z][<<k, n, u>>] =
                 IF z = target[c] /\ k = held[c].config /\ n = held[c].series /\ u = t
                 THEN runs[z][<<k, n, u>>] + 1 ELSE runs[z][<<k, n, u>>]
          /\ \A e \in Client, z \in Schedule :
               /\ Evaluating(e, z)' <=> Evaluating(e, z)
               /\ Evaluating(e, z) => e = c /\ z = target[c]
          /\ UNCHANGED <<row, patches, restarts, mark>>
    BY <1>9, StartCounts
  <2>2. due'[c] = due[c] \ {t} /\ Evaluating(c, target[c]) /\ target[c] \in Schedule
    BY <1>9, <2>1 DEF TypeOK, Start, Evaluating, HoldInv
  <2> SUFFICES ASSUME restarts = 0, NEW z \in Schedule, Undisturbed(z) PROVE OnlyBehind(z)'
    BY <2>1 DEF FiredInv, Undisturbed
  <2> SUFFICES ASSUME NEW k \in Config, NEW n \in 0..MaxPatches, NEW u \in 1..Horizon
               PROVE  /\ runs'[z][<<k, n, u>>] <= 1
                      /\ runs'[z][<<k, n, u>>] > 0 =>
                           /\ k = row[z].config /\ n = 0
                           /\ \/ u <= row[z].fired
                              \/ \E e \in Client :
                                   Evaluating(e, z) /\ u <= mark[e] /\ u \notin due'[e]
    BY <2>1 DEF OnlyBehind
  <2>3. /\ runs[z][<<k, n, u>>] <= 1
        /\ runs[z][<<k, n, u>>] > 0 =>
             /\ k = row[z].config /\ n = 0
             /\ \/ u <= row[z].fired
                \/ z = target[c] /\ u <= mark[c] /\ u \notin due[c]
    BY <2>1 DEF FiredInv, OnlyBehind
  <2>4. runs[z][<<k, n, u>>] \in Nat
    BY DEF TypeOK, Occurrence
  <2>5. CASE z = target[c] /\ k = held[c].config /\ n = held[c].series /\ u = t
    <3>1. /\ k = row[z].config /\ n = 0 /\ row[z].fired < t /\ t <= mark[c]
          /\ row[z].fired \in Nat
      BY <2>2, <2>5 DEF StartInv, TypeOK, Row, Time
    <3>2. runs[z][<<k, n, u>>] = 0
      BY <2>3, <2>4, <2>5, <3>1
    <3> QED BY <2>1, <2>2, <2>5, <3>1, <3>2
  <2>6. CASE ~(z = target[c] /\ k = held[c].config /\ n = held[c].series /\ u = t)
    <3>1. runs'[z][<<k, n, u>>] = runs[z][<<k, n, u>>]
      BY <2>1, <2>6
    <3> QED BY <2>2, <2>3, <3>1
  <2> QED BY <2>5, <2>6
<1>10. ASSUME NEW c \in Client, StartFails(c) PROVE FiredInv'
  <2>1. \A e \in Client, z \in Schedule : Evaluating(e, z)' <=> Evaluating(e, z)
    BY <1>10 DEF StartFails, Evaluating
  <2>2. \A e \in Client : due'[e] \subseteq due[e]
    BY <1>10 DEF TypeOK, StartFails
  <2>3. UNCHANGED <<row, runs, patches, restarts, mark>>
    BY <1>10 DEF StartFails
  <2> QED BY <1>fired, <2>1, <2>2, <2>3, StaysBehind DEF FiredInv, Undisturbed
<1>11. ASSUME NEW c \in Client, Mark(c) PROVE FiredInv'
  <2>1. \A e \in Client, z \in Schedule : Evaluating(e, z) => e = c /\ z = target[c]
    BY <1>11 DEF MutexInv, Mark, Evaluating
  <2>2. \A z \in Schedule : z # target[c] /\ Undisturbed(z)' => Undisturbed(z) /\ row'[z] = row[z]
    BY <1>11, RowKept
  <2>3. target[c] \in Schedule /\ Evaluating(c, target[c])
    BY <1>11 DEF Mark, HoldInv, Evaluating
  <2>4. ASSUME NEW z \in Schedule, z = target[c], Undisturbed(z)'
        PROVE  Undisturbed(z) /\ row'[z].config = row[z].config /\ row'[z].fired = mark[c]
    BY <1>11, <2>4, MarkWrites
  <2>5. row[target[c]].fired < mark[c] \/ ~Undisturbed(target[c])
    BY <2>3 DEF StartInv
  <2>6. UNCHANGED <<runs, restarts>>
    BY <1>11 DEF Mark, counters
  <2>7. \A z \in Schedule : row[z].fired \in Nat /\ row'[z].fired \in Nat /\ mark[c] \in Nat
    BY <1>11 DEF TypeOK, Mark, Row, Time, Live
  <2>8. \A z \in Schedule : z # target[c] /\ row'[z] = row[z] /\ OnlyBehind(z) => OnlyBehind(z)'
    BY <2>1, <2>6, <2>7, StaysBehind
  <2>9. ASSUME NEW z \in Schedule, z = target[c], OnlyBehind(z), Undisturbed(z),
               row'[z].config = row[z].config, row'[z].fired = mark[c]
        PROVE  OnlyBehind(z)'
    <3>1. row[z].fired < mark[c]
      BY <2>5, <2>9
    <3> SUFFICES ASSUME NEW k \in Config, NEW n \in 0..MaxPatches, NEW t \in 1..Horizon
                 PROVE  /\ runs'[z][<<k, n, t>>] <= 1
                        /\ runs'[z][<<k, n, t>>] > 0 =>
                             k = row'[z].config /\ n = 0 /\ t <= row'[z].fired
      BY DEF OnlyBehind
    <3>2. /\ runs[z][<<k, n, t>>] <= 1
          /\ runs[z][<<k, n, t>>] > 0 =>
               k = row[z].config /\ n = 0 /\ (t <= row[z].fired \/ t <= mark[c])
      BY <2>1, <2>9 DEF OnlyBehind
    <3>3. t \in Nat
      BY Bounds
    <3> QED BY <2>6, <2>7, <2>9, <3>1, <3>2, <3>3
  <2> QED BY <2>2, <2>4, <2>6, <2>8, <2>9 DEF FiredInv
<1>12. ASSUME NEW c \in Client, Finish(c) PROVE FiredInv'
  <2>1. /\ UNCHANGED <<row, runs, patches, restarts, due, mark>>
        /\ \A e \in Client, z \in Schedule : Evaluating(e, z)' <=> Evaluating(e, z)
    BY <1>12, Elsewhere
  <2> QED BY <2>1, <1>fired, StaysBehind DEF FiredInv, Undisturbed
<1>13. CASE MoveClock
  <2>1. /\ UNCHANGED <<row, runs, patches, restarts, due, mark>>
        /\ \A e \in Client, z \in Schedule : Evaluating(e, z)' <=> Evaluating(e, z)
    BY <1>13 DEF MoveClock, Evaluating
  <2> QED BY <2>1, <1>fired, StaysBehind DEF FiredInv, Undisturbed
<1>14. CASE Restart
  <2>1. restarts' # 0
    BY <1>14 DEF Restart, TypeOK
  <2> QED BY <2>1 DEF FiredInv
<1>15. CASE UNCHANGED vars
  <2>1. /\ UNCHANGED <<row, runs, patches, restarts, due, mark>>
        /\ \A e \in Client, z \in Schedule : Evaluating(e, z)' <=> Evaluating(e, z)
    BY <1>15 DEF vars, Evaluating
  <2> QED BY <2>1, <1>fired, StaysBehind DEF FiredInv, Undisturbed
<1> QED
  BY <1>1, <1>2, <1>3, <1>4, <1>5, <1>6, <1>7, <1>8, <1>9, <1>10, <1>11, <1>12, <1>13, <1>14,
     <1>15 DEF Next, EvaluationStep

-----------------------------------------------------------------------------
\* Adding occurrences to a set takes none away from those after t.
LEMMA MoreNewer ==
  ASSUME SchedulesAssumption, NEW S \in SUBSET Time, NEW T \in SUBSET S, NEW t,
         Cardinality(Newer(T, t)) >= MaxPerTick
  PROVE  Cardinality(Newer(S, t)) >= MaxPerTick
<1>1. Newer(S, t) \in SUBSET Time /\ Newer(T, t) \in SUBSET Newer(S, t)
  BY DEF Newer
<1>2. /\ Cardinality(Newer(S, t)) \in Nat /\ Cardinality(Newer(T, t)) \in Nat
      /\ Cardinality(Newer(T, t)) <= Cardinality(Newer(S, t))
  BY <1>1, Seconds
<1> QED BY <1>2, Bounds

\* The occurrences of a schedule that have started are seconds.
LEMMA RanTyped ==
  ASSUME SchedulesAssumption, TypeOK, NEW s \in Schedule
  PROVE  /\ Occurs[row[s].config] \in SUBSET Time /\ Ran(s) \in SUBSET Time
         /\ \A c \in Client : Ran(s) \cup due[c] \in SUBSET Time
         /\ row[s].fired \in Nat /\ row[s].config \in Config
<1>1. row[s].config \in Config /\ row[s].fired \in Nat
  BY DEF TypeOK, Row, Time
<1>2. Occurs[row[s].config] \in SUBSET Time
  BY <1>1, Bounds DEF Time
<1>3. Ran(s) \in SUBSET Time
  BY <1>2 DEF Ran
<1>4. \A c \in Client : due[c] \in SUBSET Time
  BY DEF TypeOK
<1> QED BY <1>1, <1>2, <1>3, <1>4

\* A step that starts nothing of s, marks nothing and begins no evaluation of it
\* leaves nothing missed.
LEMMA StaysComplete ==
  ASSUME NEW s \in Schedule, NoneMissed(s),
         UNCHANGED <<runs[s], row[s]>>,
         \A e \in Client : Evaluating(e, s)' =>
           Evaluating(e, s) /\ mark'[e] = mark[e] /\ due'[e] = due[e]
  PROVE  NoneMissed(s)'
<1>1. row'[s] = row[s] /\ runs'[s] = runs[s]
  OBVIOUS
<1>2. Ran(s)' = Ran(s)
  BY <1>1 DEF Ran
<1>3. \A t \in Occurs[row'[s].config] \ Ran(s)' :
        t <= row'[s].fired => Cardinality(Newer(Ran(s)', t)) >= MaxPerTick
  BY <1>1, <1>2 DEF NoneMissed
<1>4. \A e \in Client : Evaluating(e, s)' =>
        \A t \in Occurs[row'[s].config] \ (Ran(s)' \cup due'[e]) :
          t <= mark'[e] => Cardinality(Newer(Ran(s)' \cup due'[e], t)) >= MaxPerTick
  BY <1>1, <1>2 DEF NoneMissed
<1> QED BY <1>3, <1>4 DEF NoneMissed, Newer

\* What is missed: a window holds every occurrence after the mark, or the newest of them.
LEMMA NextSkipped ==
  ASSUME SchedulesAssumption, TypeOK, MutexInv, HoldInv, RowsInv, ListInv, StartInv, SkippedInv, [Next]_vars
  PROVE  SkippedInv'
<1> USE Bounds DEF tickVars, clientVars, counters
<1>1. ASSUME NEW c \in Client, NEW s \in Schedule, Create(c, s) PROVE SkippedInv'
  <2>1. /\ UNCHANGED <<row, runs, patches, errors, due, mark>>
        /\ \A e \in Client, z \in Schedule : Evaluating(e, z)' <=> Evaluating(e, z)
    BY <1>1, Elsewhere
  <2> QED BY <2>1, StaysComplete DEF SkippedInv, Undisturbed
<1>2. ASSUME NEW c \in Client, NEW s \in Schedule, PatchRead(c, s) PROVE SkippedInv'
  <2>1. /\ UNCHANGED <<row, runs, patches, errors, due, mark>>
        /\ \A e \in Client, z \in Schedule : Evaluating(e, z)' <=> Evaluating(e, z)
    BY <1>2, Elsewhere
  <2> QED BY <2>1, StaysComplete DEF SkippedInv, Undisturbed
<1>3. ASSUME NEW c \in Client, NEW s \in Schedule, Delete(c, s) PROVE SkippedInv'
  <2>1. \A z \in Schedule : Undisturbed(z)' => Undisturbed(z) /\ row'[z] = row[z]
    BY <1>3, RowKept
  <2>2. /\ UNCHANGED <<runs, errors, due, mark>>
        /\ \A e \in Client, z \in Schedule : Evaluating(e, z)' <=> Evaluating(e, z)
    BY <1>3 DEF Delete, tickVars, clientVars, counters, Evaluating
  <2> QED BY <2>1, <2>2, StaysComplete DEF SkippedInv
<1>4. ASSUME NEW c \in Client, CreateInsert(c) PROVE SkippedInv'
  <2>1. \A e \in Client, z \in Schedule : Evaluating(e, z)' => Evaluating(e, z) /\ z # target[c]
    BY <1>4 DEF TypeOK, HoldInv, RowsInv, CreateInsert, Evaluating
  <2>2. \A z \in Schedule : z # target[c] /\ Undisturbed(z)' => Undisturbed(z) /\ row'[z] = row[z]
    BY <1>4, RowKept
  <2>3. UNCHANGED <<runs, due, mark, errors>>
    BY <1>4 DEF CreateInsert, tickVars, counters
  <2>4. \A z \in Schedule : z # target[c] /\ row'[z] = row[z] /\ NoneMissed(z) => NoneMissed(z)'
    BY <2>1, <2>3, StaysComplete
  <2>5. ASSUME NEW z \in Schedule, z = target[c] PROVE NoneMissed(z)'
    <3>1. row'[z].fired = 0 /\ row'[z].config \in Config
      BY <1>4, <2>5 DEF TypeOK, CreateInsert, HoldInv, Row
    <3>2. \A t \in Occurs[row'[z].config] : ~(t <= 0)
      BY <3>1, Bounds
    <3> QED BY <2>1, <2>5, <3>1, <3>2 DEF NoneMissed
  <2> QED BY <2>2, <2>3, <2>4, <2>5 DEF SkippedInv
<1>5. ASSUME NEW c \in Client, PatchWrite(c) PROVE SkippedInv'
  <2>1. \A e \in Client, z \in Schedule : Evaluating(e, z)' => Evaluating(e, z)
    BY <1>5 DEF TypeOK, PatchWrite, Evaluating
  <2>2. \A z \in Schedule : Undisturbed(z)' => Undisturbed(z) /\ row'[z] = row[z]
    BY <1>5, RowKept
  <2>3. UNCHANGED <<runs, due, mark, errors>>
    BY <1>5 DEF PatchWrite, tickVars
  <2> QED BY <2>1, <2>2, <2>3, StaysComplete DEF SkippedInv
<1>6. ASSUME NEW c \in Client, ListEnabled(c) PROVE SkippedInv'
  <2>1. /\ UNCHANGED <<row, runs, patches, errors, due, mark>>
        /\ \A e \in Client, z \in Schedule : Evaluating(e, z)' <=> Evaluating(e, z)
    BY <1>6, Elsewhere
  <2> QED BY <2>1, StaysComplete DEF SkippedInv, Undisturbed
<1>7. ASSUME NEW c \in Client, Lock(c) PROVE SkippedInv'
  <2>1. /\ UNCHANGED <<row, runs, patches, errors, due, mark>>
        /\ \A e \in Client, z \in Schedule : Evaluating(e, z)' <=> Evaluating(e, z)
    BY <1>7, Elsewhere
  <2> QED BY <2>1, StaysComplete DEF SkippedInv, Undisturbed
<1>8. ASSUME NEW c \in Client, Evaluate(c) PROVE SkippedInv'
  <2>1. /\ \A e \in Client, z \in Schedule : ~Evaluating(e, z)
        /\ UNCHANGED <<row, runs, patches, errors>>
    BY <1>8, EvaluateOpens
  <2>2. SUFFICES ASSUME errors = 0, NEW z \in Schedule, Undisturbed(z), NoneMissed(z)
                 PROVE  NoneMissed(z)'
    BY <2>1 DEF SkippedInv, Undisturbed
  <2>3. CASE \A e \in Client : ~Evaluating(e, z)'
    BY <2>1, <2>2, <2>3, StaysComplete
  <2>4. CASE \E e \in Client : Evaluating(e, z)'
    <3>1. /\ \A e \in Client : Evaluating(e, z)' => e = c
          /\ due'[c] = Window(row[z].config, row[z].fired, at[c])
          /\ due'[c] # {} /\ mark'[c] = Newest(due'[c])
      BY <1>8, <2>2, <2>4, EvaluateOpens
    <3>2. /\ Occurs[row[z].config] \in SUBSET Time /\ Ran(z) \in SUBSET Time
          /\ row[z].fired \in Nat /\ row[z].config \in Config /\ row[z].fired \in Time
          /\ at[c] \in Time
      BY RanTyped DEF TypeOK, Row
    <3>3. due'[c] \in SUBSET Time
      BY <3>1, <3>2 DEF Window
    <3>4. mark'[c] \in Time /\ mark'[c] <= at[c]
      <4>1. mark'[c] \in due'[c]
        BY <3>1, <3>3, NewestOf
      <4> QED BY <3>1, <3>3, <4>1 DEF Window
    <3>5. Ran(z)' = Ran(z) /\ row' = row
      BY <2>1 DEF Ran
    <3>6. ASSUME NEW t \in Occurs[row[z].config] \ (Ran(z) \cup due'[c]), t <= mark'[c]
          PROVE  Cardinality(Newer(Ran(z) \cup due'[c], t)) >= MaxPerTick
      <4>1. t \in Nat /\ t <= at[c] /\ Ran(z) \cup due'[c] \in SUBSET Time
        BY <3>2, <3>3, <3>4, <3>6, Bounds DEF Time
      <4>2. CASE t <= row[z].fired
        <5>1. Cardinality(Newer(Ran(z), t)) >= MaxPerTick
          BY <2>2, <3>6, <4>2 DEF NoneMissed
        <5> QED BY <4>1, <5>1, MoreNewer
      <4>3. CASE row[z].fired < t
        <5>1. Cardinality(Newer(due'[c], t)) >= MaxPerTick
          BY <3>1, <3>2, <3>6, <4>1, <4>3, WindowKeepsNewest
        <5> QED BY <4>1, <5>1, MoreNewer
      <4> QED BY <3>2, <4>1, <4>2, <4>3
    <3>7. \A t \in Occurs[row[z].config] \ Ran(z) :
            t <= row[z].fired => Cardinality(Newer(Ran(z), t)) >= MaxPerTick
      BY <2>2 DEF NoneMissed
    <3> HIDE DEF Ran, Newer
    <3> QED BY <3>1, <3>5, <3>6, <3>7 DEF NoneMissed
  <2> QED BY <2>3, <2>4
<1>9. ASSUME NEW c \in Client, Start(c) PROVE SkippedInv'
  <2>1. PICK t \in due[c] :
          /\ due' = [due EXCEPT ![c] = @ \ {t}]
          /\ \A z \in Schedule, k \in Config, n \in 0..MaxPatches, u \in 1..Horizon :
               runs'[z][<<k, n, u>>] =
                 IF z = target[c] /\ k = held[c].config /\ n = held[c].series /\ u = t
                 THEN runs[z][<<k, n, u>>] + 1 ELSE runs[z][<<k, n, u>>]
          /\ \A e \in Client, z \in Schedule :
               /\ Evaluating(e, z)' <=> Evaluating(e, z)
               /\ Evaluating(e, z) => e = c /\ z = target[c]
          /\ UNCHANGED <<row, patches, errors, mark>>
    BY <1>9, StartCounts
  <2>2. due'[c] = due[c] \ {t} /\ Evaluating(c, target[c]) /\ target[c] \in Schedule
    BY <1>9, <2>1 DEF TypeOK, Start, Evaluating, HoldInv
  <2>3. SUFFICES ASSUME errors = 0, NEW z \in Schedule, Undisturbed(z), NoneMissed(z)
                 PROVE  NoneMissed(z)'
    BY <2>1 DEF SkippedInv, Undisturbed
  <2> DEFINE k == row[z].config
  <2>4. k \in Config /\ Occurs[k] \subseteq 1..Horizon /\ 0 \in 0..MaxPatches
    BY RanTyped, Bounds
  <2>5. \A u \in Occurs[k] : runs[z][<<k, 0, u>>] \in Nat
    BY <2>4 DEF TypeOK, Occurrence
  <2>6. Ran(z)' = {u \in Occurs[k] : runs'[z][<<k, 0, u>>] > 0}
    BY <2>1 DEF Ran
  <2>7. z = target[c] => /\ held[c].config = k /\ held[c].series = 0 /\ due[c] \subseteq Occurs[k]
    BY <2>2, <2>3 DEF StartInv
  <2>8. Ran(z) \subseteq Ran(z)' /\ Ran(z)' \subseteq Ran(z) \cup {t}
    <3> SUFFICES ASSUME NEW u \in Occurs[k]
                 PROVE  /\ runs[z][<<k, 0, u>>] > 0 => runs'[z][<<k, 0, u>>] > 0
                        /\ runs'[z][<<k, 0, u>>] > 0 => runs[z][<<k, 0, u>>] > 0 \/ u = t
      BY <2>6 DEF Ran
    <3> QED BY <2>1, <2>4, <2>5
  <2>9. z = target[c] => t \in Ran(z)'
    BY <2>1, <2>4, <2>5, <2>6, <2>7
  <2>10. z = target[c] => Ran(z)' \cup due'[c] = Ran(z) \cup due[c]
    BY <2>2, <2>8, <2>9
  <2>11. Ran(z)' \in SUBSET Time
    BY <2>4, <2>6, Bounds DEF Time
  <2>12. ASSUME NEW u \in Occurs[k] \ Ran(z)', u <= row[z].fired
         PROVE  Cardinality(Newer(Ran(z)', u)) >= MaxPerTick
    <3>1. Cardinality(Newer(Ran(z), u)) >= MaxPerTick
      BY <2>3, <2>8, <2>12 DEF NoneMissed
    <3> QED BY <2>8, <2>11, <3>1, MoreNewer
  <2>13. ASSUME NEW e \in Client, Evaluating(e, z),
                NEW u \in Occurs[k] \ (Ran(z)' \cup due'[e]), u <= mark[e]
         PROVE  Cardinality(Newer(Ran(z)' \cup due'[e], u)) >= MaxPerTick
    <3>1. e = c /\ z = target[c]
      BY <2>1, <2>13
    <3>2. Ran(z)' \cup due'[e] = Ran(z) \cup due[e]
      BY <2>10, <3>1
    <3>3. Cardinality(Newer(Ran(z) \cup due[e], u)) >= MaxPerTick
      BY <2>3, <2>13, <3>2 DEF NoneMissed
    <3> QED BY <3>2, <3>3
  <2>14. row' = row /\ mark' = mark /\ \A e \in Client : Evaluating(e, z)' <=> Evaluating(e, z)
    BY <2>1
  <2> HIDE DEF k, Ran, Newer
  <2> QED BY <2>12, <2>13, <2>14 DEF NoneMissed, k
<1>10. ASSUME NEW c \in Client, StartFails(c) PROVE SkippedInv'
  <2>1. errors' # 0
    BY <1>10 DEF TypeOK, StartFails
  <2> QED BY <2>1 DEF SkippedInv
<1>11. ASSUME NEW c \in Client, Mark(c) PROVE SkippedInv'
  <2>1. \A e \in Client, z \in Schedule : ~Evaluating(e, z)'
    BY <1>11 DEF TypeOK, MutexInv, Mark, Evaluating
  <2>2. \A z \in Schedule : z # target[c] /\ Undisturbed(z)' => Undisturbed(z) /\ row'[z] = row[z]
    BY <1>11, RowKept
  <2>3. target[c] \in Schedule /\ Evaluating(c, target[c]) /\ due[c] = {}
    BY <1>11 DEF Mark, HoldInv, Evaluating
  <2>4. UNCHANGED <<runs, errors>>
    BY <1>11 DEF Mark, counters
  <2>5. \A z \in Schedule : z # target[c] /\ row'[z] = row[z] /\ NoneMissed(z) => NoneMissed(z)'
    BY <2>1, <2>4, StaysComplete
  <2>6. ASSUME NEW z \in Schedule, z = target[c], Undisturbed(z)'
        PROVE  Undisturbed(z) /\ row'[z].config = row[z].config /\ row'[z].fired = mark[c]
    BY <1>11, <2>6, MarkWrites
  <2>7. ASSUME NEW z \in Schedule, z = target[c], NoneMissed(z),
               row'[z].config = row[z].config, row'[z].fired = mark[c]
        PROVE  NoneMissed(z)'
    <3>1. Ran(z)' = Ran(z)
      BY <2>4, <2>7 DEF Ran
    <3>2. Ran(z) \cup due[c] = Ran(z)
      BY <2>3
    <3>3. \A t \in Occurs[row[z].config] \ Ran(z) :
            t <= mark[c] => Cardinality(Newer(Ran(z), t)) >= MaxPerTick
      BY <2>3, <2>7, <3>2 DEF NoneMissed
    <3> QED BY <2>1, <2>7, <3>1, <3>3 DEF NoneMissed
  <2> QED BY <2>2, <2>4, <2>5, <2>6, <2>7 DEF SkippedInv
<1>12. ASSUME NEW c \in Client, Finish(c) PROVE SkippedInv'
  <2>1. /\ UNCHANGED <<row, runs, patches, errors, due, mark>>
        /\ \A e \in Client, z \in Schedule : Evaluating(e, z)' <=> Evaluating(e, z)
    BY <1>12, Elsewhere
  <2> QED BY <2>1, StaysComplete DEF SkippedInv, Undisturbed
<1>13. CASE MoveClock
  <2>1. /\ UNCHANGED <<row, runs, patches, errors, due, mark>>
        /\ \A e \in Client, z \in Schedule : Evaluating(e, z)' <=> Evaluating(e, z)
    BY <1>13 DEF MoveClock, Evaluating
  <2> QED BY <2>1, StaysComplete DEF SkippedInv, Undisturbed
<1>14. CASE Restart
  <2>1. /\ UNCHANGED <<row, runs, patches, errors>>
        /\ \A e \in Client, z \in Schedule : ~Evaluating(e, z)'
    BY <1>14 DEF Restart, Evaluating
  <2> QED BY <2>1, StaysComplete DEF SkippedInv, Undisturbed
<1>15. CASE UNCHANGED vars
  <2>1. /\ UNCHANGED <<row, runs, patches, errors, due, mark>>
        /\ \A e \in Client, z \in Schedule : Evaluating(e, z)' <=> Evaluating(e, z)
    BY <1>15 DEF vars, Evaluating
  <2> QED BY <2>1, StaysComplete DEF SkippedInv, Undisturbed
<1> QED
  BY <1>1, <1>2, <1>3, <1>4, <1>5, <1>6, <1>7, <1>8, <1>9, <1>10, <1>11, <1>12, <1>13, <1>14,
     <1>15 DEF Next, EvaluationStep

-----------------------------------------------------------------------------
\* The inductive invariant.
IInv == TypeOK /\ MutexInv /\ HoldInv /\ RowsInv /\ ListInv /\ StartInv

\* It holds at first, when no schedule exists and no client does anything.
LEMMA InitInv ==
  ASSUME SchedulesAssumption, Init
  PROVE  IInv /\ FiredInv /\ SkippedInv
<1>1. TypeOK
  BY InitTyped
<1>2. /\ \A s \in Schedule : row[s].status = "absent" /\ row[s].fired = 0 /\ row[s].series = 0
      /\ \A s \in Schedule : patches[s] = 0 /\ row[s] \in Row
      /\ \A s \in Schedule, k \in Config, n \in 0..MaxPatches, t \in 1..Horizon :
           runs[s][<<k, n, t>>] = 0
      /\ \A c \in Client : cpc[c] = "idle" /\ target[c] = Nobody /\ list[c] = {}
      /\ tickMu = Nobody
  <2>1. \A s \in Schedule : row[s].status = "absent" /\ row[s].fired = 0 /\ row[s].series = 0
    BY DEF Init
  <2>2. \A s \in Schedule : patches[s] = 0 /\ row[s] \in Row
    BY <1>1 DEF Init, TypeOK
  <2>3. \A s \in Schedule, k \in Config, n \in 0..MaxPatches, t \in 1..Horizon :
          runs[s][<<k, n, t>>] = 0
    BY DEF Init, Occurrence
  <2>4. \A c \in Client : cpc[c] = "idle" /\ target[c] = Nobody /\ list[c] = {}
    BY DEF Init
  <2> QED BY <2>1, <2>2, <2>3, <2>4 DEF Init
<1>3. MutexInv /\ HoldInv /\ RowsInv /\ ListInv /\ StartInv
  BY <1>2, Bounds DEF MutexInv, HoldInv, RowsInv, ListInv, StartInv, Evaluating
<1>4. FiredInv
  <2>1. \A s \in Schedule, k \in Config, n \in 0..MaxPatches, t \in 1..Horizon :
          runs[s][<<k, n, t>>] <= 1 /\ ~(runs[s][<<k, n, t>>] > 0)
    <3> TAKE s \in Schedule, k \in Config, n \in 0..MaxPatches, t \in 1..Horizon
    <3>1. runs[s][<<k, n, t>>] = 0
      BY <1>2
    <3> QED BY <3>1
  <2> QED BY <2>1 DEF FiredInv, OnlyBehind
<1>5. SkippedInv
  <2> SUFFICES ASSUME NEW s \in Schedule PROVE NoneMissed(s)
    BY DEF SkippedInv
  <2>1. \A t \in Occurs[row[s].config] : ~(t <= row[s].fired)
    BY <1>2, Bounds DEF Row
  <2> QED BY <1>2, <2>1 DEF NoneMissed, Evaluating
<1> QED BY <1>1, <1>3, <1>4, <1>5 DEF IInv

\* And every step keeps it.
LEMMA NextInv ==
  ASSUME SchedulesAssumption, IInv, [Next]_vars
  PROVE  /\ IInv'
         /\ FiredInv => FiredInv'
         /\ SkippedInv => SkippedInv'
<1>1. TypeOK' /\ MutexInv' /\ HoldInv' /\ RowsInv' /\ ListInv' /\ StartInv'
  BY NextTyped, NextMutex, NextHold, NextRows, NextList, NextStart DEF IInv
<1>2. FiredInv => FiredInv'
  BY NextFired DEF IInv
<1>3. SkippedInv => SkippedInv'
  BY NextSkipped DEF IInv
<1> QED BY <1>1, <1>2, <1>3 DEF IInv

\* Whatever the clients, the calendars and the crashes, the state stays well typed.
THEOREM TypeCorrect ==
  ASSUME SchedulesAssumption
  PROVE  Spec => []TypeOK
<1>1. Init => IInv
  BY InitInv
<1>2. IInv /\ [Next]_vars => IInv'
  BY NextInv
<1>3. IInv => TypeOK
  BY DEF IInv
<1> QED BY <1>1, <1>2, <1>3, PTL DEF Spec

\* However many evaluations of a schedule overlap (schedules.go, fireDue under
\* tickMu), no occurrence of it starts two jobs, unless the process restarts.
THEOREM FiresOnce ==
  ASSUME SchedulesAssumption
  PROVE  Spec => []FiredOnce
<1>1. Init => IInv /\ FiredInv
  BY InitInv
<1>2. IInv /\ FiredInv /\ [Next]_vars => IInv' /\ FiredInv'
  BY NextInv
<1>3. IInv /\ FiredInv => FiredOnce
  BY DEF FiredInv, OnlyBehind, FiredOnce, Occurrence
<1> QED BY <1>1, <1>2, <1>3, PTL DEF Spec

\* Whatever the mark of a schedule has passed was started, or was overtaken by
\* MaxPerTick newer occurrences that were (schedules.go: "nothing is missed"),
\* through any number of restarts and any movement of the clock.
THEOREM NoneSkipped ==
  ASSUME SchedulesAssumption
  PROVE  Spec => []NothingSkipped
<1>1. Init => IInv /\ SkippedInv
  BY InitInv
<1>2. IInv /\ SkippedInv /\ [Next]_vars => IInv' /\ SkippedInv'
  BY NextInv
<1>3. IInv /\ SkippedInv => NothingSkipped
  BY DEF SkippedInv, NoneMissed, NothingSkipped, Ran, Newer
<1> QED BY <1>1, <1>2, <1>3, PTL DEF Spec

=============================================================================
