---------------------------- MODULE TableHistory ----------------------------
(* The version history of warehouse tables (internal/warehouse/versioning.go,  *)
(* internal/server/warehouseversioning.go). The tables live in a SQL engine;   *)
(* after each statement the engine accepted, the connection that relayed it    *)
(* reads the table back and commits it to a Delta log under Tables/<name>,     *)
(* moves or deletes that folder, and lets old data files expire. Only the      *)
(* folders are guarded by versionMu: statements of other connections run in    *)
(* between. A statement is one flow; contents are the number of the statement  *)
(* that wrote them, and so are table objects.                                  *)
EXTENDS Integers, Sequences

CONSTANTS
  Name,           \* table names
  Session,        \* connections of the TDS front
  Nobody,
  Retention,      \* the window, in seconds (warehouse-retention-days)
  MaxTime,        \* bound on the clock
  MaxStatements,  \* bound on statements
  MaxCrashes      \* bound on crashes of the emulator

HistoryAssumption ==
  /\ Nobody \notin Session
  /\ {Retention, MaxTime, MaxStatements, MaxCrashes} \subseteq Nat

VARIABLES
  now,        \* the emulator's clock, in seconds
  table,      \* the engine's tables: NoTable, or [obj, rows, big]
  log,        \* the commits under Tables/<name>/_delta_log, oldest first
  data,       \* the data files under Tables/<name>: what each holds
  versionMu,  \* the session that holds it, or Nobody
  pc, flow,   \* where a session is, and the statement it was last sent
  snap,       \* the contents it read back
  executed, crashes,
  torn,       \* names whose statements overlapped, or whose DROP or rename went unobserved
  gap         \* names whose last write was not versioned

vars == <<now, table, log, data, versionMu, pc, flow, snap, executed, crashes, torn, gap>>
engine == <<table, executed>>
folders == <<log, data>>
clock == <<now, crashes>>

NoTable == [obj |-> 0, rows |-> 0, big |-> FALSE]
NoFile == [f \in {} |-> NoTable]
NoFlow == [kind |-> "none", name |-> CHOOSE n \in Name : TRUE, to |-> CHOOSE n \in Name : TRUE]

Init ==
  /\ now = 1
  /\ table = [n \in Name |-> NoTable]
  /\ log = [n \in Name |-> <<>>]
  /\ data = [n \in Name |-> NoFile]
  /\ versionMu = Nobody
  /\ pc = [s \in Session |-> "idle"]
  /\ flow = [s \in Session |-> NoFlow]
  /\ snap = [s \in Session |-> NoTable]
  /\ executed = 0 /\ crashes = 0
  /\ torn = {} /\ gap = {}

-----------------------------------------------------------------------------
(* Delta's log.                                                              *)

\* The files live after the first k commits: what replayCommits returns.
Live(commits, k) ==
  LET live[i \in 0 .. k] ==
        IF i = 0 THEN {} ELSE (live[i - 1] \cup commits[i].adds) \ commits[i].removes
  IN live[k]

\* The commits a reader applies for an instant: up to the first made after it.
AppliedAt(commits, t) ==
  CHOOSE k \in 0 .. Len(commits) :
    /\ \A i \in 1 .. k : commits[i].at <= t
    /\ k < Len(commits) => commits[k + 1].at > t

\* The oldest instant a query may name.
RetentionCutoff == now - Retention

-----------------------------------------------------------------------------
(* Statements. Which of them overlap is recorded in torn.                    *)

Touched(f) == IF f.kind = "rename" THEN {f.name, f.to} ELSE {f.name}
Pending(n) == \E s \in Session : pc[s] # "idle" /\ n \in Touched(flow[s])

Overlapped(f) ==
  LET others == {s \in Session : pc[s] # "idle" /\ Touched(flow[s]) \cap Touched(f) # {}}
  IN IF others = {} THEN {} ELSE Touched(f) \cup UNION {Touched(flow[s]) : s \in others}

\* The engine accepts a statement; the connection has its answer.
Execute(s, f, tables) ==
  /\ pc[s] = "idle" /\ executed < MaxStatements
  /\ executed' = executed + 1
  /\ table' = tables
  /\ flow' = [flow EXCEPT ![s] = f]
  /\ pc' = [pc EXCEPT ![s] = "accepted"]
  /\ torn' = torn \cup Overlapped(f) \cup (IF Touched(f) \cap torn # {} THEN Touched(f) ELSE {})
  /\ gap' = IF f.kind = "rename"
            THEN (gap \ {f.name}) \cup (IF f.name \in gap THEN {f.to} ELSE {}) ELSE gap
  /\ UNCHANGED <<clock, folders, versionMu, snap>>

\* CREATE TABLE, CTAS, INSERT, UPDATE, TRUNCATE ...: the table has new contents,
\* few enough rows to be versioned or not.
Write(s, n, big) ==
  LET obj == IF table[n] = NoTable THEN executed + 1 ELSE table[n].obj
  IN Execute(s, [kind |-> "write", name |-> n, to |-> n],
             [table EXCEPT ![n] = [obj |-> obj, rows |-> executed + 1, big |-> big]])

DropTable(s, n) ==
  /\ table[n] # NoTable
  /\ Execute(s, [kind |-> "drop", name |-> n, to |-> n], [table EXCEPT ![n] = NoTable])

SpRename(s, n, to) ==
  /\ table[n] # NoTable /\ table[to] = NoTable
  /\ Execute(s, [kind |-> "rename", name |-> n, to |-> to],
             [table EXCEPT ![n] = NoTable, ![to] = table[n]])

\* The connection's next request can come.
Done(s) ==
  /\ pc' = [pc EXCEPT ![s] = "idle"]
  /\ flow' = [flow EXCEPT ![s] = NoFlow]
  /\ snap' = [snap EXCEPT ![s] = NoTable]

\* ... without (more of) its observer.
Forget(s) ==
  /\ Done(s)
  /\ IF flow[s].kind = "write" THEN gap' = gap \cup {flow[s].name} /\ UNCHANGED torn
     ELSE torn' = torn \cup Touched(flow[s]) /\ UNCHANGED gap

\* The client was gone when its answer came: the observer is not called.
Unobserved(s) ==
  /\ pc[s] = "accepted"
  /\ Forget(s)
  /\ UNCHANGED <<clock, engine, folders, versionMu>>

-----------------------------------------------------------------------------
(* The observer.                                                             *)

\* SnapshotTable reads the table, without the lock; it skips one that is gone
\* or too large.
Snapshot(s) ==
  LET n == flow[s].name
  IN /\ pc[s] = "accepted" /\ flow[s].kind = "write"
     /\ IF table[n] = NoTable \/ table[n].big
        THEN Forget(s)
        ELSE /\ snap' = [snap EXCEPT ![s] = table[n]]
             /\ pc' = [pc EXCEPT ![s] = "commit"]
             /\ UNCHANGED <<flow, torn, gap>>
     /\ UNCHANGED <<clock, engine, folders, versionMu>>

\* commitVersion: the lock, the next version, and its data file.
PutData(s) ==
  LET n == flow[s].name  version == Len(log[n])
  IN /\ pc[s] = "commit" /\ versionMu = Nobody
     /\ versionMu' = s
     /\ data' = [data EXCEPT ![n] =
          [f \in DOMAIN @ \cup {version} |-> IF f = version THEN snap[s] ELSE @[f]]]
     /\ pc' = [pc EXCEPT ![s] = "data"]
     /\ UNCHANGED <<clock, engine, log, flow, snap, torn, gap>>

\* ... and its commit, stamped now, which removes every earlier file.
PutCommit(s) ==
  LET n == flow[s].name  version == Len(log[n])
  IN /\ pc[s] = "data"
     /\ log' = [log EXCEPT ![n] = Append(@,
          [at |-> now, adds |-> {version}, removes |-> Live(@, version)])]
     /\ versionMu' = Nobody
     /\ pc' = [pc EXCEPT ![s] = "expire"]
     /\ gap' = gap \ {n}
     /\ UNCHANGED <<clock, engine, data, flow, snap, torn>>

\* Mutant: only the files added within the window are protected.
ProtectedLater(commits, base) == UNION {commits[i].adds : i \in base + 1 .. Len(commits)}

\* The files a version in the window can reach: those live at the last commit
\* made at or before the cutoff (base), and those added later.
Protected(commits, base) ==
  Live(commits, base) \cup UNION {commits[i].adds : i \in base + 1 .. Len(commits)}

Base(commits) ==
  LET old == {i \in DOMAIN commits : commits[i].at <= RetentionCutoff}
  IN IF old = {} THEN 0 ELSE CHOOSE i \in old : \A j \in old : j <= i

ExpireVersions(s) ==
  LET n == flow[s].name
      base == Base(log[n])
      added == UNION {log[n][i].adds : i \in 1 .. base}
      gone == IF base <= 1 THEN {} ELSE added \ Protected(log[n], base)
  IN /\ pc[s] = "expire" /\ versionMu = Nobody
     /\ data' = [data EXCEPT ![n] = [f \in DOMAIN @ \ gone |-> @[f]]]
     /\ Done(s)
     /\ UNCHANGED <<clock, engine, log, versionMu, torn, gap>>

DropTableHistory(s) ==
  LET n == flow[s].name
  IN /\ pc[s] = "accepted" /\ flow[s].kind = "drop" /\ versionMu = Nobody
     /\ log' = [log EXCEPT ![n] = <<>>]
     /\ data' = [data EXCEPT ![n] = NoFile]
     /\ Done(s)
     /\ IF table[n] # NoTable \/ \E r \in Session \ {s} : pc[r] # "idle" /\ n \in Touched(flow[r])
        THEN UNCHANGED <<torn, gap>>
        ELSE torn' = torn \ {n} /\ gap' = gap \ {n}
     /\ UNCHANGED <<clock, engine, versionMu>>

\* Mutant: the folder stays where it was.
RenameLeavesBehind(s) ==
  /\ pc[s] = "accepted" /\ flow[s].kind = "rename" /\ versionMu = Nobody
  /\ Done(s)
  /\ UNCHANGED <<clock, engine, folders, versionMu, torn, gap>>

\* The folder moves, over whatever is in its way; a table without one has none.
RenameTableHistory(s) ==
  LET n == flow[s].name  to == flow[s].to
      found == log[n] # <<>> \/ data[n] # NoFile
  IN /\ pc[s] = "accepted" /\ flow[s].kind = "rename" /\ versionMu = Nobody
     /\ IF found
        THEN /\ log' = [log EXCEPT ![to] = log[n], ![n] = <<>>]
             /\ data' = [data EXCEPT ![to] = data[n], ![n] = NoFile]
        ELSE UNCHANGED folders
     /\ Done(s)
     /\ UNCHANGED <<clock, engine, versionMu, torn, gap>>

-----------------------------------------------------------------------------
AdvanceClock ==
  /\ now < MaxTime
  /\ now' = now + 1
  /\ UNCHANGED <<engine, folders, versionMu, pc, flow, snap, crashes, torn, gap>>

\* The emulator stops and starts again; the engine and the store stay.
Crash ==
  LET lost == {s \in Session : pc[s] \in {"accepted", "commit", "data"}}
  IN /\ crashes < MaxCrashes
     /\ crashes' = crashes + 1
     /\ pc' = [s \in Session |-> "idle"]
     /\ flow' = [s \in Session |-> NoFlow]
     /\ snap' = [s \in Session |-> NoTable]
     /\ versionMu' = Nobody
     /\ gap' = gap \cup {flow[s].name : s \in {r \in lost : flow[r].kind = "write"}}
     /\ torn' = torn \cup UNION {Touched(flow[s]) : s \in {r \in lost : flow[r].kind # "write"}}
     /\ UNCHANGED <<now, engine, folders>>

Statement(s) ==
  \/ \E n \in Name, big \in BOOLEAN : Write(s, n, big)
  \/ \E n \in Name : DropTable(s, n)
  \/ \E n, to \in Name : SpRename(s, n, to)
  \/ Unobserved(s)

Observer(s) ==
  \/ Snapshot(s) \/ PutData(s) \/ PutCommit(s) \/ ExpireVersions(s)
  \/ DropTableHistory(s) \/ RenameTableHistory(s)

Next ==
  \/ \E s \in Session : Statement(s) \/ Observer(s)
  \/ AdvanceClock \/ Crash

Spec == Init /\ [][Next]_vars

-----------------------------------------------------------------------------
(* "The state at the cutoff itself is kept, since a query for exactly the      *)
(* cutoff instant must still be answerable": at every moment, for every        *)
(* instant of the window, the files that the log's prefix names are there.     *)
(* Expiry may run at any time after a commit, and the window moves on; the     *)
(* clock only forward.                                                         *)
Answerable ==
  \A n \in Name : \A t \in 0 .. now :
    t >= RetentionCutoff => Live(log[n], AppliedAt(log[n], t)) \subseteq DOMAIN data[n]

(* "History belongs to the table object. sp_rename moves it with the table;    *)
(* DROP TABLE ends it": as long as statements on a name did not overlap and no *)
(* DROP or rename went unobserved, a table's history shows nothing of another  *)
(* object, a name without a table has none, and the newest version is the      *)
(* table unless its last write was skipped, unobserved or cut off by a crash.  *)
HistoryFollowsObject ==
  \A n \in Name \ torn : ~Pending(n) =>
    IF table[n] = NoTable THEN log[n] = <<>>
    ELSE /\ \A i \in DOMAIN log[n] : \A f \in log[n][i].adds \cap DOMAIN data[n] :
              data[n][f].obj = table[n].obj
         /\ n \notin gap => {data[n][f] : f \in Live(log[n], Len(log[n]))} = {table[n]}
=============================================================================
