------------------------------ MODULE DeltaTable ------------------------------
(* A Delta table in OneLake as the emulator itself writes and reads it:        *)
(* WriteDeltaTableAs of internal/warehouse/write.go (Copy activities and       *)
(* eventstreams) and ReadDeltaTable of internal/warehouse/delta.go, beside     *)
(* engines that commit with a conditional put. A statement of the store is one *)
(* step: the log is listed, each commit and each data file read, one by one.   *)
EXTENDS Integers, Sequences

CONSTANTS
  Writer,         \* writers of the emulator
  Engine,         \* Delta writers outside it
  Reader,         \* readers of the emulator
  MaxWrites,      \* bound on the writes begun
  MaxReads,       \* bound on the reads begun
  MaxCrashes      \* bound on writes that end halfway

DeltaAssumption == {MaxWrites, MaxReads, MaxCrashes} \subseteq Nat

VARIABLES
  log,            \* _delta_log: the commit of version v is log[v + 1]
  files,          \* data files: which write's rows each holds
  writes,         \* writes begun, the id of the last
  reads,          \* reads begun
  req,            \* per actor, the request under way
  crashes,        \* writes that ended halfway
  acked,          \* the writes acknowledged since the last overwrite, with it
  alone,          \* per writer: nothing else wrote since its write began
  clean           \* every step so far that wrote was of a writer that was alone

vars == <<log, files, writes, reads, req, crashes, acked, alone, clean>>

Actor == Writer \cup Engine \cup Reader
Idle == [op |-> "idle"]
Path == {"part", "own"} \X Nat

Init ==
  /\ log = <<>> /\ files = {} /\ writes = 0 /\ reads = 0
  /\ req = [a \in Actor |-> Idle]
  /\ crashes = 0 /\ acked = {}
  /\ alone = [w \in Writer |-> TRUE] /\ clean = TRUE

-----------------------------------------------------------------------------
\* A commit that forgets what it replaces.
ApplyAdd(active, commit) == active \cup {commit.add}

\* replayCommits, one commit: what it removes is not active, its file is (in order).
Apply(active, commit) == (active \ commit.removes) \cup {commit.add}

Active[n \in Nat] ==
  IF n = 0 THEN {} ELSE Apply(Active[n - 1], log[n])

\* What the table holds.
Content == {f[2] : f \in {g \in files : g[1] \in Active[Len(log)]}}

Goto(a, r) ==
  /\ req' = [req EXCEPT ![a] = r]
  /\ UNCHANGED <<log, files, crashes, acked, alone, clean>>

\* The rows at a path are replaced.
Put(path, write) == files' = {f \in files : f[1] # path} \cup {<<path, write>>}

\* Others are not alone any more.
Disturb(a) == alone' = [w \in Writer |-> alone[w] /\ w = a]

-----------------------------------------------------------------------------
(* WriteDeltaTableAs.                                                        *)

\* nextCommitVersion; an overwrite goes on with the files that are active.
WriteDeltaTable(w) ==
  \E mode \in {"append", "overwrite"} :
    /\ req[w] = Idle /\ writes < MaxWrites
    /\ writes' = writes + 1
    /\ LET v == Len(log)
           op == IF mode = "overwrite" /\ v > 0 THEN "list" ELSE "data"
       IN req' = [req EXCEPT ![w] = [op |-> op, mode |-> mode, write |-> writes', v |-> v, removes |-> {}]]
    /\ alone' = [x \in Writer |-> IF x = w THEN \A y \in Writer : req[y] = Idle ELSE FALSE]
    /\ UNCHANGED <<log, files, reads, crashes, acked, clean>>

\* The part file of the version, whether or not it is there.
PutData(w) ==
  /\ w \in Writer /\ req[w].op = "data"
  /\ Put(<<"part", req[w].v>>, req[w].write)
  /\ req' = [req EXCEPT ![w].op = "commit"]
  /\ clean' = (clean /\ alone[w])
  /\ Disturb(w)
  /\ UNCHANGED <<log, writes, reads, crashes, acked>>

\* What is acknowledged, and what it puts an end to.
Acknowledge(r) == acked' = (IF r.mode = "overwrite" THEN {} ELSE acked) \cup {r.write}

Commit(path, r) == [add |-> path, removes |-> r.removes]

\* The commit of the version, whether or not it is there: an upsert.
PutCommit(w) ==
  /\ w \in Writer /\ req[w].op = "commit"
  /\ LET r == req[w]
         c == Commit(<<"part", r.v>>, r)
     IN /\ log' = IF r.v < Len(log) THEN [log EXCEPT ![r.v + 1] = c] ELSE Append(log, c)
        /\ Acknowledge(r)
  /\ req' = [req EXCEPT ![w] = Idle]
  /\ clean' = (clean /\ alone[w])
  /\ Disturb(w)
  /\ UNCHANGED <<files, writes, reads, crashes>>

\* The process ends, or the store fails, before the commit.
Crash(w) ==
  /\ req[w] # Idle /\ crashes < MaxCrashes
  /\ crashes' = crashes + 1
  /\ req' = [req EXCEPT ![w] = Idle]
  /\ UNCHANGED <<log, files, writes, reads, acked, alone, clean>>

-----------------------------------------------------------------------------
(* A Delta writer outside (external): a file of its own, and a commit that    *)
(* must be the first of its version, or it starts over.                       *)

EngineWrite(e) ==
  \E mode \in {"append", "overwrite"} :
    /\ req[e] = Idle /\ writes < MaxWrites
    /\ writes' = writes + 1
    /\ Put(<<"own", writes'>>, writes')
    /\ req' = [req EXCEPT ![e] = [op |-> "plan", mode |-> mode, write |-> writes']]
    /\ UNCHANGED <<log, reads, crashes, acked, alone, clean>>

EnginePlan(e) ==
  /\ req[e].op = "plan"
  /\ Goto(e, [op |-> "put", mode |-> req[e].mode, write |-> req[e].write, v |-> Len(log),
              removes |-> IF req[e].mode = "overwrite" THEN Active[Len(log)] ELSE {}])
  /\ UNCHANGED <<writes, reads>>

EngineCommit(e) ==
  /\ req[e].op = "put"
  /\ LET r == req[e]
     IN IF r.v = Len(log)
        THEN /\ log' = Append(log, Commit(<<"own", r.write>>, r))
             /\ Acknowledge(r)
             /\ req' = [req EXCEPT ![e] = Idle]
             /\ Disturb(e)
             /\ UNCHANGED <<files, crashes, clean>>
        ELSE Goto(e, [op |-> "plan", mode |-> r.mode, write |-> r.write])
  /\ UNCHANGED <<writes, reads>>

-----------------------------------------------------------------------------
(* ReadDeltaTable, and the replay that an overwrite begins with.              *)

ReadDeltaTable(r) ==
  /\ req[r] = Idle /\ reads < MaxReads /\ Len(log) > 0
  /\ reads' = reads + 1
  /\ Goto(r, [op |-> "list", mode |-> "read", write |-> 0, v |-> 0, removes |-> {}])
  /\ UNCHANGED writes

List(a) ==
  /\ req[a].op = "list"
  /\ Goto(a, [op |-> "replay", mode |-> req[a].mode, write |-> req[a].write, v |-> req[a].v,
              to |-> Len(log), next |-> 1, active |-> {}, was |-> Content])
  /\ UNCHANGED <<writes, reads>>

\* The log is followed to its present end.
ReadCommitNow(a) ==
  /\ req[a].op = "replay" /\ req[a].next <= req[a].to
  /\ Goto(a, [req[a] EXCEPT !.next = @ + 1, !.to = Len(log), !.active = Apply(@, log[req[a].next])])
  /\ UNCHANGED <<writes, reads>>

ReadCommit(a) ==
  /\ req[a].op = "replay" /\ req[a].next <= req[a].to
  /\ Goto(a, [req[a] EXCEPT !.next = @ + 1, !.active = Apply(@, log[req[a].next])])
  /\ UNCHANGED <<writes, reads>>

Replayed(a) ==
  /\ req[a].op = "replay" /\ req[a].next > req[a].to
  /\ LET r == req[a]
     IN Goto(a, IF r.mode = "read" THEN [op |-> "fetch", left |-> r.active, rows |-> {}, was |-> r.was]
                ELSE [op |-> "data", mode |-> r.mode, write |-> r.write, v |-> r.v, removes |-> r.active])
  /\ UNCHANGED <<writes, reads>>

ReadFile(r) ==
  /\ req[r].op = "fetch"
  /\ \E p \in req[r].left :
       Goto(r, [req[r] EXCEPT !.left = @ \ {p}, !.rows = @ \cup {f[2] : f \in {g \in files : g[1] = p}}])
  /\ UNCHANGED <<writes, reads>>

Answer(r) ==
  /\ req[r].op = "fetch" /\ req[r].left = {}
  /\ Goto(r, Idle)
  /\ UNCHANGED <<writes, reads>>

-----------------------------------------------------------------------------
Next ==
  \/ \E w \in Writer : WriteDeltaTable(w) \/ PutData(w) \/ PutCommit(w) \/ Crash(w)
  \/ \E e \in Engine : EngineWrite(e) \/ EnginePlan(e) \/ EngineCommit(e)
  \/ \E r \in Reader : ReadDeltaTable(r) \/ ReadFile(r) \/ Answer(r)
  \/ \E a \in Writer \cup Reader : List(a) \/ ReadCommit(a) \/ Replayed(a)

Spec == Init /\ [][Next]_vars

-----------------------------------------------------------------------------
TypeOK ==
  /\ Len(log) <= writes /\ writes \in 0 .. MaxWrites
  /\ \A n \in 1 .. Len(log) : log[n].add \in Path /\ log[n].removes \subseteq Path
  /\ \A f \in files : f[1] \in Path /\ f[2] \in 1 .. writes
  /\ acked \subseteq 1 .. writes /\ clean \in BOOLEAN

\* warehouse/write.go ("Append adds a data file and leaves earlier ones
\* active"): the table holds what was acknowledged since the last overwrite,
\* and nothing of a write that ended halfway.
HoldsAcknowledged == Content = acked
TableIsAcked == clean => HoldsAcknowledged

\* warehouse/delta.go replayCommits ("a file set that never existed"): a reader
\* gets the rows the table held when it listed the log, whatever is committed
\* while it reads commits and files.
ReadsVersion == clean => \A r \in Reader : req[r].op = "fetch" /\ req[r].left = {} => req[r].rows = req[r].was
=============================================================================
