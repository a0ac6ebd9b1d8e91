----------------------------- MODULE Reflection -----------------------------
(* A lakehouse's Delta tables in its SQL analytics endpoint                    *)
(* (internal/warehouse/reflect.go, internal/server/warehouse.go). A login      *)
(* brings the engine's copies up to date before it succeeds: it skips a table  *)
(* whose fingerprint (the names of its commits) it reflected before and which  *)
(* the engine has, and drops, recreates and loads any other. A Reflector       *)
(* remembers fingerprints across logins and lets one login per item work at a  *)
(* time. The process has one for TDS logins, one for reads on a caller's       *)
(* behalf (sqlDBAsFor) and a fresh one per metadata refresh: a login here is   *)
(* any of these ways in. The item's logs are only appended to: a fingerprint   *)
(* is their number of commits, and so are a table's contents.                  *)
EXTENDS Integers, FiniteSets

CONSTANTS
  Table,          \* folders under Tables/
  Reflector,      \* the process's Reflectors
  Login,          \* clients that connect, again when a login fails
  Uses,           \* which Reflector a client's way in has
  Nobody,
  MaxCommits,     \* bound on the commits of a table
  MaxFailures,    \* bound on the failures of the engine and of reads
  MaxSilences,    \* how often the engine does not say which tables it has
  MaxLosses       \* how often the engine loses its tables

ReflectionAssumption ==
  /\ Uses \in [Login -> Reflector] /\ Nobody \notin Login
  /\ {MaxCommits, MaxFailures, MaxSilences, MaxLosses} \subseteq Nat

VARIABLES
  src,        \* the commits in each table's log
  dst,        \* the engine's table: "absent", "empty", or the contents loaded
  seen,       \* per Reflector and table, the fingerprint recorded; 0 if none
  itemMu,     \* who holds the item's lock, per Reflector
  pc, todo, cur,      \* a login's place, the tables to come, the one at hand
  present, known,     \* what the engine was found to have, and whether it answered
  fp, read,           \* the fingerprint and the contents of the table at hand
  since,              \* the commits there were when the login began
  loaded,             \* whether this login has loaded a table
  half,               \* tables left empty although their fingerprint is recorded
  crossed,            \* tables replaced while a login of another Reflector was about
  failures, silences, losses

vars == <<src, dst, seen, itemMu, pc, todo, cur, present, known, fp, read, since, loaded, half,
          crossed, failures, silences, losses>>
login == <<todo, cur, present, known, fp, read>>
outside == <<src, half, crossed, failures, silences, losses>>

Absent == 0 - 2
Empty == 0 - 1
Nothing == [t \in Table |-> 0]
NoTable == CHOOSE t \in Table : TRUE

Init ==
  /\ src = Nothing
  /\ dst = [t \in Table |-> Absent]
  /\ seen = [r \in Reflector |-> Nothing]
  /\ itemMu = [r \in Reflector |-> Nobody]
  /\ pc = [c \in Login |-> "out"]
  /\ todo = [c \in Login |-> {}] /\ cur = [c \in Login |-> NoTable]
  /\ present = [c \in Login |-> {}] /\ known = [c \in Login |-> FALSE]
  /\ fp = [c \in Login |-> 0] /\ read = [c \in Login |-> 0]
  /\ since = [c \in Login |-> Nothing]
  /\ loaded = [c \in Login |-> FALSE]
  /\ half = {} /\ crossed = {} /\ failures = 0 /\ silences = 0 /\ losses = 0

Goto(c, place) == pc' = [pc EXCEPT ![c] = place]

\* A login that replaces the table at hand, or that is anywhere past its lock.
Working(c) == pc[c] \in {"read", "drop", "create", "insert"}
Inside(c) == Working(c) \/ pc[c] \in {"ask", "next", "record", "reflected"}
Others(c) == {d \in Login \ {c} : Inside(d)}
AtHand(logins) == {cur[d] : d \in {e \in logins : Working(e)}}

-----------------------------------------------------------------------------
\* A writer commits to a table's log, or creates the table.
Commit(t) ==
  /\ src[t] < MaxCommits
  /\ src' = [src EXCEPT ![t] = @ + 1]
  /\ UNCHANGED <<dst, seen, itemMu, pc, login, since, loaded, half, crossed, failures, silences, losses>>

\* The engine comes back without the database's tables: a login under way shows
\* what the engine had (since then claims nothing).
LoseTables ==
  /\ losses < MaxLosses
  /\ losses' = losses + 1
  /\ dst' = [t \in Table |-> Absent]
  /\ since' = [c \in Login |-> Nothing]
  /\ half' = {}
  /\ UNCHANGED <<src, seen, itemMu, pc, login, loaded, crossed, failures, silences>>

-----------------------------------------------------------------------------
(* A login.                                                                  *)

Connect(c) ==
  /\ pc[c] = "out"
  /\ since' = [since EXCEPT ![c] = src]
  /\ loaded' = [loaded EXCEPT ![c] = FALSE]
  /\ Goto(c, "lock")
  /\ UNCHANGED <<outside, dst, seen, itemMu, login>>

\* The lock of this Reflector's entry for the item, then the tables there are.
Lock(c) ==
  /\ pc[c] = "lock" /\ itemMu[Uses[c]] = Nobody
  /\ itemMu' = [itemMu EXCEPT ![Uses[c]] = c]
  /\ todo' = [todo EXCEPT ![c] = {t \in Table : src[t] > 0}]
  /\ crossed' = crossed \cup AtHand(Others(c))
  /\ Goto(c, "ask")
  /\ UNCHANGED <<src, half, failures, silences, losses>>
  /\ UNCHANGED <<dst, seen, cur, present, known, fp, read, since, loaded>>

\* existingTables: the engine answers, or it does not.
Ask(c) ==
  /\ pc[c] = "ask"
  /\ Goto(c, "next")
  /\ \/ /\ present' = [present EXCEPT ![c] = {t \in Table : dst[t] # Absent}]
        /\ known' = [known EXCEPT ![c] = TRUE]
        /\ UNCHANGED silences
     \/ /\ silences < MaxSilences
        /\ silences' = silences + 1
        /\ present' = [present EXCEPT ![c] = {}]
        /\ known' = [known EXCEPT ![c] = FALSE]
  /\ UNCHANGED <<src, dst, seen, itemMu, todo, cur, fp, read, since, loaded, half, crossed, failures, losses>>

\* The fingerprint of the next table decides whether it is skipped.
Fingerprint(c) ==
  \E t \in todo[c] :
    /\ pc[c] = "next"
    /\ todo' = [todo EXCEPT ![c] = @ \ {t}]
    /\ IF seen[Uses[c]][t] = src[t] /\ known[c] /\ t \in present[c]
       THEN UNCHANGED <<pc, cur, fp, crossed>>
       ELSE /\ cur' = [cur EXCEPT ![c] = t]
            /\ fp' = [fp EXCEPT ![c] = src[t]]
            /\ crossed' = IF Others(c) # {} THEN crossed \cup {t} ELSE crossed
            /\ Goto(c, "read")
    /\ UNCHANGED <<src, half, failures, silences, losses>>
    /\ UNCHANGED <<dst, seen, itemMu, present, known, read, since, loaded>>

ReadDeltaTable(c) ==
  /\ pc[c] = "read"
  /\ read' = [read EXCEPT ![c] = src[cur[c]]]
  /\ Goto(c, "drop")
  /\ UNCHANGED <<outside, dst, seen, itemMu, todo, cur, present, known, fp, since, loaded>>

DropReflected(c) ==
  /\ pc[c] = "drop"
  /\ dst' = [dst EXCEPT ![cur[c]] = Absent]
  /\ Goto(c, "create")
  /\ UNCHANGED <<outside, seen, itemMu, login, since, loaded>>

\* The engine refuses a second table of the name.
CreateTable(c) ==
  /\ pc[c] = "create" /\ dst[cur[c]] = Absent
  /\ dst' = [dst EXCEPT ![cur[c]] = Empty]
  /\ Goto(c, "insert")
  /\ UNCHANGED <<outside, seen, itemMu, login, since, loaded>>

\* One transaction, into the table that is there by then. A load of what the lake
\* holds, into a table nobody else replaces, sets right what crossed before.
BulkInsert(c) ==
  /\ pc[c] = "insert" /\ dst[cur[c]] # Absent
  /\ dst' = [dst EXCEPT ![cur[c]] = read[c]]
  /\ Goto(c, "record")
  /\ half' = half \ {cur[c]}
  /\ crossed' = IF read[c] = src[cur[c]] /\ cur[c] \notin AtHand(Others(c))
                THEN crossed \ {cur[c]} ELSE crossed
  /\ UNCHANGED <<src, failures, silences, losses, seen, itemMu, login, since, loaded>>

\* Mutant: a table that is loaded is not recorded.
RecordForgets(c) ==
  /\ pc[c] = "record"
  /\ loaded' = [loaded EXCEPT ![c] = TRUE]
  /\ Goto(c, "next")
  /\ UNCHANGED <<outside, dst, seen, itemMu, login, since>>

Record(c) ==
  /\ pc[c] = "record"
  /\ seen' = [seen EXCEPT ![Uses[c]][cur[c]] = fp[c]]
  /\ loaded' = [loaded EXCEPT ![c] = TRUE]
  /\ Goto(c, "next")
  /\ UNCHANGED <<outside, dst, itemMu, login, since>>

\* The last table is done: the login is about to release the lock and succeed.
Reflected(c) ==
  /\ pc[c] = "next" /\ todo[c] = {}
  /\ Goto(c, "reflected")
  /\ UNCHANGED <<outside, dst, seen, itemMu, login, since, loaded>>

Forgotten(c) ==
  /\ itemMu' = [itemMu EXCEPT ![Uses[c]] = Nobody]
  /\ todo' = [todo EXCEPT ![c] = {}] /\ cur' = [cur EXCEPT ![c] = NoTable]
  /\ present' = [present EXCEPT ![c] = {}] /\ known' = [known EXCEPT ![c] = FALSE]
  /\ fp' = [fp EXCEPT ![c] = 0] /\ read' = [read EXCEPT ![c] = 0]
  /\ loaded' = [loaded EXCEPT ![c] = FALSE]
  /\ since' = [since EXCEPT ![c] = Nothing]

Succeed(c) ==
  /\ pc[c] = "reflected"
  /\ Goto(c, "in")
  /\ Forgotten(c)
  /\ UNCHANGED <<outside, dst, seen>>

Disconnect(c) ==
  /\ pc[c] = "in"
  /\ Goto(c, "out")
  /\ UNCHANGED <<outside, dst, seen, itemMu, login, since, loaded>>

\* What a cut-off load leaves behind: the records of the table are those of
\* before, one of which may already be the fingerprint of now.
CutOff(c) ==
  half' = IF /\ pc[c] = "insert" /\ dst[cur[c]] = Empty
             /\ \E r \in Reflector : seen[r][cur[c]] = fp[c]
          THEN half \cup {cur[c]} ELSE half

\* A read or a statement of the engine fails: the login does, with what is done
\* so far. A second CREATE and an INSERT into a dropped table fail by themselves.
Fail(c) ==
  /\ Working(c) \/ (pc[c] = "next" /\ todo[c] # {})
  /\ \/ failures < MaxFailures /\ failures' = failures + 1
     \/ /\ \/ pc[c] = "create" /\ dst[cur[c]] # Absent
           \/ pc[c] = "insert" /\ dst[cur[c]] = Absent
        /\ UNCHANGED failures
  /\ Goto(c, "out")
  /\ CutOff(c) /\ Forgotten(c)
  /\ UNCHANGED <<src, dst, seen, crossed, silences, losses>>

\* Mutant: the load that was cut off is passed over.
TimeoutSkipsTable(c) ==
  /\ Working(c) /\ loaded[c]
  /\ Goto(c, "next")
  /\ UNCHANGED <<outside, dst, seen, itemMu, login, since, loaded>>

\* The client's login timeout: long enough for one table, not for the item.
LoginTimeout(c) ==
  /\ Working(c) /\ loaded[c]
  /\ Goto(c, "out")
  /\ CutOff(c) /\ Forgotten(c)
  /\ UNCHANGED <<src, dst, seen, crossed, failures, silences, losses>>

Step(c) ==
  \/ Ask(c) \/ Fingerprint(c) \/ ReadDeltaTable(c) \/ DropReflected(c) \/ CreateTable(c)
  \/ BulkInsert(c) \/ Record(c) \/ Reflected(c) \/ Succeed(c) \/ Fail(c) \/ LoginTimeout(c)

Next ==
  \/ \E t \in Table : Commit(t)
  \/ LoseTables
  \/ \E c \in Login : Connect(c) \/ Lock(c) \/ Step(c) \/ Disconnect(c)

Spec == Init /\ [][Next]_vars

\* A client tries again until it is in; a mutex with waiters hands itself over.
Fairness ==
  \A c \in Login : WF_vars(Connect(c)) /\ SF_vars(Lock(c)) /\ WF_vars(Step(c))

FairSpec == Spec /\ Fairness

-----------------------------------------------------------------------------
(* A login that succeeds shows, for every table there was when it began, what  *)
(* the table held then or later: never an older load, nor none at all. But for *)
(* a table that FailedIsRetried is about, and for one that was being replaced  *)
(* while a login of another Reflector was at work (LoginsQueue), until it is   *)
(* loaded again by a login that reads its newest commit and loads alone.       *)
ReflectedIsSource ==
  \A c \in Login : pc[c] = "reflected" =>
    \A t \in Table \ (half \cup crossed) : since[c][t] > 0 => since[c][t] <= dst[t]

(* "Deliberately not recorded: this table must be retried": a login does not   *)
(* succeed on a table whose last load failed.                                  *)
FailedIsRetried ==
  \A c \in Login : pc[c] = "reflected" => \A t \in Table : since[c][t] > 0 => dst[t] # Empty

(* "Concurrent logins to the SAME item queue here, so they share one           *)
(* reflection instead of racing to redo it": a table one login is loading is   *)
(* touched by no other.                                                        *)
LoginsQueue ==
  \A c, d \in Login : c # d /\ Working(c) /\ Working(d) => cur[c] # cur[d]

(* "Retries accumulate progress": although each attempt may be cut off once it *)
(* has loaded a table, a client that tries again gets in.                      *)
LoginsConverge == \A c \in Login : pc[c] = "lock" ~> pc[c] = "in"
=============================================================================
