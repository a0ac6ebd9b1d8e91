------------------------------ MODULE HCSessions ------------------------------
(***************************************************************************)
(* High concurrency Livy sessions (internal/api/livy_hc.go): REPLs packed  *)
(* into groups under one mutex, and their statements, each of which runs   *)
(* on a backend session opened for the REPL or, with the native agent, in  *)
(* a namespace of the agent. HTTP calls to the backend are made under the  *)
(* mutex when a session is opened, and outside it everywhere else.         *)
(*                                                                         *)
(* One lakehouse. REPLs, groups and backend sessions are numbered.         *)
(***************************************************************************)
EXTENDS Integers, FiniteSets

CONSTANTS
  Caller, Tag,
  Untagged,
  MaxRepls,          \* maxReplsPerLivySession
  MaxSessions,       \* bound of the model: acquisitions
  MaxUnusable        \* bound of the model: answers to an opening that name no session

HCAssumption ==
  /\ Untagged \notin Tag
  /\ MaxRepls \in Nat \ {0} /\ MaxSessions \in Nat /\ MaxUnusable \in Nat

VARIABLES
  native,            \* a Spark agent is configured, rather than a Livy backend
  repl,              \* the REPLs acquired, in order
  group,             \* group -> [tag, repls], by seq
  lastSeq,           \* nextSeq
  opened,            \* backend sessions opened: [repl, id]
  open,              \* those not torn down
  tables,            \* REPLs whose tables are declared to the agent
  req,               \* caller -> its request
  late,              \* REPLs released while a statement for them was under way
  stray               \* sessions whose opening or DELETE was not answered as it should be

vars == <<native, repl, group, lastSeq, opened, open, tables, req, late, stray>>

Idle == [at |-> "idle"]

Init ==
  /\ native \in BOOLEAN
  /\ repl = <<>> /\ group = <<>> /\ lastSeq = 0
  /\ opened = 0 /\ open = {} /\ tables = {}
  /\ req = [c \in Caller |-> Idle] /\ late = {} /\ stray = {}

Live == {r \in DOMAIN repl : ~repl[r].deleted}
Goto(c, where, r) == req' = [req EXCEPT ![c] = [at |-> where, repl |-> r]]
At(c, where) == req[c].at = where

-----------------------------------------------------------------------------
\* The groups a REPL of this tag may be packed into.
Roomy(tag) == {g \in DOMAIN group : group[g].tag = tag /\ Cardinality(group[g].repls) < MaxRepls}

\* acquire: the oldest of them, else a new one. Without a tag always a new one.
Acquire(c, tag) ==
  /\ At(c, "idle")
  /\ Cardinality(DOMAIN repl) < MaxSessions
  /\ LET r == Cardinality(DOMAIN repl) + 1
         free == IF tag = Untagged THEN {} ELSE Roomy(tag)
         g == IF free = {} THEN lastSeq + 1 ELSE CHOOSE x \in free : \A y \in free : x <= y
         mates == IF free = {} THEN {} ELSE group[g].repls
     IN  /\ group' = [x \in DOMAIN group \cup {g} |->
                        IF x = g THEN [tag |-> tag, repls |-> mates \cup {r}] ELSE group[x]]
         /\ lastSeq' = IF free = {} THEN g ELSE lastSeq
         /\ repl' = [x \in DOMAIN repl \cup {r} |->
                       IF x = r THEN [group |-> g, tag |-> tag, deleted |-> FALSE, backend |-> 0,
                                      registered |-> FALSE]
                       ELSE repl[x]]
  /\ UNCHANGED <<native, opened, open, tables, req, late, stray>>

\* release, under the mutex ...
Release(c, r) ==
  /\ At(c, "idle") /\ r \in Live
  /\ LET left == group[repl[r].group].repls \ {r} IN
     group' = [g \in {x \in DOMAIN group : x # repl[r].group \/ left # {}} |->
                 IF g = repl[r].group THEN [group[g] EXCEPT !.repls = left] ELSE group[g]]
  /\ repl' = [repl EXCEPT ![r].deleted = TRUE]
  /\ late' = IF \E d \in Caller : req[d] # Idle /\ req[d].repl = r THEN late \cup {r} ELSE late
  /\ req' = [req EXCEPT ![c] = [at |-> "teardown", repl |-> r, backend |-> repl[r].backend]]
  /\ UNCHANGED <<native, lastSeq, opened, open, tables, stray>>

\* ... then the agent's namespace is closed, or the backend session deleted: once,
\* and whatever came of that is ignored.
Teardown(c) ==
  /\ At(c, "teardown")
  /\ LET mine == {b \in open : b.id = req[c].backend} IN
     \/ /\ open' = open \ mine
        /\ tables' = IF native THEN tables \ {req[c].repl} ELSE tables
        /\ UNCHANGED stray
     \/ /\ stray' = stray \cup mine
        /\ UNCHANGED <<open, tables>>
  /\ req' = [req EXCEPT ![c] = Idle]
  /\ UNCHANGED <<native, repl, group, lastSeq, opened, late>>

-----------------------------------------------------------------------------
\* hcStatement: replFor.
Submit(c, r) ==
  /\ At(c, "idle") /\ r \in Live
  /\ Goto(c, IF native THEN "native" ELSE "ensure", r)
  /\ UNCHANGED <<native, repl, group, lastSeq, opened, open, tables, late, stray>>

Answer(c) == req' = [req EXCEPT ![c] = Idle]

\* Mutant: the session is opened whether or not the REPL has one.
EnsureAgain(c) ==
  /\ At(c, "ensure")
  /\ opened' = opened + 1
  /\ open' = open \cup {[repl |-> req[c].repl, id |-> opened + 1]}
  /\ repl' = [repl EXCEPT ![req[c].repl].backend = opened + 1]
  /\ Answer(c)
  /\ UNCHANGED <<native, group, lastSeq, tables, late, stray>>

\* ensureBackendSession, call included, under the mutex. Nothing is opened (the
\* REPL has a session, or the backend refuses); or a session is, and its id
\* recorded; or one is, and the answer is lost, unreadable or without an id. The
\* statement itself is the backend's.
Ensure(c) ==
  /\ At(c, "ensure")
  /\ LET new == [repl |-> req[c].repl, id |-> opened + 1] IN
     \/ UNCHANGED <<opened, open, repl, stray>>
     \/ /\ repl[new.repl].backend = 0
        /\ opened' = new.id /\ open' = open \cup {new}
        /\ \/ repl' = [repl EXCEPT ![new.repl].backend = new.id] /\ UNCHANGED stray
           \/ /\ Cardinality(stray) < MaxUnusable
              /\ stray' = stray \cup {new} /\ UNCHANGED repl
  /\ Answer(c)
  /\ UNCHANGED <<native, group, lastSeq, tables, late>>

\* hcStatementNative: `registered' is tested and set, without the mutex ...
Mark(c) ==
  /\ At(c, "native")
  /\ Goto(c, IF repl[req[c].repl].registered THEN "execute" ELSE "register", req[c].repl)
  /\ repl' = [repl EXCEPT ![req[c].repl].registered = TRUE]
  /\ UNCHANGED <<native, group, lastSeq, opened, open, tables, late, stray>>

\* ... before the tables are declared, which may fail; the statement runs after
\* that, ...
Register(c) ==
  /\ At(c, "register")
  /\ tables' \in {tables, tables \cup {req[c].repl}}
  /\ Goto(c, "execute", req[c].repl)
  /\ UNCHANGED <<native, repl, group, lastSeq, opened, open, late, stray>>

\* ... and is appended to the REPL's list, which nothing else looks at.
Execute(c) ==
  /\ At(c, "execute")
  /\ Answer(c)
  /\ UNCHANGED <<native, repl, group, lastSeq, opened, open, tables, late, stray>>

Next == \E c \in Caller :
  \/ \E t \in Tag \cup {Untagged} : Acquire(c, t)
  \/ \E r \in DOMAIN repl : Release(c, r) \/ Submit(c, r)
  \/ Teardown(c) \/ Ensure(c) \/ Mark(c) \/ Register(c) \/ Execute(c)

Spec == Init /\ [][Next]_vars

-----------------------------------------------------------------------------
\* A REPL has one backend session at most, however many first statements arrive
\* together, and once it is released none is left behind but
\*   by a statement that was already under way (livy_hc.go:309-313),
\*   by a DELETE that failed, which is not tried again (livy_hc.go:267-276),
\*   by an opening whose answer named no session (livy_hc.go:401-414): the REPL
\*   does not know that one, and its next statement opens another.
NoBackendLeft ==
  \A b \in open \ stray :
    /\ repl[b.repl].backend = b.id
    /\ b.repl \in Live \cup late
         \/ \E c \in Caller : At(c, "teardown") /\ req[c].backend = b.id

=============================================================================
