--------------------------- MODULE WarehouseLineage ---------------------------
(* Lineage of what is built over TDS: internal/server/warehouselineage.go and  *)
(* internal/store/lineage.go, told by internal/tds/observe.go of the           *)
(* statements the engine accepted, which internal/tsql/dataflow.go classifies. *)
(* A session's statement is carried out by the engine, forwarded, and observed *)
(* before the session's next; sessions are independent of each other.          *)
EXTENDS Integers, Functions

CONSTANTS
  Name,           \* names of tables and views of the warehouse
  Lake,           \* tables of a lakehouse: read, never written here
  Elsewhere,      \* names whose database is no item the emulator knows: read only
  Session,        \* connections
  MaxStatements,  \* bound on the statements
  MaxRestarts     \* bound on restarts of the emulator

LineageAssumption ==
  /\ {MaxStatements, MaxRestarts} \subseteq Nat
  /\ Name \cap (Lake \cup Elsewhere) = {} /\ Lake \cap Elsewhere = {}

VARIABLES
  object,         \* the engine's objects: views with the names they select from,
                  \* tables with the tables that the statements that filled them
                  \* read, and whether anything was written to them
  statements,     \* statements carried out
  flow,           \* per session, what was carried out and not yet observed
  views,          \* warehouseLineage.views
  edges,          \* lineage_edges: source and target
  lit,            \* tables of which an event was published
  restarts,       \* restarts so far
  missed,         \* a flow was not observed, or out of turn, or a view names a view
  forgot          \* views were known when the emulator was restarted

vars == <<object, statements, flow, views, edges, lit, restarts, missed, forgot>>

NoFlow == [kind |-> "none"]
Objects == DOMAIN object
Outside == Lake \cup Elsewhere
IsView(n) == n \in Objects /\ object[n].kind = "view"

Init ==
  /\ object = [n \in {} |-> NoFlow] /\ statements = 0
  /\ flow = [s \in Session |-> NoFlow]
  /\ views = [n \in {} |-> {}]
  /\ edges = {} /\ lit = {}
  /\ restarts = 0 /\ missed = FALSE /\ forgot = FALSE

-----------------------------------------------------------------------------
(* The engine (external), and what tsql.classify makes of the statement.     *)

\* What a statement that selects from these names reads.
Reads(names) == UNION {IF IsView(n) THEN object[n].from ELSE {n} : n \in names}

\* The names a flow is about, and those it changes the meaning of.
Mentions(f) == {f.target} \cup (IF "sources" \in DOMAIN f THEN f.sources ELSE {})
                          \cup (IF "new" \in DOMAIN f THEN {f.new} ELSE {})
Changes(f) == {f.target} \cup (IF "new" \in DOMAIN f THEN {f.new} ELSE {})

\* A flow whose statement was carried out before one of f's session's, on its
\* names, and is not observed yet.
OutOfTurn(f) ==
  \E t \in Session :
    /\ flow[t] # NoFlow
    /\ Changes(flow[t]) \cap Mentions(f) # {} \/ Changes(f) \cap Mentions(flow[t]) # {}

Nested(names) == \E n \in names : IsView(n) /\ \E m \in object[n].from : IsView(m)

Execute(s, f, objects) ==
  /\ flow[s] = NoFlow /\ statements < MaxStatements
  /\ statements' = statements + 1
  /\ object' = objects
  /\ flow' = [flow EXCEPT ![s] = f]
  /\ missed' = (missed \/ OutOfTurn(f) \/ Nested(Objects))
  /\ UNCHANGED <<views, edges, lit, restarts, forgot>>

With(n, o) == [m \in Objects \cup {n} |-> IF m = n THEN o ELSE object[m]]

\* Every name selected from is there, and so is every name behind a view.
Bound(names) == names # {} /\ Reads(names) \cup names \subseteq Objects \cup Outside

Table(names, written) == [kind |-> "table", from |-> names, written |-> written]

\* CREATE TABLE with columns, INSERT ... VALUES: no table's rows come in.
CreateTable(s) ==
  \E t \in Name \ Objects :
    Execute(s, [kind |-> "modify", target |-> t], With(t, Table({}, FALSE)))

InsertValues(s) ==
  \E t \in Objects :
    /\ ~IsView(t)
    /\ Execute(s, [kind |-> "modify", target |-> t], With(t, Table(object[t].from, TRUE)))

\* CREATE TABLE AS SELECT, SELECT INTO.
CTAS(s) ==
  \E t \in Name \ Objects, names \in SUBSET (Objects \cup Outside) :
    /\ Bound(names)
    /\ Execute(s, [kind |-> "ctas", target |-> t, sources |-> names],
                  With(t, Table(Reads(names), TRUE)))

\* INSERT ... SELECT: from itself, no other table's rows come in.
Insert(s) ==
  \E t \in Objects, names \in SUBSET (Objects \cup Outside) :
    /\ ~IsView(t) /\ Bound(names)
    /\ Execute(s, [kind |-> "insert", target |-> t, sources |-> names],
                  With(t, Table(object[t].from \cup (Reads(names) \ {t}), TRUE)))

\* CREATE OR ALTER VIEW.
CreateView(s) ==
  \E v \in Name, names \in SUBSET (Objects \cup Outside) :
    /\ v \in Objects => IsView(v)
    /\ v \notin names /\ Bound(names)
    /\ Execute(s, [kind |-> "view", target |-> v, sources |-> names],
                  With(v, [kind |-> "view", from |-> names]))

\* sp_rename.
Rename(s) ==
  \E n \in Objects, m \in Name \ Objects :
    Execute(s, [kind |-> "rename", target |-> n, new |-> m],
            [o \in (Objects \ {n}) \cup {m} |-> IF o = m THEN object[n] ELSE object[o]])

\* DROP TABLE, DROP VIEW.
Drop(s) ==
  \E n \in Objects : Execute(s, [kind |-> "drop", target |-> n], Restrict(object, Objects \ {n}))

-----------------------------------------------------------------------------
(* The observer, one flow at a time under its mutex.                         *)

Resolves(n) == n \notin Elsewhere

\* sources: what resolves, and for a view what is behind it.
Sources(names) ==
  UNION {IF n \in DOMAIN views THEN views[n] ELSE {n} : n \in {m \in names : Resolves(m)}}

\* recordEdges: the write is announced; a table from itself draws no edge.
RecordEdges(f) ==
  /\ edges' = edges \cup {<<n, f.target>> : n \in Sources(f.sources) \ {f.target}}
  /\ lit' = lit \cup {f.target}
  /\ UNCHANGED views

RecordView(f) ==
  /\ views' = [n \in DOMAIN views \cup {f.target} |-> IF n = f.target THEN Sources(f.sources) ELSE views[n]]
  /\ UNCHANGED <<edges, lit>>

\* Both ends of an edge follow the rename.
MovedBothEnds(n, m) ==
  {<<IF e[1] = n THEN m ELSE e[1], IF e[2] = n THEN m ELSE e[2]>> : e \in edges}

\* RenameLineagePath: the edges into n become edges into m, in place of those
\* there are.
Moved(n, m) ==
  {IF e[2] = n THEN <<e[1], m>> ELSE e : e \in edges}

\* Only the build is announced, not the swap.
RenameUnlit(f) ==
  /\ views' = [o \in (IF f.target \in DOMAIN views THEN (DOMAIN views \ {f.target}) \cup {f.new}
                       ELSE DOMAIN views) |->
                 IF o = f.new /\ f.target \in DOMAIN views THEN views[f.target] ELSE views[o]]
  /\ edges' = Moved(f.target, f.new)
  /\ UNCHANGED lit

RenameObject(f) ==
  LET n == f.target
      m == f.new
  IN /\ views' = [o \in (IF n \in DOMAIN views THEN (DOMAIN views \ {n}) \cup {m} ELSE DOMAIN views) |->
                    IF o = m /\ n \in DOMAIN views THEN views[n] ELSE views[o]]
     /\ edges' = Moved(n, m)
     /\ lit' = lit \cup {m}

\* DeleteLineageEdgesInto.
Retired(n) == {e \in edges : e[2] = n}

DropObject(f) ==
  /\ views' = Restrict(views, DOMAIN views \ {f.target})
  /\ edges' = edges \ Retired(f.target)
  /\ UNCHANGED lit

Observe(s) ==
  /\ flow[s] # NoFlow
  /\ flow' = [flow EXCEPT ![s] = NoFlow]
  /\ LET f == flow[s]
     IN \/ f.kind = "modify" /\ UNCHANGED <<views, edges, lit>>
        \/ f.kind \in {"ctas", "insert"} /\ RecordEdges(f)
        \/ f.kind = "view" /\ RecordView(f)
        \/ f.kind = "rename" /\ RenameObject(f)
        \/ f.kind = "drop" /\ DropObject(f)
  /\ UNCHANGED <<object, statements, restarts, missed, forgot>>

\* The response also held a result set: nothing is observed.
NotUnderstood(s) ==
  /\ flow[s] # NoFlow
  /\ flow' = [flow EXCEPT ![s] = NoFlow]
  /\ missed' = TRUE
  /\ UNCHANGED <<object, statements, views, edges, lit, restarts, forgot>>

\* The emulator restarts; its sessions are gone, the engine is another process.
Restart ==
  /\ restarts < MaxRestarts
  /\ restarts' = restarts + 1
  /\ missed' = (missed \/ \E s \in Session : flow[s] # NoFlow)
  /\ forgot' = (forgot \/ DOMAIN views # {})
  /\ flow' = [s \in Session |-> NoFlow]
  /\ views' = [n \in {} |-> {}]
  /\ UNCHANGED <<object, statements, edges, lit>>

-----------------------------------------------------------------------------
Next ==
  \/ Restart
  \/ \E s \in Session :
       \/ CreateTable(s) \/ InsertValues(s)
       \/ CTAS(s) \/ Insert(s) \/ CreateView(s) \/ Rename(s) \/ Drop(s)
       \/ Observe(s) \/ NotUnderstood(s)

Spec == Init /\ [][Next]_vars

-----------------------------------------------------------------------------
Quiet == \A s \in Session : flow[s] = NoFlow

TypeOK ==
  /\ Objects \subseteq Name /\ DOMAIN views \subseteq Name
  /\ \A n \in Objects : object[n].kind \in {"table", "view"} /\ object[n].from \subseteq Name \cup Outside
  /\ \A n \in DOMAIN views : views[n] \subseteq Name \cup Lake
  /\ edges \subseteq (Name \cup Lake) \X Name /\ lit \subseteq Name

\* The edges into a table are the tables its statements read, through views.
Faithful(t) == {e \in edges : e[2] = t} = {<<n, t>> : n \in object[t].from \ Elsewhere}

\* server/warehouselineage.go, through build-then-swap and reuse of names: when
\* every statement was observed in turn, each table has the edges of the
\* statements that built it, under its present name, and nothing dropped has any.
EdgesMatchBuild ==
  Quiet /\ ~missed /\ ~forgot =>
    /\ \A t \in Objects : ~IsView(t) => Faithful(t)
    /\ \A e \in edges : e[2] \in Objects

\* "its sources are attributed straight to the table built from it": whether or
\* not the emulator was restarted in between.
ViewsSeenThrough ==
  Quiet /\ ~missed => \A t \in Objects : ~IsView(t) => Faithful(t)

\* recordEdges, "a table rebuilt from itself is not a movement worth drawing".
NoSelfEdge == ~missed => \A e \in edges : e[1] # e[2]

\* rename, "THE RENAME IS WHEN THE VISIBLE TABLE APPEARS": every table that
\* other tables' rows went into was announced under its present name.
TablesLit == Quiet /\ ~missed => \A t \in Objects : ~IsView(t) /\ object[t].from # {} => t \in lit

\* The graph of the portal: edges and lit tables both follow the builds.
LineageFollows == EdgesMatchBuild /\ TablesLit

\* recordEdges, "INSERT ... VALUES is still a write, and still says so".
WritesLit == Quiet /\ ~missed => \A t \in Objects : ~IsView(t) /\ object[t].written => t \in lit
=============================================================================
