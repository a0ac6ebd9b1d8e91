-------------------------- MODULE EndpointSecurity --------------------------
(* OneLake security in a lakehouse's SQL analytics endpoint in user identity   *)
(* mode (internal/server/onelakesync.go, internal/server/warehouse.go,         *)
(* internal/tds), beside what Direct Lake shows of the same tables             *)
(* (internal/api/directlake.go). A connection decides its principal's          *)
(* memberships from the roles, reflects the tables, reads the roles again and  *)
(* translates each into grants and row predicates, applies the batch if its    *)
(* hash is not the last one's, and provisions the principal; connections       *)
(* overlap step by step, with each other and with changes of the roles. What   *)
(* the engine makes of it (SELECT, IS_MEMBER, a security policy) is external.  *)
(* Shortcut tables, and the switch between the modes, are left out.            *)
EXTENDS OneLakePolicy, RowFilter

CONSTANTS
  Principal,       \* who connects: [id, held, rank]
  Body,            \* the roles that may be written, as stored
  Table,           \* tables of the lakehouse, directly under Tables/
  ColumnOrder,     \* the columns of a table, by name
  Row,             \* the rows there are
  MaxRoles, MaxPuts, MaxCommits, MaxFailures

VARIABLES
  bodies,     \* the roles stored for the item
  lake,       \* the commits of each table
  dst,        \* the engine's tables: the commits reflected, and the object's identity
  endpoint,   \* [names, grants, policy]: database roles, grants and row policies
  synced,     \* the hash of the last batch applied
  member,     \* the database roles each principal is in
  conn,       \* each principal's connection
  undisturbed, \* it overlapped no change of roles, and nothing older than one
  puts, failures

vars == <<bodies, lake, dst, endpoint, synced, member, conn, undisturbed, puts, failures>>
engine == <<dst, endpoint, synced, member>>

Column == {ColumnOrder[i] : i \in DOMAIN ColumnOrder}
NoLayer == [filtered |-> {}, unfiltered |-> {}, narrowed |-> {}]
Bare == [names |-> {}, grants |-> {}, policy |-> [t \in Table |-> NoLayer]]
Idle == [pc |-> "out", names |-> {}, roles |-> {}, batch |-> Bare, hash |-> <<>>]

RoleSets ==
  {S \in SUBSET Body : Cardinality(S) <= MaxRoles /\ \A a, b \in S : a.name = b.name => a = b}

EndpointAssumption ==
  /\ {MaxRoles, MaxPuts, MaxCommits, MaxFailures} \subseteq Nat
  /\ \A p, q \in Principal : p.id = q.id => p = q
  /\ \A r \in Row : r \in [Column -> Int \cup {Null}]

Init ==
  /\ bodies \in RoleSets
  /\ lake = [t \in Table |-> 0]
  /\ dst = [t \in Table |-> [commits |-> 0, object |-> 0]]
  /\ endpoint = Bare
  /\ synced = <<>>
  /\ member = [p \in Principal |-> {}]
  /\ conn = [p \in Principal |-> Idle]
  /\ undisturbed = [p \in Principal |-> FALSE]
  /\ puts = 0 /\ failures = 0

Under == {p \in Principal : conn[p].pc \notin {"out", "open"}}

-----------------------------------------------------------------------------
\* PUT dataAccessRoles replaces every role of the item.
PutRoles ==
  /\ puts < MaxPuts
  /\ puts' = puts + 1
  /\ bodies' \in RoleSets
  /\ undisturbed' = [p \in Principal |-> FALSE]
  /\ UNCHANGED <<lake, engine, conn, failures>>

\* A writer commits to a table.
Commit(t) ==
  /\ lake[t] < MaxCommits
  /\ lake' = [lake EXCEPT ![t] = @ + 1]
  /\ UNCHANGED <<bodies, engine, conn, undisturbed, puts, failures>>

-----------------------------------------------------------------------------
(* A connection.                                                             *)

\* The database roles a principal belongs in: of the roles that give it any of
\* the tables.
Memberships(roles, p) == {r.name : r \in {q \in roles : Effective({q}, p, "Tables") # {}}}

\* sqlAccess: who may not read the item does not connect.
Decide(p) ==
  /\ conn[p].pc \in {"out", "open"} /\ "Read" \in p.held
  /\ conn' = [conn EXCEPT ![p] = [Idle EXCEPT !.pc = "reflect",
                                    !.names = Memberships(EvaluatableRoles(bodies), p)]]
  \* nothing under way began before the last change of roles
  /\ undisturbed' = [undisturbed EXCEPT ![p] = \A q \in Under \ {p} : undisturbed[q]]
  /\ UNCHANGED <<bodies, lake, engine, puts, failures>>

\* Tables that changed are dropped, with their policies and grants, and created
\* anew.
Reflect(p) ==
  LET changed == {t \in Table : dst[t].commits # lake[t]}
  IN /\ conn[p].pc = "reflect"
     /\ conn' = [conn EXCEPT ![p].pc = "read"]
     /\ dst' = [t \in Table |-> IF t \in changed
                                THEN [commits |-> lake[t], object |-> dst[t].object + 1] ELSE dst[t]]
     /\ endpoint' = [endpoint EXCEPT
                       !.grants = {g \in @ : g.table \notin changed},
                       !.policy = [t \in Table |-> IF t \in changed THEN NoLayer ELSE @[t]]]
     /\ UNCHANGED <<bodies, lake, synced, member, undisturbed, puts, failures>>

-----------------------------------------------------------------------------
(* The batch of a set of roles.                                              *)

\* Each role is evaluated on its own, for a member of it.
Sync == [id |-> "sync", held |-> {}, rank |-> "none"]
AsSync(role) == [role EXCEPT !.entra = {"sync"}, !.access = {}]
OfRole(role) == Effective({AsSync(role)}, Sync, "Tables")
Granting(roles, t) == {r \in roles : Allows(OfRole(r), <<"Tables", t>>)}
Narrow(role, t) == Narrowing(OfRole(role), <<"Tables", t>>)
RowsFor(role, t) == UNION {e.rows : e \in Narrow(role, t)}
ColumnsFor(role, t) == UNION {e.columns : e \in Narrow(role, t)}

Parsed(filters, t) == {Parse(f, t, Column) : f \in filters}

\* translateRowFilters stops at the first of a role's filters that cannot be
\* translated, in the order of its rules.
FailsFirst(role, t, how) ==
  LET verdicts(i) == Parsed(RowsFor([role EXCEPT !.rules = <<@[i]>>], t), t)
  IN /\ RowsFor(role, t) # {}
     /\ \E i \in DOMAIN role.rules :
          how \in verdicts(i) /\ \A j \in 1 .. (i - 1) : verdicts(j) \subseteq {"ok"}

\* A filter or a column list that names a column the table has not fails the sync.
Unsyncable(roles) ==
  \E t \in Table : \E r \in Granting(roles, t) :
    ~(ColumnsFor(r, t) \subseteq Column) \/ FailsFirst(r, t, "unknown column")

\* A refused filter admits nothing, and its role is not granted the table.
Refused(role, t) == FailsFirst(role, t, "refused")

Layer(roles, t) ==
  LET granting == Granting(roles, t)
      filtering == {r \in granting : RowsFor(r, t) # {}}
  IN IF filtering = {} THEN NoLayer
     ELSE [filtered |-> {[role |-> r.name, filters |-> IF Refused(r, t) THEN {} ELSE RowsFor(r, t)] :
                           r \in filtering},
           unfiltered |-> {r.name : r \in granting \ filtering},
           narrowed |-> {r.name : r \in {q \in granting : ColumnsFor(q, t) # {}}}]

RoleGrants(roles) ==
  {[role |-> r.name, table |-> t, columns |-> IF ColumnsFor(r, t) = {} THEN Column ELSE ColumnsFor(r, t)] :
     <<r, t>> \in UNION {{r \in Granting(roles, t) : ~Refused(r, t)} \X {t} : t \in Table}}

Batch(roles) ==
  [names |-> {r.name : r \in roles}, grants |-> RoleGrants(roles),
   policy |-> [t \in Table |-> Layer(roles, t)]]

HashOfText(batch) == <<batch>>  \* mutant

\* The hash covers the text of the batch and the identities of the tables.
Hash(batch) == <<batch, [t \in Table |-> dst[t].object]>>

-----------------------------------------------------------------------------
ReadRoles(p) ==
  /\ conn[p].pc = "read"
  /\ conn' = [conn EXCEPT ![p].pc = "endpoint", ![p].roles = EvaluatableRoles(bodies)]
  /\ UNCHANGED <<bodies, lake, engine, undisturbed, puts, failures>>

\* The endpoint's tables and hash are read; a sync whose hash is the last one's
\* has nothing to apply.
ReadEndpoint(p) ==
  LET batch == Batch(conn[p].roles)
  IN /\ conn[p].pc = "endpoint"
     /\ IF Unsyncable(conn[p].roles) THEN conn' = [conn EXCEPT ![p] = Idle]
        ELSE conn' = [conn EXCEPT ![p].pc = IF synced = Hash(batch) THEN "provision" ELSE "apply",
                                  ![p].roles = {}, ![p].batch = batch, ![p].hash = Hash(batch)]
     /\ UNCHANGED <<bodies, lake, engine, undisturbed, puts, failures>>

\* One transaction: roles made and dropped, with their members, and every grant
\* and policy replaced.
Apply(p) ==
  /\ conn[p].pc = "apply"
  /\ endpoint' = conn[p].batch
  /\ synced' = conn[p].hash
  /\ member' = [q \in Principal |-> member[q] \cap conn[p].batch.names]
  /\ conn' = [conn EXCEPT ![p] = [Idle EXCEPT !.pc = "provision", !.names = conn[p].names]]
  /\ UNCHANGED <<bodies, lake, dst, undisturbed, puts, failures>>

\* SyncOneLakeMemberships: the roles decided that exist, and no other.
Provision(p) ==
  /\ conn[p].pc = "provision"
  /\ member' = [member EXCEPT ![p] = conn[p].names \cap endpoint.names]
  /\ conn' = [conn EXCEPT ![p] = [Idle EXCEPT !.pc = "open"]]
  /\ UNCHANGED <<bodies, lake, dst, endpoint, synced, undisturbed, puts, failures>>

\* A statement of the engine fails, and with it the connection.
Fail(p) ==
  /\ conn[p].pc \notin {"out", "open"} /\ failures < MaxFailures
  /\ failures' = failures + 1
  /\ conn' = [conn EXCEPT ![p] = Idle]
  /\ UNCHANGED <<bodies, lake, engine, undisturbed, puts>>

Close(p) ==
  /\ conn[p].pc = "open"
  /\ conn' = [conn EXCEPT ![p] = Idle]
  /\ UNCHANGED <<bodies, lake, engine, undisturbed, puts, failures>>

Next ==
  \/ PutRoles
  \/ \E t \in Table : Commit(t)
  \/ \E p \in Principal :
       \/ Decide(p) \/ Reflect(p) \/ ReadRoles(p) \/ ReadEndpoint(p)
       \/ Apply(p) \/ Provision(p) \/ Fail(p) \/ Close(p)

Spec == Init /\ [][Next]_vars

-----------------------------------------------------------------------------
(* What the two engines show of a table: some columns of some rows.          *)

Nothing == [rows |-> {}, columns |-> {}]
Whole == [rows |-> Row, columns |-> Column]

\* The engine: SELECT on the columns granted to roles the reader is in, and on
\* what the policy takes as arguments; a row passes the policy as a member of a
\* role that filters it or grants it whole, or as a member of none, and no row
\* does for a member of a role that filters and another that narrows columns.
Arguments(layer) ==
  LET read == UNION {Reads(f.where) : f \in UNION {l.filters : l \in layer.filtered}}
  IN IF layer.filtered = {} THEN {} ELSE IF read = {} THEN {ColumnOrder[1]} ELSE read

Selectable(p, t) ==
  IF p.rank \in Full THEN Column
  ELSE UNION {g.columns : g \in {h \in endpoint.grants : h.table = t /\ h.role \in member[p]}}

Passes(layer, in, row) ==
  LET filters(l) == \E f \in l.filters : Keeps(f, row)
      names == {l.role : l \in layer.filtered} \cup layer.unfiltered
  IN /\ \/ \E l \in layer.filtered : l.role \in in /\ filters(l)
        \/ layer.unfiltered \cap in # {}
        \/ names \cap in = {}
     /\ ~\E l \in layer.filtered : l.role \in in /\ (layer.narrowed \ {l.role}) \cap in # {}

EndpointShows(p, t) ==
  LET layer == endpoint.policy[t]
      columns == Selectable(p, t)
  IN IF columns = {} \/ ~(Arguments(layer) \subseteq columns) THEN Nothing
     ELSE [columns |-> columns, rows |-> {row \in Row : Passes(layer, member[p], row)}]

\* secureDirectLakeTable: refused for want of a grant, for a combination that is
\* not supported and for a filter that cannot be applied; the model is one that
\* has only columns it may read.
DirectLake(roles, p, t) ==
  LET read == OneLakeReadAccess(roles, p, "Tables")
      narrowing == Narrowing(read.entries, <<"Tables", t>>)
      filters == UNION {e.rows : e \in narrowing}
      columns == UNION {e.columns : e \in narrowing}
      served(shown) == [served |-> TRUE, shown |-> shown]
      refused(why) == [served |-> FALSE, shown |-> Nothing, why |-> why]
  IN IF ~read.allowed THEN refused("access")
     ELSE IF read.full THEN served(Whole)
     ELSE IF ~Allows(read.entries, <<"Tables", t>>) THEN refused("access")
     ELSE IF \E e \in narrowing : e.unsupported THEN refused("combination")
     ELSE IF Parsed(filters, t) \ {"ok"} # {} THEN refused("filter")
     ELSE served([rows |-> IF filters = {} THEN Row
                           ELSE {row \in Row : \E f \in filters : Admits(f, row)},
                  columns |-> IF columns = {} THEN Column ELSE columns \cap Column])

-----------------------------------------------------------------------------
(* Properties.                                                               *)

Roles == EvaluatableRoles(bodies)

Contained(a, b) == a.rows \subseteq b.rows /\ a.columns \subseteq b.columns

\* The endpoint holds what its roles translate to, and the reader may read the
\* columns the table's policy does.
UpToDate(p, t) ==
  synced = Hash(Batch(Roles)) /\ Arguments(endpoint.policy[t]) \subseteq Selectable(p, t)

\* "The two surfaces cannot disagree about what a filter admits" (rowfilter.go):
\* what a connection that overlapped no change of roles sees of a table is within
\* what Direct Lake shows its principal, and nothing where Direct Lake refuses; a
\* filter outside the grammar, which the two treat differently, apart. A reader
\* whom the roles govern sees every row and column of it, unless the table awaits
\* a sync after it was reflected or its policy reads a column the reader may not.
\* The roles do not govern where there are none, nor a Contributor: see
\* SurfacesEqual.
Agrees(p, t) ==
  LET there == EndpointShows(p, t)
      direct == DirectLake(Roles, p, t)
      governed == Roles # {} /\ p.rank \notin Full
  IN IF direct.served
     THEN Contained(there, direct.shown) /\ (UpToDate(p, t) /\ governed => there = direct.shown)
     ELSE direct.why # "filter" => there.rows = {}

\* The same of every reader. Refuted twice: without roles a holder of ReadAll reads
\* the whole table in Direct Lake, and nothing at the endpoint, where it is granted
\* CONNECT and no role; a Contributor who is in a role that filters is filtered at
\* the endpoint, and reads the whole table in Direct Lake.
SurfacesEqual ==
  \A p \in Principal : conn[p].pc = "open" /\ undisturbed[p] =>
    \A t \in Table :
      LET direct == DirectLake(Roles, p, t)
      IN direct.served /\ UpToDate(p, t) => EndpointShows(p, t) = direct.shown

\* A role that narrows a table in one rule and opens it in another is evaluated
\* as whole on its own, and as narrowing beside others.
OpensItself(role, t) ==
  \E g \in Grants({AsSync(role)}, Sync, "Tables") :
    /\ Covers(g.path, <<"Tables", t>>)
    /\ \/ RowsOf(g, <<"Tables", t>>) # {} /\ RowsFor(role, t) = {}
       \/ ColumnsOf(g, <<"Tables", t>>) # {} /\ ColumnsFor(role, t) = {}

SurfacesAgree ==
  \A p \in Principal : conn[p].pc = "open" /\ undisturbed[p] =>
    \A t \in Table : (\E r \in Roles : IsMember(r, p) /\ OpensItself(r, t)) \/ Agrees(p, t)

\* The same without exception. Refuted: beside a role that filters rows, a role
\* whose own rules narrow columns and open them again is a combination Direct
\* Lake refuses, and one the endpoint, which evaluates each role alone, does not
\* see.
EveryRoleAgrees ==
  \A p \in Principal : conn[p].pc = "open" /\ undisturbed[p] => \A t \in Table : Agrees(p, t)

\* A sync is skipped only when what it would apply is in force.
SkippedIsInForce ==
  \A p \in Principal :
    LET batch == Batch(conn[p].roles)
    IN conn[p].pc = "endpoint" /\ synced = Hash(batch) => endpoint = batch

\* "Adding a role" takes no access away: what Direct Lake shows under some of
\* the roles it shows under all of them, where the combination is supported, the
\* filters can be applied and there were roles before.
GrantsAccumulate ==
  \A p \in Principal, t \in Table : \A b \in bodies :
    LET fewer == EvaluatableRoles(bodies \ {b})
        before == DirectLake(fewer, p, t)
        after == DirectLake(Roles, p, t)
    IN fewer # {} /\ before.served =>
         IF after.served
         THEN before.shown.rows \subseteq after.shown.rows /\ before.shown.columns \subseteq after.shown.columns
         ELSE after.why # "access"

EntriesDecide ==
  \A p \in Principal, t \in Table :
    EntryDecides(Roles, p, <<"Tables", t>>) /\ EntryDecides(Roles, p, <<"Tables", t, "part">>)

\* The endpoint and Direct Lake agree, syncs are skipped rightly, roles add up,
\* and the most specific entry decides.
SecuritySound == SurfacesAgree /\ SkippedIsInForce /\ GrantsAccumulate /\ EntriesDecide
=============================================================================
