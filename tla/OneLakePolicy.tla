---------------------------- MODULE OneLakePolicy ----------------------------
(* OneLake security roles and the access they give                             *)
(* (internal/store/onelakesec.go, pkg/onelakesec/onelakesec.go). A stored role *)
(* is projected into what is certain in it, and the roles of a principal are   *)
(* folded into one entry per path; every surface that reads OneLake asks the   *)
(* entries two questions, Allows and Narrowing.                                *)
(* A path is the sequence of its segments; the case of names is left out. A    *)
(* restriction is a set: of row filters, {} for every row, or of columns, {}   *)
(* for all of them (the code's nil).                                           *)
EXTENDS Naturals, Sequences, FiniteSets

CONSTANTS
  KeyOrder,   \* the tables constraints name, as written, in the order of their spelling
  Full        \* ranks at which a workspace role reads everything (Contributor and above)

Halves == {"Tables", "Files"}

-----------------------------------------------------------------------------
(* Roles as they are read from the store.                                    *)

Named(constraints, table) == {i \in DOMAIN constraints : constraints[i].table = table}

\* A row and a column constraint on one table of a rule are merged; two of a
\* kind, and a list of no column, are nothing certain.
CertainRule(stored) ==
  /\ stored.readable
  /\ \A t \in {KeyOrder[i] : i \in DOMAIN KeyOrder} :
       /\ Cardinality(Named(stored.rows, t)) <= 1
       /\ Cardinality(Named(stored.columns, t)) <= 1
  /\ \A i \in DOMAIN stored.columns : stored.columns[i].names # {}

Constraint(stored, table) ==
  [table |-> table,
   rows |-> {stored.rows[i].filter : i \in Named(stored.rows, table)},
   columns |-> UNION {IF "*" \in stored.columns[i].names THEN {} ELSE stored.columns[i].names :
                        i \in Named(stored.columns, table)}]

DecisionRule(stored) ==
  LET named(t) == Named(stored.rows, t) \cup Named(stored.columns, t) # {}
      tables == SelectSeq(KeyOrder, named)
  IN [effect |-> stored.effect, paths |-> stored.paths, actions |-> stored.actions,
      constraints |-> [i \in DOMAIN tables |-> Constraint(stored, tables[i])]]

\* Rules keep their order, and one that is not certain is dropped; permissions on
\* another item make nobody a member.
EvaluatableRole(body) ==
  [name |-> body.name,
   rules |-> LET certain == SelectSeq(body.rules, CertainRule)
             IN [i \in DOMAIN certain |-> DecisionRule(certain[i])],
   entra |-> body.entra,
   access |-> UNION {m.access : m \in {n \in body.fabric : n.source = "self"}}]

EvaluatableRoles(bodies) == {EvaluatableRole(b) : b \in bodies}

-----------------------------------------------------------------------------
(* Consolidation.                                                            *)

Covers(path, target) ==
  /\ Len(path) <= Len(target)
  /\ \A i \in 1 .. Len(path) : path[i] = target[i]

IsMember(role, p) == p.id \in role.entra \/ role.access \cap p.held # {}

\* The path in the half asked for, or nothing.
NormalisePath(raw, input) ==
  IF raw \in {<<>>, <<"*">>} THEN {<<input>>}
  ELSE IF raw[1] = input THEN {raw}
  ELSE IF raw[1] \in Halves THEN {}
  ELSE {<<input>> \o raw}

\* The constraints on tables within a grant, under their full paths.
Scoped(constraints, path, input) ==
  LET within(c) == \E t \in NormalisePath(c.table, input) : Covers(path, t)
      kept == SelectSeq(constraints, within)
  IN [i \in DOMAIN kept |->
        [kept[i] EXCEPT !.table = CHOOSE t \in NormalisePath(kept[i].table, input) : TRUE]]

RulesOf(role) == {role.rules[i] : i \in DOMAIN role.rules}

RuleGrants(role, rule, input) ==
  {[role |-> role.name, path |-> path, actions |-> rule.actions,
    constraints |-> Scoped(rule.constraints, path, input)] :
     path \in UNION {NormalisePath(raw, input) : raw \in rule.paths}}

Grants(roles, p, input) ==
  UNION {RuleGrants(role, rule, input) :
           <<role, rule>> \in UNION {{r} \X {d \in RulesOf(r) : d.effect = "Permit"} :
                                       r \in {q \in roles : IsMember(q, p)}}}

\* Of the constraints that cover a path the one on the deepest table decides,
\* and of two on one table the first.
MostSpecific(constraints, path) ==
  LET covering == {i \in DOMAIN constraints : Covers(constraints[i].table, path)}
      depth(i) == Len(constraints[i].table)
  IN {constraints[i] : i \in {j \in covering : \A k \in covering :
                                depth(k) < depth(j) \/ (depth(k) = depth(j) /\ j <= k)}}

RowsOf(g, path) == UNION {c.rows : c \in MostSpecific(g.constraints, path)}
ColumnsOf(g, path) == UNION {c.columns : c \in MostSpecific(g.constraints, path)}

\* What the grants give on a path: the union over the grants that reach it. A
\* grant that does not narrow opens it, unless one role filters its rows and
\* another narrows its columns.
Entry(grants, path) ==
  LET reaching == {g \in grants : Covers(g.path, path)}
      filtering == {g \in reaching : RowsOf(g, path) # {}}
      narrowing == {g \in reaching : ColumnsOf(g, path) # {}}
      mixed == \E f \in filtering, n \in narrowing : f.role # n.role
  IN [path |-> path,
      access |-> UNION {g.actions : g \in reaching},
      rows |-> IF mixed \/ filtering = reaching THEN UNION {RowsOf(g, path) : g \in reaching} ELSE {},
      columns |-> IF mixed \/ narrowing = reaching THEN UNION {ColumnsOf(g, path) : g \in reaching} ELSE {},
      unsupported |-> mixed]

PathsOfGrants(grants) == {g.path : g \in grants}  \* mutant
EntryPaths(grants) ==
  {g.path : g \in grants}
    \cup UNION {{g.constraints[i].table : i \in DOMAIN g.constraints} : g \in grants}

Effective(roles, p, input) ==
  LET grants == Grants(roles, p, input) IN {Entry(grants, path) : path \in EntryPaths(grants)}

-----------------------------------------------------------------------------
(* What a reader asks of the entries.                                        *)

Allows(entries, target) == \E e \in entries : Covers(e.path, target)

\* The deepest entry that covers the target, if it restricts anything.
Narrowing(entries, target) ==
  LET covering == {e \in entries : Covers(e.path, target)}
      deepest == {e \in covering : \A f \in covering : Len(f.path) <= Len(e.path)}
  IN {e \in deepest : e.rows # {} \/ e.columns # {}}

\* The decision every surface asks first.
OneLakeReadAccess(roles, p, input) ==
  IF "Read" \notin p.held THEN [allowed |-> FALSE, full |-> FALSE, entries |-> {}]
  ELSE IF p.rank \in Full THEN [allowed |-> TRUE, full |-> TRUE, entries |-> {}]
  ELSE IF roles = {}
  THEN [allowed |-> "ReadAll" \in p.held, full |-> "ReadAll" \in p.held, entries |-> {}]
  ELSE [allowed |-> TRUE, full |-> FALSE, entries |-> Effective(roles, p, input)]

-----------------------------------------------------------------------------
(* Properties of the consolidation, for the roles of an item.                *)

\* "The most specific covering entry decides": the entry a reader takes for a
\* target answers as a consolidation at the target itself would, whatever else
\* of the tree has entries.
EntryDecides(roles, p, target) ==
  LET grants == Grants(roles, p, "Tables")
      there == Entry(grants, target)
      taken == Narrowing(Effective(roles, p, "Tables"), target)
  IN /\ Allows(Effective(roles, p, "Tables"), target) <=> \E g \in grants : Covers(g.path, target)
     /\ (there.rows # {} \/ there.columns # {}) <=> taken # {}
     /\ \A e \in taken : e.rows = there.rows /\ e.columns = there.columns /\ e.unsupported = there.unsupported
=============================================================================
