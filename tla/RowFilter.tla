------------------------------ MODULE RowFilter ------------------------------
(* Row filters of OneLake security (pkg/onelakesec/rowfilter.go): one parser   *)
(* for both engines, an evaluation in Go that Direct Lake applies to rows, and *)
(* a rendering in SQL that the analytics endpoint's predicates are made of.    *)
(* A filter is the tree its text parses to, with the table its header names    *)
(* and whether it is of the grammar at all; cells are numbers or Null. Text    *)
(* with its collation, dates, and the cells a filter cannot be compared with   *)
(* are left out, and with them what IS BLANK adds to IS NULL, and filters that *)
(* name a column the table has not before they leave the grammar.              *)
EXTENDS Integers

CONSTANTS Null

\* The columns a filter reads.
RECURSIVE Reads(_)
Reads(n) ==
  CASE n.op \in {"or", "and"} -> Reads(n.l) \cup Reads(n.r)
    [] n.op = "not" -> Reads(n.x)
    [] n.op = "const" -> {}
    [] OTHER -> {n.col}

\* ParseRowFilter: a header for this table, a condition of the grammar, columns
\* the table has.
Parse(filter, table, columns) ==
  IF filter.table # table \/ ~filter.wellformed THEN "refused"
  ELSE IF Reads(filter.where) \subseteq columns THEN "ok" ELSE "unknown column"

Holds(rel, a, b) ==
  CASE rel = "=" -> a = b [] rel = "<>" -> a # b [] rel = "<" -> a < b
    [] rel = "<=" -> a <= b [] rel = ">" -> a > b [] rel = ">=" -> a >= b

Tri(b) == IF b THEN "true" ELSE "false"

\* rfEval: three-valued, by cases.
RECURSIVE Eval(_, _)
Eval(n, row) ==
  CASE n.op = "or" ->
         LET vs == {Eval(n.l, row), Eval(n.r, row)}
         IN IF "true" \in vs THEN "true" ELSE IF vs = {"false"} THEN "false" ELSE "unknown"
    [] n.op = "and" ->
         LET vs == {Eval(n.l, row), Eval(n.r, row)}
         IN IF "false" \in vs THEN "false" ELSE IF vs = {"true"} THEN "true" ELSE "unknown"
    [] n.op = "not" ->
         LET v == Eval(n.x, row)
         IN IF v = "unknown" THEN v ELSE Tri(v = "false")
    [] n.op = "const" -> Tri(n.v)
    [] n.op = "is" -> Tri((row[n.col] = Null) # n.not)
    [] row[n.col] = Null -> "unknown"
    [] n.op = "cmp" -> Tri(Holds(n.rel, row[n.col], n.v))
    [] n.op = "in" -> Tri((row[n.col] \in n.vals) # n.not)

Admits(filter, row) == Eval(filter.where, row) = "true"

-----------------------------------------------------------------------------
(* The rendered predicate under SQL's rules, where an IN is a disjunction of   *)
(* equalities, a truth value is 0, 1 or 2 for false, unknown and true, and     *)
(* NOT, AND and OR are its complement, least and greatest.                     *)

Truth(b) == IF b THEN 2 ELSE 0
Least(a, b) == IF a < b THEN a ELSE b
Greatest(a, b) == IF a > b THEN a ELSE b
SqlCompare(rel, a, b) == IF a = Null THEN 1 ELSE Truth(Holds(rel, a, b))

RECURSIVE SqlIn(_, _)
SqlIn(a, vals) ==
  IF vals = {} THEN 0
  ELSE LET v == CHOOSE x \in vals : TRUE IN Greatest(SqlCompare("=", a, v), SqlIn(a, vals \ {v}))

RECURSIVE Sql(_, _)
Sql(n, row) ==
  CASE n.op = "or" -> Greatest(Sql(n.l, row), Sql(n.r, row))
    [] n.op = "and" -> Least(Sql(n.l, row), Sql(n.r, row))
    [] n.op = "not" -> 2 - Sql(n.x, row)
    [] n.op = "const" -> Truth(n.v)
    [] n.op = "is" -> IF n.not THEN 2 - Truth(row[n.col] = Null) ELSE Truth(row[n.col] = Null)
    [] n.op = "cmp" -> SqlCompare(n.rel, row[n.col], n.v)
    [] n.op = "in" -> IF n.not THEN 2 - SqlIn(row[n.col], n.vals) ELSE SqlIn(row[n.col], n.vals)

Keeps(filter, row) == Sql(filter.where, row) = 2
=============================================================================
