----------------------------- MODULE RoleSamples -----------------------------
(* OneLake security roles for model checking: one for each way a rule may      *)
(* reach a table, narrow it, or fail to say anything certain. The lakehouse    *)
(* has a table s, of columns a and b.                                          *)
EXTENDS Naturals, Sequences, FiniteSets

Filter(where) == [table |-> "s", wellformed |-> TRUE, where |-> where]
Is(rel, col, v) == [op |-> "cmp", rel |-> rel, col |-> col, v |-> v]
Not(x) == [op |-> "not", x |-> x]
Or(l, r) == [op |-> "or", l |-> l, r |-> r]
And(l, r) == [op |-> "and", l |-> l, r |-> r]

One == Filter(Is("=", "a", 1))
\* Neither keeps a row whose a is null.
Others == Filter(Not(Or(Is("=", "a", 1), Is(">", "a", 2))))
Listed == Filter(And([op |-> "in", col |-> "a", not |-> TRUE, vals |-> {1}], [op |-> "const", v |-> TRUE]))
OfB == Filter(Or(Is("<=", "b", 1), [op |-> "is", col |-> "b", not |-> FALSE]))
Malformed == [One EXCEPT !.wellformed = FALSE]
OfAnother == [One EXCEPT !.table = "u"]
OfMissing == Filter(Is("=", "z", 1))

InS == <<"Tables", "s">>
Rows(table, filter) == <<[table |-> table, filter |-> filter]>>
Columns(table, names) == <<[table |-> table, names |-> names]>>
Rule(paths, rows, columns) ==
  [readable |-> TRUE, effect |-> "Permit", paths |-> paths, actions |-> {"Read"},
   rows |-> rows, columns |-> columns]
Role(name, rules) == [name |-> name, entra |-> {"v"}, fabric |-> {}, rules |-> rules]
ByPermission(name, source, rules) ==
  [name |-> name, entra |-> {}, fabric |-> {[source |-> source, access |-> {"ReadAll"}]}, rules |-> rules]

Everything == Rule({<<"*">>}, <<>>, <<>>)
ManyRoles ==
  {ByPermission("default", "self", <<Everything>>),
   ByPermission("elsewhere", "other", <<Everything>>),
   Role("one", <<Rule({<<"*">>}, Rows(InS, One), <<>>)>>),
   Role("others", <<Rule({<<"s">>}, Rows(<<"s">>, Others), <<>>)>>),
   Role("listed", <<Rule({InS}, Rows(InS, Listed), <<>>), Rule({InS}, Rows(InS, One), <<>>)>>),
   Role("a", <<Rule({<<>>}, <<>>, Columns(InS, {"a"}))>>),
   Role("b", <<Rule({InS}, <<>>, Columns(<<"s">>, {"b"}))>>),
   Role("both", <<Rule({<<"*">>}, Rows(InS, OfB), Columns(InS, {"b"}))>>),
   Role("hidden", <<Rule({InS}, Rows(InS, OfB), Columns(InS, {"a"}))>>),
   Role("opens", <<Rule({InS}, <<>>, Columns(InS, {"a"})), Rule({InS}, <<>>, Columns(InS, {"a", "*"}))>>),
   Role("malformed", <<Rule({<<"*">>}, Rows(InS, OfAnother), <<>>), Rule({InS}, Rows(InS, Malformed), <<>>),
                      Rule({InS}, Rows(InS, OfMissing), <<>>)>>),
   Role("unknown", <<Rule({InS}, Rows(InS, OfMissing), <<>>), Rule({InS}, Rows(InS, Malformed), <<>>)>>),
   Role("missing", <<Rule({InS}, Rows(InS, OfMissing), Columns(InS, {"z"}))>>),
   Role("part", <<Rule({<<"Tables", "s", "part">>}, <<>>, <<>>), Rule({<<"Files">>}, <<>>, <<>>)>>),
   Role("nothing", <<Rule({<<"Files", "s">>}, Rows(InS, One), <<>>),
                    [Everything EXCEPT !.effect = "Deny"],
                    [Everything EXCEPT !.readable = FALSE],
                    Rule({InS}, Rows(InS, One) \o Rows(InS, Others), <<>>),
                    Rule({InS}, <<>>, Columns(InS, {}))>>)}

\* Where roles change under connections.
FewRoles ==
  {Role("a", <<Rule({<<"*">>}, <<>>, Columns(InS, {"a"}))>>),
   [Role("others", <<Rule({InS}, Rows(InS, Others), <<>>)>>) EXCEPT !.entra = {"v", "c"}],
   [Role("others", <<Rule({InS}, Rows(InS, Others), <<>>)>>) EXCEPT !.entra = {"c"}]}

Spelled == <<<<"s">>, InS>>
Viewer == [id |-> "v", held |-> {"Read", "ReadAll"}, rank |-> "Viewer"]
Contributor == [id |-> "c", held |-> {"Read", "ReadAll"}, rank |-> "Contributor"]
Cells(null) == {[a |-> 1, b |-> 1], [a |-> 2, b |-> null], [a |-> null, b |-> 1], [a |-> 3, b |-> 2]}
=============================================================================
