---------------------------- MODULE GitSyncProofs ----------------------------
(* Theorems about GitSync, for any workspaces, callers, names, versions and   *)
(* number of items and commits: a workspace that is recorded as synced by a   *)
(* request nobody interfered with is equal to its branch.                     *)
EXTENDS GitSync, TLAPS

IsItem(x) == x = [name |-> x.name, parts |-> x.parts]

\* A workspace has items under the ids given so far, of different names.
ItemsInv ==
  /\ ids \in Nat
  /\ items = [w \in Workspace |-> items[w]]
  /\ \A w \in Workspace :
       /\ items[w] = [i \in DOMAIN items[w] |-> items[w][i]] /\ DOMAIN items[w] \subseteq 1 .. ids
       /\ \A i \in DOMAIN items[w] : IsItem(items[w][i])
       /\ \A i, j \in DOMAIN items[w] : items[w][i].name = items[w][j].name => i = j

IsRead(r) == r = [at |-> "read", ws |-> r.ws, conn |-> r.conn, todo |-> r.todo, parts |-> r.parts]
IsApply(r) ==
  r = [at |-> "apply", ws |-> r.ws, conn |-> r.conn, remote |-> r.remote, todo |-> r.todo,
       existing |-> r.existing, extra |-> r.extra]

\* A request has a workspace, and the fields of where it is.
RequestsInv ==
  /\ req = [c \in Caller |-> req[c]]
  /\ \A c \in Caller : /\ ~At(c, "idle") => Ws(c) \in Workspace
                       /\ At(c, "read") => IsRead(req[c])
                       /\ At(c, "apply") => IsApply(req[c])

\* What a commit has read: the definitions of the items it is done with.
ReadAll(its, todo, parts) ==
  /\ todo \subseteq {<<i, its[i].name>> : i \in DOMAIN its}
  /\ DOMAIN parts = {its[i].name : i \in {j \in DOMAIN its : <<j, its[j].name>> \notin todo}}
  /\ \A i \in DOMAIN its : <<i, its[i].name>> \notin todo => parts[its[i].name] = its[i].parts

\* How far an update has come: every name of the branch that is done is an item
\* with its definition, and every item is of the branch or about to be deleted.
AppliedAll(its, r) ==
  /\ DOMAIN r.existing \subseteq 1 .. ids /\ r.todo \subseteq DOMAIN r.remote
  /\ \A i \in DOMAIN r.existing \cap DOMAIN its : r.existing[i].name = its[i].name
  /\ \A n \in DOMAIN r.remote \ r.todo :
       \E i \in DOMAIN its : its[i].name = n /\ its[i].parts = r.remote[n]
  /\ \A i \in DOMAIN its : i \in r.extra \/ its[i].name \in DOMAIN r.remote
  /\ \A i \in r.extra : i \in DOMAIN r.existing /\ r.existing[i].name \notin DOMAIN r.remote

Pairs(its) == {<<its[i].name, its[i].parts>> : i \in DOMAIN its}
BranchPairs == {<<n, remote[n].parts>> : n \in DOMAIN remote}

\* What a request nobody interfered with knows.
Knows(c) ==
  LET its == items[Ws(c)]
      r == req[c]
  IN  /\ At(c, "read") => ReadAll(its, r.todo, r.parts)
      /\ At(c, "tx") => ReadAll(its, {}, r.parts)
      /\ At(c, "items") => r.remote = Contents(remote)
      /\ At(c, "apply") => r.remote = Contents(remote) /\ AppliedAll(its, r)
      /\ At(c, "sync") => r.hash = head /\ Pairs(its) = BranchPairs

QuietInv == quiet \subseteq Caller /\ \A c \in quiet : Knows(c)

Inv == ItemsInv /\ RequestsInv /\ QuietInv

-----------------------------------------------------------------------------
(* Items.                                                                    *)

\* The items of one workspace are replaced by others that are in order.
LEMMA OneWorkspace ==
  ASSUME ItemsInv, NEW w \in Workspace, NEW f, items' = [items EXCEPT ![w] = f],
         ids' \in Nat, ids <= ids',
         f = [i \in DOMAIN f |-> f[i]], DOMAIN f \subseteq 1 .. ids',
         \A i \in DOMAIN f : IsItem(f[i]),
         \A i, j \in DOMAIN f : f[i].name = f[j].name => i = j
  PROVE  ItemsInv' /\ items'[w] = f
<1>1. items' = [x \in Workspace |-> items'[x]] /\ items'[w] = f
      /\ \A x \in Workspace \ {w} : items'[x] = items[x]
  BY DEF ItemsInv
<1>2. 1 .. ids \subseteq 1 .. ids'
  BY DEF ItemsInv
<1>3. ASSUME NEW x \in Workspace
      PROVE  /\ items'[x] = [i \in DOMAIN items'[x] |-> items'[x][i]]
             /\ DOMAIN items'[x] \subseteq 1 .. ids'
             /\ \A i \in DOMAIN items'[x] : IsItem(items'[x][i])
             /\ \A i, j \in DOMAIN items'[x] : items'[x][i].name = items'[x][j].name => i = j
  <2>1. CASE x = w
    BY <1>1, <2>1
  <2>2. CASE x # w
    BY <1>1, <1>2, <2>2 DEF ItemsInv
  <2> QED BY <2>1, <2>2
<1> QED BY <1>1, <1>3 DEF ItemsInv, IsItem

\* An item of a new name is created.
LEMMA Creates ==
  ASSUME ItemsInv, NEW w \in Workspace, NEW n, NEW v, Free(w, n), With(w, n, v)
  PROVE  /\ ItemsInv' /\ ids' = ids + 1
         /\ DOMAIN items'[w] = DOMAIN items[w] \cup {ids + 1} /\ ids + 1 \notin DOMAIN items[w]
         /\ items'[w][ids + 1] = [name |-> n, parts |-> v]
         /\ \A i \in DOMAIN items[w] : items'[w][i] = items[w][i]
<1> DEFINE f == [i \in DOMAIN items[w] \cup {ids + 1} |->
                   IF i = ids + 1 THEN [name |-> n, parts |-> v] ELSE items[w][i]]
<1>1. items' = [items EXCEPT ![w] = f] /\ ids' = ids + 1 /\ ids \in Nat
  BY DEF With, ItemsInv
<1>2. ids + 1 \notin DOMAIN items[w] /\ DOMAIN items[w] \subseteq 1 .. ids
  BY <1>1 DEF ItemsInv
<1>3. /\ DOMAIN f = DOMAIN items[w] \cup {ids + 1} /\ f[ids + 1] = [name |-> n, parts |-> v]
      /\ \A i \in DOMAIN items[w] : f[i] = items[w][i]
      /\ f = [i \in DOMAIN f |-> f[i]]
  BY <1>2
<1> HIDE DEF f
<1>4. \A i \in DOMAIN f : IsItem(f[i])
  BY <1>3 DEF ItemsInv, IsItem
<1>5. \A i \in DOMAIN items[w] : items[w][i].name # n
  BY DEF Free, Clash, Names
<1>6. \A i, j \in DOMAIN f : f[i].name = f[j].name => i = j
  BY <1>3, <1>5 DEF ItemsInv
<1>7. DOMAIN f \subseteq 1 .. ids' /\ ids' \in Nat /\ ids <= ids'
  BY <1>1, <1>2, <1>3
<1>8. ItemsInv' /\ items'[w] = f
  BY <1>1, <1>3, <1>4, <1>6, <1>7, OneWorkspace
<1> QED BY <1>1, <1>2, <1>3, <1>8

\* The definition of an item is replaced.
LEMMA Edits ==
  ASSUME ItemsInv, NEW w \in Workspace, NEW k \in DOMAIN items[w], NEW v,
         items' = [items EXCEPT ![w][k].parts = v], ids' = ids
  PROVE  /\ ItemsInv' /\ DOMAIN items'[w] = DOMAIN items[w]
         /\ items'[w][k] = [name |-> items[w][k].name, parts |-> v]
         /\ \A i \in DOMAIN items[w] \ {k} : items'[w][i] = items[w][i]
<1> DEFINE x == [name |-> items[w][k].name, parts |-> v]
           f == [items[w] EXCEPT ![k] = x]
<1>1. [items[w][k] EXCEPT !.parts = v] = x
  <2>1. PICK a, b : items[w][k] = [name |-> a, parts |-> b]
    BY DEF ItemsInv, IsItem
  <2> QED BY <2>1
<1>2. items' = [items EXCEPT ![w] = f]
  BY <1>1
<1>3. /\ DOMAIN f = DOMAIN items[w] /\ f[k] = x
      /\ \A i \in DOMAIN items[w] \ {k} : f[i] = items[w][i]
      /\ f = [i \in DOMAIN f |-> f[i]]
  BY DEF ItemsInv
<1>4. x.name = items[w][k].name /\ IsItem(x)
  BY DEF IsItem
<1> HIDE DEF f, x
<1>5. \A i \in DOMAIN f : IsItem(f[i]) /\ f[i].name = items[w][i].name
  BY <1>3, <1>4 DEF ItemsInv
<1>6. \A i, j \in DOMAIN f : f[i].name = f[j].name => i = j
  BY <1>3, <1>5 DEF ItemsInv
<1>7. DOMAIN f \subseteq 1 .. ids' /\ ids' \in Nat /\ ids <= ids'
  BY <1>3 DEF ItemsInv
<1>8. ItemsInv' /\ items'[w] = f
  BY <1>2, <1>3, <1>5, <1>6, <1>7, OneWorkspace
<1> QED BY <1>3, <1>8 DEF x

\* An item is deleted.
LEMMA Deletes ==
  ASSUME ItemsInv, NEW w \in Workspace, NEW k, Without(w, k), ids' = ids
  PROVE  /\ ItemsInv' /\ DOMAIN items'[w] = DOMAIN items[w] \ {k}
         /\ \A i \in DOMAIN items[w] \ {k} : items'[w][i] = items[w][i]
<1> DEFINE f == [i \in DOMAIN items[w] \ {k} |-> items[w][i]]
<1>1. items' = [items EXCEPT ![w] = f]
  BY DEF Without, ItemsInv
<1>2. /\ DOMAIN f = DOMAIN items[w] \ {k} /\ \A i \in DOMAIN f : f[i] = items[w][i]
      /\ f = [i \in DOMAIN f |-> f[i]]
  OBVIOUS
<1> HIDE DEF f
<1>3. DOMAIN f \subseteq 1 .. ids' /\ ids' \in Nat /\ ids <= ids'
  BY <1>2 DEF ItemsInv
<1>4. /\ \A i \in DOMAIN f : IsItem(f[i])
      /\ \A i, j \in DOMAIN f : f[i].name = f[j].name => i = j
  BY <1>2 DEF ItemsInv
<1>5. ItemsInv' /\ items'[w] = f
  BY <1>1, <1>2, <1>3, <1>4, OneWorkspace
<1> QED BY <1>2, <1>5
-----------------------------------------------------------------------------
(* Requests.                                                                 *)

\* What must hold of the request a caller goes on with.
Shaped(r) == /\ r.at # "idle" => r.ws \in Workspace
             /\ r.at = "read" => IsRead(r)
             /\ r.at = "apply" => IsApply(r)

\* A caller goes on with another request.
LEMMA GoesOn ==
  ASSUME RequestsInv, NEW c \in Caller, NEW r, Goto(c, r), Shaped(r)
  PROVE  RequestsInv' /\ req'[c] = r /\ \A d \in Caller \ {c} : req'[d] = req[d]
<1>1. /\ req' = [d \in Caller |-> req'[d]] /\ req'[c] = r
      /\ \A d \in Caller \ {c} : req'[d] = req[d]
  BY DEF RequestsInv, Goto
<1>2. ASSUME NEW d \in Caller
      PROVE  /\ req'[d].at # "idle" => req'[d].ws \in Workspace
             /\ req'[d].at = "read" => IsRead(req'[d])
             /\ req'[d].at = "apply" => IsApply(req'[d])
  <2>1. CASE d = c
    BY <1>1, <2>1 DEF Shaped
  <2>2. CASE d # c
    BY <1>1, <2>2 DEF RequestsInv, At, Ws
  <2> QED BY <2>1, <2>2
<1> QED BY <1>1, <1>2 DEF RequestsInv, At, Ws, IsRead, IsApply

\* Knowledge that nothing was done to.
LEMMA KnowsKept ==
  ASSUME NEW c, Knows(c), UNCHANGED <<items, ids, remote, head>>, req'[c] = req[c] PROVE Knows(c)'
<1>1. At(c, "read") => ReadAll(items[Ws(c)], req[c].todo, req[c].parts)'
  BY DEF Knows, At, Ws
<1>2. At(c, "tx") => ReadAll(items[Ws(c)], {}, req[c].parts)'
  BY DEF Knows, At, Ws
<1>3. Contents(remote)' = Contents(remote) /\ BranchPairs' = BranchPairs
      /\ Pairs(items[Ws(c)])' = Pairs(items[Ws(c)])
  BY DEF Contents, BranchPairs, Pairs, Ws
<1>4. At(c, "apply") => AppliedAll(items[Ws(c)], req[c])'
  BY DEF Knows, At, Ws, AppliedAll
<1> QED BY <1>1, <1>2, <1>3, <1>4 DEF Knows, At

\* A step that leaves workspaces and branch alone disturbs nobody.
LEMMA Undisturbing ==
  ASSUME Inv, NEW c \in Caller, NEW r, Goto(c, r), Shaped(r),
         UNCHANGED <<items, ids, remote, head>>, quiet' \subseteq quiet \cup {c},
         c \in quiet' => Knows(c)'
  PROVE  Inv'
<1>1. RequestsInv' /\ \A d \in Caller \ {c} : req'[d] = req[d]
  BY GoesOn DEF Inv
<1>2. ItemsInv'
  BY DEF Inv, ItemsInv, IsItem
<1>3. ASSUME NEW d \in quiet', d # c PROVE Knows(d)'
  <2>1. d \in Caller /\ Knows(d) /\ req'[d] = req[d]
    BY <1>1, <1>3 DEF Inv, QuietInv
  <2> QED BY <2>1, KnowsKept
<1>4. QuietInv'
  BY <1>3 DEF Inv, QuietInv
<1> QED BY <1>1, <1>2, <1>4 DEF Inv

\* A request that ends.
LEMMA Ends ==
  ASSUME Inv, NEW c \in Caller, Goto(c, Idle), UNCHANGED <<items, ids, remote, head>>,
         quiet' = quiet \ {c}
  PROVE  Inv'
<1>1. Shaped(Idle)
  BY DEF Shaped, Idle
<1> QED BY <1>1, Undisturbing

\* A step that changes a workspace or the branch leaves nobody else quiet.
LEMMA Disturbing ==
  ASSUME Inv, NEW c \in Caller, NEW r, Goto(c, r), Shaped(r), ItemsInv', quiet' = quiet \cap {c},
         c \in quiet' => Knows(c)'
  PROVE  Inv'
<1>1. RequestsInv'
  BY GoesOn DEF Inv
<1> QED BY <1>1 DEF Inv, QuietInv

\* So does a request on items.
LEMMA Foreign ==
  ASSUME Inv, ItemsInv', req' = req, quiet' = {} PROVE Inv'
  BY DEF Inv, QuietInv, RequestsInv, At, Ws, IsRead, IsApply

LEMMA InitInv == Init => Inv
<1> SUFFICES ASSUME Init PROVE Inv
  OBVIOUS
<1>1. ItemsInv
  BY DEF Init, ItemsInv
<1>2. RequestsInv
  BY DEF Init, RequestsInv, At, Ws, Idle
<1>3. QuietInv
  BY DEF Init, QuietInv
<1> QED BY <1>1, <1>2, <1>3 DEF Inv

-----------------------------------------------------------------------------
(* A commit.                                                                 *)
LEMMA ListForCommitInv == ASSUME Inv, NEW c \in Caller, ListForCommit(c) PROVE Inv'
<1> DEFINE its == items[Ws(c)]
           r == [at |-> "read", ws |-> Ws(c), conn |-> req[c].conn,
                 todo |-> {<<i, its[i].name>> : i \in DOMAIN its}, parts |-> <<>>]
<1>1. Goto(c, r) /\ Ws(c) \in Workspace /\ UNCHANGED <<items, ids, remote, head, quiet>>
  BY DEF ListForCommit, Inv, RequestsInv, At
<1>2. Shaped(r)
  BY <1>1 DEF Shaped, IsRead
<1>3. req'[c] = r
  BY <1>1, <1>2, GoesOn DEF Inv
<1>4. ReadAll(its, r.todo, r.parts)
  BY DEF ReadAll
<1>5. Knows(c)'
  <2>1. req'[c].at = "read" /\ req'[c].todo = r.todo /\ req'[c].parts = r.parts
    BY <1>3
  <2>2. items'[req'[c].ws] = its
    BY <1>1, <1>3
  <2>3. ReadAll(items'[req'[c].ws], req'[c].todo, req'[c].parts)
    BY <1>4, <2>1, <2>2, Zenon
  <2> QED BY <2>1, <2>3 DEF Knows, At, Ws, ReadAll
<1> QED BY <1>1, <1>2, <1>5, Undisturbing

LEMMA ReadDefinitionInv == ASSUME Inv, NEW c \in Caller, ReadDefinition(c) PROVE Inv'
<1>1. PICK x \in req[c].todo :
        LET v == IF x[1] \in DOMAIN items[Ws(c)] THEN items[Ws(c)][x[1]].parts ELSE "none"
        IN  Goto(c, [req[c] EXCEPT !.todo = @ \ {x},
                      !.parts = [n \in DOMAIN @ \cup {x[2]} |-> IF n = x[2] THEN v ELSE @[n]]])
  BY DEF ReadDefinition
<1>2. /\ At(c, "read") /\ Ws(c) \in Workspace
      /\ UNCHANGED <<items, ids, remote, head, quiet>>
  BY DEF ReadDefinition, Inv, RequestsInv, At
<1>3. PICK w, k, todo, parts :
        req[c] = [at |-> "read", ws |-> w, conn |-> k, todo |-> todo, parts |-> parts]
  BY <1>2 DEF Inv, RequestsInv, IsRead
<1> DEFINE its == items[w]
           v == IF x[1] \in DOMAIN its THEN its[x[1]].parts ELSE "none"
           more == [n \in DOMAIN parts \cup {x[2]} |-> IF n = x[2] THEN v ELSE parts[n]]
           r == [at |-> "read", ws |-> w, conn |-> k, todo |-> todo \ {x}, parts |-> more]
<1>4. Goto(c, r) /\ w = Ws(c) /\ w \in Workspace /\ x \in todo
  <2>1. w = Ws(c) /\ w \in Workspace /\ x \in todo
    BY <1>2, <1>3 DEF Ws
  <2>2. [req[c] EXCEPT !.todo = @ \ {x},
           !.parts = [n \in DOMAIN @ \cup {x[2]} |-> IF n = x[2] THEN v ELSE @[n]]] = r
    <3>1. req[c].todo = todo /\ req[c].parts = parts
      BY <1>3
    <3>2. [req[c] EXCEPT !.todo = todo \ {x}, !.parts = more]
          = [[req[c] EXCEPT !.todo = todo \ {x}] EXCEPT !.parts = more]
      BY Zenon
    <3> DEFINE once == [at |-> "read", ws |-> w, conn |-> k, todo |-> todo \ {x}, parts |-> parts]
    <3>3. [req[c] EXCEPT !.todo = todo \ {x}] = once
      BY <1>3
    <3>4. [once EXCEPT !.parts = more] = r
      OBVIOUS
    <3>5. [req[c] EXCEPT !.todo = todo \ {x}, !.parts = more] = r
      BY <3>2, <3>3, <3>4, Zenon
    <3> QED BY <3>1, <3>5, Zenon
  <2> QED BY <1>1, <2>1, <2>2
<1>5. Shaped(r)
  BY <1>4 DEF Shaped, IsRead
<1>6. req'[c] = r
  BY <1>4, <1>5, GoesOn DEF Inv
<1>7. ASSUME c \in quiet PROVE ReadAll(its, todo \ {x}, more)
  <2>1. ReadAll(its, todo, parts)
    BY <1>2, <1>3, <1>7 DEF Inv, QuietInv, Knows, Ws
  <2>2. PICK i \in DOMAIN its : x = <<i, its[i].name>>
    BY <1>4, <2>1 DEF ReadAll
  <2>3. /\ DOMAIN more = DOMAIN parts \cup {its[i].name} /\ more[its[i].name] = its[i].parts
        /\ \A n \in DOMAIN parts : n # its[i].name => more[n] = parts[n]
    BY <2>2
  <2>4. \A j \in DOMAIN its : its[j].name = its[i].name => j = i
    BY <1>4 DEF Inv, ItemsInv
  <2>5. \A j \in DOMAIN its : <<j, its[j].name>> \notin todo \ {x}
                                <=> j = i \/ <<j, its[j].name>> \notin todo
    BY <2>2
  <2> HIDE DEF more
  <2>6. \A j \in DOMAIN its : <<j, its[j].name>> \notin todo =>
          its[j].name \in DOMAIN parts /\ parts[its[j].name] = its[j].parts
    BY <2>1 DEF ReadAll
  <2>7. ASSUME NEW j \in DOMAIN its, <<j, its[j].name>> \notin todo \ {x}
        PROVE  more[its[j].name] = its[j].parts
    <3>1. CASE j = i
      BY <2>3, <3>1
    <3>2. CASE j # i
      BY <2>3, <2>4, <2>5, <2>6, <2>7, <3>2
    <3> QED BY <3>1, <3>2
  <2>8. DOMAIN more =
          {its[j].name : j \in {l \in DOMAIN its : <<l, its[l].name>> \notin todo \ {x}}}
    BY <2>1, <2>3, <2>5 DEF ReadAll
  <2> QED BY <2>1, <2>7, <2>8 DEF ReadAll
<1> HIDE DEF more
<1>8. c \in quiet' => Knows(c)'
  <2>1. /\ req'[c].at = "read" /\ req'[c].ws = w
        /\ req'[c].todo = todo \ {x} /\ req'[c].parts = more
    BY <1>6
  <2>2. c \in quiet => ReadAll(items[w], todo \ {x}, more)
    BY <1>7
  <2>3. c \in quiet => ReadAll(items'[req'[c].ws], req'[c].todo, req'[c].parts)
    BY <1>2, <2>1, <2>2, Zenon
  <2> QED BY <1>2, <2>1, <2>3 DEF Knows, At, Ws, ReadAll
<1> QED BY <1>2, <1>4, <1>5, <1>8, Undisturbing

LEMMA ReadLogicalInv == ASSUME Inv, NEW c \in Caller, ReadLogical(c) PROVE Inv'
<1> DEFINE r == [at |-> "tx", ws |-> Ws(c), conn |-> req[c].conn, parts |-> req[c].parts,
                 logical |-> [n \in DOMAIN remote |-> remote[n].logical]]
<1>1. /\ Goto(c, r) /\ Ws(c) \in Workspace /\ At(c, "read") /\ req[c].todo = {}
      /\ UNCHANGED <<items, ids, remote, head, quiet>>
  BY DEF ReadLogical, Inv, RequestsInv, At
<1>2. Shaped(r)
  BY <1>1 DEF Shaped
<1>3. req'[c] = r
  BY <1>1, <1>2, GoesOn DEF Inv
<1>4. c \in quiet => ReadAll(items[Ws(c)], {}, req[c].parts)
  BY <1>1 DEF Inv, QuietInv, Knows
<1>5. c \in quiet' => Knows(c)'
  BY <1>1, <1>3, <1>4 DEF Knows, At, Ws, ReadAll
<1> QED BY <1>1, <1>2, <1>5, Undisturbing

LEMMA CommitTxInv == ASSUME Inv, NEW c \in Caller, CommitTx(c) PROVE Inv'
<1> DEFINE its == items[Ws(c)]
           r == [at |-> "sync", ws |-> Ws(c), conn |-> req[c].conn, hash |-> Len(history) + 1]
<1>1. /\ Goto(c, r) /\ Ws(c) \in Workspace /\ At(c, "tx") /\ UNCHANGED <<items, ids>>
      /\ quiet' = quiet \cap {c} /\ remote' = NewBranch(c) /\ head' = Len(history) + 1
  BY DEF CommitTx, Inv, RequestsInv, At
<1>2. Shaped(r)
  BY <1>1 DEF Shaped
<1>3. req'[c] = r
  BY <1>1, <1>2, GoesOn DEF Inv
<1>4. ItemsInv'
  BY <1>1 DEF Inv, ItemsInv, IsItem
<1>5. DOMAIN remote' = DOMAIN req[c].parts
      /\ \A n \in DOMAIN req[c].parts : remote'[n].parts = req[c].parts[n]
  BY <1>1 DEF NewBranch
<1>6. ASSUME c \in quiet PROVE Pairs(its) = BranchPairs'
  <2>1. ReadAll(its, {}, req[c].parts)
    BY <1>1, <1>6 DEF Inv, QuietInv, Knows
  <2>2. /\ DOMAIN req[c].parts = {its[i].name : i \in DOMAIN its}
        /\ \A i \in DOMAIN its : req[c].parts[its[i].name] = its[i].parts
    BY <2>1 DEF ReadAll
  <2>3. BranchPairs' = {<<n, req[c].parts[n]>> : n \in DOMAIN req[c].parts}
    BY <1>5 DEF BranchPairs
  <2> QED BY <2>2, <2>3 DEF Pairs
<1>7. c \in quiet => Knows(c)'
  BY <1>1, <1>3, <1>6 DEF Knows, At, Ws, Pairs
<1> QED BY <1>1, <1>2, <1>4, <1>7, Disturbing

-----------------------------------------------------------------------------
(* An update.                                                                *)
LEMMA ListRemoteInv == ASSUME Inv, NEW c \in Caller, ListRemote(c) PROVE Inv'
<1> DEFINE r == [at |-> "items", ws |-> Ws(c), conn |-> req[c].conn, remote |-> Contents(remote)]
<1>1. Goto(c, r) /\ Ws(c) \in Workspace /\ UNCHANGED <<items, ids, remote, head, quiet>>
  BY DEF ListRemote, Inv, RequestsInv, At
<1>2. Shaped(r)
  BY <1>1 DEF Shaped
<1>3. req'[c] = r
  BY <1>1, <1>2, GoesOn DEF Inv
<1>4. Knows(c)'
  BY <1>1, <1>3 DEF Knows, At, Contents
<1> QED BY <1>1, <1>2, <1>4, Undisturbing

LEMMA ListExistingInv == ASSUME Inv, NEW c \in Caller, ListExisting(c) PROVE Inv'
<1> DEFINE its == items[Ws(c)]
           r == [at |-> "apply", ws |-> Ws(c), conn |-> req[c].conn, remote |-> req[c].remote,
                 todo |-> DOMAIN req[c].remote, existing |-> its,
                 extra |-> Extra(its, DOMAIN req[c].remote)]
<1>1. /\ Goto(c, r) /\ Ws(c) \in Workspace /\ At(c, "items")
      /\ UNCHANGED <<items, ids, remote, head, quiet>>
  BY DEF ListExisting, Inv, RequestsInv, At
<1>2. Shaped(r)
  BY <1>1 DEF Shaped, IsApply
<1>3. req'[c] = r
  BY <1>1, <1>2, GoesOn DEF Inv
<1>4. AppliedAll(its, r)
  BY <1>1 DEF AppliedAll, Extra, Inv, ItemsInv
<1>5. c \in quiet => req[c].remote = Contents(remote)
  BY <1>1 DEF Inv, QuietInv, Knows
<1>6. c \in quiet' => Knows(c)'
  <2>1. Contents(remote)' = Contents(remote) /\ its' = its
    BY <1>1, <1>3 DEF Contents, Ws
  <2>2. AppliedAll(its, req[c])'
    BY <1>1, <1>3, <1>4, <2>1 DEF AppliedAll
  <2>3. req'[c].at = "apply" /\ req'[c].remote = req[c].remote
    BY <1>3
  <2> QED BY <1>1, <1>5, <2>1, <2>2, <2>3 DEF Knows, At
<1> QED BY <1>1, <1>2, <1>6, Undisturbing

\* An update that goes on after one of its changes to the workspace.
LEMMA GoesOnApplying ==
  ASSUME Inv, NEW c \in Caller, At(c, "apply"), NEW r, Goto(c, r), IsApply(r),
         r.at = "apply", r.ws = Ws(c), r.remote = req[c].remote,
         ItemsInv', UNCHANGED remote, quiet' = quiet \cap {c},
         AppliedAll(items[Ws(c)], req[c]) => AppliedAll(items[r.ws], r)'
  PROVE  Inv'
<1>1. Shaped(r)
  BY DEF Shaped, IsApply, Inv, RequestsInv, At
<1>2. req'[c] = r
  BY <1>1, GoesOn DEF Inv
<1>3. c \in quiet => Knows(c)'
  <2> HAVE c \in quiet
  <2>1. AppliedAll(items[Ws(c)], req[c]) /\ req[c].remote = Contents(remote)
    BY DEF Inv, QuietInv, Knows
  <2>2. AppliedAll(items[Ws(c)], req[c])'
    BY <1>2, <2>1 DEF Ws
  <2>3. Contents(remote)' = Contents(remote)
    BY DEF Contents
  <2> QED BY <1>2, <2>1, <2>2, <2>3 DEF Knows, At
<1> QED BY <1>1, <1>3, Disturbing

LEMMA ReadHeadInv == ASSUME Inv, NEW c \in Caller, ReadHead(c) PROVE Inv'
<1> DEFINE its == items[Ws(c)]
           r == [at |-> "sync", ws |-> Ws(c), conn |-> req[c].conn, hash |-> head]
<1>1. /\ Goto(c, r) /\ Ws(c) \in Workspace /\ At(c, "apply")
      /\ req[c].todo = {} /\ req[c].extra = {}
      /\ UNCHANGED <<items, ids, remote, head, quiet>>
  BY DEF ReadHead, Inv, RequestsInv, At
<1>2. Shaped(r)
  BY <1>1 DEF Shaped
<1>3. req'[c] = r
  BY <1>1, <1>2, GoesOn DEF Inv
<1>4. ASSUME c \in quiet PROVE Pairs(its) = BranchPairs
  <2>1. req[c].remote = Contents(remote) /\ AppliedAll(its, req[c])
    BY <1>1, <1>4 DEF Inv, QuietInv, Knows
  <2>2. DOMAIN req[c].remote = DOMAIN remote
        /\ \A n \in DOMAIN remote : req[c].remote[n] = remote[n].parts
    BY <2>1 DEF Contents
  <2>3. \A n \in DOMAIN remote :
          \E i \in DOMAIN its : its[i].name = n /\ its[i].parts = remote[n].parts
    BY <1>1, <2>1, <2>2 DEF AppliedAll
  <2>4. \A i \in DOMAIN its : its[i].name \in DOMAIN remote
    BY <1>1, <2>1, <2>2 DEF AppliedAll
  <2>5. \A i, j \in DOMAIN its : its[i].name = its[j].name => i = j
    BY <1>1 DEF Inv, ItemsInv
  <2>6. \A i \in DOMAIN its : its[i].parts = remote[its[i].name].parts
    BY <2>3, <2>4, <2>5
  <2>7. Pairs(its) \subseteq BranchPairs
    BY <2>4, <2>6 DEF Pairs, BranchPairs
  <2>8. BranchPairs \subseteq Pairs(its)
    BY <2>3 DEF Pairs, BranchPairs
  <2> QED BY <2>7, <2>8
<1>5. c \in quiet' => Knows(c)'
  <2>1. Pairs(its)' = Pairs(its) /\ BranchPairs' = BranchPairs
    BY <1>1, <1>3 DEF Pairs, BranchPairs, Ws
  <2> QED BY <1>1, <1>3, <1>4, <2>1 DEF Knows, At
<1> QED BY <1>1, <1>2, <1>5, Undisturbing

LEMMA ApplyInv == ASSUME Inv, NEW c \in Caller, Apply(c) PROVE Inv'
<1>1. /\ At(c, "apply") /\ Ws(c) \in Workspace /\ UNCHANGED <<remote, head>>
      /\ ItemsInv /\ RequestsInv
  BY DEF Apply, Inv, RequestsInv, At
<1>2. PICK w, k, rem, todo, old, extra :
        req[c] = [at |-> "apply", ws |-> w, conn |-> k, remote |-> rem, todo |-> todo,
                  existing |-> old, extra |-> extra]
  BY <1>1 DEF RequestsInv, IsApply
<1>3. w = Ws(c) /\ w \in Workspace
  BY <1>1, <1>2 DEF Ws
<1> DEFINE rest(n) == [req[c] EXCEPT !.todo = @ \ {n}]
           Done(n) == Goto(c, rest(n)) /\ quiet' = quiet \cap {c}
<1>0. PICK n \in req[c].todo :
        \/ \E i \in {j \in DOMAIN req[c].existing : req[c].existing[j].name = n}
                      \cap DOMAIN items[Ws(c)] :
             /\ items' = [items EXCEPT ![Ws(c)][i].parts = req[c].remote[n]]
             /\ Done(n) /\ UNCHANGED ids
        \/ Free(Ws(c), n) /\ With(Ws(c), n, req[c].remote[n]) /\ Done(n)
        \/ Fail(c)
  BY DEF Apply
<1> HIDE DEF rest
<1>4. /\ n \in todo
      /\ \/ /\ \E i \in {j \in DOMAIN old : old[j].name = n} \cap DOMAIN items[w] :
                 items' = [items EXCEPT ![w][i].parts = rem[n]]
            /\ Done(n) /\ UNCHANGED ids
         \/ Free(w, n) /\ With(w, n, rem[n]) /\ Done(n)
         \/ Fail(c)
  <2>1. req[c].todo = todo /\ req[c].remote = rem /\ req[c].existing = old
    BY <1>2
  <2> HIDE DEF Done
  <2> QED BY <1>0, <1>3, <2>1, Zenon
<1> DEFINE its == items[w]
           r == [at |-> "apply", ws |-> w, conn |-> k, remote |-> rem, todo |-> todo \ {n},
                 existing |-> old, extra |-> extra]
<1>5. rest(n) = r
  BY <1>2 DEF rest
<1>6. IsApply(r) /\ r.at = "apply" /\ r.ws = Ws(c) /\ r.remote = req[c].remote
  BY <1>2, <1>3 DEF IsApply
<1>7. AppliedAll(its, req[c]) <=>
        /\ DOMAIN old \subseteq 1 .. ids /\ todo \subseteq DOMAIN rem
        /\ \A i \in DOMAIN old \cap DOMAIN its : old[i].name = its[i].name
        /\ \A m \in DOMAIN rem \ todo :
             \E i \in DOMAIN its : its[i].name = m /\ its[i].parts = rem[m]
        /\ \A i \in DOMAIN its : i \in extra \/ its[i].name \in DOMAIN rem
        /\ \A i \in extra : i \in DOMAIN old /\ old[i].name \notin DOMAIN rem
  BY <1>2 DEF AppliedAll
<1>8. AppliedAll(its, r)' <=>
        /\ DOMAIN old \subseteq 1 .. ids' /\ todo \ {n} \subseteq DOMAIN rem
        /\ \A i \in DOMAIN old \cap DOMAIN its' : old[i].name = its'[i].name
        /\ \A m \in DOMAIN rem \ (todo \ {n}) :
             \E i \in DOMAIN its' : its'[i].name = m /\ its'[i].parts = rem[m]
        /\ \A i \in DOMAIN its' : i \in extra \/ its'[i].name \in DOMAIN rem
        /\ \A i \in extra : i \in DOMAIN old /\ old[i].name \notin DOMAIN rem
  BY DEF AppliedAll
<1>9. CASE /\ \E i \in {j \in DOMAIN old : old[j].name = n} \cap DOMAIN items[w] :
                items' = [items EXCEPT ![w][i].parts = rem[n]]
           /\ Goto(c, r) /\ quiet' = quiet \cap {c} /\ UNCHANGED ids
  <2>1. PICK i \in DOMAIN old \cap DOMAIN its :
          old[i].name = n /\ items' = [items EXCEPT ![w][i].parts = rem[n]]
    BY <1>9
  <2>2. /\ ItemsInv' /\ DOMAIN its' = DOMAIN its
        /\ its'[i] = [name |-> its[i].name, parts |-> rem[n]]
        /\ \A j \in DOMAIN its \ {i} : its'[j] = its[j]
    <3>1. i \in DOMAIN items[w] /\ items' = [items EXCEPT ![w][i].parts = rem[n]] /\ ids' = ids
      BY <1>9, <2>1
    <3>2. ItemsInv /\ w \in Workspace
      BY <1>1, <1>3
    <3> QED BY <3>1, <3>2, Edits, Zenon
  <2>3. its'[i].name = its[i].name /\ its'[i].parts = rem[n]
    BY <2>2
  <2>4. ASSUME AppliedAll(its, req[c]) PROVE AppliedAll(its, r)'
    <3>1. its[i].name = n /\ \A j \in DOMAIN its : its'[j].name = its[j].name
      BY <1>7, <2>1, <2>2, <2>3, <2>4
    <3>2. ASSUME NEW m \in DOMAIN rem \ (todo \ {n})
          PROVE  \E j \in DOMAIN its' : its'[j].name = m /\ its'[j].parts = rem[m]
      <4>1. CASE m = n
        BY <2>1, <2>2, <2>3, <3>1, <4>1
      <4>2. CASE m # n
        <5>1. PICK j \in DOMAIN its : its[j].name = m /\ its[j].parts = rem[m]
          BY <1>7, <2>4, <3>2, <4>2
        <5> QED BY <2>2, <3>1, <4>2, <5>1
      <4> QED BY <4>1, <4>2
    <3> QED BY <1>7, <1>8, <1>9, <2>2, <2>4, <3>1, <3>2
  <2> QED BY <1>1, <1>3, <1>6, <1>9, <2>2, <2>4, GoesOnApplying
<1>10. CASE Free(w, n) /\ With(w, n, rem[n]) /\ Goto(c, r) /\ quiet' = quiet \cap {c}
  <2>1. /\ ItemsInv' /\ ids' = ids + 1
        /\ DOMAIN its' = DOMAIN its \cup {ids + 1} /\ ids + 1 \notin DOMAIN its
        /\ its'[ids + 1] = [name |-> n, parts |-> rem[n]]
        /\ \A i \in DOMAIN its : its'[i] = its[i]
    BY <1>1, <1>3, <1>10, Creates
  <2>2. its'[ids + 1].name = n /\ its'[ids + 1].parts = rem[n]
    BY <2>1
  <2>3. ASSUME AppliedAll(its, req[c]) PROVE AppliedAll(its, r)'
    <3>1. ids \in Nat /\ n \in DOMAIN rem
      BY <1>1, <1>4, <1>7, <2>3 DEF ItemsInv
    <3>2. ids + 1 \notin DOMAIN old /\ DOMAIN old \subseteq 1 .. ids'
      BY <1>7, <2>1, <2>3, <3>1
    <3>3. ASSUME NEW m \in DOMAIN rem \ (todo \ {n})
          PROVE  \E j \in DOMAIN its' : its'[j].name = m /\ its'[j].parts = rem[m]
      <4>1. CASE m = n
        BY <2>1, <2>2, <4>1
      <4>2. CASE m # n
        <5>1. PICK j \in DOMAIN its : its[j].name = m /\ its[j].parts = rem[m]
          BY <1>7, <2>3, <3>3, <4>2
        <5> QED BY <2>1, <5>1
      <4> QED BY <4>1, <4>2
    <3>4. \A i \in DOMAIN its' : i \in extra \/ its'[i].name \in DOMAIN rem
      BY <1>7, <2>1, <2>2, <2>3, <3>1
    <3>5. \A i \in DOMAIN old \cap DOMAIN its' : old[i].name = its'[i].name
      BY <1>7, <2>1, <2>3, <3>2
    <3> QED BY <1>7, <1>8, <2>3, <3>2, <3>3, <3>4, <3>5
  <2> QED BY <1>1, <1>3, <1>6, <1>10, <2>1, <2>3, GoesOnApplying
<1>11. CASE Fail(c)
  BY <1>1, <1>11, Ends DEF Fail
<1> HIDE DEF r
<1> QED BY <1>4, <1>5, <1>9, <1>10, <1>11

LEMMA DeleteExtraInv == ASSUME Inv, NEW c \in Caller, DeleteExtra(c) PROVE Inv'
<1>1. /\ At(c, "apply") /\ Ws(c) \in Workspace /\ UNCHANGED <<remote, head>>
      /\ ItemsInv /\ RequestsInv
  BY DEF DeleteExtra, Inv, RequestsInv, At
<1>2. PICK w, k, rem, todo, old, extra :
        req[c] = [at |-> "apply", ws |-> w, conn |-> k, remote |-> rem, todo |-> todo,
                  existing |-> old, extra |-> extra]
  BY <1>1 DEF RequestsInv, IsApply
<1>3. w = Ws(c) /\ w \in Workspace
  BY <1>1, <1>2 DEF Ws
<1> DEFINE rest(i) == [req[c] EXCEPT !.extra = @ \ {i}]
<1>0. PICK i \in req[c].extra :
        \/ /\ i \in DOMAIN items[Ws(c)] /\ Without(Ws(c), i)
           /\ Goto(c, rest(i)) /\ quiet' = quiet \cap {c}
           /\ UNCHANGED ids
        \/ Fail(c)
  BY DEF DeleteExtra
<1> HIDE DEF rest
<1>4. /\ i \in extra
      /\ \/ Without(w, i) /\ Goto(c, rest(i)) /\ quiet' = quiet \cap {c} /\ UNCHANGED ids
         \/ Fail(c)
  <2>1. req[c].extra = extra
    BY <1>2
  <2> QED BY <1>0, <1>3, <2>1
<1> DEFINE its == items[w]
           r == [at |-> "apply", ws |-> w, conn |-> k, remote |-> rem, todo |-> todo,
                 existing |-> old, extra |-> extra \ {i}]
<1>5. rest(i) = r
  BY <1>2 DEF rest
<1>6. IsApply(r) /\ r.at = "apply" /\ r.ws = Ws(c) /\ r.remote = req[c].remote
  BY <1>2, <1>3 DEF IsApply
<1>7. CASE Without(w, i) /\ Goto(c, r) /\ quiet' = quiet \cap {c} /\ UNCHANGED ids
  <2>1. /\ ItemsInv' /\ DOMAIN its' = DOMAIN its \ {i}
        /\ \A j \in DOMAIN its \ {i} : its'[j] = its[j]
    BY <1>1, <1>3, <1>7, Deletes
  <2>2. ASSUME AppliedAll(its, req[c]) PROVE AppliedAll(its, r)'
    <3>1. /\ DOMAIN old \subseteq 1 .. ids /\ todo \subseteq DOMAIN rem
          /\ \A j \in DOMAIN old \cap DOMAIN its : old[j].name = its[j].name
          /\ \A m \in DOMAIN rem \ todo :
               \E j \in DOMAIN its : its[j].name = m /\ its[j].parts = rem[m]
          /\ \A j \in DOMAIN its : j \in extra \/ its[j].name \in DOMAIN rem
          /\ \A j \in extra : j \in DOMAIN old /\ old[j].name \notin DOMAIN rem
      BY <1>2, <2>2 DEF AppliedAll
    <3>2. ASSUME NEW m \in DOMAIN rem \ todo
          PROVE  \E j \in DOMAIN its' : its'[j].name = m /\ its'[j].parts = rem[m]
      <4>1. PICK j \in DOMAIN its : its[j].name = m /\ its[j].parts = rem[m]
        BY <3>1, <3>2
      <4>2. j # i
        BY <1>4, <3>1, <4>1
      <4> QED BY <2>1, <4>1, <4>2
    <3>3. /\ \A j \in DOMAIN old \cap DOMAIN its' : old[j].name = its'[j].name
          /\ \A j \in DOMAIN its' : j \in extra \ {i} \/ its'[j].name \in DOMAIN rem
      BY <2>1, <3>1
    <3> QED BY <1>7, <3>1, <3>2, <3>3 DEF AppliedAll
  <2> QED BY <1>1, <1>3, <1>6, <1>7, <2>1, <2>2, GoesOnApplying
<1>8. CASE Fail(c)
  BY <1>1, <1>8, Ends DEF Fail
<1> HIDE DEF r
<1> QED BY <1>4, <1>5, <1>7, <1>8

-----------------------------------------------------------------------------
\* A connection that is made or undone is nobody's business but its own.
LEMMA ConnectionsInv ==
  ASSUME Inv, UNCHANGED <<items, ids, remote, head, req, quiet>> PROVE Inv'
<1>1. ItemsInv'
  BY DEF Inv, ItemsInv, IsItem
<1>2. RequestsInv'
  BY DEF Inv, RequestsInv, At, Ws, IsRead, IsApply
<1>3. ASSUME NEW c \in quiet' PROVE Knows(c)'
  BY <1>3, KnowsKept DEF Inv, QuietInv
<1> QED BY <1>1, <1>2, <1>3 DEF Inv, QuietInv

LEMMA BeginInv ==
  ASSUME Inv, NEW c \in Caller, NEW w \in Workspace, NEW op \in {"initialize", "commit", "update"},
         Begin(c, w, op)
  PROVE  Inv'
<1> DEFINE r == [at |-> op, ws |-> w, conn |-> conn[w]]
<1>1. Goto(c, r) /\ UNCHANGED <<items, ids, remote, head>> /\ quiet' \subseteq quiet \cup {c}
  BY DEF Begin
<1>2. Shaped(r)
  BY DEF Shaped
<1>3. req'[c] = r
  BY <1>1, <1>2, GoesOn DEF Inv
<1>4. Knows(c)'
  BY <1>3 DEF Knows, At
<1> QED BY <1>1, <1>2, <1>4, Undisturbing

LEMMA NextInv == Inv /\ [Next]_vars => Inv'
<1> SUFFICES ASSUME Inv, [Next]_vars PROVE Inv'
  OBVIOUS
<1> USE DEF Inv
<1>1. ASSUME NEW w \in Workspace, NEW n \in Name, NEW v \in Version, NewItem(w, n, v) PROVE Inv'
  BY <1>1, Creates, Foreign DEF NewItem
<1>2. ASSUME NEW w \in Workspace, NEW i \in 1 .. ids, NEW v \in Version, EditItem(w, i, v)
      PROVE  Inv'
  BY <1>2, Edits, Foreign DEF EditItem
<1>3. ASSUME NEW w \in Workspace, NEW i \in 1 .. ids, RemoveItem(w, i) PROVE Inv'
  BY <1>3, Deletes, Foreign DEF RemoveItem
<1>4. ASSUME NEW w \in Workspace, Connect(w) \/ Disconnect(w) PROVE Inv'
  BY <1>4, ConnectionsInv DEF Connect, Disconnect
<1>5. ASSUME NEW c \in Caller, Initialize(c) \/ SetSynced(c) PROVE Inv'
  BY <1>5, Ends DEF Initialize, SetSynced
<1>6. CASE UNCHANGED vars
  BY <1>6, ConnectionsInv DEF vars
<1> QED
  BY <1>1, <1>2, <1>3, <1>4, <1>5, <1>6, BeginInv, ListForCommitInv, ReadDefinitionInv,
     ReadLogicalInv, CommitTxInv, ListRemoteInv, ListExistingInv, ApplyInv, DeleteExtraInv,
     ReadHeadInv DEF Next

-----------------------------------------------------------------------------
\* gitCommitToGit, gitUpdateFromGit: a commit or an update that nobody interfered
\* with is recorded as synced only when workspace and branch agree, to the item,
\* whatever came before and whatever failed half-way in other requests.
THEOREM SyncedMeansEqual == Spec => []SyncedAgrees
<1>1. Inv => SyncedAgrees
  <2> SUFFICES ASSUME Inv, NEW c \in quiet, At(c, "sync")
               PROVE  req[c].hash = head /\ Pairs(items[Ws(c)]) = BranchPairs
    BY DEF SyncedAgrees, Pairs, BranchPairs
  <2> QED BY DEF Inv, QuietInv, Knows
<1> QED BY <1>1, InitInv, NextInv, PTL DEF Spec
=============================================================================
