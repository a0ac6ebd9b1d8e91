--------------------------- MODULE DeploymentProofs ---------------------------
(* Theorems about Deployment, for any workspaces, stages, items and callers. *)
EXTENDS Deployment, TLAPS

Parts == Version \cup {"none"}
Row == [ws : Workspace, name : Name, parts : Parts]

\* Ids are given once, and names are unique in a workspace.
ItemsFine ==
  /\ ids \in Nat /\ DOMAIN item \subseteq 1 .. ids
  /\ item \in [DOMAIN item -> Row]
  /\ \A i, j \in DOMAIN item : item[i].ws = item[j].ws /\ item[i].name = item[j].name => i = j

Typed ==
  /\ assigned \in [Stage -> Workspace \cup {NoWorkspace}]
  /\ req = [c \in Caller |-> req[c]]

OneToOne(P) ==
  \A p, q \in P : p.stage = q.stage /\ (p.earlier = q.earlier \/ p.later = q.later) => p = q

Shaped(p) ==
  p = Pair(p.stage, p.earlier, p.later) /\ p.stage \in Stage /\ p.stage + 1 \in Stage

PairsFine ==
  /\ \A p \in pairs : Shaped(p) /\ Items(p) \subseteq DOMAIN item
  /\ OneToOne(pairs)

\* What id i was given to is, unless it is gone, in workspace w.
Placed(i, w) == i \in 1 .. ids /\ (i \in DOMAIN item => item[i].ws = w)

Joins(p, where) == Placed(p.earlier, where[p.stage]) /\ Placed(p.later, where[p.stage + 1])

Current == \A p \in pairs \ stale : Joins(p, assigned)

Deploying(d) ==
  /\ d = [at |-> "deploy", from |-> d.from, to |-> d.to, ws |-> d.ws,
          todo |-> d.todo, took |-> d.took, partner |-> d.partner]
  /\ d.from \in Stage /\ d.to \in Stage /\ d.from - d.to \in {1, -1} /\ d.ws \in Workspace
  /\ \A x \in d.todo : x.name \in Name

\* What a request holds, and what still holds of it while no stage changes.
Assigning(c) ==
  At(c, "assign") =>
    /\ req[c].stage \in Stage /\ req[c].ws \in Workspace
    /\ OneToOne(req[c].fresh)
    /\ \A p \in req[c].fresh :
         /\ Shaped(p) /\ Touches(p, req[c].stage)
         /\ c \in steady => Joins(p, [assigned EXCEPT ![req[c].stage] = req[c].ws])

Follows(c, d) ==
  c \in steady => d.ws = assigned[d.to] /\ \A x \in d.todo : Placed(x.id, assigned[d.from])

Deploys(c) == At(c, "deploy") => Deploying(req[c]) /\ Follows(c, req[c])

Clones(c) ==
  At(c, "pair") =>
    /\ Deploying(req[c].deploy) /\ Follows(c, req[c].deploy)
    /\ c \in steady => /\ Placed(req[c].source, assigned[req[c].deploy.from])
                       /\ Placed(req[c].clone, assigned[req[c].deploy.to])

Request(c) == Assigning(c) /\ Deploys(c) /\ Clones(c)

Inv == ItemsFine /\ Typed /\ PairsFine /\ Current /\ \A c \in Caller : Request(c)

-----------------------------------------------------------------------------
LEMMA InitInv == ASSUME DeploymentAssumption, Init PROVE Inv
<1>1. ids = 0 /\ DOMAIN item = {} /\ item = <<>> /\ pairs = {}
      /\ assigned = [s \in Stage |-> NoWorkspace] /\ req = [c \in Caller |-> Idle]
  BY DEF Init
<1>2. ItemsFine
  BY <1>1 DEF ItemsFine
<1>3. \A c \in Caller : req[c].at = "idle"
  BY <1>1 DEF Idle
<1>4. \A c \in Caller : Request(c)
  BY <1>3 DEF Request, Assigning, Deploys, Clones, At
<1> QED BY <1>1, <1>2, <1>4 DEF Inv, Typed, PairsFine, Current, OneToOne

\* An id keeps its workspace, and one that was given is not given again.
Kept ==
  /\ ids' \in Nat /\ ids <= ids'
  /\ \A i \in DOMAIN item' : (i \in DOMAIN item /\ item'[i].ws = item[i].ws) \/ i > ids

LEMMA StaysPlaced ==
  ASSUME ItemsFine, Kept, NEW i, NEW w, Placed(i, w) PROVE Placed(i, w)'
<1>1. i \in 1 .. ids /\ ids \in Nat /\ ids' \in Nat /\ ids <= ids'
  BY DEF ItemsFine, Kept, Placed
<1>2. i \in 1 .. ids' /\ ~(i > ids)
  BY <1>1
<1> QED BY <1>1, <1>2 DEF Placed, Kept

\* A request that goes on as it is, with the stages as they are.
LEMMA StaysRequest ==
  ASSUME ItemsFine, Kept, NEW c \in Caller, Request(c), req'[c] = req[c],
         c \in steady' => c \in steady /\ assigned' = assigned
  PROVE  Request(c)'
<1>1. Assigning(c)'
  <2> SUFFICES ASSUME At(c, "assign")' PROVE Assigning(c)'
    BY DEF Assigning
  <2>1. /\ req[c].stage \in Stage /\ req[c].ws \in Workspace
        /\ OneToOne(req[c].fresh)
        /\ \A p \in req[c].fresh :
             /\ Shaped(p) /\ Touches(p, req[c].stage)
             /\ c \in steady => Joins(p, [assigned EXCEPT ![req[c].stage] = req[c].ws])
    BY DEF Request, Assigning, At
  <2>2. ASSUME NEW p \in req[c].fresh, c \in steady'
        PROVE  Joins(p, [assigned EXCEPT ![req[c].stage] = req[c].ws])'
    <3>1. PICK where : where = [assigned EXCEPT ![req[c].stage] = req[c].ws]
      OBVIOUS
    <3>2. Joins(p, where)
      BY <2>1, <2>2, <3>1
    <3>3. Placed(p.earlier, where[p.stage])' /\ Placed(p.later, where[p.stage + 1])'
      BY <3>2, StaysPlaced DEF Joins
    <3>4. where = [assigned EXCEPT ![req[c].stage] = req[c].ws]'
      BY <2>2, <3>1
    <3> QED BY <3>3, <3>4 DEF Joins
  <2> QED BY <2>1, <2>2 DEF Assigning, OneToOne, Shaped, Touches
<1>2. ASSUME NEW d, Follows(c, d) PROVE Follows(c, d)'
  <2> SUFFICES ASSUME c \in steady'
               PROVE  d.ws = assigned[d.to] /\ \A x \in d.todo : Placed(x.id, assigned[d.from])'
    BY DEF Follows
  <2> QED BY <1>2, StaysPlaced DEF Follows
<1>3. Deploys(c)'
  BY <1>2 DEF Request, Deploys, At, Deploying
<1>4. Clones(c)'
  BY <1>2, StaysPlaced DEF Request, Clones, At, Deploying
<1> QED BY <1>1, <1>3, <1>4 DEF Request

-----------------------------------------------------------------------------
\* Pairs and their places, while items are added or changed.
LEMMA StaysCurrent ==
  ASSUME ItemsFine, Kept, Current, pairs' = pairs, stale \cap pairs \subseteq stale', assigned' = assigned
  PROVE  Current'
<1>1. ASSUME NEW p \in pairs, p \notin stale PROVE Joins(p, assigned)'
  BY <1>1, StaysPlaced DEF Joins, Current
<1> QED BY <1>1 DEF Current

LEMMA Creates ==
  ASSUME ItemsFine, NEW w \in Workspace, NEW n \in Name, NEW v \in Parts, Create(w, n, v), Free(w, n)
  PROVE  /\ ItemsFine' /\ Kept /\ ids' = ids + 1 /\ ids + 1 \notin DOMAIN item
         /\ DOMAIN item' = DOMAIN item \cup {ids + 1}
         /\ item'[ids + 1] = [ws |-> w, name |-> n, parts |-> v]
         /\ \A i \in DOMAIN item : item'[i] = item[i]
<1>1. /\ ids \in Nat /\ DOMAIN item \subseteq 1 .. ids /\ item \in [DOMAIN item -> Row]
      /\ \A i, j \in DOMAIN item : item[i].ws = item[j].ws /\ item[i].name = item[j].name => i = j
  BY DEF ItemsFine
<1>2. /\ ids' = ids + 1 /\ DOMAIN item' = DOMAIN item \cup {ids + 1}
      /\ item' = [i \in DOMAIN item' |-> item'[i]]
      /\ item'[ids + 1] = [ws |-> w, name |-> n, parts |-> v]
      /\ \A i \in DOMAIN item : i # ids + 1 => item'[i] = item[i]
  BY DEF Create
<1>3. ids + 1 \notin DOMAIN item /\ ids + 1 \in Nat /\ ids <= ids + 1 /\ ids + 1 > ids
  BY <1>1
<1>4. DOMAIN item' \subseteq 1 .. ids'
  BY <1>1, <1>2
<1>5. [ws |-> w, name |-> n, parts |-> v] \in Row
  BY DEF Row
<1>6. item' \in [DOMAIN item' -> Row]
  BY <1>1, <1>2, <1>3, <1>5
<1>7. \A i \in DOMAIN item : ~(item[i].ws = w /\ item[i].name = n)
  BY DEF Free, In
<1>8. \A i, j \in DOMAIN item' : item'[i].ws = item'[j].ws /\ item'[i].name = item'[j].name => i = j
  BY <1>1, <1>2, <1>3, <1>7
<1> QED BY <1>1, <1>2, <1>3, <1>4, <1>6, <1>8 DEF ItemsFine, Kept

LEMMA Changes ==
  ASSUME ItemsFine, NEW i \in DOMAIN item, NEW n \in Name, NEW v \in Parts,
         item' = [item EXCEPT ![i].name = n, ![i].parts = v], ids' = ids,
         n = item[i].name \/ Free(item[i].ws, n)
  PROVE  ItemsFine' /\ Kept /\ DOMAIN item' = DOMAIN item
<1>1. /\ ids \in Nat /\ DOMAIN item \subseteq 1 .. ids /\ item \in [DOMAIN item -> Row]
      /\ \A k, j \in DOMAIN item : item[k].ws = item[j].ws /\ item[k].name = item[j].name => k = j
  BY DEF ItemsFine
<1>2. /\ DOMAIN item' = DOMAIN item /\ item' \in [DOMAIN item -> Row]
      /\ item'[i].ws = item[i].ws /\ item'[i].name = n
      /\ \A j \in DOMAIN item : j # i => item'[j] = item[j]
  BY <1>1 DEF Row
<1>3. n = item[i].name \/ \A j \in DOMAIN item : ~(item[j].ws = item[i].ws /\ item[j].name = n)
  BY DEF Free, In
<1>4. \A k, j \in DOMAIN item' : item'[k].ws = item'[j].ws /\ item'[k].name = item'[j].name => k = j
  BY <1>1, <1>2, <1>3
<1> QED BY <1>1, <1>2, <1>4 DEF ItemsFine, Kept

LEMMA Overwrites ==
  ASSUME ItemsFine, NEW i \in DOMAIN item, NEW v \in Parts, item' = Overwritten(i, v), ids' = ids
  PROVE  /\ ItemsFine' /\ Kept /\ DOMAIN item' = DOMAIN item /\ item'[i].parts = v
         /\ \A j \in DOMAIN item : /\ item'[j].ws = item[j].ws /\ item'[j].name = item[j].name
                                  /\ j # i => item'[j] = item[j]
<1>1. /\ ids \in Nat /\ DOMAIN item \subseteq 1 .. ids /\ item \in [DOMAIN item -> Row]
      /\ \A k, j \in DOMAIN item : item[k].ws = item[j].ws /\ item[k].name = item[j].name => k = j
  BY DEF ItemsFine
<1>2. item' = [item EXCEPT ![i].parts = v]
  BY DEF Overwritten
<1>3. /\ DOMAIN item' = DOMAIN item /\ item' \in [DOMAIN item -> Row]
      /\ item'[i].ws = item[i].ws /\ item'[i].name = item[i].name /\ item'[i].parts = v
      /\ \A j \in DOMAIN item : j # i => item'[j] = item[j]
  BY <1>1, <1>2 DEF Row
<1>4. \A k, j \in DOMAIN item' : item'[k].ws = item'[j].ws /\ item'[k].name = item'[j].name => k = j
  BY <1>1, <1>3
<1> QED BY <1>1, <1>3, <1>4 DEF ItemsFine, Kept

LEMMA Removes ==
  ASSUME ItemsFine, NEW i \in DOMAIN item, item' = [j \in DOMAIN item \ {i} |-> item[j]], ids' = ids
  PROVE  ItemsFine' /\ Kept /\ DOMAIN item' = DOMAIN item \ {i}
<1>1. /\ ids \in Nat /\ DOMAIN item \subseteq 1 .. ids /\ item \in [DOMAIN item -> Row]
      /\ \A k, j \in DOMAIN item : item[k].ws = item[j].ws /\ item[k].name = item[j].name => k = j
  BY DEF ItemsFine
<1>2. /\ DOMAIN item' = DOMAIN item \ {i} /\ item' \in [DOMAIN item \ {i} -> Row]
      /\ \A j \in DOMAIN item' : item'[j] = item[j]
  BY <1>1
<1> QED BY <1>1, <1>2 DEF ItemsFine, Kept

LEMMA PartsTyped == ASSUME ItemsFine, NEW i PROVE PartsOf(i) \in Parts
<1>1. item \in [DOMAIN item -> Row]
  BY DEF ItemsFine
<1>2. i \in DOMAIN item => item[i].parts \in Parts
  BY <1>1 DEF Row
<1>3. "none" \in Parts
  BY DEF Parts
<1> QED BY <1>2, <1>3 DEF PartsOf

\* Two items of one workspace do not pair with the same.
LEMMA PairedByName ==
  ASSUME ItemsFine, NEW s, NEW A, NEW B, NEW w, NEW z,
         A \subseteq In(w), B \subseteq In(z)
  PROVE  /\ OneToOne(PairItems(s, A, B))
         /\ \A p \in PairItems(s, A, B) :
              p = Pair(s, p.earlier, p.later) /\ p.stage = s /\ p.earlier \in A /\ p.later \in B
<1>1. \A i, j \in DOMAIN item : item[i].ws = item[j].ws /\ item[i].name = item[j].name => i = j
  BY DEF ItemsFine
<1>2. \A i \in A : i \in DOMAIN item /\ item[i].ws = w
  BY DEF In
<1>3. \A i \in B : i \in DOMAIN item /\ item[i].ws = z
  BY DEF In
<1>4. \A p \in PairItems(s, A, B) :
        /\ p = Pair(s, p.earlier, p.later) /\ p.stage = s /\ p.earlier \in A /\ p.later \in B
        /\ item[p.earlier].name = item[p.later].name
  <2> TAKE p \in PairItems(s, A, B)
  <2>1. PICK x \in A \X B : p = Pair(s, x[1], x[2]) /\ item[x[1]].name = item[x[2]].name
    BY DEF PairItems
  <2>2. x[1] \in A /\ x[2] \in B
    OBVIOUS
  <2> QED BY <2>1, <2>2 DEF Pair
<1>5. OneToOne(PairItems(s, A, B))
  <2> SUFFICES ASSUME NEW p \in PairItems(s, A, B), NEW q \in PairItems(s, A, B),
                      p.earlier = q.earlier \/ p.later = q.later
               PROVE  p = q
    BY DEF OneToOne
  <2>1. p.earlier = q.earlier /\ p.later = q.later
    BY <1>1, <1>2, <1>3, <1>4
  <2> QED BY <1>4, <2>1
<1> QED BY <1>4, <1>5

-----------------------------------------------------------------------------
LEMMA NothingMoves == ASSUME ItemsFine, UNCHANGED <<item, ids>> PROVE ItemsFine' /\ Kept
  BY DEF ItemsFine, Kept

\* A step of caller c that (un)assigns no stage.
LEMMA CallerSteps ==
  ASSUME Inv, ItemsFine', Kept, NEW c \in Caller, NEW r, req' = [req EXCEPT ![c] = r],
         steady' \subseteq steady \cup {c}, assigned' = assigned,
         PairsFine', Current', Request(c)'
  PROVE  Inv'
<1>1. /\ req' = [d \in Caller |-> req'[d]]
      /\ \A d \in Caller \ {c} : req'[d] = req[d]
  BY DEF Inv, Typed
<1>2. \A d \in Caller \ {c} : Request(d)'
  BY <1>1, StaysRequest DEF Inv
<1> QED BY <1>1, <1>2 DEF Inv, Typed

\* A step that leaves every request as it is.
LEMMA NobodySteps ==
  ASSUME Inv, ItemsFine', Kept, req' = req, steady' \subseteq steady,
         steady' = {} \/ assigned' = assigned,
         assigned' \in [Stage -> Workspace \cup {NoWorkspace}],
         PairsFine', Current'
  PROVE  Inv'
<1>1. \A d \in Caller : Request(d)'
  BY StaysRequest DEF Inv
<1> QED BY <1>1 DEF Inv, Typed

LEMMA NewItemInv ==
  ASSUME Inv, NEW w \in Workspace, NEW n \in Name, NEW v \in Version, NewItem(w, n, v) PROVE Inv'
<1>1. Free(w, n) /\ Create(w, n, v) /\ UNCHANGED <<assigned, pairs, req, steady, stale>> /\ v \in Parts
  BY DEF NewItem, Parts
<1>2. ItemsFine' /\ Kept /\ DOMAIN item \subseteq DOMAIN item'
  BY <1>1, Creates DEF Inv
<1>3. PairsFine' /\ Current'
  BY <1>1, <1>2, StaysCurrent DEF Inv, PairsFine, Shaped, OneToOne
<1> QED BY <1>1, <1>2, <1>3, NobodySteps DEF Inv, Typed

LEMMA ChangeItemInv ==
  ASSUME Inv, NEW i, NEW n \in Name, NEW v \in Version, ChangeItem(i, n, v) PROVE Inv'
<1>1. /\ i \in DOMAIN item /\ (n = item[i].name \/ Free(item[i].ws, n)) /\ v \in Parts
      /\ item' = [item EXCEPT ![i].name = n, ![i].parts = v]
      /\ UNCHANGED <<ids, assigned, pairs, req, steady, stale>>
  BY DEF ChangeItem, Parts
<1>2. ItemsFine' /\ Kept /\ DOMAIN item = DOMAIN item'
  BY <1>1, Changes DEF Inv
<1>3. PairsFine' /\ Current'
  BY <1>1, <1>2, StaysCurrent DEF Inv, PairsFine, Shaped, OneToOne
<1> QED BY <1>1, <1>2, <1>3, NobodySteps DEF Inv, Typed

LEMMA RemoveItemInv ==
  ASSUME Inv, NEW i, RemoveItem(i) PROVE Inv'
<1>1. /\ i \in DOMAIN item /\ item' = [j \in DOMAIN item \ {i} |-> item[j]]
      /\ pairs' = {p \in pairs : i \notin Items(p)} /\ stale' = stale \cap pairs'
      /\ UNCHANGED <<ids, assigned, req, steady>>
  BY DEF RemoveItem, Items
<1>2. ItemsFine' /\ Kept /\ DOMAIN item' = DOMAIN item \ {i}
  BY <1>1, Removes DEF Inv
<1>3. PairsFine'
  BY <1>1, <1>2 DEF Inv, PairsFine, Shaped, OneToOne
<1>4. Current'
  <2>1. ASSUME NEW p \in pairs, p \notin stale PROVE Joins(p, assigned)'
    BY <1>1, <1>2, <2>1, StaysPlaced DEF Joins, Current, Inv
  <2> QED BY <1>1, <2>1 DEF Current
<1> QED BY <1>1, <1>2, <1>3, <1>4, NobodySteps DEF Inv, Typed

\* What a stage has to do with a pair that does not touch it.
LEMMA Elsewhere ==
  ASSUME DeploymentAssumption, Typed, NEW s \in Stage, NEW w \in Workspace \cup {NoWorkspace}, NEW p,
         Shaped(p), ~Touches(p, s), Joins(p, assigned), UNCHANGED <<item, ids>>,
         assigned' = [assigned EXCEPT ![s] = w]
  PROVE  Joins(p, assigned)'
  BY DEF Typed, Joins, Placed, Shaped, Touches

LEMMA UnassignInv ==
  ASSUME DeploymentAssumption, Inv, NEW s \in Stage, Unassign(s) PROVE Inv'
<1>1. /\ assigned' = [assigned EXCEPT ![s] = NoWorkspace] /\ pairs' = {p \in pairs : ~Touches(p, s)}
      /\ stale' = stale \cap pairs' /\ steady' = {} /\ UNCHANGED <<item, ids, req>>
  BY DEF Unassign
<1>2. ItemsFine' /\ Kept
  BY <1>1, NothingMoves DEF Inv
<1>3. PairsFine'
  BY <1>1 DEF Inv, PairsFine, Shaped, OneToOne
<1>4. Current'
  <2>1. ASSUME NEW p \in pairs', p \notin stale' PROVE Joins(p, assigned)'
    <3>1. p \in pairs /\ p \notin stale /\ ~Touches(p, s)
      BY <1>1, <2>1
    <3>2. Joins(p, assigned) /\ Shaped(p)
      BY <3>1 DEF Inv, Current, PairsFine
    <3> QED BY <1>1, <3>1, <3>2, Elsewhere DEF Inv
  <2> QED BY <2>1 DEF Current
<1>5. assigned' \in [Stage -> Workspace \cup {NoWorkspace}]
  BY <1>1 DEF Inv, Typed
<1> QED BY <1>1, <1>2, <1>3, <1>4, <1>5, NobodySteps DEF Inv

LEMMA AssignTxInv ==
  ASSUME DeploymentAssumption, Inv, NEW c \in Caller, AssignTx(c) PROVE Inv'
<1>1. PICK s, w, F : s = req[c].stage /\ w = req[c].ws /\ F = req[c].fresh
  OBVIOUS
<1>2. /\ At(c, "assign") /\ req' = [req EXCEPT ![c] = Idle] /\ UNCHANGED <<item, ids>>
  BY DEF AssignTx
<1>3. ItemsFine' /\ Kept
  BY <1>2, NothingMoves DEF Inv
<1>4. Request(c)'
  <2>1. req'[c].at = "idle"
    BY <1>2 DEF Inv, Typed, Idle
  <2> QED BY <2>1 DEF Request, Assigning, Deploys, Clones, At
<1>5. CASE \A p \in F : Items(p) \subseteq DOMAIN item
  <2>1. /\ assigned' = [assigned EXCEPT ![s] = w]
        /\ pairs' = {p \in pairs : ~Touches(p, s)} \cup F
        /\ stale' = (stale \cap pairs') \cup (IF c \in steady THEN {} ELSE F)
        /\ steady' = {}
    BY <1>1, <1>5 DEF AssignTx
  <2>2. /\ s \in Stage /\ w \in Workspace /\ OneToOne(F)
        /\ \A p \in F : /\ Shaped(p) /\ Touches(p, s)
                        /\ c \in steady => Joins(p, assigned')
    BY <1>1, <1>2, <2>1 DEF Inv, Request, Assigning
  <2>3. \A p, q \in pairs' : p.stage = q.stage => (Touches(p, s) <=> Touches(q, s))
    BY DEF Touches
  <2>4. PairsFine'
    BY <1>2, <1>5, <2>1, <2>2, <2>3 DEF Inv, PairsFine, Shaped, OneToOne
  <2>5. assigned' \in [Stage -> Workspace \cup {NoWorkspace}]
    BY <2>1, <2>2 DEF Inv, Typed
  <2>6. ASSUME NEW p \in pairs', p \notin stale' PROVE Joins(p, assigned)'
    <3>1. CASE p \in F
      <4>1. Joins(p, assigned')
        BY <2>1, <2>2, <2>6, <3>1
      <4> QED BY <1>2, <4>1 DEF Joins, Placed
    <3>2. CASE p \notin F
      <4>1. p \in pairs /\ p \notin stale /\ ~Touches(p, s)
        BY <2>1, <2>6, <3>2
      <4>2. Joins(p, assigned) /\ Shaped(p)
        BY <4>1 DEF Inv, Current, PairsFine
      <4> QED BY <1>2, <2>1, <2>2, <4>1, <4>2, Elsewhere DEF Inv
    <3> QED BY <3>1, <3>2
  <2>7. Current'
    BY <2>6 DEF Current
  <2>8. /\ req' = [d \in Caller |-> req'[d]]
        /\ \A d \in Caller \ {c} : req'[d] = req[d]
    BY <1>2 DEF Inv, Typed
  <2>9. \A d \in Caller \ {c} : Request(d)'
    BY <1>3, <2>1, <2>8, StaysRequest DEF Inv
  <2> QED BY <1>3, <1>4, <2>4, <2>5, <2>7, <2>8, <2>9 DEF Inv, Typed
<1>6. CASE ~(\A p \in F : Items(p) \subseteq DOMAIN item)
  <2>1. UNCHANGED <<assigned, pairs, stale, steady>>
    BY <1>1, <1>6 DEF AssignTx
  <2>2. PairsFine' /\ Current'
    BY <1>2, <1>3, <2>1, StaysCurrent DEF Inv, PairsFine, Shaped, OneToOne
  <2> QED BY <1>2, <1>3, <1>4, <2>1, <2>2, CallerSteps
<1> QED BY <1>5, <1>6

LEMMA InPlaced == ASSUME ItemsFine, NEW w, NEW i \in In(w) PROVE Placed(i, w)
  BY DEF In, Placed, ItemsFine

LEMMA BeginAssignInv ==
  ASSUME DeploymentAssumption, Inv, NEW c \in Caller, NEW s \in Stage, NEW w \in Workspace, BeginAssign(c, s, w)
  PROVE  Inv'
<1> DEFINE With(t) == IF assigned[t] = NoWorkspace THEN {} ELSE In(assigned[t])
           after == IF s + 1 \in Stage THEN PairItems(s, In(w), With(s + 1)) ELSE {}
           before == IF s - 1 \in Stage THEN PairItems(s - 1, With(s - 1), In(w)) ELSE {}
<1>1. PICK A, B : A = after /\ B = before
  OBVIOUS
<1>2. PICK r : r = [at |-> "assign", stage |-> s, ws |-> w, fresh |-> B \cup A]
  OBVIOUS
<1>3. /\ req' = [req EXCEPT ![c] = r] /\ steady' = steady \cup {c}
      /\ UNCHANGED <<item, ids, assigned, pairs, stale>>
  BY <1>1, <1>2 DEF BeginAssign
<1>4. PICK where : where = [assigned EXCEPT ![s] = w]
  OBVIOUS
<1>5. s \in Int /\ Stages \in Nat /\ Stage = 0 .. Stages - 1
  BY DEF DeploymentAssumption, Stage
<1>6. OneToOne(A) /\ \A p \in A : Shaped(p) /\ p.stage = s /\ Joins(p, where)
  <2>1. CASE s + 1 \in Stage
    <3>1. A = PairItems(s, In(w), With(s + 1)) /\ With(s + 1) \subseteq In(assigned[s + 1])
      BY <1>1, <2>1
    <3>2. /\ OneToOne(A)
          /\ \A p \in A : /\ p = Pair(s, p.earlier, p.later) /\ p.stage = s
                          /\ p.earlier \in In(w) /\ p.later \in In(assigned[s + 1])
      <4> HIDE DEF With
      <4> QED BY <3>1, PairedByName DEF Inv
    <3>3. where[s] = w /\ where[s + 1] = assigned[s + 1]
      BY <1>4, <1>5, <2>1 DEF Inv, Typed
    <3>4. \A p \in A : Shaped(p) /\ Joins(p, where)
      BY <2>1, <3>2, <3>3, InPlaced DEF Inv, Shaped, Joins
    <3> QED BY <3>2, <3>4
  <2>2. CASE s + 1 \notin Stage
    BY <1>1, <2>2 DEF OneToOne
  <2> QED BY <2>1, <2>2
<1>7. OneToOne(B) /\ \A p \in B : Shaped(p) /\ p.stage = s - 1 /\ Joins(p, where)
  <2>1. CASE s - 1 \in Stage
    <3>1. B = PairItems(s - 1, With(s - 1), In(w)) /\ With(s - 1) \subseteq In(assigned[s - 1])
      BY <1>1, <2>1
    <3>2. /\ OneToOne(B)
          /\ \A p \in B : /\ p = Pair(s - 1, p.earlier, p.later) /\ p.stage = s - 1
                          /\ p.earlier \in In(assigned[s - 1]) /\ p.later \in In(w)
      <4> HIDE DEF With
      <4> QED BY <3>1, PairedByName DEF Inv
    <3>3. where[s] = w /\ where[s - 1] = assigned[s - 1] /\ (s - 1) + 1 = s
      BY <1>4, <1>5, <2>1 DEF Inv, Typed
    <3>4. \A p \in B : Shaped(p) /\ Joins(p, where)
      BY <2>1, <3>2, <3>3, InPlaced DEF Inv, Shaped, Joins
    <3> QED BY <3>2, <3>4
  <2>2. CASE s - 1 \notin Stage
    BY <1>1, <2>2 DEF OneToOne
  <2> QED BY <2>1, <2>2
<1>8. OneToOne(B \cup A)
  <2>1. s - 1 # s
    BY <1>5
  <2> QED BY <2>1, <1>6, <1>7 DEF OneToOne
<1>9. ItemsFine' /\ Kept
  BY <1>3, NothingMoves DEF Inv
<1>10. PairsFine' /\ Current'
  BY <1>3, <1>9, StaysCurrent DEF Inv, PairsFine, Shaped, OneToOne
<1>11. Request(c)'
  <2>1. req'[c] = r
    BY <1>3 DEF Inv, Typed
  <2>2. \A p \in B \cup A : Touches(p, s)
    BY <1>5, <1>6, <1>7 DEF Touches
  <2>3. \A p \in B \cup A : Joins(p, where)'
    BY <1>3, <1>6, <1>7 DEF Joins, Placed
  <2>4. where = [assigned EXCEPT ![r.stage] = r.ws]'
    BY <1>2, <1>3, <1>4
  <2>5. Assigning(c)'
    <3>1. r.stage = s /\ r.ws = w /\ r.fresh = B \cup A
      BY <1>2
    <3>2. \A p \in r.fresh : Shaped(p) /\ Touches(p, r.stage) /\ Joins(p, [assigned EXCEPT ![r.stage] = r.ws])'
      BY <1>6, <1>7, <2>2, <2>3, <2>4, <3>1
    <3>3. OneToOne(r.fresh)
      BY <1>8, <3>1
    <3> HIDE DEF after, before, With
    <3> QED BY <2>1, <3>1, <3>2, <3>3 DEF Assigning
  <2> QED BY <1>2, <2>1, <2>5 DEF Request, Deploys, Clones, At
<1> QED BY <1>3, <1>9, <1>10, <1>11, CallerSteps

LEMMA BeginDeployInv ==
  ASSUME Inv, NEW c \in Caller, NEW from \in Stage, NEW to \in Stage, NEW selected,
         BeginDeploy(c, from, to, selected)
  PROVE  Inv'
<1> DEFINE all == In(assigned[from])
           chosen == IF selected = {} THEN all ELSE all \cap selected
<1>1. PICK T : T = {[id |-> i, name |-> item[i].name] : i \in chosen}
  OBVIOUS
<1>2. PICK r : r = [at |-> "deploy", from |-> from, to |-> to, ws |-> assigned[to],
                    todo |-> T, took |-> T, partner |-> Partner(from, to)]
  OBVIOUS
<1>3. /\ req' = [req EXCEPT ![c] = r] /\ steady' = steady \cup {c}
      /\ UNCHANGED <<item, ids, assigned, pairs, stale>>
      /\ from - to \in {1, -1} /\ assigned[to] # NoWorkspace
  BY <1>1, <1>2 DEF BeginDeploy
<1>4. \A x \in T : x.id \in In(assigned[from]) /\ x.name = item[x.id].name
  BY <1>1
<1>5. \A x \in T : x.name \in Name /\ Placed(x.id, assigned[from])
  BY <1>4, InPlaced DEF In, Inv, ItemsFine, Row
<1>6. ItemsFine' /\ Kept
  BY <1>3, NothingMoves DEF Inv
<1>7. PairsFine' /\ Current'
  BY <1>3, <1>6, StaysCurrent DEF Inv, PairsFine, Shaped, OneToOne
<1>8. Request(c)'
  <2>1. req'[c] = r
    BY <1>3 DEF Inv, Typed
  <2>2. assigned[to] \in Workspace
    BY <1>3 DEF Inv, Typed
  <2>3. Deploying(r)
    BY <1>2, <1>3, <1>5, <2>2 DEF Deploying
  <2>4. \A x \in T : Placed(x.id, assigned[from])'
    BY <1>3, <1>5 DEF Placed
  <2>5. Follows(c, r)'
    BY <1>2, <1>3, <2>4 DEF Follows
  <2>6. Deploys(c)'
    <3> HIDE DEF all, chosen
    <3> QED BY <2>1, <2>3, <2>5 DEF Deploys, Deploying
  <2> QED BY <1>2, <2>1, <2>6 DEF Request, Assigning, Clones, At
<1> QED BY <1>3, <1>6, <1>7, <1>8, CallerSteps

\* A deploy with one item less to do.
LEMMA OneLess ==
  ASSUME NEW d, Deploying(d), NEW x
  PROVE  /\ Deploying([d EXCEPT !.todo = d.todo \ {x}])
         /\ [d EXCEPT !.todo = d.todo \ {x}].todo = d.todo \ {x}
         /\ \A f \in {"at", "from", "to", "ws", "took", "partner"} : [d EXCEPT !.todo = d.todo \ {x}][f] = d[f]
<1>1. PICK at, from, to, ws, todo, took, partner :
        d = [at |-> at, from |-> from, to |-> to, ws |-> ws, todo |-> todo, took |-> took, partner |-> partner]
  BY DEF Deploying
<1>2. [d EXCEPT !.todo = d.todo \ {x}]
        = [at |-> at, from |-> from, to |-> to, ws |-> ws, todo |-> todo \ {x}, took |-> took, partner |-> partner]
  BY <1>1
<1> QED BY <1>1, <1>2 DEF Deploying

LEMMA DeployPairedInv ==
  ASSUME Inv, NEW c \in Caller, DeployPaired(c) PROVE Inv'
<1>1. PICK x, m : /\ At(c, "deploy") /\ x \in req[c].todo /\ m \in req[c].partner
                  /\ m[1] = x.id /\ m[2] \in DOMAIN item
                  /\ item' = Overwritten(m[2], PartsOf(x.id))
                  /\ req' = [req EXCEPT ![c].todo = req[c].todo \ {x}]
                  /\ UNCHANGED <<ids, assigned, pairs, steady, stale>>
  BY DEF DeployPaired
<1>2. PICK r : r = [req[c] EXCEPT !.todo = req[c].todo \ {x}]
  OBVIOUS
<1>3. req' = [req EXCEPT ![c] = r] /\ req'[c] = r
  BY <1>1, <1>2 DEF Inv, Typed
<1>4. Deploying(req[c]) /\ Follows(c, req[c])
  BY <1>1 DEF Inv, Request, Deploys
<1>5. Deploying(r) /\ r.todo \subseteq req[c].todo /\ r.ws = req[c].ws /\ r.to = req[c].to
      /\ r.from = req[c].from /\ r.at = "deploy"
  BY <1>2, <1>4, OneLess DEF Deploying
<1>6. ItemsFine' /\ Kept /\ DOMAIN item' = DOMAIN item
  BY <1>1, PartsTyped, Overwrites DEF Inv
<1>7. PairsFine' /\ Current'
  BY <1>1, <1>6, StaysCurrent DEF Inv, PairsFine, Shaped, OneToOne
<1>8. Request(c)'
  <2>1. ASSUME c \in steady, NEW y \in r.todo PROVE Placed(y.id, assigned[r.from])'
    BY <1>1, <1>4, <1>5, <1>6, <2>1, StaysPlaced DEF Follows, Inv
  <2>2. Follows(c, r)'
    BY <1>1, <1>4, <1>5, <2>1 DEF Follows
  <2> QED BY <1>3, <1>5, <2>2 DEF Request, Assigning, Clones, Deploys, At, Deploying
<1> QED BY <1>1, <1>3, <1>6, <1>7, <1>8, CallerSteps

LEMMA DeployCloneInv ==
  ASSUME Inv, NEW c \in Caller, DeployClone(c) PROVE Inv'
<1>1. PICK x : /\ At(c, "deploy") /\ x \in req[c].todo
               /\ \/ /\ Free(req[c].ws, x.name)
                     /\ Create(req[c].ws, x.name, PartsOf(x.id))
                     /\ req' = [req EXCEPT ![c] =
                          [at |-> "pair", deploy |-> [req[c] EXCEPT !.todo = req[c].todo \ {x}],
                           source |-> x.id, clone |-> ids + 1]]
                  \/ Fail(c) /\ UNCHANGED <<item, ids>>
               /\ UNCHANGED <<assigned, pairs, steady, stale>>
  BY DEF DeployClone
<1>2. Deploying(req[c]) /\ Follows(c, req[c])
  BY <1>1 DEF Inv, Request, Deploys
<1>3. CASE Fail(c) /\ UNCHANGED <<item, ids>>
  <2>1. req' = [req EXCEPT ![c] = Idle] /\ req'[c].at = "idle"
    BY <1>3 DEF Fail, Inv, Typed, Idle
  <2>2. ItemsFine' /\ Kept
    BY <1>3, NothingMoves DEF Inv
  <2>3. PairsFine' /\ Current'
    BY <1>1, <1>3, <2>2, StaysCurrent DEF Inv, PairsFine, Shaped, OneToOne
  <2>4. Request(c)'
    BY <2>1 DEF Request, Assigning, Deploys, Clones, At
  <2> QED BY <1>1, <2>1, <2>2, <2>3, <2>4, CallerSteps
<1>4. CASE ~(Fail(c) /\ UNCHANGED <<item, ids>>)
  <2>1. PICK d : d = [req[c] EXCEPT !.todo = req[c].todo \ {x}]
    OBVIOUS
  <2>2. PICK r : r = [at |-> "pair", deploy |-> d, source |-> x.id, clone |-> ids + 1]
    OBVIOUS
  <2>3. /\ Free(req[c].ws, x.name) /\ Create(req[c].ws, x.name, PartsOf(x.id))
        /\ req' = [req EXCEPT ![c] = r] /\ req'[c] = r
    BY <1>1, <1>4, <2>1, <2>2 DEF Inv, Typed
  <2>4. Deploying(d) /\ d.todo \subseteq req[c].todo /\ d.ws = req[c].ws /\ d.to = req[c].to
        /\ d.from = req[c].from
    BY <1>2, <2>1, OneLess
  <2>5. req[c].ws \in Workspace /\ x.name \in Name
    BY <1>1, <1>2 DEF Deploying
  <2>6. /\ ItemsFine' /\ Kept /\ ids' = ids + 1
        /\ DOMAIN item' = DOMAIN item \cup {ids + 1} /\ item'[ids + 1].ws = req[c].ws
    <3>1. PICK w, n, v : w = req[c].ws /\ n = x.name /\ v = PartsOf(x.id)
      OBVIOUS
    <3>2. Create(w, n, v) /\ Free(w, n) /\ w \in Workspace /\ n \in Name /\ v \in Parts /\ ItemsFine
      BY <2>3, <2>5, <3>1, PartsTyped DEF Inv
    <3>3. item'[ids + 1] = [ws |-> w, name |-> n, parts |-> v]
      BY <3>2, Creates
    <3> QED BY <3>1, <3>2, <3>3, Creates
  <2>7. PairsFine' /\ Current'
    BY <1>1, <2>6, StaysCurrent DEF Inv, PairsFine, Shaped, OneToOne
  <2>8. Request(c)'
    <3>1. ASSUME c \in steady, NEW y \in req[c].todo PROVE Placed(y.id, assigned[d.from])'
      BY <1>1, <1>2, <2>4, <2>6, <3>1, StaysPlaced DEF Follows, Inv
    <3>2. Follows(c, d)'
      BY <1>1, <1>2, <2>4, <3>1 DEF Follows
    <3>3. PICK k : k = ids + 1
      OBVIOUS
    <3>7. k \in 1 .. ids'
      BY <2>6, <3>3 DEF Inv, ItemsFine
    <3>4. c \in steady => Placed(k, assigned[d.to])'
      <4>1. c \in steady => req[c].ws = assigned[d.to]
        BY <1>2, <2>4 DEF Follows
      <4>2. item'[k].ws = req[c].ws /\ assigned' = assigned
        BY <1>1, <2>6, <3>3
      <4> QED BY <3>7, <4>1, <4>2 DEF Placed
    <3>5. r.at = "pair" /\ r.deploy = d /\ r.source = x.id /\ r.clone = k
      BY <2>2, <3>3
    <3>6. Clones(c)'
      <4>1. c \in steady => Placed(x.id, assigned[d.from])'
        BY <1>1, <3>1
      <4>2. steady' = steady /\ req'[c] = r
        BY <1>1, <2>3
      <4> QED BY <2>4, <3>2, <3>4, <3>5, <4>1, <4>2 DEF Clones, Deploying
    <3> QED BY <2>3, <3>5, <3>6 DEF Request, Assigning, Deploys, At
  <2> QED BY <1>1, <2>3, <2>6, <2>7, <2>8, CallerSteps
<1> QED BY <1>3, <1>4

LEMMA PairCloneInv ==
  ASSUME DeploymentAssumption, Inv, NEW c \in Caller, PairClone(c) PROVE Inv'
<1>1. PICK d, i, j : d = req[c].deploy /\ i = req[c].source /\ j = req[c].clone
  OBVIOUS
<1>2. PICK p : p = IF d.from < d.to THEN Pair(d.from, i, j) ELSE Pair(d.to, j, i)
  OBVIOUS
<1>3. At(c, "pair") /\ UNCHANGED <<item, ids, assigned, steady>>
  BY DEF PairClone
<1>4. /\ Deploying(d) /\ Follows(c, d)
      /\ c \in steady => Placed(i, assigned[d.from]) /\ Placed(j, assigned[d.to])
  BY <1>1, <1>3 DEF Inv, Request, Clones
<1>5. ItemsFine' /\ Kept
  BY <1>3, NothingMoves DEF Inv
<1>6. CASE /\ Items(p) \subseteq DOMAIN item
           /\ ~\E q \in pairs : q.stage = p.stage /\ (q.earlier = p.earlier \/ q.later = p.later)
  <2>1. /\ pairs' = pairs \cup {p}
        /\ stale' = IF c \in steady THEN stale ELSE stale \cup {p}
        /\ req' = [req EXCEPT ![c] = d] /\ req'[c] = d
    BY <1>1, <1>2, <1>6 DEF PairClone, Inv, Typed
  <2>2. Shaped(p) /\ (c \in steady => Joins(p, assigned))
    <3>1. d.from \in Int /\ d.to \in Int /\ d.from \in Stage /\ d.to \in Stage /\ d.from - d.to \in {1, -1}
      BY <1>4 DEF Deploying, Stage, DeploymentAssumption
    <3>2. CASE d.from < d.to
      <4>1. p = Pair(d.from, i, j) /\ d.to = d.from + 1
        BY <1>2, <3>1, <3>2
      <4> QED BY <1>4, <3>1, <4>1 DEF Pair, Shaped, Joins
    <3>3. CASE ~(d.from < d.to)
      <4>1. p = Pair(d.to, j, i) /\ d.from = d.to + 1
        BY <1>2, <3>1, <3>3
      <4> QED BY <1>4, <3>1, <4>1 DEF Pair, Shaped, Joins
    <3> QED BY <3>2, <3>3
  <2>3. PairsFine'
    BY <1>3, <1>6, <2>1, <2>2 DEF Inv, PairsFine, Shaped, OneToOne
  <2>4. ASSUME NEW q \in pairs', q \notin stale' PROVE Joins(q, assigned)'
    <3>1. Joins(q, assigned)
      BY <2>1, <2>2, <2>4 DEF Inv, Current
    <3> QED BY <1>3, <3>1 DEF Joins, Placed
  <2>5. Current'
    BY <2>4 DEF Current
  <2>6. Request(c)'
    <3>1. Follows(c, d)'
      BY <1>3, <1>4 DEF Follows, Placed
    <3> QED BY <1>4, <2>1, <3>1 DEF Request, Assigning, Deploys, Clones, At, Deploying
  <2> QED BY <1>3, <1>5, <2>1, <2>3, <2>5, <2>6, CallerSteps
<1>7. CASE ~(/\ Items(p) \subseteq DOMAIN item
             /\ ~\E q \in pairs : q.stage = p.stage /\ (q.earlier = p.earlier \/ q.later = p.later))
  <2>1. Fail(c) /\ UNCHANGED <<pairs, stale>>
    BY <1>1, <1>2, <1>7 DEF PairClone
  <2>2. req' = [req EXCEPT ![c] = Idle] /\ req'[c].at = "idle"
    BY <2>1 DEF Fail, Inv, Typed, Idle
  <2>3. PairsFine' /\ Current'
    BY <1>3, <1>5, <2>1, StaysCurrent DEF Inv, PairsFine, Shaped, OneToOne
  <2>4. Request(c)'
    BY <2>2 DEF Request, Assigning, Deploys, Clones, At
  <2> QED BY <1>3, <1>5, <2>2, <2>3, <2>4, CallerSteps
<1> QED BY <1>6, <1>7

LEMMA NextInv ==
  ASSUME DeploymentAssumption, Inv, [Next]_vars PROVE Inv'
<1>1. ASSUME NEW c \in Caller, Deployed(c) PROVE Inv'
  <2>1. /\ req' = [req EXCEPT ![c] = Idle] /\ req'[c].at = "idle"
        /\ UNCHANGED <<item, ids, assigned, pairs, steady, stale>>
    BY <1>1 DEF Deployed, Inv, Typed, Idle
  <2>2. ItemsFine' /\ Kept
    BY <2>1, NothingMoves DEF Inv
  <2>3. PairsFine' /\ Current'
    BY <2>1, <2>2, StaysCurrent DEF Inv, PairsFine, Shaped, OneToOne
  <2>4. Request(c)'
    BY <2>1 DEF Request, Assigning, Deploys, Clones, At
  <2> QED BY <2>1, <2>2, <2>3, <2>4, CallerSteps
<1>2. CASE Restart
  <2>1. /\ \A c \in Caller : req'[c].at = "idle"
        /\ req' = [c \in Caller |-> req'[c]]
        /\ UNCHANGED <<item, ids, assigned, pairs, steady, stale>>
    BY <1>2 DEF Restart, Idle
  <2>2. ItemsFine' /\ Kept
    BY <2>1, NothingMoves DEF Inv
  <2>3. PairsFine' /\ Current'
    BY <2>1, <2>2, StaysCurrent DEF Inv, PairsFine, Shaped, OneToOne
  <2>4. \A c \in Caller : Request(c)'
    BY <2>1 DEF Request, Assigning, Deploys, Clones, At
  <2> QED BY <2>1, <2>2, <2>3, <2>4 DEF Inv, Typed
<1>3. CASE UNCHANGED vars
  <2>1. ItemsFine' /\ Kept
    BY <1>3, NothingMoves DEF Inv, vars
  <2>2. PairsFine' /\ Current'
    BY <1>3, <2>1, StaysCurrent DEF Inv, PairsFine, Shaped, OneToOne, vars
  <2> QED BY <1>3, <2>1, <2>2, NobodySteps DEF vars, Inv, Typed
<1> QED BY <1>1, <1>2, <1>3, NewItemInv, ChangeItemInv, RemoveItemInv, UnassignInv, BeginAssignInv,
           BeginDeployInv, AssignTxInv, DeployPairedInv, DeployCloneInv, PairCloneInv DEF Next

\* A pair that no request wrote while a stage was (un)assigned joins items of the
\* workspaces that are assigned to its stages now, one to one (deploy.go): PairsCurrent.
THEOREM PairsAreCurrent == ASSUME DeploymentAssumption PROVE Spec => []PairsCurrent
<1>1. Inv => PairsCurrent
  BY DEF Inv, PairsFine, OneToOne, Items, Current, Joins, Placed, PairsCurrent
<1>2. Inv /\ [Next]_vars => Inv'
  BY NextInv
<1>3. Init => Inv
  BY InitInv
<1> QED BY <1>1, <1>2, <1>3, PTL DEF Spec

-----------------------------------------------------------------------------
(* What a deploy has done so far, while nobody else changes anything.        *)

Plain(d) == assigned[d.from] # assigned[d.to] /\ \A p \in stale : ~Between(p, d.from, d.to)

Matched(d, i) == \E m \in Partner(d.from, d.to) : m[1] = i /\ item[m[2]].parts = item[i].parts

\* All that was taken is there, and what is not still to do, i apart, is done.
DoneBut(d, i) ==
  /\ \A x \in d.todo : x \in d.took
  /\ \A x \in d.took : x.id \in DOMAIN item /\ item[x.id].ws = assigned[d.from]
  /\ \A m \in d.partner : m \in Partner(d.from, d.to)
  /\ Plain(d) => \A x \in d.took : x \in d.todo \/ x.id = i \/ Matched(d, x.id)

Work(c) ==
  /\ At(c, "deploy") => DoneBut(req[c], 0)
  /\ At(c, "pair") => /\ DoneBut(req[c].deploy, req[c].source)
                      /\ item[req[c].clone].parts = item[req[c].source].parts

WorkInv == alone \subseteq Caller /\ \A c \in alone : c \in steady /\ Work(c)

LEMMA WorkKept ==
  ASSUME NEW c, Work(c), UNCHANGED <<item, pairs, assigned, stale>>, req'[c] = req[c] PROVE Work(c)'
<1>1. \A d, i : DoneBut(d, i)' <=> DoneBut(d, i)
  BY DEF DoneBut, Plain, Matched, Partner
<1> QED BY <1>1 DEF Work, At

LEMMA IdleWorks == ASSUME NEW c, req[c].at \notin {"deploy", "pair"} PROVE Work(c)
  BY DEF Work, At

\* A partner is the other side of a pair.
LEMMA PartnerPair ==
  ASSUME NEW f, NEW t, NEW m
  PROVE  m \in Partner(f, t) <=>
           \E p \in pairs : Between(p, f, t) /\ m = IF f < t THEN <<p.earlier, p.later>> ELSE <<p.later, p.earlier>>
<1>1. CASE f < t
  BY <1>1 DEF Partner, Between
<1>2. CASE ~(f < t)
  BY <1>2 DEF Partner, Between
<1> QED BY <1>1, <1>2

LEMMA PartnersFine ==
  ASSUME DeploymentAssumption, Inv, NEW d, Deploying(d), NEW m \in Partner(d.from, d.to)
  PROVE  /\ m[2] \in DOMAIN item
         /\ Plain(d) => item[m[2]].ws = assigned[d.to]
         /\ \A n \in Partner(d.from, d.to) : n[2] = m[2] => n[1] = m[1]
<1>1. d.from \in Int /\ d.to \in Int /\ d.from - d.to \in {1, -1}
  BY DEF Deploying, Stage, DeploymentAssumption
<1>2. PICK p \in pairs : /\ Between(p, d.from, d.to)
                         /\ m = IF d.from < d.to THEN <<p.earlier, p.later>> ELSE <<p.later, p.earlier>>
  BY PartnerPair
<1>3. m[2] = IF d.from < d.to THEN p.later ELSE p.earlier
  BY <1>2
<1>4. m[1] = IF d.from < d.to THEN p.earlier ELSE p.later
  BY <1>2
<1>5. p.later \in DOMAIN item /\ p.earlier \in DOMAIN item
  BY DEF Inv, PairsFine, Items
<1>6. m[2] \in DOMAIN item
  BY <1>3, <1>5
<1>7. ASSUME Plain(d) PROVE item[m[2]].ws = assigned[d.to]
  <2>1. p \notin stale
    BY <1>2, <1>7 DEF Plain
  <2>2. item[p.earlier].ws = assigned[p.stage] /\ item[p.later].ws = assigned[p.stage + 1]
    BY <1>5, <2>1 DEF Inv, Current, Joins, Placed
  <2>3. CASE d.from < d.to
    BY <1>1, <1>2, <1>3, <2>2, <2>3 DEF Between
  <2>4. CASE ~(d.from < d.to)
    BY <1>1, <1>2, <1>3, <2>2, <2>4 DEF Between
  <2> QED BY <2>3, <2>4
<1>8. ASSUME NEW n \in Partner(d.from, d.to), n[2] = m[2] PROVE n[1] = m[1]
  <2>1. PICK q \in pairs : /\ Between(q, d.from, d.to)
                           /\ n = IF d.from < d.to THEN <<q.earlier, q.later>> ELSE <<q.later, q.earlier>>
    BY PartnerPair
  <2>2. n[2] = IF d.from < d.to THEN q.later ELSE q.earlier
    BY <2>1
  <2>3. q.stage = p.stage /\ (q.earlier = p.earlier \/ q.later = p.later)
    BY <1>2, <1>3, <1>8, <2>1, <2>2 DEF Between
  <2>4. q = p
    BY <2>3 DEF Inv, PairsFine, OneToOne
  <2> QED BY <1>2, <2>1, <2>4
<1> QED BY <1>6, <1>7, <1>8

\* A step of c after which nobody else was left alone.
LEMMA OnlyWorks ==
  ASSUME WorkInv, NEW c, alone' \subseteq alone \cap {c}, steady' = steady, c \in alone => Work(c)'
  PROVE  WorkInv'
  BY DEF WorkInv

\* A step of c that changes its request only.
LEMMA OthersWork ==
  ASSUME WorkInv, Typed, NEW c \in Caller, NEW r, req' = [req EXCEPT ![c] = r],
         UNCHANGED <<item, pairs, assigned, stale>>,
         alone' \subseteq alone \cup {c}, \A a \in alone' : a \in steady \/ a \in steady',
         steady \subseteq steady', Work(c)'
  PROVE  WorkInv'
<1>1. \A a \in Caller \ {c} : req'[a] = req[a]
  BY DEF Typed
<1>2. ASSUME NEW a \in alone' PROVE a \in steady' /\ Work(a)'
  <2>1. CASE a = c
    BY <2>1
  <2>2. CASE a # c
    <3>1. a \in alone /\ a \in Caller /\ Work(a)
      BY <1>2, <2>2 DEF WorkInv
    <3>2. req'[a] = req[a]
      BY <1>1, <2>2, <3>1
    <3>3. Work(a)'
      BY <3>1, <3>2, WorkKept
    <3> QED BY <3>1, <3>3
  <2> QED BY <2>1, <2>2
<1> QED BY <1>2 DEF WorkInv

LEMMA BeginWorks ==
  ASSUME Inv, WorkInv, NEW c \in Caller, NEW r, req' = [req EXCEPT ![c] = r],
         UNCHANGED <<item, pairs, assigned, stale>>,
         alone' = alone \cup {c}, steady' = steady \cup {c}, Work(c)'
  PROVE  WorkInv'
<1>1. \A a \in alone' : a \in steady \/ a \in steady'
  BY DEF WorkInv
<1> QED BY <1>1, OthersWork DEF Inv

LEMMA EndWorks ==
  ASSUME Inv, WorkInv, NEW c \in Caller, req' = [req EXCEPT ![c] = Idle],
         UNCHANGED <<item, pairs, assigned, stale, alone, steady>>
  PROVE  WorkInv'
<1>1. req'[c].at = "idle"
  BY DEF Inv, Typed, Idle
<1>2. Work(c)'
  BY <1>1, IdleWorks DEF Work, At
<1> QED BY <1>2, OthersWork DEF Inv, WorkInv

LEMMA BeginDeployWorks ==
  ASSUME Inv, WorkInv, NEW c \in Caller, NEW from \in Stage, NEW to \in Stage, NEW selected,
         BeginDeploy(c, from, to, selected)
  PROVE  WorkInv'
<1> DEFINE all == In(assigned[from])
           chosen == IF selected = {} THEN all ELSE all \cap selected
<1>1. PICK T : T = {[id |-> i, name |-> item[i].name] : i \in chosen}
  OBVIOUS
<1>2. PICK r : r = [at |-> "deploy", from |-> from, to |-> to, ws |-> assigned[to],
                    todo |-> T, took |-> T, partner |-> Partner(from, to)]
  OBVIOUS
<1>3. /\ req' = [req EXCEPT ![c] = r] /\ steady' = steady \cup {c} /\ alone' = alone \cup {c}
      /\ UNCHANGED <<item, ids, assigned, pairs, stale>>
  BY <1>1, <1>2 DEF BeginDeploy
<1>4. \A x \in T : x.id \in DOMAIN item /\ item[x.id].ws = assigned[from]
  BY <1>1 DEF In
<1>5. r.at = "deploy" /\ r.from = from /\ r.to = to /\ r.todo = T /\ r.took = T /\ r.partner = Partner(from, to)
  BY <1>2
<1>6. DoneBut(r, 0)
  <2> HIDE DEF all, chosen
  <2> QED BY <1>4, <1>5 DEF DoneBut
<1>7. DoneBut(r, 0)'
  BY <1>3, <1>6 DEF DoneBut, Plain, Matched, Partner
<1>8. req'[c] = r
  BY <1>3 DEF Inv, Typed
<1>9. Work(c)'
  BY <1>5, <1>7, <1>8 DEF Work, At
<1> QED BY <1>3, <1>9, BeginWorks

LEMMA DeployPairedWorks ==
  ASSUME DeploymentAssumption, Inv, WorkInv, NEW c \in Caller, DeployPaired(c) PROVE WorkInv'
<1>1. PICK x, m : /\ At(c, "deploy") /\ x \in req[c].todo /\ m \in req[c].partner
                  /\ m[1] = x.id /\ m[2] \in DOMAIN item
                  /\ item' = Overwritten(m[2], PartsOf(x.id))
                  /\ req' = [req EXCEPT ![c].todo = req[c].todo \ {x}]
                  /\ alone' = alone \cap {c}
                  /\ UNCHANGED <<ids, assigned, pairs, steady, stale>>
  BY DEF DeployPaired, Others
<1>2. PICK d, r : d = req[c] /\ r = [d EXCEPT !.todo = d.todo \ {x}]
  OBVIOUS
<1>3. req'[c] = r
  BY <1>1, <1>2 DEF Inv, Typed
<1>4. Deploying(d)
  BY <1>1, <1>2 DEF Inv, Request, Deploys
<1>5. /\ r.todo = d.todo \ {x} /\ r.took = d.took /\ r.partner = d.partner
      /\ r.from = d.from /\ r.to = d.to /\ r.at = "deploy"
  BY <1>2, <1>4, OneLess DEF Deploying
<1>6. /\ DOMAIN item' = DOMAIN item /\ item'[m[2]].parts = PartsOf(x.id)
      /\ \A j \in DOMAIN item : item'[j].ws = item[j].ws /\ (j # m[2] => item'[j] = item[j])
  <2>1. PICK k, v : k = m[2] /\ v = PartsOf(x.id)
    OBVIOUS
  <2>2. ItemsFine /\ k \in DOMAIN item /\ v \in Parts /\ item' = Overwritten(k, v) /\ ids' = ids
    BY <1>1, <2>1, PartsTyped DEF Inv
  <2>3. item' = [item EXCEPT ![k].parts = v]
    BY <2>2 DEF Overwritten
  <2>4. item \in [DOMAIN item -> Row] /\ k \in DOMAIN item
    BY <2>2 DEF ItemsFine
  <2>5. /\ DOMAIN item' = DOMAIN item /\ item'[k].parts = v
        /\ \A j \in DOMAIN item : item'[j].ws = item[j].ws /\ (j # k => item'[j] = item[j])
    BY <2>3, <2>4 DEF Row
  <2> QED BY <2>1, <2>5
<1>7. ASSUME c \in alone PROVE DoneBut(r, 0)'
  <2>1. DoneBut(d, 0)
    BY <1>1, <1>2, <1>7 DEF WorkInv, Work
  <2>2. Partner(d.from, d.to)' = Partner(d.from, d.to)
    BY <1>1 DEF Partner
  <2>3. m \in Partner(d.from, d.to) /\ x \in d.took
    BY <1>1, <1>2, <2>1 DEF DoneBut
  <2>4. \A y \in d.took : y.id \in DOMAIN item /\ item[y.id].ws = assigned[d.from]
    BY <2>1 DEF DoneBut
  <2>5. ASSUME Plain(d), NEW y \in d.took, y \notin d.todo \ {x}
        PROVE  Matched(d, y.id)'
    <3>1. \A n \in Partner(d.from, d.to) :
            /\ n[2] \in DOMAIN item /\ item[n[2]].ws = assigned[d.to]
            /\ n[2] = m[2] => n[1] = m[1]
      BY <1>4, <2>3, <2>5, PartnersFine
    <3>2. \A z \in d.took : item'[z.id] = item[z.id]
      BY <1>6, <2>3, <2>4, <2>5, <3>1 DEF Plain
    <3>3. PartsOf(x.id) = item[x.id].parts
      BY <2>3, <2>4 DEF PartsOf
    <3>4. CASE y.id = x.id
      <4>1. m[1] = y.id /\ item'[m[2]].parts = item'[y.id].parts
        BY <1>1, <1>6, <2>3, <3>2, <3>3, <3>4
      <4> QED BY <2>2, <2>3, <4>1 DEF Matched
    <3>5. CASE y.id # x.id
      <4>1. y \notin d.todo
        BY <2>5, <3>5
      <4>2. y.id # 0
        BY <2>4 DEF Inv, ItemsFine
      <4>3. PICK n \in Partner(d.from, d.to) : n[1] = y.id /\ item[n[2]].parts = item[y.id].parts
        BY <2>1, <2>5, <4>1, <4>2 DEF DoneBut, Matched
      <4>4. n[2] # m[2]
        BY <1>1, <3>1, <3>5, <4>3
      <4>5. item'[n[2]].parts = item'[y.id].parts
        BY <1>6, <3>1, <3>2, <4>3, <4>4
      <4> QED BY <2>2, <4>3, <4>5 DEF Matched
    <3> QED BY <3>4, <3>5
  <2>6. Plain(r)' => Plain(d)
    BY <1>1, <1>5 DEF Plain
  <2>7. \A i : Matched(r, i)' <=> Matched(d, i)'
    BY <1>5 DEF Matched
  <2> QED BY <1>1, <1>5, <1>6, <2>1, <2>2, <2>4, <2>5, <2>6, <2>7 DEF DoneBut
<1>8. c \in alone => Work(c)'
  BY <1>3, <1>5, <1>7 DEF Work, At
<1> QED BY <1>1, <1>8, OnlyWorks

LEMMA DeployCloneWorks ==
  ASSUME DeploymentAssumption, Inv, WorkInv, NEW c \in Caller, DeployClone(c) PROVE WorkInv'
<1>1. PICK x : /\ At(c, "deploy") /\ x \in req[c].todo
               /\ \/ /\ Free(req[c].ws, x.name)
                     /\ Create(req[c].ws, x.name, PartsOf(x.id))
                     /\ req' = [req EXCEPT ![c] =
                          [at |-> "pair", deploy |-> [req[c] EXCEPT !.todo = req[c].todo \ {x}],
                           source |-> x.id, clone |-> ids + 1]]
                     /\ alone' = alone \cap {c}
                  \/ Fail(c) /\ UNCHANGED <<item, ids, alone>>
               /\ UNCHANGED <<assigned, pairs, steady, stale>>
  BY DEF DeployClone, Others
<1>2. CASE Fail(c) /\ UNCHANGED <<item, ids, alone>>
  BY <1>1, <1>2, EndWorks DEF Fail
<1>3. CASE ~(Fail(c) /\ UNCHANGED <<item, ids, alone>>)
  <2>1. PICK d, e, k, i : d = req[c] /\ e = [d EXCEPT !.todo = d.todo \ {x}] /\ k = ids + 1 /\ i = x.id
    OBVIOUS
  <2>2. PICK r : r = [at |-> "pair", deploy |-> e, source |-> i, clone |-> k]
    OBVIOUS
  <2>3. /\ Free(d.ws, x.name) /\ Create(d.ws, x.name, PartsOf(i)) /\ req'[c] = r
        /\ alone' = alone \cap {c}
    BY <1>1, <1>3, <2>1, <2>2 DEF Inv, Typed
  <2>4. Deploying(d)
    BY <1>1, <2>1 DEF Inv, Request, Deploys
  <2>5. /\ e.todo = d.todo \ {x} /\ e.took = d.took /\ e.partner = d.partner
        /\ e.from = d.from /\ e.to = d.to
    BY <2>1, <2>4, OneLess
  <2>6. /\ DOMAIN item' = DOMAIN item \cup {k} /\ item'[k].parts = PartsOf(i)
        /\ \A j \in DOMAIN item : item'[j] = item[j]
    <3>1. PICK w, n, v : w = d.ws /\ n = x.name /\ v = PartsOf(i)
      OBVIOUS
    <3>2. Create(w, n, v) /\ Free(w, n) /\ w \in Workspace /\ n \in Name /\ v \in Parts /\ ItemsFine
      BY <1>1, <2>1, <2>3, <2>4, <3>1, PartsTyped DEF Inv, Deploying
    <3>3. /\ DOMAIN item' = DOMAIN item \cup {ids + 1}
          /\ item'[ids + 1] = [ws |-> w, name |-> n, parts |-> v]
          /\ \A j \in DOMAIN item : item'[j] = item[j]
      BY <3>2, Creates
    <3> QED BY <2>1, <3>1, <3>3
  <2>7. ASSUME c \in alone PROVE DoneBut(e, i)' /\ item'[k].parts = item'[i].parts
    <3>1. DoneBut(d, 0)
      BY <1>1, <2>1, <2>7 DEF WorkInv, Work
    <3>2. Partner(d.from, d.to)' = Partner(d.from, d.to)
      BY <1>1 DEF Partner
    <3>3. \A y \in d.took : y.id \in DOMAIN item /\ item[y.id].ws = assigned[d.from]
      BY <3>1 DEF DoneBut
    <3>4. x \in d.took /\ i \in DOMAIN item
      BY <1>1, <2>1, <3>1, <3>3 DEF DoneBut
    <3>5. item'[k].parts = item'[i].parts
      BY <2>6, <3>4 DEF PartsOf
    <3>6. ASSUME Plain(d), NEW y \in d.took, y \notin d.todo \ {x}, y.id # i
          PROVE  Matched(d, y.id)'
      <4>1. y \notin d.todo /\ y.id # 0
        BY <2>1, <3>3, <3>6 DEF Inv, ItemsFine
      <4>2. PICK n \in Partner(d.from, d.to) : n[1] = y.id /\ item[n[2]].parts = item[y.id].parts
        BY <3>1, <3>6, <4>1 DEF DoneBut, Matched
      <4>3. n[2] \in DOMAIN item
        BY <2>4, PartnersFine
      <4>4. item'[n[2]].parts = item'[y.id].parts
        BY <2>6, <3>3, <4>2, <4>3
      <4> QED BY <3>2, <4>2, <4>4 DEF Matched
    <3>7. Plain(e)' => Plain(d)
      BY <1>1, <2>5 DEF Plain
    <3>8. \A j : Matched(e, j)' <=> Matched(d, j)'
      BY <2>5 DEF Matched
    <3>9. DoneBut(e, i)'
      BY <1>1, <2>5, <2>6, <3>1, <3>2, <3>3, <3>6, <3>7, <3>8 DEF DoneBut
    <3> QED BY <3>5, <3>9
  <2>8. r.at = "pair" /\ r.deploy = e /\ r.source = i /\ r.clone = k
    BY <2>2
  <2>9. c \in alone => Work(c)'
    BY <2>3, <2>7, <2>8 DEF Work, At
  <2> QED BY <1>1, <2>3, <2>9, OnlyWorks
<1> QED BY <1>2, <1>3

LEMMA PairCloneWorks ==
  ASSUME DeploymentAssumption, Inv, WorkInv, NEW c \in Caller, PairClone(c) PROVE WorkInv'
<1>1. PICK d, i, j : d = req[c].deploy /\ i = req[c].source /\ j = req[c].clone
  OBVIOUS
<1>2. PICK p : p = IF d.from < d.to THEN Pair(d.from, i, j) ELSE Pair(d.to, j, i)
  OBVIOUS
<1>3. At(c, "pair") /\ UNCHANGED <<item, ids, assigned, steady>>
  BY DEF PairClone
<1>4. Deploying(d)
  BY <1>1, <1>3 DEF Inv, Request, Clones
<1>5. CASE Fail(c) /\ UNCHANGED <<pairs, stale, alone>>
  BY <1>3, <1>5, EndWorks DEF Fail
<1>6. CASE ~(Fail(c) /\ UNCHANGED <<pairs, stale, alone>>)
  <2>1. /\ pairs' = pairs \cup {p}
        /\ stale' = IF c \in steady THEN stale ELSE stale \cup {p}
        /\ req' = [req EXCEPT ![c] = d] /\ req'[c] = d
        /\ alone' = alone \cap {c}
    BY <1>1, <1>2, <1>6 DEF PairClone, Others, Inv, Typed
  <2>2. ASSUME c \in alone PROVE DoneBut(d, 0)'
    <3>1. DoneBut(d, i) /\ item[j].parts = item[i].parts /\ stale' = stale
      BY <1>1, <1>3, <2>1, <2>2 DEF WorkInv, Work
    <3>2. Partner(d.from, d.to)' = Partner(d.from, d.to) \cup {<<i, j>>}
      <4>1. CASE d.from < d.to
        <5>1. p.stage = d.from /\ p.earlier = i /\ p.later = j
          BY <1>2, <4>1 DEF Pair
        <5> QED BY <2>1, <4>1, <5>1 DEF Partner
      <4>2. CASE ~(d.from < d.to)
        <5>1. p.stage = d.to /\ p.earlier = j /\ p.later = i
          BY <1>2, <4>2 DEF Pair
        <5> QED BY <2>1, <4>2, <5>1 DEF Partner
      <4> QED BY <4>1, <4>2
    <3>3. Plain(d)' <=> Plain(d)
      BY <1>3, <3>1 DEF Plain
    <3>4. \A k : Matched(d, k) => Matched(d, k)'
      BY <1>3, <3>2 DEF Matched
    <3>5. Matched(d, i)'
      <4>1. <<i, j>>[1] = i /\ <<i, j>>[2] = j /\ <<i, j>> \in Partner(d.from, d.to)'
        BY <3>2
      <4> QED BY <1>3, <3>1, <4>1 DEF Matched
    <3> QED BY <1>3, <3>1, <3>2, <3>3, <3>4, <3>5 DEF DoneBut
  <2>3. d.at = "deploy"
    BY <1>4 DEF Deploying
  <2>4. c \in alone => Work(c)'
    BY <2>1, <2>2, <2>3 DEF Work, At
  <2> QED BY <1>3, <2>1, <2>4, OnlyWorks
<1> QED BY <1>5, <1>6

LEMMA NobodyAlone == ASSUME alone' = {} PROVE WorkInv'
  BY DEF WorkInv

LEMMA NextWorks ==
  ASSUME DeploymentAssumption, Inv, WorkInv, [Next]_vars PROVE WorkInv'
<1>1. ASSUME NEW c \in Caller, NEW s \in Stage, NEW w \in Workspace, BeginAssign(c, s, w) PROVE WorkInv'
  <2> DEFINE With(t) == IF assigned[t] = NoWorkspace THEN {} ELSE In(assigned[t])
             after == IF s + 1 \in Stage THEN PairItems(s, In(w), With(s + 1)) ELSE {}
             before == IF s - 1 \in Stage THEN PairItems(s - 1, With(s - 1), In(w)) ELSE {}
  <2>a. PICK A, B : A = after /\ B = before
    OBVIOUS
  <2>b. PICK r : r = [at |-> "assign", stage |-> s, ws |-> w, fresh |-> B \cup A]
    OBVIOUS
  <2>1. /\ r.at = "assign" /\ req' = [req EXCEPT ![c] = r]
        /\ UNCHANGED <<item, pairs, assigned, stale>>
        /\ alone' = alone \cup {c} /\ steady' = steady \cup {c}
    BY <1>1, <2>a, <2>b DEF BeginAssign
  <2> HIDE DEF With, after, before
  <2>2. req'[c].at = "assign"
    BY <2>1 DEF Inv, Typed
  <2>3. Work(c)'
    BY <2>2 DEF Work, At
  <2> QED BY <2>1, <2>3, BeginWorks
<1>2. ASSUME NEW c \in Caller, AssignTx(c) PROVE WorkInv'
  <2>1. req' = [req EXCEPT ![c] = Idle] /\ item' = item
        /\ (alone' = {} \/ UNCHANGED <<assigned, pairs, stale, steady, alone>>)
    BY <1>2 DEF AssignTx
  <2> QED BY <2>1, EndWorks, NobodyAlone
<1>3. ASSUME NEW c \in Caller, Deployed(c) PROVE WorkInv'
  BY <1>3, EndWorks DEF Deployed
<1>4. CASE Restart
  <2>1. \A c \in Caller : req'[c].at = "idle"
    BY <1>4 DEF Restart, Idle
  <2>2. \A c \in Caller : Work(c)'
    BY <2>1 DEF Work, At
  <2> QED BY <1>4, <2>2 DEF WorkInv, Restart
<1>5. CASE UNCHANGED vars
  BY <1>5, WorkKept DEF WorkInv, vars
<1>6. \A w, n, v : NewItem(w, n, v) => WorkInv'
  BY NobodyAlone DEF NewItem
<1>7. \A i, n, v : ChangeItem(i, n, v) => WorkInv'
  BY NobodyAlone DEF ChangeItem
<1>8. \A i : RemoveItem(i) => WorkInv'
  BY NobodyAlone DEF RemoveItem
<1>9. \A s : Unassign(s) => WorkInv'
  BY NobodyAlone DEF Unassign
<1> QED BY <1>1, <1>2, <1>3, <1>4, <1>5, <1>6, <1>7, <1>8, <1>9, BeginDeployWorks, DeployPairedWorks,
           DeployCloneWorks, PairCloneWorks DEF Next

\* A deploy that nobody interfered with has left every item it took with a partner of
\* the same definition, between different workspaces and along no stale pair
\* (DeployStageContent of deploy.go): DeployedAgrees.
THEOREM DeploysAgree == ASSUME DeploymentAssumption PROVE Spec => []DeployedAgrees
<1>1. Inv /\ WorkInv => DeployedAgrees
  <2> SUFFICES ASSUME Inv, WorkInv, NEW c \in alone, At(c, "deploy"), req[c].todo = {},
                      assigned[req[c].from] # assigned[req[c].to],
                      \A p \in stale : ~Between(p, req[c].from, req[c].to),
                      NEW x \in req[c].took
               PROVE  Matched(req[c], x.id)
    BY DEF DeployedAgrees, Matched
  <2>1. DoneBut(req[c], 0) /\ Plain(req[c])
    BY DEF WorkInv, Work, Plain
  <2>2. x.id # 0
    BY <2>1 DEF DoneBut, Inv, ItemsFine
  <2> QED BY <2>1, <2>2 DEF DoneBut
<1>2. Inv /\ WorkInv /\ [Next]_vars => Inv' /\ WorkInv'
  BY NextInv, NextWorks
<1>3. Init => Inv /\ WorkInv
  BY InitInv DEF Init, WorkInv
<1> QED BY <1>1, <1>2, <1>3, PTL DEF Spec
=============================================================================
