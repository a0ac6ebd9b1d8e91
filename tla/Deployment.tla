------------------------------ MODULE Deployment ------------------------------
(***************************************************************************)
(* Deployment pipelines (internal/store/deployment.go, deploy.go,          *)
(* pairing.go): workspaces are assigned to the stages of a pipeline, items *)
(* of adjacent stages are paired, and a deploy copies the items of a stage *)
(* onto their partners, creating and pairing those that have none.         *)
(*                                                                         *)
(* An assignment writes in one transaction what it computed before; a      *)
(* deploy is a transaction per store call, item by item, and the process   *)
(* may end between any two of them. One pipeline; a type and a name are    *)
(* one Name; the reads a request begins with are one step.                 *)
(***************************************************************************)
EXTENDS Integers, FiniteSets

CONSTANTS
  Workspace, Name, Version, Caller,
  NoWorkspace,
  Stages,            \* number of stages
  MaxItems           \* bound of the model: item ids

\* A free stage has no workspace.
DeploymentAssumption ==
  /\ NoWorkspace \notin Workspace
  /\ Stages \in Nat /\ MaxItems \in Nat

Stage == 0 .. Stages - 1

VARIABLES
  item,              \* id -> [ws, name, parts]
  ids,               \* ids given
  assigned,          \* stage -> its workspace
  pairs,             \* [earlier stage, its item, item of the next stage]
  req,               \* caller -> its request
  steady,            \* callers since whose reads no stage was (un)assigned
  alone,             \* callers since whose reads nobody else changed anything
  stale              \* pairs written by a caller that was not steady

vars == <<item, ids, assigned, pairs, req, steady, alone, stale>>

Idle == [at |-> "idle"]
At(c, where) == req[c].at = where

Init ==
  /\ item = <<>> /\ ids = 0
  /\ assigned = [s \in Stage |-> NoWorkspace] /\ pairs = {}
  /\ req = [c \in Caller |-> Idle]
  /\ steady = {} /\ alone = {} /\ stale = {}

In(w) == {i \in DOMAIN item : item[i].ws = w}
Free(w, n) == \A i \in In(w) : item[i].name # n
Pair(s, e, l) == [stage |-> s, earlier |-> e, later |-> l]
Touches(p, s) == p.stage = s \/ p.stage + 1 = s

Create(w, n, v) ==
  /\ ids < MaxItems /\ ids' = ids + 1
  /\ item' = [i \in DOMAIN item \cup {ids + 1} |->
                IF i = ids + 1 THEN [ws |-> w, name |-> n, parts |-> v] ELSE item[i]]

-----------------------------------------------------------------------------
\* Requests on items.
NewItem(w, n, v) ==
  /\ Free(w, n) /\ Create(w, n, v)
  /\ alone' = {}
  /\ UNCHANGED <<assigned, pairs, req, steady, stale>>

ChangeItem(i, n, v) ==
  /\ i \in DOMAIN item
  /\ n = item[i].name \/ Free(item[i].ws, n)
  /\ item' = [item EXCEPT ![i].name = n, ![i].parts = v]
  /\ alone' = {}
  /\ UNCHANGED <<ids, assigned, pairs, req, steady, stale>>

\* The pairs go with the item.
RemoveItem(i) ==
  /\ i \in DOMAIN item
  /\ item' = [j \in DOMAIN item \ {i} |-> item[j]]
  /\ pairs' = {p \in pairs : i \notin {p.earlier, p.later}}
  /\ stale' = stale \cap pairs'
  /\ alone' = {}
  /\ UNCHANGED <<ids, assigned, req, steady>>

-----------------------------------------------------------------------------
\* PairItems over the items of two adjacent stages. Names are unique in a
\* workspace, so no pair is ambiguous.
PairItems(s, early, late) ==
  {Pair(s, x[1], x[2]) : x \in {y \in early \X late : item[y[1]].name = item[y[2]].name}}

\* AssignStageWorkspace: the pairs with each neighbour are computed ...
BeginAssign(c, s, w) ==
  /\ At(c, "idle")
  /\ LET With(t) == IF assigned[t] = NoWorkspace THEN {} ELSE In(assigned[t])
         after == IF s + 1 \in Stage THEN PairItems(s, In(w), With(s + 1)) ELSE {}
         before == IF s - 1 \in Stage THEN PairItems(s - 1, With(s - 1), In(w)) ELSE {}
     IN  req' = [req EXCEPT ![c] = [at |-> "assign", stage |-> s, ws |-> w, fresh |-> before \cup after]]
  /\ steady' = steady \cup {c} /\ alone' = alone \cup {c}
  /\ UNCHANGED <<item, ids, assigned, pairs, stale>>

Items(p) == {p.earlier, p.later}

\* ... and written in place of the pairs the stage had; the references to the
\* items must hold, or nothing is written.
AssignTx(c) ==
  /\ At(c, "assign")
  /\ LET r == req[c] IN
     IF \A p \in r.fresh : Items(p) \subseteq DOMAIN item
     THEN /\ assigned' = [assigned EXCEPT ![r.stage] = r.ws]
          /\ pairs' = {p \in pairs : ~Touches(p, r.stage)} \cup r.fresh
          /\ stale' = (stale \cap pairs') \cup (IF c \in steady THEN {} ELSE r.fresh)
          /\ steady' = {} /\ alone' = {}
     ELSE UNCHANGED <<assigned, pairs, stale, steady, alone>>
  /\ req' = [req EXCEPT ![c] = Idle]
  /\ UNCHANGED <<item, ids>>

\* Mutant: the pairs of the stage stay.
UnassignOnly(s) ==
  /\ assigned' = [assigned EXCEPT ![s] = NoWorkspace]
  /\ steady' = {} /\ alone' = {}
  /\ UNCHANGED <<item, ids, pairs, req, stale>>

\* UnassignStageWorkspace.
Unassign(s) ==
  /\ assigned' = [assigned EXCEPT ![s] = NoWorkspace]
  /\ pairs' = {p \in pairs : ~Touches(p, s)}
  /\ stale' = stale \cap pairs'
  /\ steady' = {} /\ alone' = {}
  /\ UNCHANGED <<item, ids, req>>

-----------------------------------------------------------------------------
(* DeployStageContent.                                                     *)
\* The target items of the pairs between two adjacent stages, by source item.
Partner(from, to) ==
  IF from < to THEN {<<p.earlier, p.later>> : p \in {q \in pairs : q.stage = from}}
  ELSE {<<p.later, p.earlier>> : p \in {q \in pairs : q.stage = to}}

\* Of the items of the source stage those selected, or all.
BeginDeploy(c, from, to, selected) ==
  /\ At(c, "idle")
  /\ from - to \in {1, -1}
  /\ assigned[from] # NoWorkspace /\ assigned[to] # NoWorkspace
  /\ LET all == In(assigned[from])
         todo == {[id |-> i, name |-> item[i].name] : i \in IF selected = {} THEN all ELSE all \cap selected}
     IN  req' = [req EXCEPT ![c] = [at |-> "deploy", from |-> from, to |-> to, ws |-> assigned[to],
                                    todo |-> todo, took |-> todo, partner |-> Partner(from, to)]]
  /\ steady' = steady \cup {c} /\ alone' = alone \cup {c}
  /\ UNCHANGED <<item, ids, assigned, pairs, stale>>

\* The definition of a source item; one that is gone has none.
PartsOf(i) == IF i \in DOMAIN item THEN item[i].parts ELSE "none"

\* Mutant: what a paired item is given is its description only.
Described(tgt, parts) == item

\* A paired target keeps its id and its name.
Overwritten(tgt, parts) == [item EXCEPT ![tgt].parts = parts]

Others(S, c) == S \cap {c}
Fail(c) == req' = [req EXCEPT ![c] = Idle]

\* A source item whose partner is there is copied onto it.
DeployPaired(c) ==
  /\ At(c, "deploy")
  /\ \E x \in req[c].todo : \E m \in req[c].partner :
       /\ m[1] = x.id /\ m[2] \in DOMAIN item
       /\ item' = Overwritten(m[2], PartsOf(x.id))
       /\ req' = [req EXCEPT ![c].todo = @ \ {x}]
  /\ alone' = Others(alone, c)
  /\ UNCHANGED <<ids, assigned, pairs, steady, stale>>

\* Any other is created in the target's workspace, or the deploy fails there.
DeployClone(c) ==
  /\ At(c, "deploy")
  /\ \E x \in req[c].todo :
       /\ \A m \in req[c].partner : m[1] = x.id => m[2] \notin DOMAIN item
       /\ \/ /\ Free(req[c].ws, x.name)
             /\ Create(req[c].ws, x.name, PartsOf(x.id))
             /\ req' = [req EXCEPT ![c] = [at |-> "pair", deploy |-> [req[c] EXCEPT !.todo = @ \ {x}],
                                           source |-> x.id, clone |-> ids + 1]]
             /\ alone' = Others(alone, c)
          \/ ~Free(req[c].ws, x.name) /\ Fail(c) /\ UNCHANGED <<item, ids, alone>>
  /\ UNCHANGED <<assigned, pairs, steady, stale>>

\* The pair of the clone: refused when either item is gone, or the source has a
\* partner by now. The clone stays then, and so it does if the process ends.
PairClone(c) ==
  /\ At(c, "pair")
  /\ LET d == req[c].deploy
         p == IF d.from < d.to THEN Pair(d.from, req[c].source, req[c].clone)
              ELSE Pair(d.to, req[c].clone, req[c].source)
         taken == \E q \in pairs : q.stage = p.stage /\ (q.earlier = p.earlier \/ q.later = p.later)
     IN  IF Items(p) \subseteq DOMAIN item /\ ~taken
         THEN /\ pairs' = pairs \cup {p}
              /\ stale' = IF c \in steady THEN stale ELSE stale \cup {p}
              /\ req' = [req EXCEPT ![c] = d]
              /\ alone' = Others(alone, c)
         ELSE Fail(c) /\ UNCHANGED <<pairs, stale, alone>>
  /\ UNCHANGED <<item, ids, assigned, steady>>

\* recordDeployment, and the answer.
Deployed(c) ==
  /\ At(c, "deploy") /\ req[c].todo = {}
  /\ req' = [req EXCEPT ![c] = Idle]
  /\ UNCHANGED <<item, ids, assigned, pairs, steady, alone, stale>>

\* The process ends and starts again.
Restart ==
  /\ req' = [c \in Caller |-> Idle]
  /\ UNCHANGED <<item, ids, assigned, pairs, steady, alone, stale>>

Next ==
  \/ \E n \in Name, v \in Version :
       (\E w \in Workspace : NewItem(w, n, v)) \/ (\E i \in DOMAIN item : ChangeItem(i, n, v))
  \/ \E i \in DOMAIN item : RemoveItem(i)
  \/ \E s \in Stage : Unassign(s)
  \/ \E c \in Caller :
       \/ \E s \in Stage, w \in Workspace : BeginAssign(c, s, w)
       \/ \E s, t \in Stage, sel \in {{}} \cup {{i} : i \in DOMAIN item} : BeginDeploy(c, s, t, sel)
       \/ AssignTx(c) \/ DeployPaired(c) \/ DeployClone(c) \/ PairClone(c) \/ Deployed(c)
  \/ Restart

Spec == Init /\ [][Next]_vars

-----------------------------------------------------------------------------
\* A pair joins items of the workspaces that are assigned to its two stages now,
\* one to one: a deploy that followed any other would write into a workspace that
\* is no part of the pipeline. Left out are the pairs of a request during which a
\* stage was assigned or unassigned: those can be stale (deploy.go:274-280).
PairsCurrent ==
  \A p \in pairs \ stale :
    /\ item[p.earlier].ws = assigned[p.stage] /\ item[p.later].ws = assigned[p.stage + 1]
    /\ \A q \in pairs : q.stage = p.stage /\ (q.earlier = p.earlier \/ q.later = p.later) => q = p

\* The pairs between two adjacent stages.
Between(p, from, to) == p.stage = (IF from < to THEN from ELSE to)

\* A deploy that nobody interfered with has left every item it took with a partner
\* in the target stage that has its definition, whether it was paired before or
\* not, renamed meanwhile or not, and in whichever direction it went. The stages
\* have different workspaces, and no pair between them is stale: along a stale one
\* an item of the source workspace may itself be overwritten.
DeployedAgrees ==
  \A c \in alone :
    /\ At(c, "deploy") /\ req[c].todo = {}
    /\ assigned[req[c].from] # assigned[req[c].to]
    /\ \A p \in stale : ~Between(p, req[c].from, req[c].to)
    => \A x \in req[c].took : \E m \in Partner(req[c].from, req[c].to) :
         m[1] = x.id /\ item[m[2]].parts = item[x.id].parts
=============================================================================
