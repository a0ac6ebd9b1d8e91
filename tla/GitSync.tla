------------------------------- MODULE GitSync -------------------------------
(***************************************************************************)
(* Git integration of workspaces (internal/api/git.go, store/git.go): the  *)
(* connection of a workspace to a branch, commits to it and updates from   *)
(* it. Each store call is a transaction of its own; nothing is held from   *)
(* one to the next, so callers and edits of items come in between.         *)
(*                                                                         *)
(* One branch. A type and a name are one Name; commit hashes are numbered. *)
(***************************************************************************)
EXTENDS Integers, Sequences, FiniteSets

CONSTANTS
  Workspace, Name, Version, Caller,
  SameName,          \* {n, m}: names that differ in case only
  MaxItems, MaxCommits   \* bounds of the model: item ids and commits

\* Names that clash are names.
GitAssumption ==
  /\ SameName \subseteq SUBSET Name
  /\ MaxItems \in Nat /\ MaxCommits \in Nat

VARIABLES
  items,             \* workspace -> item id -> [name, parts]
  ids,               \* item ids given
  conn,              \* workspace -> its connection: [connected, synced]
  remote,            \* the branch: name -> [logical, parts]
  head,              \* its commit, 0 for none
  history,           \* what each commit put on the branch: name -> parts
  req,               \* caller -> its request
  quiet              \* callers since whose first read nobody else has written

vars == <<items, ids, conn, remote, head, history, req, quiet>>

None == [connected |-> FALSE]
Fresh == [connected |-> TRUE, synced |-> 0]
Idle == [at |-> "idle"]

Init ==
  /\ items = [w \in Workspace |-> <<>>] /\ ids = 0
  /\ conn = [w \in Workspace |-> None]
  /\ remote = <<>> /\ head = 0 /\ history = <<>>
  /\ req = [c \in Caller |-> Idle] /\ quiet = {}

Goto(c, r) == req' = [req EXCEPT ![c] = r]
At(c, where) == req[c].at = where
Ws(c) == req[c].ws

Contents(f) == [n \in DOMAIN f |-> f[n].parts]
Names(its) == {its[i].name : i \in DOMAIN its}

\* The index on names ignores case.
Clash(n, m) == n = m \/ {n, m} \in SameName
Free(w, n) == \A m \in Names(items[w]) : ~Clash(n, m)

\* CreateItem and DeleteItem in a workspace.
With(w, n, v) ==
  /\ ids < MaxItems /\ ids' = ids + 1
  /\ items' = [items EXCEPT ![w] = [i \in DOMAIN @ \cup {ids + 1} |->
                  IF i = ids + 1 THEN [name |-> n, parts |-> v] ELSE @[i]]]
Without(w, i) == items' = [items EXCEPT ![w] = [j \in DOMAIN @ \ {i} |-> @[j]]]

-----------------------------------------------------------------------------
\* Requests on items, outside git.
NewItem(w, n, v) ==
  /\ Free(w, n) /\ With(w, n, v)
  /\ quiet' = {}
  /\ UNCHANGED <<conn, remote, head, history, req>>

EditItem(w, i, v) ==
  /\ i \in DOMAIN items[w] /\ items' = [items EXCEPT ![w][i].parts = v]
  /\ quiet' = {}
  /\ UNCHANGED <<ids, conn, remote, head, history, req>>

RemoveItem(w, i) ==
  /\ i \in DOMAIN items[w] /\ Without(w, i)
  /\ quiet' = {}
  /\ UNCHANGED <<ids, conn, remote, head, history, req>>

-----------------------------------------------------------------------------
\* gitConnect and gitDisconnect.
Connect(w) ==
  /\ conn' = [conn EXCEPT ![w] = Fresh]
  /\ UNCHANGED <<items, ids, remote, head, history, req, quiet>>

Disconnect(w) ==
  /\ conn[w].connected /\ conn' = [conn EXCEPT ![w] = None]
  /\ UNCHANGED <<items, ids, remote, head, history, req, quiet>>

\* requireGit: the row is read once, and written back at the end.
Begin(c, w, op) ==
  /\ At(c, "idle") /\ conn[w].connected
  /\ Goto(c, [at |-> op, ws |-> w, conn |-> conn[w]])
  /\ quiet' = quiet \cup {c}
  /\ UNCHANGED <<items, ids, conn, remote, head, history>>

\* gitInitializeConnection reports on head and items, and writes the row back; the
\* flag it sets there is never read.
Initialize(c) ==
  /\ At(c, "initialize")
  /\ conn' = [conn EXCEPT ![Ws(c)] = req[c].conn]
  /\ Goto(c, Idle) /\ quiet' = quiet \ {c}
  /\ UNCHANGED <<items, ids, remote, head, history>>

\* SetGitConnection at the end of a commit or an update.
SetSynced(c) ==
  /\ At(c, "sync")
  /\ conn' = [conn EXCEPT ![Ws(c)] = [req[c].conn EXCEPT !.synced = req[c].hash]]
  /\ Goto(c, Idle) /\ quiet' = quiet \ {c}
  /\ UNCHANGED <<items, ids, remote, head, history>>

-----------------------------------------------------------------------------
(* gitCommitToGit.                                                         *)
ListForCommit(c) ==
  /\ At(c, "commit")
  /\ LET its == items[Ws(c)] IN
     Goto(c, [at |-> "read", ws |-> Ws(c), conn |-> req[c].conn,
              todo |-> {<<i, its[i].name>> : i \in DOMAIN its}, parts |-> <<>>])
  /\ UNCHANGED <<items, ids, conn, remote, head, history, quiet>>

\* GetDefinition of one item after the other; one that is gone has no parts.
ReadDefinition(c) ==
  /\ At(c, "read")
  /\ \E x \in req[c].todo :
       LET v == IF x[1] \in DOMAIN items[Ws(c)] THEN items[Ws(c)][x[1]].parts ELSE "none"
       IN  Goto(c, [req[c] EXCEPT !.todo = @ \ {x},
                    !.parts = [n \in DOMAIN @ \cup {x[2]} |-> IF n = x[2] THEN v ELSE @[n]]])
  /\ UNCHANGED <<items, ids, conn, remote, head, history, quiet>>

\* CommitRemoteItems: the logical ids there are, ...
ReadLogical(c) ==
  /\ At(c, "read") /\ req[c].todo = {}
  /\ Goto(c, [at |-> "tx", ws |-> Ws(c), conn |-> req[c].conn, parts |-> req[c].parts,
              logical |-> [n \in DOMAIN remote |-> remote[n].logical]])
  /\ UNCHANGED <<items, ids, conn, remote, head, history, quiet>>

\* What a commit makes of the branch: a new item's logical id is its commit.
NewBranch(c) ==
  [n \in DOMAIN req[c].parts |->
     [logical |-> IF n \in DOMAIN req[c].logical THEN req[c].logical[n] ELSE Len(history) + 1,
      parts |-> req[c].parts[n]]]

\* ... then one transaction for the items and the head.
CommitTx(c) ==
  /\ At(c, "tx") /\ Len(history) < MaxCommits
  /\ remote' = NewBranch(c)
  /\ history' = Append(history, req[c].parts)
  /\ head' = Len(history) + 1
  /\ Goto(c, [at |-> "sync", ws |-> Ws(c), conn |-> req[c].conn, hash |-> Len(history) + 1])
  /\ quiet' = quiet \cap {c}
  /\ UNCHANGED <<items, ids, conn>>

-----------------------------------------------------------------------------
(* gitUpdateFromGit.                                                       *)
ListRemote(c) ==
  /\ At(c, "update")
  /\ Goto(c, [at |-> "items", ws |-> Ws(c), conn |-> req[c].conn, remote |-> Contents(remote)])
  /\ UNCHANGED <<items, ids, conn, remote, head, history, quiet>>

\* Mutant: items that the branch does not have are left alone.
Kept(its, names) == {}

\* The items to delete, once the branch's are in.
Extra(its, names) == {i \in DOMAIN its : its[i].name \notin names}

ListExisting(c) ==
  /\ At(c, "items")
  /\ LET its == items[Ws(c)] IN
     Goto(c, [at |-> "apply", ws |-> Ws(c), conn |-> req[c].conn, remote |-> req[c].remote,
              todo |-> DOMAIN req[c].remote, existing |-> its,
              extra |-> Extra(its, DOMAIN req[c].remote)])
  /\ UNCHANGED <<items, ids, conn, remote, head, history, quiet>>

\* A store call that fails ends the request: what was applied stays.
Fail(c) == Goto(c, Idle) /\ quiet' = quiet \ {c} /\ UNCHANGED <<items, ids>>

\* One item of the branch: its definition replaced, or the item created.
Apply(c) ==
  /\ At(c, "apply")
  /\ \E n \in req[c].todo :
       LET old == {i \in DOMAIN req[c].existing : req[c].existing[i].name = n}
           done == Goto(c, [req[c] EXCEPT !.todo = @ \ {n}]) /\ quiet' = quiet \cap {c}
       IN  \/ \E i \in old \cap DOMAIN items[Ws(c)] :
                /\ items' = [items EXCEPT ![Ws(c)][i].parts = req[c].remote[n]]
                /\ done /\ UNCHANGED ids
           \/ /\ old = {} /\ Free(Ws(c), n)
              /\ With(Ws(c), n, req[c].remote[n]) /\ done
           \/ /\ IF old = {} THEN ~Free(Ws(c), n) ELSE old \cap DOMAIN items[Ws(c)] = {}
              /\ Fail(c)
  /\ UNCHANGED <<conn, remote, head, history>>

DeleteExtra(c) ==
  /\ At(c, "apply") /\ req[c].todo = {}
  /\ \E i \in req[c].extra :
       \/ /\ i \in DOMAIN items[Ws(c)] /\ Without(Ws(c), i)
          /\ Goto(c, [req[c] EXCEPT !.extra = @ \ {i}]) /\ quiet' = quiet \cap {c}
          /\ UNCHANGED ids
       \/ i \notin DOMAIN items[Ws(c)] /\ Fail(c)
  /\ UNCHANGED <<conn, remote, head, history>>

\* GetRemoteHead, after all of it.
ReadHead(c) ==
  /\ At(c, "apply") /\ req[c].todo = {} /\ req[c].extra = {}
  /\ Goto(c, [at |-> "sync", ws |-> Ws(c), conn |-> req[c].conn, hash |-> head])
  /\ UNCHANGED <<items, ids, conn, remote, head, history, quiet>>

Next ==
  \/ \E w \in Workspace :
       \/ \E v \in Version : (\E n \in Name : NewItem(w, n, v)) \/ (\E i \in 1 .. ids : EditItem(w, i, v))
       \/ \E i \in 1 .. ids : RemoveItem(w, i)
       \/ Connect(w) \/ Disconnect(w)
  \/ \E c \in Caller :
       \/ \E w \in Workspace, op \in {"initialize", "commit", "update"} : Begin(c, w, op)
       \/ Initialize(c) \/ SetSynced(c)
       \/ ListForCommit(c) \/ ReadDefinition(c) \/ ReadLogical(c) \/ CommitTx(c)
       \/ ListRemote(c) \/ ListExisting(c) \/ Apply(c) \/ DeleteExtra(c) \/ ReadHead(c)

Spec == Init /\ [][Next]_vars

-----------------------------------------------------------------------------
\* A commit or an update that nobody interfered with is recorded as synced only
\* when workspace and branch agree, to the item: none is missing, left over or of
\* another version, through name conflicts and failures half-way.
SyncedAgrees ==
  \A c \in quiet : At(c, "sync") =>
    /\ req[c].hash = head
    /\ {<<items[Ws(c)][i].name, items[Ws(c)][i].parts>> : i \in DOMAIN items[Ws(c)]}
         = {<<n, remote[n].parts>> : n \in DOMAIN remote}

=============================================================================
