------------------------------ MODULE Folders ------------------------------
(* The folders of a workspace (internal/api/folders.go,                        *)
(* internal/store/folders.go) and the items in them (moveItem and              *)
(* bulkMoveItems of internal/api/items.go). The store serialises statements,   *)
(* not requests: a request checks with some statements and writes with         *)
(* others, and those of other requests come between.                           *)
EXTENDS Integers, FiniteSets, Functions

CONSTANTS
  Folder,         \* folder ids
  Root,           \* the workspace itself: the empty folder id
  Name,           \* display names
  Item,           \* item ids
  Client          \* callers, with one request at a time each

FoldersAssumption == Root \notin Folder

VARIABLES
  folder,         \* the rows of folders: a function on the ids there are
  made,           \* the ids ever given out
  place,          \* the folder_id of each item there is
  placed,         \* the items ever created
  req,            \* per client, the request under way
  alone,          \* per client: no other wrote since its request began
  clean           \* every write so far was of a request that was alone

vars == <<folder, made, place, placed, req, alone, clean>>

Idle == [op |-> "idle"]
Folders == DOMAIN folder
Items == DOMAIN place
Row == [name : Name, parent : Folder \cup {Root}]

Init ==
  /\ folder = [f \in {} |-> Root] /\ made = {}
  /\ place = [i \in {} |-> Root] /\ placed = {}
  /\ req = [c \in Client |-> Idle]
  /\ alone = [c \in Client |-> TRUE] /\ clean = TRUE

-----------------------------------------------------------------------------
Begin(c, r) ==
  /\ req[c] = Idle
  /\ req' = [req EXCEPT ![c] = r]
  /\ alone' = [alone EXCEPT ![c] = TRUE]
  /\ UNCHANGED <<folder, made, place, placed, clean>>

\* A statement that reads: the request goes on, or is answered.
Goto(c, r) ==
  /\ req' = [req EXCEPT ![c] = r]
  /\ UNCHANGED <<folder, made, place, placed, alone, clean>>

\* A statement that writes, by a request that goes on with r.
Wrote(c, r) ==
  /\ req' = [req EXCEPT ![c] = r]
  /\ alone' = [d \in Client |-> alone[d] /\ (d = c \/ req[d] = Idle)]
  /\ clean' = (clean /\ alone[c])

\* UNIQUE (workspace_id, parent_id, display_name), Root being a value as any.
Unique(rows) ==
  \A f, g \in DOMAIN rows : f # g => rows[f] # rows[g]

Exists(f) == f = Root \/ f \in Folders

-----------------------------------------------------------------------------
(* Folders.                                                                  *)

CreateFolder(c) ==
  \E n \in Name, to \in made \cup {Root} :
    Exists(to) /\ Begin(c, [op |-> "create", row |-> [name |-> n, parent |-> to]])

InsertFolder(c) ==
  \E f \in Folder \ made :
    /\ req[c].op = "create"
    /\ LET rows == [g \in Folders \cup {f} |-> IF g = f THEN req[c].row ELSE folder[g]]
       IN IF Unique(rows)
          THEN /\ folder' = rows /\ made' = made \cup {f}
               /\ Wrote(c, Idle) /\ UNCHANGED <<place, placed>>
          ELSE Goto(c, Idle)

\* updateFolder reads the row, and writes its name alone.
UpdateFolder(c) ==
  \E f \in Folders, n \in Name : Begin(c, [op |-> "rename", id |-> f, name |-> n])

\* An UPDATE of f, if f is still there and the names allow it.
Write(c, f, row) ==
  LET rows == [folder EXCEPT ![f] = row]
  IN IF f \in Folders /\ Unique(rows)
     THEN folder' = rows /\ Wrote(c, Idle) /\ UNCHANGED <<made, place, placed>>
     ELSE Goto(c, Idle)

WriteName(c) ==
  /\ req[c].op = "rename"
  /\ LET f == req[c].id
     IN IF f \in Folders THEN Write(c, f, [folder[f] EXCEPT !.name = req[c].name]) ELSE Goto(c, Idle)

\* DeleteFolder counts the children, then the items, then deletes.
DeleteFolder(c) ==
  \E f \in Folders :
    /\ \A g \in Folders : folder[g].parent # f
    /\ Begin(c, [op |-> "count", id |-> f])

CountItems(c) ==
  /\ req[c].op = "count"
  /\ Goto(c, IF \E i \in Items : place[i] = req[c].id THEN Idle ELSE [op |-> "delete", id |-> req[c].id])

RemoveFolder(c) ==
  /\ req[c].op = "delete"
  /\ IF req[c].id \in Folders
     THEN /\ folder' = Restrict(folder, Folders \ {req[c].id})
          /\ Wrote(c, Idle) /\ UNCHANGED <<made, place, placed>>
     ELSE Goto(c, Idle)

\* MoveFolder reads the folder and the target, walks up from the target, and
\* reparents.
MoveFolder(c) ==
  \E f \in Folders, to \in made \cup {Root} :
    /\ f # to
    /\ Begin(c, IF to = Root THEN [op |-> "reparent", id |-> f, to |-> to]
                ELSE [op |-> "target", id |-> f, to |-> to])

Target(c) ==
  /\ req[c].op = "target"
  /\ Goto(c, IF req[c].to \notin Folders THEN Idle
             ELSE [op |-> "walk", id |-> req[c].id, to |-> req[c].to, cur |-> req[c].to, seen |-> {}])

\* The folder that moves is looked for at the target alone.
UnderTarget(c) == req[c].cur = req[c].id /\ req[c].seen = {}

\* folderIsUnder: whether it has come to the folder that moves, or round.
Under(c) == req[c].cur = req[c].id \/ req[c].cur \in req[c].seen

Walk(c) ==
  /\ req[c].op = "walk"
  /\ LET r == req[c]
     IN Goto(c, IF r.cur = Root THEN [op |-> "reparent", id |-> r.id, to |-> r.to]
                ELSE IF Under(c) \/ r.cur \notin Folders THEN Idle
                ELSE [r EXCEPT !.seen = @ \cup {r.cur}, !.cur = folder[r.cur].parent])

Reparent(c) ==
  /\ req[c].op = "reparent"
  /\ LET f == req[c].id
     IN IF f \in Folders THEN Write(c, f, [folder[f] EXCEPT !.parent = req[c].to]) ELSE Goto(c, Idle)

-----------------------------------------------------------------------------
(* Items in folders.                                                         *)

\* createItem stores the folder id it is given; deleteItem asks nothing of it.
CreateItem(c) ==
  \E i \in Item \ placed, f \in made \cup {Root} :
    /\ req[c] = Idle
    /\ place' = [j \in Items \cup {i} |-> IF j = i THEN f ELSE place[j]]
    /\ placed' = placed \cup {i}
    /\ alone' = [d \in Client |-> req[d] = Idle]
    /\ UNCHANGED <<folder, made, req, clean>>

DeleteItem(c) ==
  \E i \in Items :
    /\ req[c] = Idle
    /\ place' = Restrict(place, Items \ {i})
    /\ alone' = [d \in Client |-> req[d] = Idle]
    /\ UNCHANGED <<folder, made, placed, req, clean>>

\* moveItem reads the item, looks for the target among the folders, and writes.
MoveItem(c) ==
  \E i \in Items, to \in made \cup {Root} :
    Begin(c, [op |-> IF to = Root THEN "bulk" ELSE "look", ask |-> {}, left |-> {i}, all |-> {i}, to |-> to])

Look(c) ==
  /\ req[c].op = "look"
  /\ Goto(c, IF Exists(req[c].to) THEN [req[c] EXCEPT !.op = "bulk"] ELSE Idle)

\* bulkMoveItems reads the target, then every item, then writes one by one.
BulkMoveItems(c) ==
  \E list \in SUBSET placed, to \in made \cup {Root} :
    /\ Cardinality(list) > 1 /\ Exists(to)
    /\ Begin(c, [op |-> "bulk", ask |-> list, left |-> list, all |-> list, to |-> to])

\* The items are moved as they are found.
ResolveNone(c) ==
  /\ req[c].ask # {}
  /\ Goto(c, [req[c] EXCEPT !.ask = {}])

Resolve(c) ==
  \E i \in req[c].ask :
    Goto(c, IF i \in Items THEN [req[c] EXCEPT !.ask = @ \ {i}] ELSE Idle)

\* The last write answers the request.
PlaceItem(c) ==
  \E i \in req[c].left \cap Items :
    /\ req[c].ask = {}
    /\ place' = [place EXCEPT ![i] = req[c].to]
    /\ Wrote(c, IF req[c].left = {i} THEN Idle ELSE [req[c] EXCEPT !.left = @ \ {i}])
    /\ UNCHANGED <<folder, made, placed>>

\* No row was updated: the request fails where it is.
PlaceFails(c) ==
  /\ req[c].ask = {} /\ req[c].left \ Items # {}
  /\ Goto(c, Idle)

-----------------------------------------------------------------------------
Step(c) ==
  \/ InsertFolder(c) \/ WriteName(c) \/ CountItems(c) \/ RemoveFolder(c)
  \/ Target(c) \/ Walk(c) \/ Reparent(c) \/ Look(c)
  \/ req[c].op = "bulk" /\ (Resolve(c) \/ PlaceItem(c) \/ PlaceFails(c))

Next ==
  \E c \in Client :
    \/ CreateFolder(c) \/ UpdateFolder(c) \/ DeleteFolder(c) \/ MoveFolder(c)
    \/ CreateItem(c) \/ DeleteItem(c) \/ MoveItem(c) \/ BulkMoveItems(c)
    \/ Step(c)

Spec == Init /\ [][Next]_vars

-----------------------------------------------------------------------------
TypeOK ==
  /\ made \subseteq Folder /\ placed \subseteq Item
  /\ Folders \subseteq made /\ Items \subseteq placed
  /\ \A f \in Folders : folder[f] \in Row
  /\ \A i \in Items : place[i] \in Folder \cup {Root}
  /\ alone \in [Client -> BOOLEAN] /\ clean \in BOOLEAN

\* store/folders.go, ErrFolderCycle: no folder comes under itself; in no set of
\* folders does each have its parent in the set.
NoFolderCycle == \A S \in SUBSET Folders : S # {} => \E f \in S : folder[f].parent \notin S

\* Every folder there is hangs from the root.
Forest == NoFolderCycle /\ \A f \in Folders : Exists(folder[f].parent)

\* store/folders.go MoveFolder, DeleteFolder: as long as no two requests
\* overlapped, the folders are a forest.
Rooted == clean => Forest

\* api/items.go bulkMoveItems: one that moved an item finds the rest of its items
\* there, so that it fails with nothing moved, if no other request wrote meanwhile.
BulkGoesThrough ==
  \A c \in Client :
    req[c].op = "bulk" /\ alone[c] /\ req[c].left # req[c].all => req[c].left \subseteq Items

\* store/db.go, folder_id ("an item outliving its folder must fall back to the
\* root"): no item stays in a folder that is deleted.
ItemsFallBack ==
  [][\A i \in DOMAIN place' : place'[i] \notin Folders \ DOMAIN folder']_vars
=============================================================================
