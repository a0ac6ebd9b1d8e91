----------------------------- MODULE ItemNames -----------------------------
(* Display names of a workspace's items: createItem, updateItem and deleteItem *)
(* of internal/api/items.go over internal/store/items.go and names.go, for     *)
(* items of one type. Names are compared without case. A deleted name is held  *)
(* for a while (FABRIC_NAME_RESERVATION). Each read and write is a statement   *)
(* of its own; statements of other requests come between.                      *)
EXTENDS Integers, FiniteSets, Functions

CONSTANTS
  Name,           \* display names as spelled
  SameName,       \* {n, m}: names that differ in case only
  Item,           \* item ids
  Client,         \* callers, with one request at a time each
  Held,           \* NameReservation, in seconds; 0 holds nothing
  MaxTime         \* bound on the clock

Same(n, m) == n = m \/ {n, m} \in SameName

NamesAssumption ==
  /\ SameName \subseteq SUBSET Name /\ {Held, MaxTime} \subseteq Nat
  /\ \A n, m, k \in Name : Same(n, m) /\ Same(m, k) => Same(n, k)

VARIABLES
  name,           \* the display name of each item there is
  created,        \* the item ids ever given out
  freed,          \* deleted_item_names: when each spelling was deleted last
  now,            \* the clock
  req,            \* per client, the request under way
  gone,           \* when the deletion of each spelling's last item was answered
  serial          \* no two requests ever overlapped

vars == <<name, created, freed, now, req, gone, serial>>

Idle == [op |-> "idle"]
Items == DOMAIN name

Init ==
  /\ name = [i \in {} |-> ""] /\ created = {}
  /\ freed = [n \in {} |-> 0] /\ gone = freed
  /\ now = 0
  /\ req = [c \in Client |-> Idle]
  /\ serial = TRUE

-----------------------------------------------------------------------------
Goto(c, r) ==
  /\ req' = [req EXCEPT ![c] = r]
  /\ UNCHANGED <<name, created, freed, now, gone, serial>>

Begin(c, r) ==
  /\ req[c] = Idle
  /\ req' = [req EXCEPT ![c] = r]
  /\ serial' = (serial /\ \A d \in Client : req[d] = Idle)
  /\ UNCHANGED <<name, created, freed, now, gone>>

Answer(c) == req' = [req EXCEPT ![c] = Idle]

\* ItemNameTaken: by an item other than the one that is renamed.
Taken(n, except) == \E i \in Items \ except : Same(name[i], n)

\* ux_items_ws_name_type, over the names after a write.
Unique(names) == \A i, j \in DOMAIN names : i # j => ~Same(names[i], names[j])

\* NameReservedUntil reads the first row under any spelling of the name.
ReservedToTheEnd(row) == freed[row] + Held >= now
Reserved(row) == freed[row] + Held > now

-----------------------------------------------------------------------------
\* createItem asks whether the name is taken,
CreateItem(c) ==
  \E n \in Name : ~Taken(n, {}) /\ Begin(c, [op |-> "held", name |-> n])

\* then whether it is held,
CheckHeld(c) ==
  /\ req[c].op = "held"
  /\ LET n == req[c].name
         rows == {m \in DOMAIN freed : Held > 0 /\ Same(m, n)}
     IN \/ rows = {} /\ Goto(c, [op |-> "insert", name |-> n])
        \/ \E m \in rows : Goto(c, IF Reserved(m) THEN Idle ELSE [op |-> "insert", name |-> n])

\* and inserts the item, if the index allows it.
InsertItem(c) ==
  \E i \in Item \ created :
    /\ req[c].op = "insert"
    /\ LET n == req[c].name
           names == [j \in Items \cup {i} |-> IF j = i THEN n ELSE name[j]]
       IN IF Unique(names)
          THEN /\ name' = names /\ created' = created \cup {i}
               /\ Answer(c) /\ UNCHANGED <<freed, now, gone, serial>>
          ELSE Goto(c, Idle)

\* updateItem reads the item, asks whether a new name is taken, and writes the
\* name with the description, the one it read if only that changes.
UpdateItem(c) ==
  \E i \in Items, n \in Name :
    Begin(c, [op |-> IF n = name[i] THEN "rename" ELSE "check", id |-> i, name |-> n])

CheckTaken(c) ==
  /\ req[c].op = "check"
  /\ LET i == req[c].id
         n == req[c].name
     IN Goto(c, IF Taken(n, {i}) THEN Idle ELSE [op |-> "rename", id |-> i, name |-> n])

RenameItem(c) ==
  /\ req[c].op = "rename"
  /\ LET i == req[c].id
         names == [name EXCEPT ![i] = req[c].name]
     IN IF i \in Items /\ Unique(names)
        THEN name' = names /\ Answer(c) /\ UNCHANGED <<created, freed, now, gone, serial>>
        ELSE Goto(c, Idle)

\* deleteItem reads the name, deletes the item, and holds the name it read.
DeleteItem(c) ==
  \E i \in Items : Begin(c, [op |-> "remove", id |-> i, name |-> name[i]])

RemoveItem(c) ==
  /\ req[c].op = "remove"
  /\ LET i == req[c].id
     IN IF i \in Items
        THEN /\ name' = Restrict(name, Items \ {i})
             /\ req' = [req EXCEPT ![c] = [op |-> "hold", name |-> req[c].name, lost |-> name[i]]]
             /\ UNCHANGED <<created, freed, now, gone, serial>>
        ELSE Goto(c, Idle)

\* The first deletion of a name stays.
StampedOnce(times, n) == [m \in DOMAIN times \cup {n} |-> IF m \in DOMAIN times THEN times[m] ELSE now]

Stamped(times, n) == [m \in DOMAIN times \cup {n} |-> IF m = n THEN now ELSE times[m]]

HoldName(c) ==
  /\ req[c].op = "hold"
  /\ freed' = Stamped(freed, req[c].name)
  /\ gone' = [m \in DOMAIN gone \cup {req[c].lost} |-> IF m = req[c].lost THEN now ELSE gone[m]]
  /\ Answer(c)
  /\ UNCHANGED <<name, created, now, serial>>

Advance ==
  /\ now < MaxTime
  /\ now' = now + 1
  /\ UNCHANGED <<name, created, freed, req, gone, serial>>

-----------------------------------------------------------------------------
Next ==
  \/ Advance
  \/ \E c \in Client :
       \/ CreateItem(c) \/ CheckHeld(c) \/ InsertItem(c)
       \/ UpdateItem(c) \/ CheckTaken(c) \/ RenameItem(c)
       \/ DeleteItem(c) \/ RemoveItem(c) \/ HoldName(c)

Spec == Init /\ [][Next]_vars

-----------------------------------------------------------------------------
TypeOK ==
  /\ Items \subseteq created /\ created \subseteq Item
  /\ \A i \in Items : name[i] \in Name
  /\ DOMAIN freed \subseteq Name /\ \A n \in DOMAIN freed : freed[n] \in 0 .. now
  /\ now \in 0 .. MaxTime /\ serial \in BOOLEAN

\* An item whose name is n, or n in another case, was deleted less than Held
\* seconds ago.
LatelyGone(n) == \E m \in DOMAIN gone : Same(m, n) /\ gone[m] + Held > now

\* No name is held under two spellings.
OneSpelling == \A n, m \in DOMAIN freed : Same(n, m) => n = m

\* store/items.go NameReservedUntil: a deleted name is not given out again
\* before Held seconds have passed, unless requests overlap.
ReservedWaits ==
  [][\A c \in Client : serial /\ InsertItem(c) /\ created' # created => ~LatelyGone(req[c].name)]_vars

\* The same while each name was deleted under one spelling.
HeldNameWaits ==
  \A c \in Client : serial /\ OneSpelling /\ InsertItem(c) /\ created' # created => ~LatelyGone(req[c].name)

\* api/items.go createItem: a name is refused only while it is held.
FreedNameServes ==
  \A c \in Client : serial /\ CheckHeld(c) /\ req'[c] = Idle => LatelyGone(req[c].name)

\* store/items.go, 409 ItemDisplayNameNotAvailableYet: a deleted name is held for
\* its time and no longer, through renames and deletions of its next holders.
NameHeldExactly == HeldNameWaits /\ FreedNameServes
NamesHeldExactly == [][NameHeldExactly]_vars
=============================================================================
