-------------------------- MODULE WorkspaceIdentity --------------------------
(* The workspace identity (docs/09-identity-handshake.md): provisionIdentity   *)
(* and deprovisionIdentity of internal/api/identity.go, updateWorkspace and    *)
(* deleteWorkspace of internal/api/workspaces.go, over internal/entra and      *)
(* internal/store, for one workspace. The identity is entra's, the link and    *)
(* the grant are the store's; a request goes from one to the other, and may    *)
(* fail or be cut off between any two steps.                                   *)
EXTENDS Integers, FiniteSets, Functions

CONSTANTS
  Identity,       \* service principals entra gives out
  None,           \* no identity
  Name,           \* display names
  Client,         \* admins, with one request at a time each
  MaxFailures,    \* bound on failures
  MaxRenames      \* bound on the PATCHes

IdentityAssumption == None \notin Identity /\ {MaxFailures, MaxRenames} \subseteq Nat

VARIABLES
  workspace,      \* whether it is there, and its display name
  entra,          \* the identities of the workspace that entra has, with their names
  given,          \* the identities ever given out
  link,           \* workspace_identities
  grants,         \* the identities with the Admin role on the workspace
  req,            \* per client, the request under way
  failures,       \* failures so far
  renames,        \* PATCHes so far
  tangled,        \* two requests about the identity overlapped, or one failed midway
  serial,         \* no two requests overlapped
  said            \* whether the last PATCH with a name was answered with success

vars == <<workspace, entra, given, link, grants, req, failures, renames, tangled, serial, said>>

Idle == [op |-> "idle"]

\* The operations that are about the identity, by the step they are at.
Handling == {"create", "link", "grant", "erase", "unlink", "revoke", "cascade", "drop"}

Init ==
  /\ workspace \in [there : {TRUE}, name : Name]
  /\ entra = [i \in {} |-> ""] /\ given = {}
  /\ link = None /\ grants = {}
  /\ req = [c \in Client |-> Idle]
  /\ failures = 0 /\ renames = 0
  /\ tangled = FALSE /\ serial = TRUE /\ said = TRUE

-----------------------------------------------------------------------------
Begin(c, r) ==
  /\ req[c] = Idle /\ workspace.there
  /\ req' = [req EXCEPT ![c] = r]
  /\ serial' = (serial /\ \A d \in Client : req[d] = Idle)
  /\ tangled' = (tangled \/ (r.op \in Handling /\ \E d \in Client : req[d].op \in Handling))
  /\ UNCHANGED <<workspace, entra, given, link, grants, failures>>

Goto(c, r) ==
  /\ req' = [req EXCEPT ![c] = r]
  /\ UNCHANGED <<failures, renames, tangled, serial, said>>

\* The request is answered with an error for want of what it needs.
Refuse(c) ==
  /\ Goto(c, Idle)
  /\ UNCHANGED <<workspace, entra, given, link, grants>>

-----------------------------------------------------------------------------
(* provisionIdentity: entra, then the link, then the grant.                  *)

ProvisionIdentity(c) ==
  /\ link = None
  /\ Begin(c, [op |-> "create", name |-> workspace.name])
  /\ UNCHANGED <<renames, said>>

CreateIdentity(c) ==
  \E i \in Identity \ given :
    /\ req[c].op = "create"
    /\ entra' = [j \in DOMAIN entra \cup {i} |-> IF j = i THEN req[c].name ELSE entra[j]]
    /\ given' = given \cup {i}
    /\ Goto(c, [op |-> "link", id |-> i])
    /\ UNCHANGED <<workspace, link, grants>>

\* An upsert, of a row that refers to the workspace.
SetWorkspaceIdentity(c) ==
  /\ req[c].op = "link"
  /\ IF workspace.there
     THEN /\ link' = req[c].id
          /\ Goto(c, [op |-> "grant", id |-> req[c].id])
          /\ UNCHANGED <<workspace, entra, given, grants>>
     ELSE Refuse(c)

GrantAdmin(c) ==
  /\ req[c].op = "grant"
  /\ IF workspace.there
     THEN /\ grants' = grants \cup {req[c].id}
          /\ Goto(c, Idle)
          /\ UNCHANGED <<workspace, entra, given, link>>
     ELSE Refuse(c)

-----------------------------------------------------------------------------
(* deprovisionIdentity: entra, then the link, then the grant.                *)

DeprovisionIdentity(c) ==
  /\ link # None
  /\ Begin(c, [op |-> "erase", id |-> link])
  /\ UNCHANGED <<renames, said>>

\* Entra answers an unknown id with an error.
EraseIdentity(c) ==
  /\ req[c].op \in {"erase", "cascade"}
  /\ IF req[c].id \in DOMAIN entra
     THEN /\ entra' = Restrict(entra, DOMAIN entra \ {req[c].id})
          /\ Goto(c, [op |-> IF req[c].op = "erase" THEN "unlink" ELSE "drop", id |-> req[c].id])
          /\ UNCHANGED <<workspace, given, link, grants>>
     ELSE Refuse(c)

DeleteLink(c) ==
  /\ req[c].op = "unlink"
  /\ IF link # None
     THEN /\ link' = None
          /\ Goto(c, [op |-> "revoke", id |-> req[c].id])
          /\ UNCHANGED <<workspace, entra, given, grants>>
     ELSE Refuse(c)

\* The grant goes with the link only when the workspace does.
RevokeNobody(c) ==
  /\ req[c].op = "revoke"
  /\ Refuse(c)

RevokePrincipal(c) ==
  /\ req[c].op = "revoke"
  /\ grants' = grants \ {req[c].id}
  /\ Goto(c, Idle)
  /\ UNCHANGED <<workspace, entra, given, link>>

-----------------------------------------------------------------------------
(* The workspace is renamed, or deleted.                                     *)

\* updateWorkspace writes every column back, those it read among them; the
\* identity is told of a name that was not the workspace's.
UpdateWorkspace(c) ==
  \E n \in Name :
    /\ renames < MaxRenames /\ renames' = renames + 1
    /\ Begin(c, [op |-> "name", name |-> n, renamed |-> n # workspace.name])
    /\ UNCHANGED said

WriteName(c) ==
  /\ req[c].op = "name"
  /\ IF workspace.there
     THEN /\ workspace' = [workspace EXCEPT !.name = req[c].name]
          /\ req' = [req EXCEPT ![c] = IF @.renamed THEN [op |-> "follow", name |-> @.name] ELSE Idle]
          /\ said' = (said \/ ~req[c].renamed)
          /\ UNCHANGED <<entra, given, link, grants, failures, renames, tangled, serial>>
     ELSE Refuse(c)

\* The new name is the one entra is asked for next time.
FollowNobody(c) ==
  /\ req[c].op = "follow"
  /\ said' = TRUE
  /\ req' = [req EXCEPT ![c] = Idle]
  /\ UNCHANGED <<workspace, entra, given, link, grants, failures, renames, tangled, serial>>

FollowName(c) ==
  /\ req[c].op = "follow"
  /\ said' = (link \in DOMAIN entra \cup {None})
  /\ entra' = IF link \in DOMAIN entra THEN [entra EXCEPT ![link] = req[c].name] ELSE entra
  /\ req' = [req EXCEPT ![c] = Idle]
  /\ UNCHANGED <<workspace, given, link, grants, failures, renames, tangled, serial>>

\* deleteWorkspace: the identity first, if there is one.
DeleteWorkspace(c) ==
  /\ Begin(c, [op |-> IF link = None THEN "drop" ELSE "cascade", id |-> link])
  /\ UNCHANGED <<renames, said>>

DropWorkspace(c) ==
  /\ req[c].op = "drop"
  /\ workspace' = [workspace EXCEPT !.there = FALSE]
  /\ link' = None /\ grants' = {}
  /\ Goto(c, Idle)
  /\ UNCHANGED <<entra, given>>

\* A step fails, or the emulator is restarted before it: the steps before stay.
Fail(c) ==
  /\ req[c] # Idle /\ failures < MaxFailures
  /\ failures' = failures + 1
  /\ req' = [req EXCEPT ![c] = Idle]
  /\ tangled' = (tangled \/ req[c].op \in {"link", "grant", "unlink", "revoke", "drop"})
  /\ said' = (said /\ req[c].op \notin {"name", "follow"})
  /\ UNCHANGED <<workspace, entra, given, link, grants, renames, serial>>

-----------------------------------------------------------------------------
Next ==
  \E c \in Client :
    \/ ProvisionIdentity(c) \/ CreateIdentity(c) \/ SetWorkspaceIdentity(c) \/ GrantAdmin(c)
    \/ DeprovisionIdentity(c) \/ EraseIdentity(c) \/ DeleteLink(c) \/ RevokePrincipal(c)
    \/ UpdateWorkspace(c) \/ WriteName(c) \/ FollowName(c)
    \/ DeleteWorkspace(c) \/ DropWorkspace(c)
    \/ Fail(c)

Spec == Init /\ [][Next]_vars

-----------------------------------------------------------------------------
Quiet == \A c \in Client : req[c].op \notin Handling

TypeOK ==
  /\ workspace \in [there : BOOLEAN, name : Name]
  /\ DOMAIN entra \subseteq given /\ given \subseteq Identity
  /\ \A i \in DOMAIN entra : entra[i] \in Name
  /\ link \in Identity \cup {None} /\ grants \subseteq Identity

\* docs/09-identity-handshake.md, through renames and refusals: what entra has
\* is what is linked and what has the grant, and after the workspace nothing.
IdentityWhole ==
  Quiet /\ ~tangled =>
    DOMAIN entra = {link} \ {None} /\ grants = DOMAIN entra

\* docs/09-identity-handshake.md, "rename follows": the identity's name is the
\* workspace's, if no two requests overlapped and none failed.
NameFollows ==
  serial /\ failures = 0 /\ (\A c \in Client : req[c] = Idle) /\ link # None
    => entra[link] = workspace.name

\* Both halves of the handshake.
IdentityAgrees == IdentityWhole /\ NameFollows

\* The same whenever the last PATCH of the name succeeded, failures or not.
RenameKept ==
  serial /\ ~tangled /\ said /\ (\A c \in Client : req[c] = Idle) /\ link # None
    => entra[link] = workspace.name

\* docs/09-identity-handshake.md, "delete cascades", failures apart: entra has
\* nothing of a workspace that is gone.
CascadeComplete ==
  failures = 0 /\ Quiet /\ ~workspace.there => DOMAIN entra = {}
=============================================================================
