------------------------------ MODULE Content ------------------------------
(* What a workspace holds: its materialized lake views (LakeViews, which this  *)
(* module extends), the names of its items (ItemNames), its identity           *)
(* (WorkspaceIdentity), its folders (Folders), a Delta table in OneLake        *)
(* (DeltaTable) and the lineage of its warehouse (WarehouseLineage), with any  *)
(* number of requests about each, interleaved statement by statement. At the   *)
(* grain of their modules they share no state.                                 *)
EXTENDS LakeViews

CONSTANTS
  ItemName, SameName, Item, Held, MaxTime,                          \* ItemNames
  Identity, None, WorkspaceName, MaxFailures, MaxRenames,           \* WorkspaceIdentity
  Folder, Root, FolderName, FolderItem,                             \* Folders
  Engine, Reader, MaxWrites, MaxReads, MaxCrashes,                  \* DeltaTable
  TableName, Lake, Elsewhere, MaxStatements                         \* WarehouseLineage

VARIABLES
  name, created, freed, now, nameReq, gone, serial,
  workspace, entra, given, link, grants, idReq, failures, renames, tangled, apart, said,
  folder, made, place, placed, folderReq, alone, clean,
  log, files, writes, reads, tableReq, crashes, acked, undisturbed, orderly,
  object, statements, flow, known, edges, lit, reboots, missed, forgot

nameVars == <<name, created, freed, now, nameReq, gone, serial>>
idVars == <<workspace, entra, given, link, grants, idReq, failures, renames, tangled, apart, said>>
folderVars == <<folder, made, place, placed, folderReq, alone, clean>>
tableVars == <<log, files, writes, reads, tableReq, crashes, acked, undisturbed, orderly>>
lineageVars ==
  <<object, statements, flow, known, edges, lit, reboots, missed, forgot>>
contentVars == <<vars, nameVars, idVars, folderVars, tableVars, lineageVars>>

N == INSTANCE ItemNames WITH Name <- ItemName, req <- nameReq
W == INSTANCE WorkspaceIdentity WITH Name <- WorkspaceName, req <- idReq, serial <- apart
F == INSTANCE Folders WITH Name <- FolderName, Item <- FolderItem, req <- folderReq
D == INSTANCE DeltaTable WITH
  Writer <- Client, req <- tableReq, alone <- undisturbed, clean <- orderly
L == INSTANCE WarehouseLineage WITH
  Name <- TableName, Session <- Client, views <- known, restarts <- reboots

-----------------------------------------------------------------------------
ContentInit == Init /\ N!Init /\ W!Init /\ F!Init /\ D!Init /\ L!Init

ViewStep == Next /\ UNCHANGED <<nameVars, idVars, folderVars, tableVars, lineageVars>>
NameStep == N!Next /\ UNCHANGED <<vars, idVars, folderVars, tableVars, lineageVars>>
IdentityStep == W!Next /\ UNCHANGED <<vars, nameVars, folderVars, tableVars, lineageVars>>
FolderStep == F!Next /\ UNCHANGED <<vars, nameVars, idVars, tableVars, lineageVars>>
TableStep == D!Next /\ UNCHANGED <<vars, nameVars, idVars, folderVars, lineageVars>>
LineageStep == L!Next /\ UNCHANGED <<vars, nameVars, idVars, folderVars, tableVars>>

ContentNext ==
  ViewStep \/ NameStep \/ IdentityStep \/ FolderStep \/ TableStep \/ LineageStep

ContentSpec == ContentInit /\ [][ContentNext]_contentVars

-----------------------------------------------------------------------------
\* ItemNames: a deleted name is held for its time, and no longer.
NamesHeldExactly == [][N!NameHeldExactly]_nameVars
\* WorkspaceIdentity: entra has what is linked and granted, under its name.
IdentityAgrees == W!IdentityAgrees
\* Folders: without overlap a tree stays a tree, and a bulk move that reached
\* its first write reaches its last.
FoldersSound == F!Rooted /\ F!BulkGoesThrough
\* DeltaTable: the table holds what was acknowledged.
TableIsAcked == D!TableIsAcked
\* DeltaTable: a reader gets the rows of one version.
ReadsVersion == D!ReadsVersion
\* WarehouseLineage: the graph shows how each table came about.
LineageFollows == L!LineageFollows
=============================================================================
