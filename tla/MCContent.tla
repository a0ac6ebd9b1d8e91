------------------------------ MODULE MCContent ------------------------------
(* Model-checking instances of what a workspace holds: its materialized lake   *)
(* views, the names of its items, its identity, its folders, its Delta tables  *)
(* and the lineage of its warehouse (Content, which this module extends), and  *)
(* the instants its schedules fire at (ScheduleCalendar). A behaviour is one   *)
(* of one part, so that their states add up.                                   *)
EXTENDS Content, Sequences, FiniteSets, TLC

CONSTANTS k1, k2, n1, n2, n3, m1, m2

VARIABLES
  part,
  cfg, mark, started, asked, scanned

calendarVars == <<cfg, mark, started, asked, scanned>>

-----------------------------------------------------------------------------
(* Of Content the configuration gives the sizes. Names: two spellings of one    *)
(* name, held for two seconds of three. The identity: two that entra may give   *)
(* out, two names. Folders: three of them and two names; here also two of them, *)
(* two items and a name. Delta tables: two writers of the emulator, an engine   *)
(* and a reader.                                                               *)
I == INSTANCE Folders WITH
  Folder <- {m1, m2}, Name <- {"x"}, Item <- {"i", "j"}, req <- folderReq

(* Lineage: three names, so that a table can be built, swapped in and reused.  *)
(* A behaviour of it ends where a flow was missed, as it may be of the first    *)
(* two statements: nothing is claimed beyond.                                  *)
FlowMissed == missed' => statements' <= 2

(* Schedules: months before the scan gives up are longer than any recurrence.  *)
M == INSTANCE ScheduleSamples
S == INSTANCE ScheduleCalendar WITH
  Request <- M!Regulars \cup M!Irregulars \cup M!Refused, Zone <- M!Zones, Moment <- M!Moments,
  Day <- M!DayUnits, Second <- M!HalfHour, MonthStart <- M!Months, FirstWeekday <- 3,
  MaxInterval <- 1200, MaxTimes <- 4, MaxWeekdays <- 3, MaxRecurrence <- 2, MaxPerTick <- 4, MaxScan <- 64,
  LastDay <- 89, MaxStarted <- 40

(* What is fired again at every evaluation is fired again twice at most.       *)
FewRepeats == Len(started') <= Cardinality({started'[i] : i \in DOMAIN started'}) + 2

Interchangeable == Permutations({k1, k2}) \cup Permutations({n1, n2, n3}) \cup Permutations({m1, m2})

ASSUME PartsAssumption ==
  /\ F!FoldersAssumption /\ I!FoldersAssumption /\ N!NamesAssumption /\ ViewsAssumption
  /\ W!IdentityAssumption /\ D!DeltaAssumption /\ L!LineageAssumption
  /\ S!CalendarAssumption

-----------------------------------------------------------------------------
\* Where parts differ in their initial states, those of the part that runs.
PartInit ==
  /\ part \in {"folders", "items", "names", "views", "identity", "tables", "lineage", "calendar"}
  /\ F!Init /\ N!Init /\ Init /\ D!Init /\ L!Init /\ S!Init
  /\ W!Init /\ (part # "identity" => workspace.name = "a")

PartNext ==
  /\ UNCHANGED part
  /\ \/ /\ \/ part = "views" /\ ViewStep
           \/ part = "names" /\ NameStep
           \/ part = "identity" /\ IdentityStep
           \/ part = "folders" /\ FolderStep
           \/ part = "items" /\ I!Next /\ UNCHANGED <<vars, nameVars, idVars, tableVars, lineageVars>>
           \/ part = "tables" /\ TableStep
           \/ part = "lineage" /\ ~missed /\ LineageStep /\ FlowMissed
        /\ UNCHANGED calendarVars
     \/ part = "calendar" /\ S!Next /\ FewRepeats /\ UNCHANGED contentVars

PartSpec == PartInit /\ [][PartNext]_<<part, contentVars, calendarVars>>

-----------------------------------------------------------------------------
(* FreshIsCurrent is that of LakeViews, NamesHeldExactly, IdentityAgrees,      *)
(* FoldersSound, TableIsAcked, ReadsVersion and LineageFollows those of        *)
(* Content; FoldersSound says of the rows there are, so that it says the same  *)
(* of part "items".                                                            *)

\* ScheduleCalendar: whatever the moments of the evaluations, each instant is fired,
\* and once unless a Cron starts at a fraction of a second.
OccurrencesSound == part = "calendar" => S!OccurrencesSound
=============================================================================
