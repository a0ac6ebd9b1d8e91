------------------------------ MODULE LakeViews ------------------------------
(* A materialized lake view: createMLV, deleteMLV and refreshMLV of            *)
(* internal/api/mlv.go over internal/store/mlv.go. A refresh notes the         *)
(* versions of its sources, has the engine run the query and overwrite the     *)
(* view's table, and records the outcome on the row of that name. The engine   *)
(* goes on when nobody waits for it any more.                                  *)
EXTENDS Integers

CONSTANTS
  Source,         \* the tables the query reads, all declared in dependsOn
  Client,         \* callers, with one refresh at a time each
  MaxCommits,     \* bound on the commits to a source
  MaxViews,       \* bound on the times the view is created
  MaxRestarts     \* bound on restarts of the emulator

ViewsAssumption == {MaxCommits, MaxViews, MaxRestarts} \subseteq Nat

VARIABLES
  src,            \* per source, how many commits its log holds
  row,            \* the view's row in materialized_lake_views
  views,          \* how many times the view was created: the id of the last
  rows,           \* what the table of the view holds: by which view, from what
  req,            \* per client, the refresh under way
  restarts,       \* restarts so far
  replaced        \* the view was deleted with a refresh of it under way

vars == <<src, row, views, rows, req, restarts, replaced>>

Idle == [op |-> "idle"]
NoView == [id |-> 0]
Written == {t \in Source : src[t] > 0}

Init ==
  /\ src = [t \in Source |-> 0]
  /\ row = NoView /\ views = 0
  /\ rows = [id |-> 0, from |-> src]
  /\ req = [c \in Client |-> Idle]
  /\ restarts = 0 /\ replaced = FALSE

\* What the engine runs on with when its answer is no longer awaited.
Unheard(r) == [r EXCEPT !.heard = FALSE, !.versions = [t \in {} |-> 0]]

-----------------------------------------------------------------------------
Goto(c, r) ==
  /\ req' = [req EXCEPT ![c] = r]
  /\ UNCHANGED <<src, views, rows, restarts, replaced>>

\* Any writer commits to a source.
Commit ==
  \E t \in Source :
    /\ src[t] < MaxCommits
    /\ src' = [src EXCEPT ![t] = @ + 1]
    /\ UNCHANGED <<row, views, rows, req, restarts, replaced>>

CreateMLV ==
  /\ row = NoView /\ views < MaxViews
  /\ views' = views + 1
  /\ row' = [id |-> views', status |-> "", versions |-> [t \in {} |-> 0]]
  /\ UNCHANGED <<src, rows, req, restarts, replaced>>

\* The table stays.
DeleteMLV ==
  /\ row # NoView
  /\ row' = NoView
  /\ replaced' = (replaced \/ \E c \in Client : req[c] # Idle)
  /\ UNCHANGED <<src, views, rows, req, restarts>>

-----------------------------------------------------------------------------
(* A refresh.                                                                *)

RefreshMLV(c) ==
  /\ req[c] = Idle /\ row # NoView
  /\ Goto(c, [op |-> "versions", id |-> row.id, ask |-> Source, versions |-> [t \in {} |-> 0],
              heard |-> TRUE])
  /\ UNCHANGED row

\* The version of one source, if it has one; the last posts the statement.
ReadVersion(c) ==
  /\ req[c].op = "versions"
  /\ \E t \in req[c].ask :
       LET known == DOMAIN req[c].versions \cup ({t} \cap Written)
       IN Goto(c, [req[c] EXCEPT !.ask = @ \ {t},
                                 !.versions = [u \in known |-> IF u = t THEN src[t] ELSE @[u]],
                                 !.op = IF req[c].ask = {t} THEN "posted" ELSE @])
  /\ UNCHANGED row

\* The engine opens the table it is to overwrite, and reads the sources, one
\* after the other. One that is not there fails the statement.
Plan(c) ==
  /\ req[c].op = "posted"
  /\ Goto(c, [op |-> "reading", id |-> req[c].id, versions |-> req[c].versions,
              heard |-> req[c].heard, latest |-> TRUE, from |-> [t \in {} |-> 0]])
  /\ UNCHANGED row

ReadSource(c) ==
  /\ req[c].op = "reading"
  /\ \E t \in Written \ DOMAIN req[c].from :
       Goto(c, [req[c] EXCEPT !.from = [u \in DOMAIN @ \cup {t} |-> IF u = t THEN src[t] ELSE @[u]]])
  /\ UNCHANGED row

\* It commits, unless another commit to the table came between.
Overwrite(c) ==
  /\ req[c].op = "reading" /\ DOMAIN req[c].from = Source /\ req[c].latest
  /\ rows' = [id |-> req[c].id, from |-> req[c].from]
  /\ req' = [d \in Client |->
               IF d # c THEN IF req[d].op = "reading" THEN [req[d] EXCEPT !.latest = FALSE] ELSE req[d]
               ELSE IF req[c].heard THEN [op |-> "record", id |-> req[c].id, versions |-> req[c].versions]
               ELSE Idle]
  /\ UNCHANGED <<src, row, views, restarts, replaced>>

\* An UPDATE by name: of whatever view has the name.
Record(written) == row' = IF row = NoView THEN row ELSE written

\* The statement fails, or the agent is not reached: the engine may go on.
Fail(c) ==
  /\ req[c].op \in {"posted", "reading"}
  /\ \/ Goto(c, Idle)
     \/ req[c].heard /\ Goto(c, Unheard(req[c]))
  /\ IF req[c].heard THEN Record([row EXCEPT !.status = "Failed"]) ELSE UNCHANGED row

\* The versions there are when the statement has ended.
SourceVersionsNow(c) == [t \in Written |-> src[t]]

\* The versions a refresh that succeeded records.
SourceVersions(c) == req[c].versions

RecordRefresh(c) ==
  /\ req[c].op = "record"
  /\ Goto(c, Idle)
  /\ Record([row EXCEPT !.status = "Succeeded", !.versions = SourceVersions(c)])

\* The emulator restarts: what its engine was given goes on.
Restart ==
  /\ restarts < MaxRestarts
  /\ restarts' = restarts + 1
  /\ req' = [c \in Client |-> IF req[c].op \in {"posted", "reading"} THEN Unheard(req[c]) ELSE Idle]
  /\ UNCHANGED <<src, row, views, rows, replaced>>

-----------------------------------------------------------------------------
Next ==
  \/ Commit \/ CreateMLV \/ DeleteMLV \/ Restart
  \/ \E c \in Client :
       \/ RefreshMLV(c) \/ ReadVersion(c) \/ Plan(c) \/ ReadSource(c)
       \/ Overwrite(c) \/ Fail(c) \/ RecordRefresh(c)

Spec == Init /\ [][Next]_vars

-----------------------------------------------------------------------------
\* mlvStale, mlvBody: materialized, and no source is gone or has moved.
Fresh ==
  /\ row # NoView /\ row.status = "Succeeded"
  /\ \A t \in Source : t \in Written \cap DOMAIN row.versions /\ row.versions[t] = src[t]

TypeOK ==
  /\ src \in [Source -> 0 .. MaxCommits] /\ views \in 0 .. MaxViews
  /\ \/ row = NoView
     \/ /\ row.id \in 1 .. views /\ row.status \in {"", "Succeeded", "Failed"}
        /\ DOMAIN row.versions \subseteq Source
  /\ rows.id \in 0 .. views /\ rows.from \in [Source -> 0 .. MaxCommits]

\* api/mlv.go RefreshMaterializedLakeView ("reported stale slightly too
\* eagerly, which costs a refresh rather than a wrong answer"): a view reported
\* fresh has the rows of its query over its sources as they are, whichever
\* refreshes overlapped, failed or outlived their request.
FreshIsExact == Fresh => rows.id = row.id /\ rows.from = src
FreshIsCurrent == replaced \/ FreshIsExact
=============================================================================
