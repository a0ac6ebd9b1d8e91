--------------------------- MODULE ContentProofs ---------------------------
(* Theorems about Content, for any number of requests, sources, items, names   *)
(* identities and folders: a view that is reported fresh holds its query over  *)
(* the sources as they are, a deleted name is held for its time, the identity  *)
(* is linked, granted and named as entra has it, the folders are trees, a      *)
(* Delta table holds what was acknowledged, and the lineage graph is how the   *)
(* tables of the warehouse were built. The steps of one leave the others       *)
(* alone.                                                                      *)
EXTENDS Content, Sequences, FiniteSetTheorems, TLAPS

-----------------------------------------------------------------------------
(* Materialized lake views: although refreshes overlap, fail, and go on when   *)
(* nobody waits for them.                                                      *)

\* What was read of the sources: a version of each that had one.
Versions == UNION {[S -> 0 .. MaxCommits] : S \in SUBSET Source}

\* v was read before w was, or at the same time.
Behind(v, w) == \A t \in DOMAIN v \cap DOMAIN w : v[t] <= w[t]

\* A refresh has the fields of where it is.
Requests ==
  {Idle}
  \cup [op : {"versions", "posted"}, id : Nat, ask : SUBSET Source, versions : Versions,
        heard : BOOLEAN]
  \cup [op : {"reading"}, id : Nat, versions : Versions, heard : BOOLEAN, latest : BOOLEAN,
        from : Versions]
  \cup [op : {"record"}, id : Nat, versions : Versions]

Typed ==
  /\ src \in [Source -> 0 .. MaxCommits] /\ views \in 0 .. MaxViews
  /\ row \in {NoView} \cup [id : Nat \ {0}, status : {"", "Succeeded", "Failed"},
                            versions : Versions]
  /\ rows \in [id : Nat, from : [Source -> 0 .. MaxCommits]]
  /\ req \in [Client -> Requests]
  /\ restarts \in Nat

\* Versions are noted before the sources are read, and the sources are read by
\* one whose commit goes through after the table was written last.
Ordered(c) ==
  /\ req[c].op # "idle" => Behind(req[c].versions, src) /\ req[c].id \in 1 .. views
  /\ req[c].op = "reading" =>
       /\ Behind(req[c].from, src) /\ Behind(req[c].versions, req[c].from)
       /\ req[c].latest => Behind(rows.from, req[c].from)
  /\ req[c].op = "record" => Behind(req[c].versions, rows.from)

\* What a row says was materialized is at most as new as what the table holds.
RowOrdered ==
  /\ Behind(rows.from, src) /\ rows.id <= views /\ row.id <= views
  /\ row.id # 0 /\ row.status = "Succeeded" => Behind(row.versions, rows.from)

OrderInv == RowOrdered /\ \A c \in Client : Ordered(c)

\* While no view was deleted under a refresh, each refresh is of the view there is.
OwnInv ==
  ~replaced =>
    /\ \A c \in Client :
         /\ req[c].op # "idle" => row.id # 0 /\ req[c].id = row.id
         /\ req[c].op = "record" => rows.id = row.id
    /\ row.id # 0 /\ row.status = "Succeeded" => rows.id = row.id

-----------------------------------------------------------------------------
(* Types.                                                                    *)

LEMMA Noted ==
  ASSUME NEW v \in Versions
  PROVE  /\ DOMAIN v \in SUBSET Source
         /\ \A t \in DOMAIN v : v[t] \in 0 .. MaxCommits /\ v[t] \in Int
BY DEF Versions

LEMMA VersionsTyped ==
  ASSUME Typed
  PROVE  /\ DOMAIN src = Source /\ \A t \in Source : src[t] \in Int
         /\ DOMAIN rows.from = Source /\ \A t \in Source : rows.from[t] \in Int
         /\ rows.id \in Nat /\ views \in Nat
<1>1. src \in [Source -> 0 .. MaxCommits]
  BY DEF Typed
<1>2. rows.from \in [Source -> 0 .. MaxCommits] /\ rows.id \in Nat /\ views \in 0 .. MaxViews
  BY DEF Typed
<1>3. (\A n \in 0 .. MaxCommits : n \in Int) /\ 0 .. MaxViews \subseteq Nat
  OBVIOUS
<1> QED BY <1>1, <1>2, <1>3

LEMMA NoneNoted == [t \in {} |-> 0] \in Versions /\ DOMAIN [t \in {} |-> 0] = {}
<1>1. [t \in {} |-> 0] \in [{} -> 0 .. MaxCommits]
  OBVIOUS
<1> QED BY <1>1 DEF Versions

\* What ReadVersion and ReadSource add to what was read before.
LEMMA OneMoreNoted ==
  ASSUME NEW v \in Versions, NEW S \in SUBSET Source, NEW t, NEW n \in 0 .. MaxCommits,
         S \ {t} \subseteq DOMAIN v
  PROVE  [u \in S |-> IF u = t THEN n ELSE v[u]] \in Versions
<1>1. \A u \in S : (IF u = t THEN n ELSE v[u]) \in 0 .. MaxCommits
  BY Noted
<1>2. [u \in S |-> IF u = t THEN n ELSE v[u]] \in [S -> 0 .. MaxCommits]
  BY <1>1
<1> QED BY <1>2 DEF Versions

LEMMA RowTyped ==
  ASSUME Typed
  PROVE  /\ row = NoView <=> row.id = 0
         /\ row.id \in Nat
         /\ row.id # 0 => row \in [id : Nat \ {0}, status : {"", "Succeeded", "Failed"},
                                   versions : Versions]
<1>1. CASE row = NoView
  BY <1>1 DEF NoView
<1>2. CASE row # NoView
  BY <1>2 DEF Typed, NoView
<1> QED BY <1>1, <1>2

LEMMA RequestTyped ==
  ASSUME Typed, NEW c \in Client
  PROVE  /\ req[c] \in Requests
         /\ req[c] = Idle <=> req[c].op = "idle"
         /\ req[c].op \in {"idle", "versions", "posted", "reading", "record"}
         /\ req[c].op # "idle" => req[c].id \in Nat /\ req[c].versions \in Versions
         /\ req[c].op \in {"versions", "posted"} =>
              req[c] \in [op : {"versions", "posted"}, id : Nat, ask : SUBSET Source,
                          versions : Versions, heard : BOOLEAN]
         /\ req[c].op = "reading" =>
              req[c] \in [op : {"reading"}, id : Nat, versions : Versions, heard : BOOLEAN,
                          latest : BOOLEAN, from : Versions]
         /\ req[c].op = "record" => req[c] \in [op : {"record"}, id : Nat, versions : Versions]
<1>1. req[c] \in Requests
  BY DEF Typed
<1> QED BY <1>1 DEF Requests, Idle

LEMMA InitTyped == ASSUME ViewsAssumption PROVE Init => Typed
<1> SUFFICES ASSUME Init PROVE Typed
  OBVIOUS
<1>1. MaxCommits \in Nat /\ 0 \in 0 .. MaxCommits /\ 0 \in 0 .. MaxViews
  BY ViewsAssumption DEF ViewsAssumption
<1>2. src \in [Source -> 0 .. MaxCommits] /\ rows = [id |-> 0, from |-> src]
  BY <1>1 DEF Init
<1>3. req \in [Client -> Requests]
  BY DEF Init, Requests
<1> QED BY <1>1, <1>2, <1>3 DEF Init, Typed

\* What Unheard leaves of a request.
LEMMA UnheardTyped ==
  ASSUME Typed, NEW c \in Client, req[c].op \in {"posted", "reading"}
  PROVE  /\ Unheard(req[c]) \in Requests /\ Unheard(req[c]).op = req[c].op
         /\ Unheard(req[c]).id = req[c].id /\ Unheard(req[c]).versions = [t \in {} |-> 0]
         /\ req[c].op = "reading" => /\ Unheard(req[c]).from = req[c].from
                                     /\ Unheard(req[c]).latest = req[c].latest
<1> DEFINE none == [t \in {} |-> 0]
<1>none. none \in Versions
  BY NoneNoted
<1>un. Unheard(req[c]) = [req[c] EXCEPT !.heard = FALSE, !.versions = none]
  BY DEF Unheard
<1> HIDE DEF none
<1>1. CASE req[c].op = "posted"
  <2>1. req[c] \in [op : {"versions", "posted"}, id : Nat, ask : SUBSET Source,
                    versions : Versions, heard : BOOLEAN]
    BY <1>1, RequestTyped
  <2>2. Unheard(req[c]) = [op |-> req[c].op, id |-> req[c].id, ask |-> req[c].ask,
                           versions |-> none, heard |-> FALSE]
    BY <1>un, <2>1
  <2> QED BY <1>1, <1>none, <2>1, <2>2 DEF Requests, none
<1>2. CASE req[c].op = "reading"
  <2>1. req[c] \in [op : {"reading"}, id : Nat, versions : Versions, heard : BOOLEAN,
                    latest : BOOLEAN, from : Versions]
    BY <1>2, RequestTyped
  <2>2. Unheard(req[c]) = [op |-> req[c].op, id |-> req[c].id, versions |-> none,
                           heard |-> FALSE, latest |-> req[c].latest, from |-> req[c].from]
    BY <1>un, <2>1
  <2> QED BY <1>2, <1>none, <2>1, <2>2 DEF Requests, none
<1> QED BY <1>1, <1>2

\* What RecordRefresh and Fail make of the row.
LEMMA RecordTyped ==
  ASSUME Typed, NEW s \in {"Succeeded", "Failed"}, NEW v \in Versions, row # NoView
  PROVE  /\ [row EXCEPT !.status = s] \in [id : Nat \ {0}, status : {"", "Succeeded", "Failed"},
                                           versions : Versions]
         /\ [row EXCEPT !.status = s, !.versions = v]
              \in [id : Nat \ {0}, status : {"", "Succeeded", "Failed"}, versions : Versions]
         /\ [row EXCEPT !.status = s].id = row.id
         /\ [row EXCEPT !.status = s, !.versions = v].id = row.id
         /\ [row EXCEPT !.status = s].status = s
         /\ [row EXCEPT !.status = s, !.versions = v].status = s
         /\ [row EXCEPT !.status = s, !.versions = v].versions = v
BY RowTyped

LEMMA NextTyped == ASSUME ViewsAssumption PROVE Typed /\ [Next]_vars => Typed'
<1> SUFFICES ASSUME Typed, [Next]_vars PROVE Typed'
  OBVIOUS
<1> USE DEF Goto
<1>1. CASE Commit
  <2>1. PICK t \in Source : src[t] < MaxCommits /\ src' = [src EXCEPT ![t] = @ + 1]
    BY <1>1 DEF Commit
  <2>2. src' \in [Source -> 0 .. MaxCommits]
    <3>1. MaxCommits \in Nat /\ src[t] \in 0 .. MaxCommits
      BY ViewsAssumption DEF Typed, ViewsAssumption
    <3>2. src[t] + 1 \in 0 .. MaxCommits
      BY <2>1, <3>1
    <3> QED BY <2>1, <3>2 DEF Typed
  <2> QED BY <1>1, <2>2 DEF Commit, Typed
<1>2. CASE CreateMLV
  <2>1. views' \in 0 .. MaxViews /\ views' \in Nat \ {0}
    <3>1. views \in Nat /\ views' = views + 1 /\ views < MaxViews
      BY <1>2, VersionsTyped DEF CreateMLV
    <3>2. MaxViews \in Nat
      BY ViewsAssumption DEF ViewsAssumption
    <3> QED BY <3>1, <3>2
  <2>2. row' \in [id : Nat \ {0}, status : {"", "Succeeded", "Failed"}, versions : Versions]
    BY <1>2, <2>1, NoneNoted DEF CreateMLV
  <2> QED BY <1>2, <2>1, <2>2 DEF CreateMLV, Typed
<1>3. CASE DeleteMLV
  BY <1>3 DEF DeleteMLV, Typed
<1>4. CASE Restart
  <2>1. \A c \in Client : req'[c] \in Requests
    BY <1>4, UnheardTyped DEF Restart, Requests
  <2>2. req' = [c \in Client |-> req'[c]]
    BY <1>4 DEF Restart
  <2>3. req' \in [Client -> Requests]
    BY <2>1, <2>2
  <2>4. restarts' \in Nat
    <3>1. restarts \in Nat /\ restarts' = restarts + 1
      BY <1>4 DEF Restart, Typed
    <3> QED BY <3>1
  <2> QED BY <1>4, <2>3, <2>4 DEF Restart, Typed
<1>5. ASSUME NEW c \in Client, RefreshMLV(c) PROVE Typed'
  <2>1. [op |-> "versions", id |-> row.id, ask |-> Source, versions |-> [t \in {} |-> 0],
         heard |-> TRUE] \in Requests
    BY RowTyped, NoneNoted DEF Requests
  <2> QED BY <1>5, <2>1 DEF RefreshMLV, Typed
<1>6. ASSUME NEW c \in Client, ReadVersion(c) PROVE Typed'
  <2>1. PICK t \in req[c].ask :
          LET noted == DOMAIN req[c].versions \cup ({t} \cap Written)
          IN Goto(c, [req[c] EXCEPT !.ask = @ \ {t},
                                    !.versions = [u \in noted |-> IF u = t THEN src[t] ELSE @[u]],
                                    !.op = IF req[c].ask = {t} THEN "posted" ELSE @])
    BY <1>6 DEF ReadVersion
  <2> DEFINE noted == DOMAIN req[c].versions \cup ({t} \cap Written)
             v == [u \in noted |-> IF u = t THEN src[t] ELSE req[c].versions[u]]
  <2>2. req[c] \in [op : {"versions", "posted"}, id : Nat, ask : SUBSET Source,
                    versions : Versions, heard : BOOLEAN]
    BY <1>6, RequestTyped DEF ReadVersion
  <2>3. v \in Versions
    <3>1. req[c].versions \in Versions /\ noted \in SUBSET Source
          /\ noted \ {t} \subseteq DOMAIN req[c].versions /\ src[t] \in 0 .. MaxCommits
      BY <2>2, Noted DEF Typed
    <3> HIDE DEF noted
    <3> QED BY <3>1, OneMoreNoted
  <2>4. req' = [req EXCEPT ![c] = [req[c] EXCEPT !.ask = @ \ {t}, !.versions = v,
                                    !.op = IF req[c].ask = {t} THEN "posted" ELSE @]]
    BY <2>1
  <2> HIDE DEF v
  <2>5. req'[c] \in Requests /\ req' \in [Client -> Requests]
    BY <2>2, <2>3, <2>4 DEF Requests, Typed
  <2> QED BY <1>6, <2>5 DEF ReadVersion, Typed
<1>7. ASSUME NEW c \in Client, Plan(c) PROVE Typed'
  <2>1. [op |-> "reading", id |-> req[c].id, versions |-> req[c].versions,
         heard |-> req[c].heard, latest |-> TRUE, from |-> [t \in {} |-> 0]] \in Requests
    BY <1>7, RequestTyped, NoneNoted DEF Plan, Requests
  <2> QED BY <1>7, <2>1 DEF Plan, Typed
<1>8. ASSUME NEW c \in Client, ReadSource(c) PROVE Typed'
  <2>1. PICK t \in Written \ DOMAIN req[c].from :
          req' = [req EXCEPT ![c] = [req[c] EXCEPT !.from =
                   [u \in DOMAIN req[c].from \cup {t} |->
                      IF u = t THEN src[t] ELSE req[c].from[u]]]]
    BY <1>8 DEF ReadSource
  <2> DEFINE v == [u \in DOMAIN req[c].from \cup {t} |-> IF u = t THEN src[t] ELSE req[c].from[u]]
  <2>2. req[c] \in [op : {"reading"}, id : Nat, versions : Versions, heard : BOOLEAN,
                    latest : BOOLEAN, from : Versions]
    BY <1>8, RequestTyped DEF ReadSource
  <2>3. v \in Versions
    <3> DEFINE S == DOMAIN req[c].from \cup {t}
    <3>1. req[c].from \in Versions /\ S \in SUBSET Source
          /\ S \ {t} \subseteq DOMAIN req[c].from /\ src[t] \in 0 .. MaxCommits
      BY <2>2, Noted DEF Typed, Written
    <3> HIDE DEF S
    <3>2. PICK w \in Versions : w = req[c].from
      BY <3>1
    <3>3. PICK n \in 0 .. MaxCommits : n = src[t]
      BY <3>1
    <3>4. S \in SUBSET Source /\ S \ {t} \subseteq DOMAIN w
      BY <3>1, <3>2
    <3>5. [u \in S |-> IF u = t THEN n ELSE w[u]] \in Versions
      BY <3>4, OneMoreNoted
    <3> QED BY <3>2, <3>3, <3>5 DEF S
  <2> HIDE DEF v
  <2>4. req' = [req EXCEPT ![c] = [req[c] EXCEPT !.from = v]]
    BY <2>1 DEF v
  <2>5. req' \in [Client -> Requests]
    BY <2>2, <2>3, <2>4 DEF Requests, Typed
  <2> QED BY <1>8, <2>5 DEF ReadSource, Typed
<1>9. ASSUME NEW c \in Client, Overwrite(c) PROVE Typed'
  <2>1. req[c] \in [op : {"reading"}, id : Nat, versions : Versions, heard : BOOLEAN,
                    latest : BOOLEAN, from : Versions]
    BY <1>9, RequestTyped DEF Overwrite
  <2>2. req[c].from \in [Source -> 0 .. MaxCommits]
    BY <1>9, <2>1 DEF Overwrite, Versions
  <2>3. ASSUME NEW d \in Client PROVE req'[d] \in Requests
    <3>1. CASE d = c
      BY <1>9, <2>1, <3>1 DEF Overwrite, Requests
    <3>2. CASE d # c /\ req[d].op = "reading"
      <4>1. req'[d] = [req[d] EXCEPT !.latest = FALSE]
        BY <1>9, <3>2 DEF Overwrite
      <4> QED BY <3>2, <4>1, RequestTyped DEF Requests
    <3>3. CASE d # c /\ req[d].op # "reading"
      BY <1>9, <3>3, RequestTyped DEF Overwrite
    <3> QED BY <3>1, <3>2, <3>3
  <2>4. req' = [d \in Client |-> req'[d]]
    BY <1>9 DEF Overwrite
  <2>5. req' \in [Client -> Requests]
    BY <2>3, <2>4
  <2> QED BY <1>9, <2>1, <2>2, <2>5 DEF Overwrite, Typed
<1>10. ASSUME NEW c \in Client, Fail(c) PROVE Typed'
  <2>1. req' \in [Client -> Requests]
    <3>1. PICK r : r \in {Idle, Unheard(req[c])} /\ req' = [req EXCEPT ![c] = r]
      BY <1>10 DEF Fail
    <3>2. r \in Requests
      BY <1>10, <3>1, UnheardTyped DEF Fail, Requests
    <3> QED BY <3>1, <3>2 DEF Typed
  <2>2. row' = row \/ (row # NoView /\ row' = [row EXCEPT !.status = "Failed"])
    <3> DEFINE failed == [row EXCEPT !.status = "Failed"]
    <3>1. Record(failed) \/ row' = row
      BY <1>10 DEF Fail
    <3> HIDE DEF failed
    <3>2. row' = row \/ (row # NoView /\ row' = failed)
      BY <3>1 DEF Record
    <3> QED BY <3>2 DEF failed
  <2>3. row' \in {NoView} \cup [id : Nat \ {0}, status : {"", "Succeeded", "Failed"},
                                versions : Versions]
    <3>1. CASE row' = row
      BY <3>1 DEF Typed
    <3>2. CASE row # NoView /\ row' = [row EXCEPT !.status = "Failed"]
      BY <3>2, NoneNoted, RecordTyped
    <3> QED BY <2>2, <3>1, <3>2
  <2> QED BY <1>10, <2>1, <2>3 DEF Fail, Typed
<1>11. ASSUME NEW c \in Client, RecordRefresh(c) PROVE Typed'
  <2>1. req' \in [Client -> Requests] /\ req[c].versions \in Versions
    BY <1>11, RequestTyped DEF RecordRefresh, Typed, Requests
  <2>2. \/ row' = row
        \/ row # NoView /\ row' = [row EXCEPT !.status = "Succeeded", !.versions = req[c].versions]
    BY <1>11 DEF RecordRefresh, Record, SourceVersions
  <2>3. row' \in {NoView} \cup [id : Nat \ {0}, status : {"", "Succeeded", "Failed"},
                                versions : Versions]
    <3>1. CASE row' = row
      BY <3>1 DEF Typed
    <3>2. CASE /\ row # NoView
               /\ row' = [row EXCEPT !.status = "Succeeded", !.versions = req[c].versions]
      BY <2>1, <3>2, RecordTyped
    <3> QED BY <2>2, <3>1, <3>2
  <2> QED BY <1>11, <2>1, <2>3 DEF RecordRefresh, Typed
<1>12. CASE UNCHANGED vars
  BY <1>12 DEF vars, Typed
<1> QED
  BY <1>1, <1>2, <1>3, <1>4, <1>5, <1>6, <1>7, <1>8, <1>9, <1>10, <1>11, <1>12 DEF Next

-----------------------------------------------------------------------------
(* In which order versions are noted, read and recorded.                     *)

LEMMA BehindGrows ==
  ASSUME NEW v \in Versions, NEW w, NEW x, DOMAIN w = Source, DOMAIN x = Source,
         \A t \in Source : w[t] \in Int /\ x[t] \in Int,
         Behind(v, w), Behind(w, x)
  PROVE  Behind(v, x)
<1> SUFFICES ASSUME NEW t \in DOMAIN v, t \in Source PROVE v[t] <= x[t]
  BY DEF Behind
<1>1. v[t] \in Int /\ w[t] \in Int /\ x[t] \in Int
  BY Noted
<1>2. v[t] <= w[t] /\ w[t] <= x[t]
  BY DEF Behind
<1> QED BY <1>1, <1>2

\* How the table and the sources bound what a step leaves alone.
LEMMA OrderFrame ==
  ASSUME Typed, Typed', NEW c \in Client, Ordered(c), req'[c] = req[c], Behind(src, src'),
         Behind(rows.from, rows'.from), views <= views',
         req[c].op = "reading" /\ req[c].latest => rows' = rows
  PROVE  Ordered(c)'
<1>1. CASE req[c].op = "idle"
  BY <1>1 DEF Ordered
<1>2. CASE req[c].op # "idle"
  <2> /\ DOMAIN src = Source /\ DOMAIN src' = Source
      /\ \A t \in Source : src[t] \in Int /\ src'[t] \in Int
      /\ DOMAIN rows.from = Source /\ DOMAIN rows'.from = Source
      /\ \A t \in Source : rows.from[t] \in Int /\ rows'.from[t] \in Int
      /\ views \in Nat /\ views' \in Nat
    <3>1. src \in [Source -> 0 .. MaxCommits] /\ rows.from \in [Source -> 0 .. MaxCommits]
      BY DEF Typed
    <3>2. src' \in [Source -> 0 .. MaxCommits] /\ rows'.from \in [Source -> 0 .. MaxCommits]
      BY DEF Typed
    <3>3. views \in 0 .. MaxViews /\ views' \in 0 .. MaxViews
      BY DEF Typed
    <3> QED BY <3>1, <3>2, <3>3
  <2>v. req[c].versions \in Versions
    BY <1>2, RequestTyped
  <2>1. Behind(req[c].versions, src') /\ req[c].id \in 1 .. views'
    <3>1. Behind(req[c].versions, src) /\ req[c].id \in 1 .. views
      BY <1>2 DEF Ordered
    <3> QED BY <2>v, <3>1, BehindGrows
  <2>2. CASE req[c].op = "reading"
    <3>1. req[c].from \in Versions
      BY <2>2, RequestTyped
    <3>2. Behind(req[c].from, src')
      BY <1>2, <2>2, <3>1, BehindGrows DEF Ordered
    <3> QED BY <1>2, <2>1, <2>2, <3>2 DEF Ordered
  <2>3. CASE req[c].op = "record"
    <3>1. Behind(req[c].versions, rows'.from)
      BY <1>2, <2>v, <2>3, BehindGrows DEF Ordered
    <3> QED BY <1>2, <2>1, <2>3, <3>1 DEF Ordered
  <2>4. CASE req[c].op \notin {"reading", "record"}
    BY <1>2, <2>1, <2>4 DEF Ordered
  <2> QED BY <2>2, <2>3, <2>4
<1> QED BY <1>1, <1>2

\* Time stands still.
LEMMA BehindItself == ASSUME Typed PROVE Behind(src, src) /\ Behind(rows.from, rows.from)
BY VersionsTyped DEF Behind

LEMMA InitOrder == Init => OrderInv /\ OwnInv
<1> SUFFICES ASSUME Init PROVE OrderInv /\ OwnInv
  OBVIOUS
<1>1. /\ \A c \in Client : req[c].op = "idle"
      /\ rows.from = src /\ rows.id = 0 /\ row.id = 0 /\ views = 0
      /\ src = [t \in Source |-> 0]
  BY DEF Init, Idle, NoView
<1>2. Behind(src, src)
  <2>1. \A t \in DOMAIN src : src[t] = 0
    BY <1>1
  <2> QED BY <2>1 DEF Behind
<1> QED BY <1>1, <1>2 DEF OrderInv, Ordered, RowOrdered, OwnInv

\* A step of refresh c that touches neither the table nor the sources.
LEMMA OrderStep ==
  ASSUME Typed, Typed', OrderInv, NEW c \in Client, UNCHANGED <<src, rows, views>>,
         Ordered(c)', \A d \in Client \ {c} : req'[d] = req[d],
         row'.id <= views,
         row'.id # 0 /\ row'.status = "Succeeded" => Behind(row'.versions, rows.from)
  PROVE  OrderInv'
<1>1. \A d \in Client \ {c} : Ordered(d)'
  BY BehindItself, OrderFrame, VersionsTyped DEF OrderInv
<1>2. RowOrdered'
  BY DEF OrderInv, RowOrdered
<1> QED BY <1>1, <1>2 DEF OrderInv

LEMMA NextOrder ==
  ASSUME ViewsAssumption
  PROVE  Typed /\ Typed' /\ OrderInv /\ [Next]_vars => OrderInv'
<1> SUFFICES ASSUME Typed, Typed', OrderInv, [Next]_vars PROVE OrderInv'
  OBVIOUS
<1> USE DEF Goto
<1>itself. Behind(src, src) /\ Behind(rows.from, rows.from)
  BY BehindItself
<1>row. RowOrdered /\ \A c \in Client : Ordered(c)
  BY DEF OrderInv
<1>views. views \in Nat
  BY VersionsTyped
<1>same. views \in Nat /\ (views' = views => views <= views')
  BY <1>views
\* A step of refresh c that leaves the row alone.
<1>step. ASSUME NEW c \in Client, UNCHANGED <<src, row, rows, views>>, Ordered(c)',
                \A d \in Client \ {c} : req'[d] = req[d]
         PROVE  OrderInv'
  BY <1>step, <1>row, OrderStep DEF RowOrdered
<1>1. CASE Commit
  <2>1. PICK t \in Source : src' = [src EXCEPT ![t] = @ + 1]
    BY <1>1 DEF Commit
  <2>2. Behind(src, src')
    <3>1. \A u \in Source : src'[u] = IF u = t THEN src[u] + 1 ELSE src[u]
      BY <2>1 DEF Typed
    <3> QED BY <3>1, VersionsTyped DEF Behind
  <2>3. UNCHANGED <<row, rows, views, req>>
    BY <1>1 DEF Commit
  <2>4. \A c \in Client : Ordered(c)'
    BY <1>itself, <1>row, <1>same, <2>2, <2>3, OrderFrame
  <2>5. Behind(rows.from, src')
    <3> SUFFICES ASSUME NEW u \in Source PROVE rows.from[u] <= src'[u]
      BY VersionsTyped DEF Behind
    <3>1. DOMAIN src' = Source /\ src'[u] = IF u = t THEN src[u] + 1 ELSE src[u]
      BY <2>1 DEF Typed
    <3>2. rows.from[u] <= src[u] /\ rows.from[u] \in Int /\ src[u] \in Int
      BY <1>row, VersionsTyped DEF RowOrdered, Behind
    <3> QED BY <3>1, <3>2
  <2> QED BY <1>row, <2>3, <2>4, <2>5 DEF OrderInv, RowOrdered
<1>2. CASE CreateMLV
  <2>1. /\ UNCHANGED <<src, rows, req>> /\ views' = views + 1
        /\ row'.id = views' /\ row'.status = ""
    BY <1>2 DEF CreateMLV
  <2>2. views \in Nat /\ views <= views' /\ rows.id \in Nat
    <3>1. views' = views + 1
      BY <2>1
    <3>2. rows.id \in Nat
      BY VersionsTyped
    <3> QED BY <1>views, <3>1, <3>2
  <2>3. \A c \in Client : Ordered(c)'
    BY <1>itself, <1>row, <2>1, <2>2, OrderFrame
  <2>4. views' <= views' /\ rows.id <= views'
    <3>1. rows.id <= views /\ views' = views + 1
      BY <1>row, <2>1 DEF RowOrdered
    <3> QED BY <1>views, <2>2, <3>1
  <2> QED BY <1>row, <2>1, <2>3, <2>4 DEF OrderInv, RowOrdered
<1>3. CASE DeleteMLV
  <2>1. UNCHANGED <<src, rows, req, views>> /\ row'.id = 0
    BY <1>3 DEF DeleteMLV, NoView
  <2>2. \A c \in Client : Ordered(c)'
    BY <1>itself, <1>row, <1>same, <2>1, OrderFrame
  <2> QED BY <1>row, <1>same, <2>1, <2>2 DEF OrderInv, RowOrdered
<1>4. CASE Restart
  <2>1. UNCHANGED <<src, row, rows, views>>
    BY <1>4 DEF Restart
  <2>2. ASSUME NEW c \in Client PROVE Ordered(c)'
    <3>1. CASE req[c].op \in {"posted", "reading"}
      <4>1. req'[c] = Unheard(req[c])
        BY <1>4, <3>1 DEF Restart
      <4>2. Behind([t \in {} |-> 0], src) /\ \A w : Behind([t \in {} |-> 0], w)
        BY DEF Behind
      <4> QED BY <1>row, <2>1, <3>1, <4>1, <4>2, UnheardTyped DEF Ordered
    <3>2. CASE req[c].op \notin {"posted", "reading"}
      <4>1. req'[c].op = "idle"
        BY <1>4, <3>2 DEF Restart, Idle
      <4> QED BY <4>1 DEF Ordered
    <3> QED BY <3>1, <3>2
  <2> QED BY <1>row, <2>1, <2>2 DEF OrderInv, RowOrdered
<1>5. ASSUME NEW c \in Client, RefreshMLV(c) PROVE OrderInv'
  <2>1. /\ UNCHANGED <<src, row, rows, views>> /\ \A d \in Client \ {c} : req'[d] = req[d]
        /\ req'[c].op = "versions" /\ req'[c].id = row.id /\ req'[c].versions = [t \in {} |-> 0]
        /\ row.id # 0
    BY <1>5, RowTyped DEF RefreshMLV, Typed
  <2>2. row.id \in 1 .. views
    <3>1. row.id \in Nat /\ row.id <= views /\ row.id # 0
      BY <1>row, <2>1, RowTyped DEF RowOrdered
    <3> QED BY <1>views, <3>1
  <2>3. Ordered(c)'
    BY <2>1, <2>2 DEF Ordered, Behind
  <2> QED BY <1>step, <2>1, <2>3
<1>6. ASSUME NEW c \in Client, ReadVersion(c) PROVE OrderInv'
  <2>1. /\ UNCHANGED <<src, row, rows, views>> /\ \A d \in Client \ {c} : req'[d] = req[d]
        /\ req[c].op = "versions"
    BY <1>6 DEF ReadVersion, Typed
  <2>2. req[c] \in [op : {"versions", "posted"}, id : Nat, ask : SUBSET Source,
                    versions : Versions, heard : BOOLEAN]
    BY <2>1, RequestTyped
  <2>3. PICK t \in req[c].ask :
          LET noted == DOMAIN req[c].versions \cup ({t} \cap Written)
          IN Goto(c, [req[c] EXCEPT !.ask = @ \ {t},
                                    !.versions = [u \in noted |-> IF u = t THEN src[t] ELSE @[u]],
                                    !.op = IF req[c].ask = {t} THEN "posted" ELSE @])
    BY <1>6 DEF ReadVersion
  <2> DEFINE noted == DOMAIN req[c].versions \cup ({t} \cap Written)
             v == [u \in noted |-> IF u = t THEN src[t] ELSE req[c].versions[u]]
  <2>4. Behind(v, src)
    <3>1. Behind(req[c].versions, src)
      BY <1>row, <2>1 DEF Ordered
    <3>2. \A u \in Source : src[u] <= src[u]
      BY VersionsTyped
    <3> QED BY <3>1, <3>2, VersionsTyped DEF Behind
  <2> HIDE DEF v
  <2>5. req' = [req EXCEPT ![c] = [req[c] EXCEPT !.ask = @ \ {t}, !.versions = v,
                                    !.op = IF req[c].ask = {t} THEN "posted" ELSE @]]
    BY <2>3 DEF v
  <2>6. req'[c].op \in {"versions", "posted"} /\ req'[c].id = req[c].id /\ req'[c].versions = v
    BY <2>1, <2>2, <2>5 DEF Typed
  <2>7. Ordered(c)'
    BY <1>row, <2>1, <2>4, <2>6 DEF Ordered
  <2> QED BY <1>step, <2>1, <2>7
<1>7. ASSUME NEW c \in Client, Plan(c) PROVE OrderInv'
  <2>1. /\ UNCHANGED <<src, row, rows, views>> /\ \A d \in Client \ {c} : req'[d] = req[d]
        /\ req[c].op = "posted"
        /\ req'[c] = [op |-> "reading", id |-> req[c].id, versions |-> req[c].versions,
                      heard |-> req[c].heard, latest |-> TRUE, from |-> [t \in {} |-> 0]]
    BY <1>7 DEF Plan, Typed
  <2>2. \A w : Behind([t \in {} |-> 0], w) /\ Behind(w, [t \in {} |-> 0])
    BY DEF Behind
  <2>3. Ordered(c)'
    BY <1>row, <2>1, <2>2 DEF Ordered
  <2> QED BY <1>step, <2>1, <2>3
<1>8. ASSUME NEW c \in Client, ReadSource(c) PROVE OrderInv'
  <2>1. /\ UNCHANGED <<src, row, rows, views>> /\ \A d \in Client \ {c} : req'[d] = req[d]
        /\ req[c].op = "reading"
    BY <1>8 DEF ReadSource, Typed
  <2>2. req[c] \in [op : {"reading"}, id : Nat, versions : Versions, heard : BOOLEAN,
                    latest : BOOLEAN, from : Versions]
    BY <2>1, RequestTyped
  <2>3. PICK t \in Written \ DOMAIN req[c].from :
          req' = [req EXCEPT ![c] = [req[c] EXCEPT !.from =
                   [u \in DOMAIN req[c].from \cup {t} |->
                      IF u = t THEN src[t] ELSE req[c].from[u]]]]
    BY <1>8 DEF ReadSource
  <2> DEFINE v == [u \in DOMAIN req[c].from \cup {t} |-> IF u = t THEN src[t] ELSE req[c].from[u]]
  <2>4. /\ Behind(req[c].from, src) /\ Behind(req[c].versions, req[c].from)
        /\ Behind(req[c].versions, src) /\ req[c].id \in 1 .. views /\ Behind(rows.from, src)
        /\ req[c].latest => Behind(rows.from, req[c].from)
    BY <1>row, <2>1 DEF Ordered, RowOrdered
  <2>5. /\ Behind(v, src) /\ Behind(req[c].versions, v)
        /\ Behind(rows.from, req[c].from) => Behind(rows.from, v)
    <3>1. t \in Source /\ \A u \in Source : src[u] <= src[u]
      BY VersionsTyped DEF Written
    <3>2. DOMAIN v = DOMAIN req[c].from \cup {t} /\ v[t] = src[t]
          /\ \A u \in DOMAIN req[c].from : v[u] = req[c].from[u]
      OBVIOUS
    <3> HIDE DEF v
    <3> QED BY <2>4, <3>1, <3>2, VersionsTyped DEF Behind
  <2> HIDE DEF v
  <2>6. req' = [req EXCEPT ![c] = [req[c] EXCEPT !.from = v]]
    BY <2>3 DEF v
  <2>7. req'[c] = [op |-> "reading", id |-> req[c].id, versions |-> req[c].versions,
                   heard |-> req[c].heard, latest |-> req[c].latest, from |-> v]
    BY <2>1, <2>2, <2>6 DEF Typed
  <2>8. Ordered(c)'
    BY <2>1, <2>4, <2>5, <2>7 DEF Ordered
  <2> QED BY <1>step, <2>1, <2>8
<1>9. ASSUME NEW c \in Client, Overwrite(c) PROVE OrderInv'
  <2>1. req[c] \in [op : {"reading"}, id : Nat, versions : Versions, heard : BOOLEAN,
                    latest : BOOLEAN, from : Versions]
    BY <1>9, RequestTyped DEF Overwrite
  <2>2. /\ UNCHANGED <<src, row, views>> /\ rows'.id = req[c].id /\ rows'.from = req[c].from
        /\ req[c].op = "reading" /\ DOMAIN req[c].from = Source /\ req[c].latest
    BY <1>9 DEF Overwrite
  <2>3. /\ Behind(req[c].from, src) /\ Behind(req[c].versions, req[c].from)
        /\ Behind(req[c].versions, src) /\ req[c].id \in 1 .. views
        /\ Behind(rows.from, rows'.from)
    BY <1>row, <2>2 DEF Ordered
  <2>4. Ordered(c)'
    <3>1. \/ req'[c] = [op |-> "record", id |-> req[c].id, versions |-> req[c].versions]
          \/ req'[c] = Idle
      BY <1>9 DEF Overwrite
    <3>2. CASE req'[c] = Idle
      BY <3>2 DEF Ordered, Idle
    <3>3. CASE req'[c] = [op |-> "record", id |-> req[c].id, versions |-> req[c].versions]
      BY <2>2, <2>3, <3>3 DEF Ordered
    <3> QED BY <3>1, <3>2, <3>3
  <2>5. ASSUME NEW d \in Client \ {c} PROVE Ordered(d)'
    <3>1. CASE req[d].op # "reading"
      <4>1. req'[d] = req[d]
        BY <1>9, <3>1 DEF Overwrite
      <4> QED BY <1>itself, <1>row, <1>same, <2>2, <2>3, <3>1, <4>1, OrderFrame
    <3>2. CASE req[d].op = "reading"
      <4>1. req'[d] = [req[d] EXCEPT !.latest = FALSE]
        BY <1>9, <3>2 DEF Overwrite
      <4>2. req[d] \in [op : {"reading"}, id : Nat, versions : Versions, heard : BOOLEAN,
                        latest : BOOLEAN, from : Versions]
        BY <3>2, RequestTyped
      <4>3. req'[d] = [op |-> "reading", id |-> req[d].id, versions |-> req[d].versions,
                       heard |-> req[d].heard, latest |-> FALSE, from |-> req[d].from]
        BY <3>2, <4>1, <4>2
      <4> QED BY <1>row, <2>2, <3>2, <4>3 DEF Ordered
    <3> QED BY <3>1, <3>2
  <2>6. row.id # 0 /\ row.status = "Succeeded" => Behind(row.versions, rows'.from)
    <3>1. ASSUME row.id # 0, row.status = "Succeeded" PROVE Behind(row.versions, rows'.from)
      <4>1. Behind(row.versions, rows.from) /\ row.versions \in Versions
        BY <1>row, <3>1, RowTyped DEF RowOrdered
      <4>2. /\ DOMAIN rows.from = Source /\ DOMAIN rows'.from = Source
            /\ \A t \in Source : rows.from[t] \in Int /\ rows'.from[t] \in Int
        BY <2>1, <2>2, Noted, VersionsTyped
      <4> QED BY <2>3, <4>1, <4>2, BehindGrows
    <3> QED BY <3>1
  <2>7. RowOrdered'
    BY <1>row, <1>same, <2>2, <2>3, <2>6 DEF RowOrdered
  <2> QED BY <2>4, <2>5, <2>7 DEF OrderInv
<1>10. ASSUME NEW c \in Client, Fail(c) PROVE OrderInv'
  <2>1. /\ UNCHANGED <<src, rows, views>> /\ \A d \in Client \ {c} : req'[d] = req[d]
        /\ req[c].op \in {"posted", "reading"} /\ req'[c] \in {Idle, Unheard(req[c])}
    BY <1>10 DEF Fail, Typed
  <2>2. Ordered(c)'
    <3>1. CASE req'[c] = Idle
      BY <3>1 DEF Ordered, Idle
    <3>2. CASE req'[c] = Unheard(req[c])
      <4>1. \A w : Behind([t \in {} |-> 0], w)
        BY DEF Behind
      <4> QED BY <1>row, <2>1, <3>2, <4>1, UnheardTyped DEF Ordered
    <3> QED BY <2>1, <3>1, <3>2
  <2>3. \/ row' = row
        \/ row'.id = row.id /\ row'.status = "Failed"
    <3> DEFINE failed == [row EXCEPT !.status = "Failed"]
    <3>1. Record(failed) \/ row' = row
      BY <1>10 DEF Fail
    <3>2. row # NoView => failed.id = row.id /\ failed.status = "Failed"
      BY RecordTyped, NoneNoted
    <3> HIDE DEF failed
    <3> QED BY <3>1, <3>2 DEF Record
  <2> QED BY <1>row, <2>1, <2>2, <2>3, OrderStep DEF RowOrdered
<1>11. ASSUME NEW c \in Client, RecordRefresh(c) PROVE OrderInv'
  <2>1. /\ UNCHANGED <<src, rows, views>> /\ \A d \in Client \ {c} : req'[d] = req[d]
        /\ req[c].op = "record" /\ req'[c] = Idle
    BY <1>11 DEF RecordRefresh, Typed
  <2>2. Ordered(c)'
    BY <2>1 DEF Ordered, Idle
  <2>3. req[c].versions \in Versions /\ Behind(req[c].versions, rows.from)
    BY <1>row, <2>1, RequestTyped DEF Ordered
  <2>4. \/ row' = row
        \/ row'.id = row.id /\ row'.status = "Succeeded" /\ row'.versions = req[c].versions
    <3> DEFINE done == [row EXCEPT !.status = "Succeeded", !.versions = req[c].versions]
    <3>1. Record(done)
      BY <1>11 DEF RecordRefresh, SourceVersions
    <3>2. row # NoView => /\ done.id = row.id /\ done.status = "Succeeded"
                          /\ done.versions = req[c].versions
      BY <2>3, RecordTyped
    <3> HIDE DEF done
    <3> QED BY <3>1, <3>2 DEF Record
  <2> QED BY <1>row, <2>1, <2>2, <2>3, <2>4, OrderStep DEF RowOrdered
<1>12. CASE UNCHANGED vars
  BY <1>12, <1>row DEF vars, OrderInv, RowOrdered, Ordered
<1> QED
  BY <1>1, <1>2, <1>3, <1>4, <1>5, <1>6, <1>7, <1>8, <1>9, <1>10, <1>11, <1>12 DEF Next

-----------------------------------------------------------------------------
(* Of which view a refresh is.                                               *)

LEMMA NextOwn == Typed /\ Typed' /\ OwnInv /\ [Next]_vars => OwnInv'
<1> SUFFICES ASSUME Typed, Typed', OwnInv, [Next]_vars, ~replaced'
             PROVE  /\ \A c \in Client :
                         /\ req'[c].op # "idle" => row'.id # 0 /\ req'[c].id = row'.id
                         /\ req'[c].op = "record" => rows'.id = row'.id
                    /\ row'.id # 0 /\ row'.status = "Succeeded" => rows'.id = row'.id
  BY DEF OwnInv
<1> USE DEF Goto
<1>1. CASE DeleteMLV
  <2>1. \A c \in Client : req'[c] = Idle
    BY <1>1 DEF DeleteMLV
  <2> QED BY <1>1, <2>1 DEF DeleteMLV, Idle, NoView
<1> SUFFICES ASSUME ~DeleteMLV PROVE OwnInv'
  BY <1>1 DEF OwnInv
<1>own. /\ \A c \in Client : /\ req[c].op # "idle" => row.id # 0 /\ req[c].id = row.id
                             /\ req[c].op = "record" => rows.id = row.id
        /\ row.id # 0 /\ row.status = "Succeeded" => rows.id = row.id
  <2>1. ~replaced
    BY DEF Next, Commit, CreateMLV, Restart, RefreshMLV, ReadVersion, Plan, ReadSource, Overwrite,
           Fail, RecordRefresh, vars
  <2> QED BY <2>1 DEF OwnInv
\* A step of refresh c, that leaves the row or says nothing new of it.
<1>step. ASSUME NEW c \in Client, UNCHANGED <<rows>>, row'.id = row.id,
                row'.status = "Succeeded" => row.status = "Succeeded" \/ req[c].op = "record",
                \A d \in Client \ {c} : req'[d] = req[d],
                req'[c].op # "idle" => row.id # 0 /\ req'[c].id = row.id,
                req'[c].op = "record" => req[c].op = "record"
         PROVE  OwnInv'
  BY <1>step, <1>own DEF OwnInv
<1>2. CASE Commit \/ UNCHANGED vars
  BY <1>2, <1>own DEF Commit, vars, OwnInv
<1>3. CASE CreateMLV
  <2>1. row.id = 0 /\ row'.status = "" /\ req' = req /\ rows' = rows
    BY <1>3, RowTyped DEF CreateMLV
  <2> QED BY <1>own, <2>1 DEF OwnInv
<1>4. CASE Restart
  <2>1. ASSUME NEW c \in Client
        PROVE  /\ req'[c].op # "idle" => row.id # 0 /\ req'[c].id = row.id
               /\ req'[c].op # "record"
    <3>1. CASE req[c].op \in {"posted", "reading"}
      <4>1. req'[c] = Unheard(req[c])
        BY <1>4, <3>1 DEF Restart
      <4> QED BY <1>own, <3>1, <4>1, UnheardTyped
    <3>2. CASE req[c].op \notin {"posted", "reading"}
      <4>1. req'[c].op = "idle"
        BY <1>4, <3>2 DEF Restart, Idle
      <4> QED BY <4>1
    <3> QED BY <3>1, <3>2
  <2>2. UNCHANGED <<row, rows>>
    BY <1>4 DEF Restart
  <2> QED BY <1>own, <2>1, <2>2 DEF OwnInv
<1>5. ASSUME NEW c \in Client, RefreshMLV(c) PROVE OwnInv'
  <2>1. /\ UNCHANGED <<rows, row>> /\ \A d \in Client \ {c} : req'[d] = req[d]
        /\ req'[c].op = "versions" /\ req'[c].id = row.id /\ row.id # 0
    BY <1>5, RowTyped DEF RefreshMLV, Typed
  <2> QED BY <1>step, <2>1
<1>6. ASSUME NEW c \in Client, ReadVersion(c) PROVE OwnInv'
  <2>1. UNCHANGED <<rows, row>> /\ \A d \in Client \ {c} : req'[d] = req[d]
    BY <1>6 DEF ReadVersion, Typed
  <2>2. req[c] \in [op : {"versions", "posted"}, id : Nat, ask : SUBSET Source,
                    versions : Versions, heard : BOOLEAN]
    BY <1>6, RequestTyped DEF ReadVersion
  <2>3. req'[c].op \in {"versions", "posted"} /\ req'[c].id = req[c].id
    <3>1. PICK a, v, o : /\ o \in {"posted", req[c].op}
                         /\ req' = [req EXCEPT ![c] = [req[c] EXCEPT !.ask = a, !.versions = v,
                                                                    !.op = o]]
      BY <1>6 DEF ReadVersion
    <3> QED BY <2>2, <3>1 DEF Typed
  <2>4. req[c].op = "versions"
    BY <1>6 DEF ReadVersion
  <2> QED BY <1>own, <1>step, <2>1, <2>3, <2>4
<1>7. ASSUME NEW c \in Client, Plan(c) PROVE OwnInv'
  <2>1. /\ UNCHANGED <<rows, row>> /\ \A d \in Client \ {c} : req'[d] = req[d]
        /\ req[c].op = "posted" /\ req'[c].op = "reading" /\ req'[c].id = req[c].id
    BY <1>7 DEF Plan, Typed
  <2> QED BY <1>own, <1>step, <2>1
<1>8. ASSUME NEW c \in Client, ReadSource(c) PROVE OwnInv'
  <2>1. UNCHANGED <<rows, row>> /\ \A d \in Client \ {c} : req'[d] = req[d]
    BY <1>8 DEF ReadSource, Typed
  <2>2. req[c] \in [op : {"reading"}, id : Nat, versions : Versions, heard : BOOLEAN,
                    latest : BOOLEAN, from : Versions]
    BY <1>8, RequestTyped DEF ReadSource
  <2>3. req'[c].op = "reading" /\ req'[c].id = req[c].id
    <3>1. PICK v : req' = [req EXCEPT ![c] = [req[c] EXCEPT !.from = v]]
      BY <1>8 DEF ReadSource
    <3> QED BY <2>2, <3>1 DEF Typed
  <2> QED BY <1>own, <1>step, <2>1, <2>2, <2>3
<1>9. ASSUME NEW c \in Client, Overwrite(c) PROVE OwnInv'
  <2>1. row' = row /\ rows'.id = req[c].id /\ req[c].op = "reading"
    BY <1>9 DEF Overwrite
  <2>2. rows'.id = row.id
    BY <1>own, <2>1
  <2>3. ASSUME NEW d \in Client
        PROVE  req'[d].op # "idle" => req[d].op # "idle" /\ req'[d].id = req[d].id
    <3>1. CASE d = c
      BY <1>9, <2>1, <3>1 DEF Overwrite, Idle
    <3>2. CASE d # c /\ req[d].op = "reading"
      <4>1. req'[d] = [req[d] EXCEPT !.latest = FALSE]
        BY <1>9, <3>2 DEF Overwrite
      <4> QED BY <3>2, <4>1, RequestTyped
    <3>3. CASE d # c /\ req[d].op # "reading"
      BY <1>9, <3>3 DEF Overwrite
    <3> QED BY <3>1, <3>2, <3>3
  <2> QED BY <1>own, <2>1, <2>2, <2>3 DEF OwnInv
<1>10. ASSUME NEW c \in Client, Fail(c) PROVE OwnInv'
  <2>1. /\ UNCHANGED rows /\ \A d \in Client \ {c} : req'[d] = req[d]
        /\ req[c].op \in {"posted", "reading"} /\ req'[c] \in {Idle, Unheard(req[c])}
    BY <1>10 DEF Fail, Typed
  <2>2. /\ req'[c].op # "idle" => row.id # 0 /\ req'[c].id = row.id
        /\ req'[c].op # "record"
    BY <1>own, <2>1, UnheardTyped DEF Idle
  <2>3. \/ row' = row
        \/ row'.id = row.id /\ row'.status = "Failed"
    <3> DEFINE failed == [row EXCEPT !.status = "Failed"]
    <3>1. Record(failed) \/ row' = row
      BY <1>10 DEF Fail
    <3>2. row # NoView => failed.id = row.id /\ failed.status = "Failed"
      BY RecordTyped, NoneNoted
    <3> HIDE DEF failed
    <3> QED BY <3>1, <3>2 DEF Record
  <2> QED BY <1>step, <2>1, <2>2, <2>3
<1>11. ASSUME NEW c \in Client, RecordRefresh(c) PROVE OwnInv'
  <2>1. /\ UNCHANGED rows /\ \A d \in Client \ {c} : req'[d] = req[d]
        /\ req[c].op = "record" /\ req'[c] = Idle
    BY <1>11 DEF RecordRefresh, Typed
  <2>2. row'.id = row.id
    <3> DEFINE done == [row EXCEPT !.status = "Succeeded", !.versions = req[c].versions]
    <3>1. Record(done)
      BY <1>11 DEF RecordRefresh, SourceVersions
    <3>2. row # NoView => done.id = row.id
      BY <2>1, RequestTyped, RecordTyped
    <3> HIDE DEF done
    <3> QED BY <3>1, <3>2 DEF Record
  <2> QED BY <1>step, <2>1, <2>2 DEF Idle
<1> QED
  BY <1>2, <1>3, <1>4, <1>5, <1>6, <1>7, <1>8, <1>9, <1>10, <1>11 DEF Next

-----------------------------------------------------------------------------
\* A view reported fresh (mlvStale) holds its query over the sources as they
\* are, unless it was deleted with a refresh of it under way.
THEOREM FreshViewsAreCurrent == ASSUME ViewsAssumption PROVE Spec => []FreshIsCurrent
<1>1. Init => Typed /\ OrderInv /\ OwnInv
  BY InitTyped, InitOrder
<1>2. Typed /\ OrderInv /\ OwnInv /\ [Next]_vars => (Typed /\ OrderInv /\ OwnInv)'
  BY NextTyped, NextOrder, NextOwn
<1>3. Typed /\ OrderInv /\ OwnInv => FreshIsCurrent
  <2> SUFFICES ASSUME Typed, OrderInv, OwnInv, Fresh, ~replaced
               PROVE  rows.id = row.id /\ rows.from = src
    BY DEF FreshIsCurrent, FreshIsExact
  <2>1. row.id # 0 /\ row.status = "Succeeded"
    BY RowTyped DEF Fresh
  <2>2. Behind(row.versions, rows.from) /\ Behind(rows.from, src)
    BY <2>1 DEF OrderInv, RowOrdered
  <2>3. ASSUME NEW t \in Source PROVE rows.from[t] = src[t]
    <3>1. row.versions[t] <= rows.from[t] /\ rows.from[t] <= src[t] /\ row.versions[t] = src[t]
      BY <2>2, VersionsTyped DEF Fresh, Behind
    <3> QED BY <3>1, VersionsTyped
  <2>4. src \in [Source -> 0 .. MaxCommits] /\ rows.from \in [Source -> 0 .. MaxCommits]
    BY DEF Typed
  <2>5. rows.from = src
    BY <2>3, <2>4
  <2> QED BY <2>1, <2>5 DEF OwnInv
<1> QED BY <1>1, <1>2, <1>3, PTL DEF Spec

\* The module's type invariant.
THEOREM TypeCorrect == ASSUME ViewsAssumption PROVE Spec => []TypeOK
<1>1. Init => Typed /\ OrderInv
  BY InitTyped, InitOrder
<1>2. Typed /\ OrderInv /\ [Next]_vars => (Typed /\ OrderInv)'
  BY NextTyped, NextOrder
<1>3. Typed /\ OrderInv => TypeOK
  <2> SUFFICES ASSUME Typed, OrderInv PROVE TypeOK
    OBVIOUS
  <2>1. rows.id \in 0 .. views /\ (row.id # 0 => row.id \in 1 .. views)
    <3>1. rows.id <= views /\ row.id <= views
      BY DEF OrderInv, RowOrdered
    <3>2. rows.id \in Nat /\ row.id \in Nat /\ views \in Nat
      BY VersionsTyped, RowTyped
    <3> QED BY <3>1, <3>2
  <2>2. row # NoView => /\ row.id # 0 /\ row.status \in {"", "Succeeded", "Failed"}
                        /\ DOMAIN row.versions \subseteq Source
    BY RowTyped, Noted
  <2> QED BY <2>1, <2>2 DEF Typed, TypeOK
<1> QED BY <1>1, <1>2, <1>3, PTL DEF Spec

-----------------------------------------------------------------------------
(* Names of items.                                                           *)

NamesTyped ==
  /\ now \in Nat
  /\ nameReq = [c \in Client |-> nameReq[c]]
  /\ \A n \in DOMAIN freed : freed[n] \in Nat /\ freed[n] <= now

\* Until two requests overlap, at most one is under way.
NamesAlone == serial => \A c, d \in Client : nameReq[c] # N!Idle /\ nameReq[d] # N!Idle => c = d

\* The rows are the deletions answered.
RowsKept == serial => gone = freed

\* A deletion holds the name that its item had to the end.
NameRead(c) ==
  /\ nameReq[c].op = "remove" /\ nameReq[c].id \in N!Items => name[nameReq[c].id] = nameReq[c].name
  /\ nameReq[c].op = "hold" => nameReq[c].lost = nameReq[c].name

\* A name that was found free stays free until its item is there.
NameFree(c) == N!OneSpelling /\ nameReq[c].op = "insert" => ~N!LatelyGone(nameReq[c].name)

RequestsKnow == serial => \A c \in Client : NameRead(c) /\ NameFree(c)

NamesInv == NamesTyped /\ NamesAlone /\ RowsKept /\ RequestsKnow

\* To differ in case only is to be the same name.
LEMMA SameName3 ==
  ASSUME N!NamesAssumption, NEW n, NEW m, NEW k, N!Same(n, m), N!Same(m, k)
  PROVE  N!Same(n, k)
<1>2. CASE n = m \/ m = k
  BY <1>2
<1>3. CASE n # m /\ m # k
  <2>1. n \in ItemName /\ m \in ItemName /\ k \in ItemName
    BY <1>3 DEF N!Same, N!NamesAssumption
  <2> QED BY <2>1 DEF N!NamesAssumption
<1> QED BY <1>2, <1>3

LEMMA NamesInit == N!Init => NamesInv
  BY DEF N!Init, NamesInv, NamesTyped, NamesAlone, RowsKept, RequestsKnow, NameRead, NameFree,
         N!Idle

\* A step of one client leaves the others idle, if no two requests overlapped.
LEMMA NameMoves ==
  ASSUME NamesInv, NEW c \in Client, NEW r, nameReq' = [nameReq EXCEPT ![c] = r],
         serial' => serial, serial' => \A d \in Client \ {c} : nameReq[d] = N!Idle
  PROVE  /\ nameReq' = [d \in Client |-> nameReq'[d]] /\ nameReq'[c] = r
         /\ NamesAlone'
         /\ serial' => \A d \in Client \ {c} : nameReq'[d] = N!Idle
<1>1. /\ nameReq' = [d \in Client |-> nameReq'[d]] /\ nameReq'[c] = r
      /\ \A d \in Client \ {c} : nameReq'[d] = nameReq[d]
  BY DEF NamesInv, NamesTyped
<1> QED BY <1>1 DEF NamesAlone

\* A step of a request that is under way, and that leaves the rows alone.
LEMMA NamesMove ==
  ASSUME NamesInv, NEW c \in Client, NEW r, nameReq' = [nameReq EXCEPT ![c] = r],
         serial' => serial, serial' => \A d \in Client \ {c} : nameReq[d] = N!Idle,
         UNCHANGED <<freed, now, gone>>,
         serial' => NameRead(c)', serial' => NameFree(c)'
  PROVE  NamesInv'
<1>1. /\ nameReq' = [d \in Client |-> nameReq'[d]] /\ NamesAlone'
      /\ serial' => \A d \in Client \ {c} : nameReq'[d] = N!Idle
  BY NameMoves
<1>2. NamesTyped' /\ RowsKept'
  BY <1>1 DEF NamesInv, NamesTyped, RowsKept
<1>3. \A d \in Client : nameReq'[d] = N!Idle => NameRead(d)' /\ NameFree(d)'
  BY DEF NameRead, NameFree, N!Idle
<1>4. RequestsKnow'
  BY <1>1, <1>3 DEF RequestsKnow
<1> QED BY <1>1, <1>2, <1>4 DEF NamesInv

\* So does every request that ends.
LEMMA NamesEnd ==
  ASSUME NamesInv, NEW c \in Client, nameReq' = [nameReq EXCEPT ![c] = N!Idle],
         serial' => serial, serial' => \A d \in Client \ {c} : nameReq[d] = N!Idle,
         UNCHANGED <<freed, now, gone>>
  PROVE  NamesInv'
<1>1. nameReq'[c] = N!Idle
  BY DEF NamesInv, NamesTyped
<1>2. NameRead(c)' /\ NameFree(c)'
  BY <1>1 DEF NameRead, NameFree, N!Idle
<1> QED BY <1>2, NamesMove

LEMMA NamesNext ==
  ASSUME N!NamesAssumption, NamesInv, [N!Next]_(N!vars) PROVE NamesInv'
<1>typed. /\ now \in Nat /\ Held \in Nat
          /\ \A n \in DOMAIN freed : freed[n] \in Nat /\ freed[n] <= now
          /\ nameReq = [c \in Client |-> nameReq[c]]
  BY DEF NamesInv, NamesTyped, N!NamesAssumption
<1>alone. ASSUME NEW c \in Client, nameReq[c] # N!Idle, serial
          PROVE  \A d \in Client \ {c} : nameReq[d] = N!Idle
  BY <1>alone DEF NamesInv, NamesAlone
<1>begin. ASSUME NEW c \in Client, NEW r, N!Begin(c, r), serial'
          PROVE  serial /\ \A d \in Client \ {c} : nameReq[d] = N!Idle
  BY <1>begin DEF N!Begin
<1>1. CASE N!Advance
  <2>1. /\ UNCHANGED <<name, freed, nameReq, gone, serial>> /\ now' = now + 1 /\ now' \in Nat
    BY <1>1, <1>typed DEF N!Advance
  <2>2. NamesTyped' /\ NamesAlone' /\ RowsKept'
    BY <2>1 DEF NamesInv, NamesTyped, NamesAlone, RowsKept
  <2>3. ASSUME NEW c \in Client, serial' PROVE NameRead(c)' /\ NameFree(c)'
    <3>1. NameRead(c) /\ NameFree(c) /\ gone = freed
      BY <2>1, <2>3 DEF NamesInv, RequestsKnow, RowsKept
    <3>2. PICK n : n = nameReq[c].name
      OBVIOUS
    <3>3. ASSUME NEW m \in DOMAIN gone, gone[m] + Held > now' PROVE gone[m] + Held > now
      BY <3>1, <3>3, <2>1, <1>typed
    <3>4. NameFree(c)'
      BY <3>1, <3>2, <3>3, <2>1 DEF NameFree, N!OneSpelling, N!LatelyGone, N!Same
    <3> QED BY <3>1, <3>4, <2>1 DEF NameRead, N!Items
  <2> QED BY <2>2, <2>3 DEF NamesInv, RequestsKnow
<1>2. ASSUME NEW c \in Client, N!CreateItem(c) PROVE NamesInv'
  <2>1. PICK n \in ItemName : N!Begin(c, [op |-> "held", name |-> n])
    BY <1>2 DEF N!CreateItem
  <2>2. nameReq'[c] = [op |-> "held", name |-> n]
    BY <2>1, <1>typed DEF N!Begin
  <2>3. NameRead(c)' /\ NameFree(c)'
    BY <2>2 DEF NameRead, NameFree
  <2> QED BY <2>1, <2>3, <1>begin, NamesMove DEF N!Begin
<1>3. ASSUME NEW c \in Client, N!CheckHeld(c) PROVE NamesInv'
  <2>1. nameReq[c] # N!Idle /\ UNCHANGED <<freed, now, gone, serial>>
    BY <1>3 DEF N!CheckHeld, N!Goto, N!Idle
  <2>2. PICK n : n = nameReq[c].name
    OBVIOUS
  <2> DEFINE kept == {m \in DOMAIN freed : Held > 0 /\ N!Same(m, n)}
             on == [op |-> "insert", name |-> n]
  <2>3. CASE nameReq' = [nameReq EXCEPT ![c] = N!Idle]
    BY <2>1, <2>3, <1>alone, NamesEnd
  <2>4. ASSUME nameReq' = [nameReq EXCEPT ![c] = on], kept = {} \/ \E m \in kept : ~N!Reserved(m)
        PROVE  NamesInv'
    <3>1. nameReq'[c] = on
      BY <2>4, <1>typed
    <3>2. ASSUME serial', N!OneSpelling' PROVE ~N!LatelyGone(n)'
      <4>1. /\ gone' = gone /\ gone = freed /\ now' = now
            /\ \A k, m \in DOMAIN freed : N!Same(k, m) => k = m
        BY <2>1, <3>2 DEF NamesInv, RowsKept, N!OneSpelling, N!Same
      <4>2. ASSUME NEW m \in DOMAIN freed, N!Same(m, n), freed[m] + Held > now PROVE FALSE
        <5>1. m \in kept
          BY <4>2, <1>typed
        <5>2. PICK k \in kept : ~N!Reserved(k)
          BY <5>1, <2>4
        <5>3. N!Same(n, k)
          BY <5>2 DEF N!Same
        <5>4. N!Same(m, k)
          BY <4>2, <5>3, SameName3
        <5>5. k = m
          BY <5>2, <5>4, <4>1
        <5> QED BY <5>2, <5>5, <4>2 DEF N!Reserved
      <4> QED BY <4>1, <4>2 DEF N!LatelyGone, N!Same
    <3>3. NameRead(c)' /\ (serial' => NameFree(c)')
      BY <3>1, <3>2 DEF NameRead, NameFree
    <3> HIDE DEF on
    <3> QED BY <2>1, <2>4, <3>3, <1>alone, NamesMove
  <2>5. \/ nameReq' = [nameReq EXCEPT ![c] = N!Idle]
        \/ nameReq' = [nameReq EXCEPT ![c] = on] /\ (kept = {} \/ \E m \in kept : ~N!Reserved(m))
    BY <1>3, <2>2 DEF N!CheckHeld, N!Goto
  <2> QED BY <2>3, <2>4, <2>5
<1>4. ASSUME NEW c \in Client, N!InsertItem(c) PROVE NamesInv'
  <2>1. /\ nameReq[c] # N!Idle /\ nameReq' = [nameReq EXCEPT ![c] = N!Idle]
        /\ UNCHANGED <<freed, now, gone, serial>>
    BY <1>4 DEF N!InsertItem, N!Answer, N!Goto, N!Idle
  <2> QED BY <2>1, <1>alone, NamesEnd
<1>5. ASSUME NEW c \in Client, N!UpdateItem(c) PROVE NamesInv'
  <2>1. PICK i \in N!Items, n \in ItemName :
          N!Begin(c, [op |-> IF n = name[i] THEN "rename" ELSE "check", id |-> i, name |-> n])
    BY <1>5 DEF N!UpdateItem
  <2> DEFINE r == [op |-> IF n = name[i] THEN "rename" ELSE "check", id |-> i, name |-> n]
  <2>2. nameReq'[c] = r
    BY <2>1, <1>typed DEF N!Begin
  <2>3. NameRead(c)' /\ NameFree(c)'
    BY <2>2 DEF NameRead, NameFree
  <2> HIDE DEF r
  <2> QED BY <2>1, <2>3, <1>begin, NamesMove DEF N!Begin, r
<1>6. ASSUME NEW c \in Client, N!CheckTaken(c) PROVE NamesInv'
  <2> DEFINE on == [op |-> "rename", id |-> nameReq[c].id, name |-> nameReq[c].name]
  <2>1. nameReq[c] # N!Idle /\ UNCHANGED <<freed, now, gone, serial>>
    BY <1>6 DEF N!CheckTaken, N!Goto, N!Idle
  <2>2. CASE nameReq' = [nameReq EXCEPT ![c] = N!Idle]
    BY <2>1, <2>2, <1>alone, NamesEnd
  <2>3. CASE nameReq' = [nameReq EXCEPT ![c] = on]
    <3>1. nameReq'[c] = on
      BY <2>3, <1>typed
    <3>2. NameRead(c)' /\ NameFree(c)'
      BY <3>1 DEF NameRead, NameFree
    <3> HIDE DEF on
    <3> QED BY <2>1, <2>3, <3>2, <1>alone, NamesMove
  <2> QED BY <1>6, <2>2, <2>3 DEF N!CheckTaken, N!Goto
<1>7. ASSUME NEW c \in Client, N!RenameItem(c) PROVE NamesInv'
  <2>1. /\ nameReq[c] # N!Idle /\ nameReq' = [nameReq EXCEPT ![c] = N!Idle]
        /\ UNCHANGED <<freed, now, gone, serial>>
    BY <1>7 DEF N!RenameItem, N!Answer, N!Goto, N!Idle
  <2> QED BY <2>1, <1>alone, NamesEnd
<1>8. ASSUME NEW c \in Client, N!DeleteItem(c) PROVE NamesInv'
  <2>1. PICK i \in N!Items : N!Begin(c, [op |-> "remove", id |-> i, name |-> name[i]])
    BY <1>8 DEF N!DeleteItem
  <2>2. nameReq'[c] = [op |-> "remove", id |-> i, name |-> name[i]] /\ name' = name
    BY <2>1, <1>typed DEF N!Begin
  <2>3. NameRead(c)' /\ NameFree(c)'
    BY <2>2 DEF NameRead, NameFree
  <2> QED BY <2>1, <2>3, <1>begin, NamesMove DEF N!Begin
<1>9. ASSUME NEW c \in Client, N!RemoveItem(c) PROVE NamesInv'
  <2>1. nameReq[c] # N!Idle /\ UNCHANGED <<freed, now, gone, serial>> /\ nameReq[c].op = "remove"
    BY <1>9 DEF N!RemoveItem, N!Goto, N!Idle
  <2>2. CASE nameReq' = [nameReq EXCEPT ![c] = N!Idle]
    BY <2>1, <2>2, <1>alone, NamesEnd
  <2> DEFINE r == [op |-> "hold", name |-> nameReq[c].name, lost |-> name[nameReq[c].id]]
  <2>3. CASE nameReq' = [nameReq EXCEPT ![c] = r] /\ nameReq[c].id \in N!Items
    <3>1. nameReq'[c] = r
      BY <2>3, <1>typed
    <3>2. serial => name[nameReq[c].id] = nameReq[c].name
      BY <2>1, <2>3 DEF NamesInv, RequestsKnow, NameRead
    <3>3. (serial' => NameRead(c)') /\ NameFree(c)'
      BY <2>1, <3>1, <3>2 DEF NameRead, NameFree
    <3> HIDE DEF r
    <3> QED BY <2>1, <2>3, <3>3, <1>alone, NamesMove
  <2> QED BY <1>9, <2>2, <2>3 DEF N!RemoveItem, N!Goto
<1>10. ASSUME NEW c \in Client, N!HoldName(c) PROVE NamesInv'
  <2>1. /\ nameReq[c] # N!Idle /\ nameReq[c].op = "hold" /\ UNCHANGED <<now, serial>>
        /\ nameReq' = [nameReq EXCEPT ![c] = N!Idle] /\ freed' = N!Stamped(freed, nameReq[c].name)
        /\ gone' = N!Stamped(gone, nameReq[c].lost)
    BY <1>10 DEF N!HoldName, N!Answer, N!Idle, N!Stamped
  <2>2. /\ nameReq' = [d \in Client |-> nameReq'[d]] /\ nameReq'[c] = N!Idle /\ NamesAlone'
        /\ serial' => \A d \in Client \ {c} : nameReq'[d] = N!Idle
    BY <2>1, <1>alone, NameMoves
  <2>3. NamesTyped'
    <3>1. \A n \in DOMAIN freed' : freed'[n] \in Nat /\ freed'[n] <= now'
      BY <2>1, <1>typed DEF N!Stamped
    <3> QED BY <2>1, <2>2, <3>1, <1>typed DEF NamesTyped
  <2>4. RowsKept'
    <3>1. serial => nameReq[c].lost = nameReq[c].name
      BY <2>1 DEF NamesInv, RequestsKnow, NameRead
    <3> QED BY <2>1, <3>1 DEF NamesInv, RowsKept
  <2>5. RequestsKnow'
    <3>1. \A d \in Client : nameReq'[d] = N!Idle => NameRead(d)' /\ NameFree(d)'
      BY DEF NameRead, NameFree, N!Idle
    <3> QED BY <2>2, <3>1 DEF RequestsKnow
  <2> QED BY <2>2, <2>3, <2>4, <2>5 DEF NamesInv
<1>11. CASE UNCHANGED N!vars
  BY <1>11 DEF N!vars, NamesInv, NamesTyped, NamesAlone, RowsKept, RequestsKnow, NameRead, NameFree,
              N!Items,
     N!OneSpelling, N!LatelyGone, N!Same
<1> QED
  BY <1>1, <1>2, <1>3, <1>4, <1>5, <1>6, <1>7, <1>8, <1>9, <1>10, <1>11 DEF N!Next

\* A name that a request gives out is free, and one that it refuses is held.
LEMMA NamesStep == NamesInv /\ [N!Next]_(N!vars) => [N!NameHeldExactly]_(N!vars)
<1> SUFFICES ASSUME NamesInv PROVE N!NameHeldExactly
  OBVIOUS
<1>1. N!HeldNameWaits
  BY DEF N!HeldNameWaits, N!InsertItem, NamesInv, RequestsKnow, NameFree
<1>2. N!FreedNameServes
  <2> SUFFICES ASSUME NEW c \in Client, serial, N!CheckHeld(c), nameReq'[c] = N!Idle
               PROVE  N!LatelyGone(nameReq[c].name)
    BY DEF N!FreedNameServes
  <2>1. nameReq[c].op = "held" /\ gone = freed /\ nameReq = [d \in Client |-> nameReq[d]]
    BY DEF N!CheckHeld, NamesInv, RowsKept, NamesTyped
  <2> DEFINE n == nameReq[c].name
             kept == {m \in DOMAIN freed : Held > 0 /\ N!Same(m, n)}
             on == [op |-> "insert", name |-> n]
  <2>2. ASSUME N!Goto(c, on) PROVE FALSE
    <3>1. nameReq'[c] = on
      BY <2>1, <2>2 DEF N!Goto
    <3> QED BY <3>1 DEF N!Idle
  <2>3. PICK m \in DOMAIN freed : N!Same(m, n) /\ N!Reserved(m)
    BY <2>2 DEF N!CheckHeld
  <2> QED BY <2>1, <2>3 DEF N!LatelyGone, N!Reserved
<1> QED BY <1>1, <1>2 DEF N!NameHeldExactly

-----------------------------------------------------------------------------
(* The workspace identity.                                                   *)

IdentityTyped ==
  /\ workspace \in [there : BOOLEAN, name : WorkspaceName]
  /\ failures \in Nat
  /\ idReq = [c \in Client |-> idReq[c]]
  /\ \A c \in Client : idReq[c].op = "name" => idReq[c].name \in WorkspaceName

\* What entra has is what is linked and has the grant.
Agreed == DOMAIN entra = {link} \ {None} /\ grants = DOMAIN entra

\* What is done by the step that a request about the identity is at.
Midway(c) ==
  /\ idReq[c].op \in W!Handling => workspace.there
  /\ idReq[c].op \in {"create", "erase", "cascade"} => Agreed
  /\ idReq[c].op = "create" => link = None
  /\ idReq[c].op \in {"erase", "cascade"} => idReq[c].id = link /\ link # None
  /\ idReq[c].op = "link" =>
       link = None /\ idReq[c].id # None /\ DOMAIN entra = {idReq[c].id} /\ grants = {}
  /\ idReq[c].op = "grant" =>
       link = idReq[c].id /\ link # None /\ DOMAIN entra = {link} /\ grants = {}
  /\ idReq[c].op \in {"unlink", "revoke"} => DOMAIN entra = {} /\ grants = {idReq[c].id}
  /\ idReq[c].op = "unlink" => link # None
  /\ idReq[c].op = "revoke" => link = None
  /\ idReq[c].op = "drop" => DOMAIN entra = {}

\* One request about the identity at a time, and the state is the one it is at.
Handled ==
  ~tangled =>
    /\ \A c, d \in Client : idReq[c].op \in W!Handling /\ idReq[d].op \in W!Handling => c = d
    /\ \A c \in Client : Midway(c)
    /\ W!Quiet => Agreed

IdentityNamed == link # None => entra[link] = workspace.name

\* The name that the identity has, or is about to be given, is the workspace's.
IdentityNaming(c) ==
  /\ idReq[c].op = "create" => idReq[c].name = workspace.name
  /\ idReq[c].op = "link" => entra[idReq[c].id] = workspace.name
  /\ idReq[c].op \in {"grant", "name"} => IdentityNamed
  /\ idReq[c].op = "name" => idReq[c].renamed \/ idReq[c].name = workspace.name
  /\ idReq[c].op = "follow" => idReq[c].name = workspace.name

IdentityAlone == apart => \A c, d \in Client : idReq[c] # W!Idle /\ idReq[d] # W!Idle => c = d

IdentityNames ==
  apart /\ failures = 0 =>
    /\ ~tangled
    /\ \A c \in Client : IdentityNaming(c)
    /\ (\A c \in Client : idReq[c] = W!Idle) => IdentityNamed

IdentityInv == IdentityTyped /\ Handled /\ IdentityAlone /\ IdentityNames

LEMMA IdleOp == W!Idle.op \notin W!Handling /\ W!Idle.op # "name"
  BY DEF W!Idle, W!Handling

LEMMA IdentityInit == W!Init => IdentityInv
<1> SUFFICES ASSUME W!Init PROVE IdentityInv
  OBVIOUS
<1>1. /\ \A c \in Client : idReq[c] = W!Idle /\ idReq[c].op = "idle"
      /\ link = None /\ grants = {} /\ DOMAIN entra = {}
  BY DEF W!Init, W!Idle
<1>2. \A c \in Client : Midway(c) /\ IdentityNaming(c)
  BY <1>1 DEF Midway, IdentityNaming, W!Handling
<1>3. Agreed /\ IdentityNamed
  BY <1>1 DEF Agreed, IdentityNamed
<1>4. IdentityTyped
  BY <1>1 DEF W!Init, IdentityTyped
<1> QED BY <1>1, <1>2, <1>3, <1>4 DEF W!Init, IdentityInv, Handled, IdentityAlone, IdentityNames,
                                       W!Handling

\* A request that is under way goes on to r, or ends.
LEMMA IdentityGoesOn ==
  ASSUME IdentityInv, NEW c \in Client, NEW r,
         idReq[c] # W!Idle, idReq' = [idReq EXCEPT ![c] = r], r.op # "name",
         workspace' \in [there : BOOLEAN, name : WorkspaceName],
         UNCHANGED <<failures, tangled, apart>>,
         \/ idReq[c].op \in W!Handling
         \/ /\ r.op \notin W!Handling /\ UNCHANGED <<link, grants>>
            /\ workspace'.there = workspace.there /\ DOMAIN entra' = DOMAIN entra,
         ~tangled => Midway(c)',
         ~tangled /\ idReq[c].op \in W!Handling /\ r.op \notin W!Handling => Agreed',
         apart /\ failures = 0 => IdentityNaming(c)',
         apart /\ failures = 0 /\ r = W!Idle => IdentityNamed'
  PROVE  IdentityInv'
<1>1. /\ idReq' = [d \in Client |-> idReq'[d]] /\ idReq'[c] = r
      /\ \A d \in Client \ {c} : idReq'[d] = idReq[d]
  BY DEF IdentityInv, IdentityTyped
<1>2. IdentityTyped' /\ IdentityAlone'
  BY <1>1 DEF IdentityInv, IdentityTyped, IdentityAlone
<1>3. Handled'
  <2> SUFFICES ASSUME ~tangled PROVE Handled'
    BY DEF Handled
  <2>1. CASE idReq[c].op \in W!Handling
    <3>1. \A d \in Client \ {c} : idReq'[d].op \notin W!Handling
      BY <1>1, <2>1 DEF IdentityInv, Handled
    <3>2. \A d \in Client \ {c} : Midway(d)'
      BY <3>1 DEF Midway, W!Handling
    <3>3. W!Quiet' => Agreed'
      BY <1>1, <2>1 DEF W!Quiet
    <3> QED BY <1>1, <3>1, <3>2, <3>3 DEF Handled
  <2>2. CASE idReq[c].op \notin W!Handling
    <3>1. Agreed' <=> Agreed
      BY <2>2 DEF Agreed
    <3>2. \A d \in Client \ {c} : Midway(d)'
      BY <1>1, <2>2, <3>1 DEF IdentityInv, Handled, Midway
    <3>3. W!Quiet' => W!Quiet
      BY <1>1, <2>2 DEF W!Quiet
    <3> QED BY <1>1, <2>2, <3>1, <3>2, <3>3 DEF IdentityInv, Handled
  <2> QED BY <2>1, <2>2
<1>4. IdentityNames'
  <2> SUFFICES ASSUME apart, failures = 0 PROVE IdentityNames'
    BY DEF IdentityNames
  <2>1. \A d \in Client \ {c} : idReq'[d] = W!Idle
    BY <1>1 DEF IdentityInv, IdentityAlone
  <2>2. \A d \in Client \ {c} : IdentityNaming(d)'
    BY <2>1 DEF IdentityNaming, W!Idle
  <2>3. ~tangled
    BY DEF IdentityInv, IdentityNames
  <2> QED BY <1>1, <2>2, <2>3 DEF IdentityNames
<1> QED BY <1>2, <1>3, <1>4 DEF IdentityInv

\* A request r begins.
LEMMA IdentityBegins ==
  ASSUME IdentityInv, NEW c \in Client, NEW r, W!Begin(c, r), r # W!Idle,
         r.op = "name" => r.name \in WorkspaceName,
         ~tangled /\ W!Quiet /\ r.op \in W!Handling => Midway(c)',
         apart /\ failures = 0 /\ ~tangled /\ IdentityNamed => IdentityNaming(c)'
  PROVE  IdentityInv'
<1>1. /\ idReq' = [d \in Client |-> idReq'[d]] /\ idReq'[c] = r
      /\ \A d \in Client \ {c} : idReq'[d] = idReq[d]
      /\ UNCHANGED <<workspace, entra, given, link, grants, failures>>
      /\ idReq[c] = W!Idle
  BY DEF IdentityInv, IdentityTyped, W!Begin
<1>2. /\ apart' => apart /\ \A d \in Client : idReq[d] = W!Idle
      /\ ~tangled' => ~tangled /\ (r.op \in W!Handling => W!Quiet)
  BY DEF W!Begin, W!Quiet
<1>3. IdentityTyped' /\ IdentityAlone'
  BY <1>1, <1>2 DEF IdentityInv, IdentityTyped, IdentityAlone
<1>4. Handled'
  <2> SUFFICES ASSUME ~tangled' PROVE Handled'
    BY DEF Handled
  <2>1. \A d \in Client \ {c} : Midway(d)'
    <3>1. Agreed' <=> Agreed
      BY <1>1 DEF Agreed
    <3>2. \A d \in Client \ {c} : Midway(d)
      BY <1>2 DEF IdentityInv, Handled
    <3> QED BY <1>1, <3>1, <3>2 DEF Midway
  <2>2. CASE r.op \in W!Handling
    BY <1>1, <1>2, <2>1, <2>2 DEF Handled, W!Quiet
  <2>3. CASE r.op \notin W!Handling
    <3>1. Midway(c)'
      BY <1>1, <2>3 DEF Midway, W!Handling
    <3>2. (W!Quiet' => W!Quiet) /\ (Agreed' <=> Agreed)
      BY <1>1 DEF W!Quiet, Agreed, W!Idle, W!Handling
    <3> QED BY <1>1, <1>2, <2>1, <2>3, <3>1, <3>2 DEF IdentityInv, Handled
  <2> QED BY <2>2, <2>3
<1>5. IdentityNames'
  <2> SUFFICES ASSUME apart', failures = 0 PROVE IdentityNames'
    BY <1>1 DEF IdentityNames
  <2>1. apart /\ IdentityNamed /\ ~tangled /\ \A d \in Client : idReq[d] = W!Idle
    BY <1>2 DEF IdentityInv, IdentityNames
  <2>2. ~tangled'
    <3>1. \A d \in Client : idReq[d].op \notin W!Handling
      BY <2>1 DEF W!Idle, W!Handling
    <3> QED BY <2>1, <3>1 DEF W!Begin
  <2>3. \A d \in Client \ {c} : IdentityNaming(d)'
    BY <1>1, <2>1 DEF IdentityNaming, W!Idle
  <2> QED BY <1>1, <2>1, <2>2, <2>3 DEF IdentityNames
<1> QED BY <1>3, <1>4, <1>5 DEF IdentityInv

\* What a step knows.
LEMMA IdentityKnown ==
  ASSUME IdentityInv, NEW c \in Client
  PROVE  /\ workspace \in [there : BOOLEAN, name : WorkspaceName] /\ failures \in Nat
         /\ idReq = [d \in Client |-> idReq[d]]
         /\ ~tangled => Midway(c) /\ (W!Quiet => Agreed)
         /\ apart /\ failures = 0 => ~tangled /\ IdentityNaming(c)
  BY DEF IdentityInv, IdentityTyped, Handled, IdentityNames

LEMMA IdentityNext ==
  ASSUME W!IdentityAssumption, IdentityInv, [W!Next]_(W!vars) PROVE IdentityInv'
<1>1. ASSUME NEW c \in Client, W!ProvisionIdentity(c) PROVE IdentityInv'
  <2>1. PICK r : r = [op |-> "create", name |-> workspace.name]
    OBVIOUS
  <2>2. W!Begin(c, r) /\ r # W!Idle /\ link = None /\ workspace.there /\ r.op # "name"
    BY <1>1, <2>1 DEF W!ProvisionIdentity, W!Idle, W!Begin
  <2>3. idReq'[c] = r /\ UNCHANGED <<workspace, entra, link, grants>>
    BY <2>2, IdentityKnown DEF W!Begin
  <2>4. ~tangled /\ W!Quiet => Midway(c)'
    <3>1. Agreed' <=> Agreed
      BY <2>3 DEF Agreed
    <3>2. ~tangled /\ W!Quiet => Agreed
      BY IdentityKnown
    <3> QED BY <2>1, <2>2, <2>3, <3>1, <3>2 DEF Midway
  <2>5. IdentityNaming(c)'
    BY <2>1, <2>3 DEF IdentityNaming
  <2> QED BY <2>2, <2>4, <2>5, IdentityBegins
<1>2. ASSUME NEW c \in Client, W!CreateIdentity(c) PROVE IdentityInv'
  <2>1. PICK i \in Identity : 
          /\ idReq[c].op = "create"
          /\ entra' = [j \in DOMAIN entra \cup {i} |-> IF j = i THEN idReq[c].name ELSE entra[j]]
          /\ W!Goto(c, [op |-> "link", id |-> i])
          /\ UNCHANGED <<workspace, link, grants>>
    BY <1>2 DEF W!CreateIdentity
  <2>2. PICK r : r = [op |-> "link", id |-> i]
    OBVIOUS
  <2>3. /\ idReq' = [idReq EXCEPT ![c] = r] /\ idReq'[c] = r
        /\ UNCHANGED <<failures, tangled, apart>>
        /\ idReq[c] # W!Idle /\ r # W!Idle
        /\ idReq[c].op \in W!Handling /\ r.op \in W!Handling /\ r.op # "name"
    BY <2>1, <2>2, IdentityKnown DEF W!Goto, W!Idle, W!Handling
  <2>4. ASSUME ~tangled PROVE Midway(c)'
    BY <2>1, <2>2, <2>3, <2>4, IdentityKnown DEF Midway, Agreed, W!Handling, W!IdentityAssumption
  <2>5. ASSUME apart, failures = 0 PROVE IdentityNaming(c)'
    BY <2>1, <2>2, <2>3, <2>5, IdentityKnown DEF IdentityNaming
  <2> QED BY <2>1, <2>3, <2>4, <2>5, IdentityKnown, IdentityGoesOn
<1>3. ASSUME NEW c \in Client, W!SetWorkspaceIdentity(c) PROVE IdentityInv'
  <2>1. idReq[c].op = "link" /\ idReq[c] # W!Idle /\ idReq[c].op \in W!Handling
    BY <1>3 DEF W!SetWorkspaceIdentity, W!Idle, W!Handling
  <2>2. CASE workspace.there
    <3>1. PICK r : r = [op |-> "grant", id |-> idReq[c].id]
      OBVIOUS
    <3>2. /\ idReq' = [idReq EXCEPT ![c] = r] /\ idReq'[c] = r
          /\ UNCHANGED <<failures, tangled, apart, workspace, entra, grants>>
          /\ link' = idReq[c].id /\ r # W!Idle /\ r.op \in W!Handling /\ r.op # "name"
      BY <1>3, <2>2, <3>1, IdentityKnown DEF W!SetWorkspaceIdentity, W!Goto, W!Idle, W!Handling
    <3>3. ASSUME ~tangled PROVE Midway(c)'
      BY <2>1, <3>1, <3>2, <3>3, IdentityKnown DEF Midway, W!Handling
    <3>4. ASSUME apart, failures = 0 PROVE IdentityNaming(c)'
      BY <2>1, <3>1, <3>2, <3>4, IdentityKnown DEF IdentityNaming, IdentityNamed
    <3> QED BY <2>1, <3>2, <3>3, <3>4, IdentityKnown, IdentityGoesOn
  <2>3. CASE ~workspace.there
    <3>1. /\ idReq' = [idReq EXCEPT ![c] = W!Idle] /\ idReq'[c] = W!Idle
          /\ UNCHANGED <<failures, tangled, apart, workspace, entra, grants, link>>
      BY <1>3, <2>3, IdentityKnown DEF W!SetWorkspaceIdentity, W!Refuse, W!Goto
    <3>2. tangled /\ (apart => failures # 0)
      BY <2>1, <2>3, IdentityKnown DEF Midway
    <3> QED BY <2>1, <3>1, <3>2, IdleOp, IdentityKnown, IdentityGoesOn
  <2> QED BY <2>2, <2>3
<1>4. ASSUME NEW c \in Client, W!GrantAdmin(c) PROVE IdentityInv'
  <2>1. idReq[c].op = "grant" /\ idReq[c] # W!Idle /\ idReq[c].op \in W!Handling
    BY <1>4 DEF W!GrantAdmin, W!Idle, W!Handling
  <2>2. /\ idReq' = [idReq EXCEPT ![c] = W!Idle] /\ idReq'[c] = W!Idle
        /\ UNCHANGED <<failures, tangled, apart, workspace, entra, link>>
    BY <1>4, IdentityKnown DEF W!GrantAdmin, W!Refuse, W!Goto
  <2>3. ASSUME ~tangled PROVE Midway(c)' /\ Agreed'
    <3>1. workspace.there
      BY <2>1, <2>3, IdentityKnown DEF Midway
    <3>2. grants' = grants \cup {idReq[c].id}
      BY <3>1, <1>4 DEF W!GrantAdmin
    <3>3. Agreed'
      BY <2>1, <2>2, <2>3, <3>2, IdentityKnown DEF Midway, Agreed
    <3> QED BY <2>2, <3>3 DEF Midway, W!Idle, W!Handling
  <2>4. ASSUME apart, failures = 0 PROVE IdentityNaming(c)' /\ IdentityNamed'
    BY <2>1, <2>2, <2>4, IdentityKnown DEF IdentityNaming, IdentityNamed, W!Idle
  <2> QED BY <2>1, <2>2, <2>3, <2>4, IdleOp, IdentityKnown, IdentityGoesOn
<1>5. ASSUME NEW c \in Client, W!DeprovisionIdentity(c) PROVE IdentityInv'
  <2>1. PICK r : r = [op |-> "erase", id |-> link]
    OBVIOUS
  <2>2. W!Begin(c, r) /\ r # W!Idle /\ link # None /\ workspace.there /\ r.op # "name"
    BY <1>5, <2>1 DEF W!DeprovisionIdentity, W!Idle, W!Begin
  <2>3. idReq'[c] = r /\ UNCHANGED <<workspace, entra, link, grants>>
    BY <2>2, IdentityKnown DEF W!Begin
  <2>4. ~tangled /\ W!Quiet => Midway(c)'
    <3>1. Agreed' <=> Agreed
      BY <2>3 DEF Agreed
    <3>2. ~tangled /\ W!Quiet => Agreed
      BY IdentityKnown
    <3> QED BY <2>1, <2>2, <2>3, <3>1, <3>2 DEF Midway
  <2>5. IdentityNaming(c)'
    BY <2>1, <2>3 DEF IdentityNaming
  <2> QED BY <2>2, <2>4, <2>5, IdentityBegins
<1>6. ASSUME NEW c \in Client, W!EraseIdentity(c) PROVE IdentityInv'
  <2>1. idReq[c].op \in {"erase", "cascade"} /\ idReq[c] # W!Idle /\ idReq[c].op \in W!Handling
    BY <1>6 DEF W!EraseIdentity, W!Idle, W!Handling
  <2>2. CASE idReq[c].id \in DOMAIN entra
    <3>1. PICK r : r = [op |-> IF idReq[c].op = "erase" THEN "unlink" ELSE "drop",
                        id |-> idReq[c].id]
      OBVIOUS
    <3>2. /\ idReq' = [idReq EXCEPT ![c] = r] /\ idReq'[c] = r
          /\ UNCHANGED <<failures, tangled, apart, workspace, link, grants>>
          /\ DOMAIN entra' = DOMAIN entra \ {idReq[c].id}
          /\ r # W!Idle /\ r.op \in W!Handling /\ r.op # "name"
      BY <1>6, <2>2, <3>1, IdentityKnown DEF W!EraseIdentity, W!Goto, W!Idle, W!Handling, W!Restrict
    <3>3. ASSUME ~tangled PROVE Midway(c)'
      <4>1. /\ workspace.there /\ link = idReq[c].id /\ link # None
            /\ DOMAIN entra = {idReq[c].id} /\ grants = {idReq[c].id}
        BY <2>1, <3>3, IdentityKnown DEF Midway, Agreed
      <4>2. r.op \in {"unlink", "drop"} /\ r.id = idReq[c].id
        BY <3>1
      <4>3. idReq'[c] = r /\ workspace' = workspace /\ link' = link
            /\ grants' = grants /\ DOMAIN entra' = {}
        BY <3>2, <4>1
      <4> QED BY <4>1, <4>2, <4>3 DEF Midway, W!Handling
    <3>4. IdentityNaming(c)'
      BY <2>1, <3>1, <3>2 DEF IdentityNaming
    <3> QED BY <2>1, <3>2, <3>3, <3>4, IdentityKnown, IdentityGoesOn
  <2>3. CASE idReq[c].id \notin DOMAIN entra
    <3>1. /\ idReq' = [idReq EXCEPT ![c] = W!Idle] /\ idReq'[c] = W!Idle
          /\ UNCHANGED <<failures, tangled, apart, workspace, entra, grants, link>>
      BY <1>6, <2>3, IdentityKnown DEF W!EraseIdentity, W!Refuse, W!Goto
    <3>2. tangled /\ (apart => failures # 0)
      BY <2>1, <2>3, IdentityKnown DEF Midway, Agreed
    <3> QED BY <2>1, <3>1, <3>2, IdleOp, IdentityKnown, IdentityGoesOn
  <2> QED BY <2>2, <2>3
<1>7. ASSUME NEW c \in Client, W!DeleteLink(c) PROVE IdentityInv'
  <2>1. idReq[c].op = "unlink" /\ idReq[c] # W!Idle /\ idReq[c].op \in W!Handling
    BY <1>7 DEF W!DeleteLink, W!Idle, W!Handling
  <2>2. CASE link # None
    <3>1. PICK r : r = [op |-> "revoke", id |-> idReq[c].id]
      OBVIOUS
    <3>2. /\ idReq' = [idReq EXCEPT ![c] = r] /\ idReq'[c] = r
          /\ UNCHANGED <<failures, tangled, apart, workspace, entra, grants>>
          /\ link' = None /\ r # W!Idle /\ r.op \in W!Handling /\ r.op # "name"
      BY <1>7, <2>2, <3>1, IdentityKnown DEF W!DeleteLink, W!Goto, W!Idle, W!Handling
    <3>3. ASSUME ~tangled PROVE Midway(c)'
      BY <2>1, <3>1, <3>2, <3>3, IdentityKnown DEF Midway, W!Handling
    <3>4. IdentityNaming(c)'
      BY <3>1, <3>2 DEF IdentityNaming
    <3> QED BY <2>1, <3>2, <3>3, <3>4, IdentityKnown, IdentityGoesOn
  <2>3. CASE link = None
    <3>1. /\ idReq' = [idReq EXCEPT ![c] = W!Idle] /\ idReq'[c] = W!Idle
          /\ UNCHANGED <<failures, tangled, apart, workspace, entra, grants, link>>
      BY <1>7, <2>3, IdentityKnown DEF W!DeleteLink, W!Refuse, W!Goto
    <3>2. tangled /\ (apart => failures # 0)
      BY <2>1, <2>3, IdentityKnown DEF Midway
    <3> QED BY <2>1, <3>1, <3>2, IdleOp, IdentityKnown, IdentityGoesOn
  <2> QED BY <2>2, <2>3
<1>8. ASSUME NEW c \in Client, W!RevokePrincipal(c) PROVE IdentityInv'
  <2>1. idReq[c].op = "revoke" /\ idReq[c] # W!Idle /\ idReq[c].op \in W!Handling
    BY <1>8 DEF W!RevokePrincipal, W!Idle, W!Handling
  <2>2. /\ idReq' = [idReq EXCEPT ![c] = W!Idle] /\ idReq'[c] = W!Idle
        /\ UNCHANGED <<failures, tangled, apart, workspace, entra, link>>
        /\ grants' = grants \ {idReq[c].id}
    BY <1>8, IdentityKnown DEF W!RevokePrincipal, W!Goto
  <2>3. ASSUME ~tangled PROVE Midway(c)' /\ Agreed' /\ IdentityNamed'
    <3>1. Agreed' /\ IdentityNamed'
      BY <2>1, <2>2, <2>3, IdentityKnown DEF Midway, Agreed, IdentityNamed
    <3> QED BY <2>2, <3>1 DEF Midway, W!Idle, W!Handling
  <2>4. ASSUME apart, failures = 0 PROVE IdentityNaming(c)' /\ ~tangled
    BY <2>2, <2>4, IdentityKnown DEF IdentityNaming, W!Idle
  <2> QED BY <2>1, <2>2, <2>3, <2>4, IdleOp, IdentityKnown, IdentityGoesOn
<1>9. ASSUME NEW c \in Client, W!UpdateWorkspace(c) PROVE IdentityInv'
  <2>1. PICK n \in WorkspaceName :
          W!Begin(c, [op |-> "name", name |-> n, renamed |-> n # workspace.name])
    BY <1>9 DEF W!UpdateWorkspace
  <2>2. PICK r : r = [op |-> "name", name |-> n, renamed |-> n # workspace.name]
    OBVIOUS
  <2>3. W!Begin(c, r) /\ r # W!Idle /\ r.op \notin W!Handling
    BY <2>1, <2>2 DEF W!Idle, W!Handling
  <2>4. idReq'[c] = r /\ UNCHANGED <<workspace, entra, link, grants>>
    BY <2>3, IdentityKnown DEF W!Begin
  <2>5. IdentityNamed => IdentityNaming(c)'
    <3>1. r.op = "name" /\ (r.renamed <=> n # workspace.name) /\ r.name = n
      BY <2>2
    <3> QED BY <3>1, <2>4 DEF IdentityNaming, IdentityNamed
  <2>6. r.name \in WorkspaceName
    BY <2>2
  <2> QED BY <2>3, <2>5, <2>6, IdentityBegins
<1>10. ASSUME NEW c \in Client, W!WriteName(c) PROVE IdentityInv'
  <2>1. /\ idReq[c].op = "name" /\ idReq[c] # W!Idle
        /\ idReq[c].op \notin W!Handling /\ idReq[c].name \in WorkspaceName
    BY <1>10, IdentityKnown DEF W!WriteName, W!Idle, W!Handling, IdentityInv, IdentityTyped
  <2>2. CASE workspace.there
    <3>1. PICK r : r = IF idReq[c].renamed THEN [op |-> "follow", name |-> idReq[c].name]
                      ELSE W!Idle
      OBVIOUS
    <3>2. /\ idReq' = [idReq EXCEPT ![c] = r] /\ idReq'[c] = r
          /\ UNCHANGED <<failures, tangled, apart, entra, link, grants>>
          /\ workspace' = [workspace EXCEPT !.name = idReq[c].name]
      BY <1>10, <2>2, <3>1, IdentityKnown DEF W!WriteName
    <3>3. /\ workspace' \in [there : BOOLEAN, name : WorkspaceName]
          /\ workspace'.there = workspace.there /\ workspace'.name = idReq[c].name
      BY <2>1, <3>2, IdentityKnown
    <3>4. r.op \notin W!Handling /\ r.op # "name" /\ Midway(c)'
      BY <3>1, <3>2 DEF W!Idle, W!Handling, Midway
    <3>5. ASSUME apart, failures = 0 PROVE IdentityNaming(c)' /\ (r = W!Idle => IdentityNamed')
      <4>1. IdentityNamed /\ (idReq[c].renamed \/ idReq[c].name = workspace.name)
        BY <2>1, <3>5, IdentityKnown DEF IdentityNaming
      <4>2. CASE idReq[c].renamed
        BY <3>1, <3>2, <3>3, <4>2 DEF IdentityNaming, W!Idle
      <4>3. CASE ~idReq[c].renamed
        <5>1. r = W!Idle /\ workspace'.name = workspace.name
          BY <3>1, <3>3, <4>1, <4>3
        <5> QED BY <3>2, <4>1, <5>1 DEF IdentityNaming, IdentityNamed, W!Idle
      <4> QED BY <4>2, <4>3
    <3> QED BY <2>1, <3>2, <3>3, <3>4, <3>5, IdentityGoesOn
  <2>3. CASE ~workspace.there
    <3>1. /\ idReq' = [idReq EXCEPT ![c] = W!Idle] /\ idReq'[c] = W!Idle
          /\ UNCHANGED <<failures, tangled, apart, workspace, entra, grants, link>>
      BY <1>10, <2>3, IdentityKnown DEF W!WriteName, W!Refuse, W!Goto
    <3>2. Midway(c)' /\ IdentityNaming(c)'
      BY <3>1 DEF W!Idle, W!Handling, Midway, IdentityNaming
    <3>3. apart /\ failures = 0 => IdentityNamed'
      BY <2>1, <3>1, IdentityKnown DEF IdentityNaming, IdentityNamed
    <3> QED BY <2>1, <3>1, <3>2, <3>3, IdleOp, IdentityKnown, IdentityGoesOn
  <2> QED BY <2>2, <2>3
<1>11. ASSUME NEW c \in Client, W!FollowName(c) PROVE IdentityInv'
  <2>1. idReq[c].op = "follow" /\ idReq[c] # W!Idle /\ idReq[c].op \notin W!Handling
    BY <1>11 DEF W!FollowName, W!Idle, W!Handling
  <2>2. /\ idReq' = [idReq EXCEPT ![c] = W!Idle] /\ idReq'[c] = W!Idle
        /\ UNCHANGED <<failures, tangled, apart, workspace, grants, link>>
        /\ entra' = IF link \in DOMAIN entra THEN [entra EXCEPT ![link] = idReq[c].name] ELSE entra
    BY <1>11, IdentityKnown DEF W!FollowName
  <2>3. DOMAIN entra' = DOMAIN entra
    BY <2>2
  <2>4. Midway(c)' /\ IdentityNaming(c)'
    BY <2>2 DEF W!Idle, W!Handling, Midway, IdentityNaming
  <2>5. ASSUME apart, failures = 0 PROVE IdentityNamed'
    <3>1. /\ ~tangled /\ idReq[c].name = workspace.name
          /\ \A d \in Client \ {c} : idReq[d] = W!Idle
      BY <2>1, <2>5, IdentityKnown DEF IdentityNaming, IdentityInv, IdentityAlone
    <3>2. Agreed
      BY <2>1, <3>1, IdentityKnown DEF W!Quiet, W!Idle, W!Handling
    <3> QED BY <2>2, <3>1, <3>2 DEF Agreed, IdentityNamed
  <2> QED BY <2>1, <2>2, <2>3, <2>4, <2>5, IdleOp, IdentityKnown, IdentityGoesOn
<1>12. ASSUME NEW c \in Client, W!DeleteWorkspace(c) PROVE IdentityInv'
  <2>1. PICK r : r = [op |-> IF link = None THEN "drop" ELSE "cascade", id |-> link]
    OBVIOUS
  <2>2. W!Begin(c, r) /\ r # W!Idle /\ workspace.there /\ r.op # "name"
    BY <1>12, <2>1 DEF W!DeleteWorkspace, W!Idle, W!Begin
  <2>3. idReq'[c] = r /\ UNCHANGED <<workspace, entra, link, grants>>
    BY <2>2, IdentityKnown DEF W!Begin
  <2>4. ~tangled /\ W!Quiet => Midway(c)'
    <3>1. Agreed' <=> Agreed
      BY <2>3 DEF Agreed
    <3>2. ~tangled /\ W!Quiet => Agreed
      BY IdentityKnown
    <3>3. CASE link = None
      <4>1. idReq'[c].op = "drop" /\ workspace'.there
        BY <2>1, <2>2, <2>3, <3>3
      <4>2. ~tangled /\ W!Quiet => DOMAIN entra' = {}
        BY <2>3, <3>2, <3>3 DEF Agreed
      <4> QED BY <4>1, <4>2 DEF Midway
    <3>4. CASE link # None
      BY <2>1, <2>2, <2>3, <3>1, <3>2, <3>4 DEF Midway
    <3> QED BY <3>3, <3>4
  <2>5. IdentityNaming(c)'
    BY <2>1, <2>3 DEF IdentityNaming
  <2> QED BY <2>2, <2>4, <2>5, IdentityBegins
<1>13. ASSUME NEW c \in Client, W!DropWorkspace(c) PROVE IdentityInv'
  <2>1. idReq[c].op = "drop" /\ idReq[c] # W!Idle /\ idReq[c].op \in W!Handling
    BY <1>13 DEF W!DropWorkspace, W!Idle, W!Handling
  <2>2. /\ idReq' = [idReq EXCEPT ![c] = W!Idle] /\ idReq'[c] = W!Idle
        /\ UNCHANGED <<failures, tangled, apart, entra>> /\ link' = None /\ grants' = {}
        /\ workspace' \in [there : BOOLEAN, name : WorkspaceName]
    BY <1>13, IdentityKnown DEF W!DropWorkspace, W!Goto
  <2>3. Midway(c)' /\ IdentityNaming(c)' /\ IdentityNamed'
    BY <2>2 DEF W!Idle, W!Handling, Midway, IdentityNaming, IdentityNamed
  <2>4. ~tangled => Agreed'
    BY <2>1, <2>2, IdentityKnown DEF Midway, Agreed
  <2> QED BY <2>1, <2>2, <2>3, <2>4, IdleOp, IdentityGoesOn
<1>14. ASSUME NEW c \in Client, W!Fail(c) PROVE IdentityInv'
  <2>1. /\ idReq' = [idReq EXCEPT ![c] = W!Idle] /\ idReq'[c] = W!Idle /\ idReq[c] # W!Idle
        /\ UNCHANGED <<apart, workspace, entra, link, grants>>
        /\ idReq' = [d \in Client |-> idReq'[d]] /\ \A d \in Client \ {c} : idReq'[d] = idReq[d]
    BY <1>14, IdentityKnown DEF W!Fail
  <2>6. failures' \in Nat /\ failures' # 0
    <3>1. failures \in Nat /\ failures' = failures + 1
      BY <1>14, IdentityKnown DEF W!Fail
    <3> QED BY <3>1
  <2>5. ~tangled' => ~tangled /\ idReq[c].op \notin {"link", "grant", "unlink", "revoke", "drop"}
    BY <1>14 DEF W!Fail
  <2>2. IdentityTyped' /\ IdentityAlone' /\ IdentityNames'
    BY <2>1, <2>6 DEF IdentityInv, IdentityTyped, IdentityAlone, IdentityNames, W!Idle
  <2>3. Agreed' <=> Agreed
    BY <2>1 DEF Agreed
  <2>4. ASSUME ~tangled' PROVE Handled'
    <3>1. \A d \in Client : Midway(d)'
      BY <2>1, <2>3, <2>4, <2>5 DEF IdentityInv, Handled, Midway, W!Idle, W!Handling
    <3>2. W!Quiet' => Agreed
      <4>1. CASE idReq[c].op \in W!Handling
        BY <2>1, <2>4, <2>5, <4>1, IdentityKnown DEF Midway, W!Handling
      <4>2. CASE idReq[c].op \notin W!Handling
        BY <2>1, <2>4, <2>5, <4>2, IdentityKnown DEF W!Quiet
      <4> QED BY <4>1, <4>2
    <3> QED BY <2>1, <2>3, <2>4, <2>5, <3>1, <3>2 DEF IdentityInv, Handled, W!Idle, W!Handling
  <2> QED BY <2>2, <2>4 DEF IdentityInv, Handled
<1>15. CASE UNCHANGED W!vars
  BY <1>15 DEF W!vars, IdentityInv, IdentityTyped, Handled, Midway, Agreed, W!Quiet,
              IdentityAlone, IdentityNames, IdentityNaming, IdentityNamed
<1> QED BY <1>1, <1>2, <1>3, <1>4, <1>5, <1>6, <1>7, <1>8, <1>9, <1>10, <1>11, <1>12, <1>13, <1>14,
           <1>15 DEF W!Next

-----------------------------------------------------------------------------
(* Folders: no folder comes under itself.                                    *)

Places == Folder \cup {Root}

\* What a request remembers between its statements.
FolderRequests ==
  {F!Idle}
  \cup [op : {"create"}, row : F!Row]
  \cup [op : {"rename"}, id : Folder, name : FolderName]
  \cup [op : {"count", "delete"}, id : Folder]
  \cup [op : {"target", "reparent"}, id : Folder, to : Places]
  \cup [op : {"walk"}, id : Folder, to : Places, cur : Places, seen : SUBSET Folder]
  \cup [op : {"look", "bulk"}, ask : SUBSET FolderItem, left : SUBSET FolderItem,
        all : SUBSET FolderItem, to : Places]

FoldersTyped ==
  /\ made \subseteq Folder /\ placed \subseteq FolderItem
  /\ F!Folders \subseteq made /\ F!Items \subseteq placed
  /\ folder \in [F!Folders -> F!Row] /\ place \in [F!Items -> Places]
  /\ folderReq \in [Client -> FolderRequests]
  /\ alone \in [Client -> BOOLEAN] /\ clean \in BOOLEAN

\* The folders up from the target are noted, to the root, and id is not one of them.
RootedAway(id, to) ==
  \E A \in SUBSET F!Folders :
    id \notin A /\ to \in A \cup {Root} /\ \A x \in A : folder[x].parent \in A \cup {Root}

\* What a request that nobody wrote under has made sure of.
Sure(r) ==
  /\ r.op = "create" => F!Exists(r.row.parent)
  /\ r.op \in {"count", "delete"} => \A g \in F!Folders : folder[g].parent # r.id
  /\ r.op = "walk" =>
       /\ r.seen \subseteq F!Folders /\ r.id \notin r.seen /\ r.to \in r.seen \cup {r.cur}
       /\ \A g \in r.seen : folder[g].parent \in r.seen \cup {r.cur}
  /\ r.op = "reparent" => RootedAway(r.id, r.to)
  /\ r.op \in {"look", "bulk"} =>
       r.left \ r.ask \subseteq F!Items /\ (r.left # r.all => r.ask = {})

FoldersInv == FoldersTyped /\ F!Rooted /\ \A c \in Client : alone[c] => Sure(folderReq[c])

-----------------------------------------------------------------------------
LEMMA IdleIsSure == Sure(F!Idle) /\ Sure(F!Idle)' /\ F!Idle \in FolderRequests
BY DEF Sure, F!Idle, FolderRequests

LEMMA FolderGoes ==
  ASSUME FoldersInv, NEW c \in Client, NEW r \in FolderRequests, F!Goto(c, r), alone[c] => Sure(r)
  PROVE  FoldersInv'
<1>1. /\ folderReq' = [folderReq EXCEPT ![c] = r]
      /\ UNCHANGED <<folder, made, place, placed, alone, clean>>
      /\ folderReq \in [Client -> FolderRequests] /\ alone \in [Client -> BOOLEAN]
  BY DEF F!Goto, FoldersInv, FoldersTyped
<1>2. FoldersTyped' /\ F!Rooted'
  BY <1>1 DEF FoldersInv, FoldersTyped, F!Folders, F!Items, F!Row, FolderRequests, Places,
              F!Rooted, F!Forest, F!NoFolderCycle,
              F!Exists, F!Idle
<1>3. ASSUME NEW d \in Client, alone'[d] PROVE Sure(folderReq[d])'
  <2>1. alone[d] /\ Sure(folderReq'[d])
    BY <1>1, <1>3 DEF FoldersInv
  <2> QED BY <1>1, <2>1 DEF Sure, RootedAway, F!Exists, F!Folders, F!Items
<1> QED BY <1>2, <1>3 DEF FoldersInv

LEMMA FolderBegins ==
  ASSUME FoldersInv, NEW c \in Client, NEW r \in FolderRequests, F!Begin(c, r), Sure(r)
  PROVE  FoldersInv'
<1>1. /\ folderReq' = [folderReq EXCEPT ![c] = r] /\ alone' = [alone EXCEPT ![c] = TRUE]
      /\ UNCHANGED <<folder, made, place, placed, clean>>
      /\ folderReq \in [Client -> FolderRequests] /\ alone \in [Client -> BOOLEAN]
  BY DEF F!Begin, FoldersInv, FoldersTyped
<1>2. FoldersTyped' /\ F!Rooted'
  BY <1>1 DEF FoldersInv, FoldersTyped, F!Folders, F!Items, F!Row, FolderRequests, Places,
              F!Rooted, F!Forest, F!NoFolderCycle,
              F!Exists, F!Idle
<1>3. ASSUME NEW d \in Client, alone'[d] PROVE Sure(folderReq[d])'
  <2>1. Sure(folderReq'[d])
    BY <1>1, <1>3 DEF FoldersInv
  <2> QED BY <1>1, <2>1 DEF Sure, RootedAway, F!Exists, F!Folders, F!Items
<1> QED BY <1>2, <1>3 DEF FoldersInv

\* A write ends what others were sure of.
LEMMA FolderWrites ==
  ASSUME FoldersInv, NEW c \in Client, NEW r \in FolderRequests, F!Wrote(c, r),
         made' \subseteq Folder, placed' \subseteq FolderItem,
         F!Folders' \subseteq made', F!Items' \subseteq placed',
         folder' \in [F!Folders' -> F!Row], place' \in [F!Items' -> Places],
         alone[c] => Sure(r)', clean /\ alone[c] => F!Forest'
  PROVE  FoldersInv'
<1>1. /\ folderReq' = [folderReq EXCEPT ![c] = r] /\ clean' = (clean /\ alone[c])
      /\ alone' = [d \in Client |-> alone[d] /\ (d = c \/ folderReq[d] = F!Idle)]
      /\ folderReq \in [Client -> FolderRequests] /\ alone \in [Client -> BOOLEAN]
      /\ clean \in BOOLEAN
  BY DEF F!Wrote, FoldersInv, FoldersTyped
<1>2. FoldersTyped'
  <2>1. folderReq' \in [Client -> FolderRequests]
    BY <1>1
  <2>2. alone' \in [Client -> BOOLEAN] /\ clean' \in BOOLEAN
    BY <1>1
  <2> QED BY <2>1, <2>2 DEF FoldersTyped, Places, FolderRequests, F!Row, F!Idle
<1>3. F!Rooted'
  BY <1>1 DEF F!Rooted
<1>4. ASSUME NEW d \in Client, alone'[d] PROVE Sure(folderReq[d])'
  <2>1. alone[d] /\ (d = c \/ folderReq'[d] = F!Idle)
    BY <1>1, <1>4
  <2>2. CASE d = c
    BY <1>1, <2>1, <2>2
  <2>3. CASE folderReq'[d] = F!Idle
    BY <2>3, IdleIsSure
  <2> QED BY <2>1, <2>2, <2>3
<1> QED BY <1>2, <1>3, <1>4 DEF FoldersInv

\* What is noted while nobody wrote under a request.
LEMMA FolderKnown ==
  ASSUME FoldersInv, NEW c \in Client
  PROVE  /\ folder \in [F!Folders -> F!Row] /\ place \in [F!Items -> Places]
         /\ folderReq[c] \in FolderRequests
         /\ made \subseteq Folder /\ placed \subseteq FolderItem
         /\ F!Folders \subseteq made /\ F!Items \subseteq placed
         /\ alone[c] => Sure(folderReq[c])
         /\ clean => F!Forest
BY DEF FoldersInv, FoldersTyped, F!Rooted

LEMMA FolderRowed ==
  ASSUME FoldersInv, NEW f \in F!Folders
  PROVE  /\ folder[f].name \in FolderName /\ folder[f].parent \in Places
         /\ folder[f] \in F!Row /\ f \in Folder
BY DEF FoldersInv, FoldersTyped, F!Row, Places

LEMMA FolderShapes ==
  ASSUME NEW r \in FolderRequests
  PROVE  /\ r.op = "create" => r.row \in F!Row
         /\ r.op = "rename" => r.id \in Folder /\ r.name \in FolderName
         /\ r.op \in {"count", "delete"} => r.id \in Folder
         /\ r.op \in {"target", "reparent"} => r.id \in Folder /\ r.to \in Places
         /\ r.op = "walk" => /\ r.id \in Folder /\ r.to \in Places /\ r.cur \in Places
                             /\ r.seen \subseteq Folder
                             /\ r = [op |-> "walk", id |-> r.id, to |-> r.to, cur |-> r.cur,
                                     seen |-> r.seen]
         /\ r.op \in {"look", "bulk"} =>
              /\ r.ask \subseteq FolderItem /\ r.left \subseteq FolderItem
              /\ r.all \subseteq FolderItem
              /\ r.to \in Places
              /\ r = [op |-> r.op, ask |-> r.ask, left |-> r.left, all |-> r.all, to |-> r.to]
BY DEF FolderRequests, F!Idle, Places

-----------------------------------------------------------------------------
(* What a write does to the tree.                                            *)

\* A folder made where its parent is hangs from the root.
LEMMA Grown ==
  ASSUME F!FoldersAssumption, FoldersInv, F!Forest, NEW f \in Folder \ made, NEW rec \in F!Row,
         F!Exists(rec.parent),
         folder' = [g \in F!Folders \cup {f} |-> IF g = f THEN rec ELSE folder[g]]
  PROVE  F!Forest'
<1>1. f \notin F!Folders /\ f # Root /\ Root \notin F!Folders /\ F!Folders' = F!Folders \cup {f}
      /\ rec.parent \in F!Folders \cup {Root}
      /\ \A g \in F!Folders : folder'[g] = folder[g] /\ folder[g].parent \in F!Folders \cup {Root}
      /\ folder'[f] = rec
  BY DEF F!FoldersAssumption, FoldersInv, FoldersTyped, F!Folders, F!Forest, F!Exists
<1>2. ASSUME NEW S \in SUBSET F!Folders', S # {}, \A g \in S : folder'[g].parent \in S
      PROVE  FALSE
  <2>1. \A g \in S \ {f} : folder[g].parent \in S \ {f}
    BY <1>1, <1>2
  <2>2. S \ {f} \in SUBSET F!Folders
    BY <1>1
  <2>3. S \ {f} = {}
    BY <2>1, <2>2 DEF F!Forest, F!NoFolderCycle
  <2>4. f \in S /\ S = {f}
    BY <1>2, <2>3
  <2>5. folder'[f].parent = f
    BY <1>2, <2>4
  <2> QED BY <1>1, <2>5
<1>3. \A g \in F!Folders' : F!Exists(folder[g].parent)'
  BY <1>1 DEF F!Exists
<1> QED BY <1>2, <1>3 DEF F!Forest, F!NoFolderCycle

\* A name is no place.
LEMMA Renamed ==
  ASSUME FoldersInv, F!Forest, NEW f \in F!Folders, NEW n,
         folder' = [folder EXCEPT ![f] = [folder[f] EXCEPT !.name = n]]
  PROVE  F!Forest'
<1>1. /\ F!Folders' = F!Folders /\ \A g \in F!Folders : folder'[g].parent = folder[g].parent
  BY DEF FoldersInv, FoldersTyped, F!Row, F!Folders
<1> QED BY <1>1 DEF F!Forest, F!NoFolderCycle, F!Exists

\* A folder without a child can go.
LEMMA Pruned ==
  ASSUME FoldersInv, F!Forest, NEW f \in F!Folders, \A g \in F!Folders : folder[g].parent # f,
         folder' = F!Restrict(folder, F!Folders \ {f})
  PROVE  F!Forest'
<1>1. /\ F!Folders' = F!Folders \ {f}
      /\ \A g \in F!Folders \ {f} : folder'[g] = folder[g]
  BY DEF F!Restrict, F!Folders
<1> QED BY <1>1 DEF F!Forest, F!NoFolderCycle, F!Exists

\* A folder moved under one that does not hang from it stays out of every cycle.
LEMMA Moved ==
  ASSUME F!FoldersAssumption, FoldersInv, F!Forest, NEW f \in F!Folders, NEW to, RootedAway(f, to),
         folder' = [folder EXCEPT ![f] = [folder[f] EXCEPT !.parent = to]]
  PROVE  F!Forest'
<1>1. /\ F!Folders' = F!Folders /\ \A g \in F!Folders \ {f} : folder'[g] = folder[g]
      /\ folder'[f].parent = to /\ Root \notin F!Folders
  BY DEF F!FoldersAssumption, FoldersInv, FoldersTyped, F!Row, F!Folders
<1>2. PICK A \in SUBSET F!Folders :
        f \notin A /\ to \in A \cup {Root} /\ \A x \in A : folder[x].parent \in A \cup {Root}
  BY DEF RootedAway
<1>3. ASSUME NEW S \in SUBSET F!Folders', S # {}, \A g \in S : folder'[g].parent \in S
      PROVE  FALSE
  <2>1. CASE f \notin S
    <3>1. S \in SUBSET F!Folders /\ \A g \in S : folder[g].parent \in S
      BY <1>1, <1>3, <2>1
    <3> QED BY <1>3, <3>1 DEF F!Forest, F!NoFolderCycle
  <2>2. CASE f \in S
    <3>1. to \in S \cap A
      BY <1>1, <1>2, <1>3, <2>2
    <3>2. S \cap A \in SUBSET F!Folders /\ \A g \in S \cap A : folder[g].parent \in S \cap A
      BY <1>1, <1>2, <1>3
    <3> QED BY <3>1, <3>2 DEF F!Forest, F!NoFolderCycle
  <2> QED BY <2>1, <2>2
<1>4. \A g \in F!Folders' : F!Exists(folder[g].parent)'
  BY <1>1, <1>2 DEF F!Forest, F!Exists
<1> QED BY <1>3, <1>4 DEF F!Forest, F!NoFolderCycle

-----------------------------------------------------------------------------
LEMMA FoldersInit == F!Init => FoldersInv
<1> SUFFICES ASSUME F!Init PROVE FoldersInv
  OBVIOUS
<1>1. F!Folders = {} /\ F!Items = {} /\ folder \in [{} -> F!Row] /\ place \in [{} -> Places]
  BY DEF F!Init, F!Folders, F!Items
<1>2. FoldersTyped
  BY <1>1, IdleIsSure DEF F!Init, FoldersTyped
<1>3. F!Forest
  BY <1>1 DEF F!Forest, F!NoFolderCycle
<1> QED BY <1>2, <1>3, IdleIsSure DEF F!Init, FoldersInv, F!Rooted

LEMMA FoldersNext == ASSUME F!FoldersAssumption PROVE FoldersInv /\ [F!Next]_(F!vars) => FoldersInv'
<1> SUFFICES ASSUME FoldersInv, [F!Next]_(F!vars) PROVE FoldersInv'
  OBVIOUS
<1>1. ASSUME NEW c \in Client, F!CreateFolder(c) PROVE FoldersInv'
  <2>1. PICK n \in FolderName, to \in made \cup {Root} :
          F!Exists(to) /\ F!Begin(c, [op |-> "create", row |-> [name |-> n, parent |-> to]])
    BY <1>1 DEF F!CreateFolder
  <2>2. PICK r : r = [op |-> "create", row |-> [name |-> n, parent |-> to]]
    OBVIOUS
  <2>3. r \in FolderRequests
    BY <2>2, FolderKnown DEF FolderRequests, F!Row
  <2>4. Sure(r)
    BY <2>1, <2>2 DEF Sure
  <2> QED BY <2>1, <2>2, <2>3, <2>4, FolderBegins
<1>2. ASSUME NEW c \in Client, F!UpdateFolder(c) PROVE FoldersInv'
  <2>1. PICK f \in F!Folders, n \in FolderName : F!Begin(c, [op |-> "rename", id |-> f, name |-> n])
    BY <1>2 DEF F!UpdateFolder
  <2>2. PICK r : r = [op |-> "rename", id |-> f, name |-> n]
    OBVIOUS
  <2>3. r \in FolderRequests /\ Sure(r)
    BY <2>2, FolderKnown DEF FolderRequests, Sure
  <2> QED BY <2>1, <2>2, <2>3, FolderBegins
<1>3. ASSUME NEW c \in Client, F!DeleteFolder(c) PROVE FoldersInv'
  <2>1. PICK f \in F!Folders :
          (\A g \in F!Folders : folder[g].parent # f) /\ F!Begin(c, [op |-> "count", id |-> f])
    BY <1>3 DEF F!DeleteFolder
  <2>2. PICK r : r = [op |-> "count", id |-> f]
    OBVIOUS
  <2>3. r \in FolderRequests /\ Sure(r)
    BY <2>1, <2>2, FolderKnown DEF FolderRequests, Sure
  <2> QED BY <2>1, <2>2, <2>3, FolderBegins
<1>4. ASSUME NEW c \in Client, F!MoveFolder(c) PROVE FoldersInv'
  <2>1. PICK f \in F!Folders, to \in made \cup {Root} :
          F!Begin(c, IF to = Root THEN [op |-> "reparent", id |-> f, to |-> to]
                   ELSE [op |-> "target", id |-> f, to |-> to])
    BY <1>4 DEF F!MoveFolder
  <2>2. f \in Folder /\ to \in Places
    BY FolderKnown DEF Places
  <2>3. CASE to = Root
    <3>1. PICK r : r = [op |-> "reparent", id |-> f, to |-> to]
      OBVIOUS
    <3>2. r \in FolderRequests
      BY <2>2, <3>1 DEF FolderRequests
    <3>3. Sure(r)
      <4>1. RootedAway(f, Root)
        <5>1. {} \in SUBSET F!Folders /\ f \notin {} /\ Root \in {} \cup {Root}
          OBVIOUS
        <5> QED BY <5>1 DEF RootedAway
      <4> QED BY <2>3, <3>1, <4>1 DEF Sure
    <3> QED BY <2>1, <2>3, <3>1, <3>2, <3>3, FolderBegins
  <2>4. CASE to # Root
    <3>1. PICK r : r = [op |-> "target", id |-> f, to |-> to]
      OBVIOUS
    <3>2. r \in FolderRequests /\ Sure(r)
      BY <2>2, <3>1 DEF FolderRequests, Sure
    <3> QED BY <2>1, <2>4, <3>1, <3>2, FolderBegins
  <2> QED BY <2>3, <2>4
<1>5. ASSUME NEW c \in Client, F!CreateItem(c) \/ F!DeleteItem(c) PROVE FoldersInv'
  <2>1. /\ alone' = [d \in Client |-> folderReq[d] = F!Idle]
        /\ UNCHANGED <<folder, made, folderReq, clean>>
    BY <1>5 DEF F!CreateItem, F!DeleteItem
  <2>2. /\ place' \in [F!Items' -> Places] /\ F!Items' \subseteq placed'
        /\ placed' \subseteq FolderItem
    <3>1. CASE F!CreateItem(c)
      BY <3>1, FolderKnown DEF F!CreateItem, F!Items, Places
    <3>2. CASE F!DeleteItem(c)
      BY <3>2, FolderKnown DEF F!DeleteItem, F!Items, F!Restrict
    <3> QED BY <1>5, <3>1, <3>2
  <2>3. FoldersTyped' /\ F!Rooted'
    BY <2>1, <2>2 DEF FoldersInv, FoldersTyped, F!Folders, F!Row, FolderRequests, Places, F!Rooted,
                      F!Forest, F!NoFolderCycle,
                      F!Exists, F!Idle
  <2>4. ASSUME NEW d \in Client, alone'[d] PROVE Sure(folderReq[d])'
    BY <2>1, <2>4, IdleIsSure
  <2> QED BY <2>3, <2>4 DEF FoldersInv
<1>6. ASSUME NEW c \in Client, F!MoveItem(c) PROVE FoldersInv'
  <2>1. PICK i \in F!Items, to \in made \cup {Root} :
          F!Begin(c, [op |-> IF to = Root THEN "bulk" ELSE "look", ask |-> {}, left |-> {i},
                    all |-> {i}, to |-> to])
    BY <1>6 DEF F!MoveItem
  <2>2. PICK r : r = [op |-> IF to = Root THEN "bulk" ELSE "look", ask |-> {}, left |-> {i},
                      all |-> {i}, to |-> to]
    OBVIOUS
  <2>3. i \in FolderItem /\ to \in Places /\ r.op \in {"look", "bulk"}
    BY <2>2, FolderKnown DEF Places
  <2>4. r \in FolderRequests /\ Sure(r)
    BY <2>2, <2>3 DEF FolderRequests, Sure
  <2> QED BY <2>1, <2>2, <2>4, FolderBegins
<1>7. ASSUME NEW c \in Client, F!BulkMoveItems(c) PROVE FoldersInv'
  <2>1. PICK list \in SUBSET placed, to \in made \cup {Root} :
          F!Begin(c, [op |-> "bulk", ask |-> list, left |-> list, all |-> list, to |-> to])
    BY <1>7 DEF F!BulkMoveItems
  <2>2. PICK r : r = [op |-> "bulk", ask |-> list, left |-> list, all |-> list, to |-> to]
    OBVIOUS
  <2>3. list \subseteq FolderItem /\ to \in Places
    BY FolderKnown DEF Places
  <2>4. r \in FolderRequests /\ Sure(r)
    BY <2>2, <2>3 DEF FolderRequests, Sure
  <2> QED BY <2>1, <2>2, <2>4, FolderBegins
<1>8. ASSUME NEW c \in Client, F!InsertFolder(c) PROVE FoldersInv'
  <2>1. PICK f \in Folder \ made :
          /\ folderReq[c].op = "create"
          /\ \/ /\ folder' = [g \in F!Folders \cup {f} |->
                            IF g = f THEN folderReq[c].row ELSE folder[g]]
                /\ made' = made \cup {f} /\ F!Wrote(c, F!Idle) /\ UNCHANGED <<place, placed>>
             \/ F!Goto(c, F!Idle)
    BY <1>8 DEF F!InsertFolder
  <2>2. CASE F!Goto(c, F!Idle)
    BY <2>2, IdleIsSure, FolderGoes
  <2>3. CASE /\ folder' = [g \in F!Folders \cup {f} |->
                            IF g = f THEN folderReq[c].row ELSE folder[g]]
             /\ made' = made \cup {f} /\ F!Wrote(c, F!Idle) /\ UNCHANGED <<place, placed>>
    <3>1. folderReq[c].row \in F!Row
      BY <2>1, FolderKnown, FolderShapes
    <3>2. /\ folder' \in [F!Folders' -> F!Row] /\ F!Folders' \subseteq made'
          /\ made' \subseteq Folder
      BY <2>1, <2>3, <3>1, FolderKnown DEF F!Folders
    <3>3. /\ F!Items' = F!Items /\ place' \in [F!Items' -> Places]
          /\ F!Items' \subseteq placed' /\ placed' \subseteq FolderItem
      BY <2>3, FolderKnown DEF F!Items
    <3>4. clean /\ alone[c] => F!Forest'
      <4>1. alone[c] => F!Exists(folderReq[c].row.parent)
        BY <2>1, FolderKnown DEF Sure
      <4>2. PICK rec \in F!Row : rec = folderReq[c].row
        BY <3>1
      <4> QED BY <2>1, <2>3, <4>1, <4>2, FolderKnown, Grown
    <3> QED BY <2>3, <3>2, <3>3, <3>4, IdleIsSure, FolderWrites
  <2> QED BY <2>1, <2>2, <2>3
<1>9. ASSUME NEW c \in Client, NEW f \in F!Folders, NEW rec \in F!Row, F!Write(c, f, rec),
             clean /\ alone[c] /\ folder' = [folder EXCEPT ![f] = rec] => F!Forest'
      PROVE  FoldersInv'
  <2>1. CASE F!Goto(c, F!Idle)
    BY <2>1, IdleIsSure, FolderGoes
  <2>2. CASE /\ folder' = [folder EXCEPT ![f] = rec]
             /\ F!Wrote(c, F!Idle) /\ UNCHANGED <<made, place, placed>>
    <3>1. /\ folder' \in [F!Folders' -> F!Row] /\ F!Folders' \subseteq made'
          /\ made' \subseteq Folder
      BY <2>2, <1>9, FolderKnown DEF F!Folders
    <3>2. /\ place' \in [F!Items' -> Places] /\ F!Items' \subseteq placed'
          /\ placed' \subseteq FolderItem
      BY <2>2, FolderKnown DEF F!Items
    <3> QED BY <2>2, <1>9, <3>1, <3>2, IdleIsSure, FolderWrites
  <2> QED BY <1>9, <2>1, <2>2 DEF F!Write
<1>10. ASSUME NEW c \in Client, F!WriteName(c) PROVE FoldersInv'
  <2>1. folderReq[c].op = "rename" /\ folderReq[c].name \in FolderName
    BY <1>10, FolderKnown, FolderShapes DEF F!WriteName
  <2>2. CASE folderReq[c].id \in F!Folders
    <3>1. PICK rec : rec = [folder[folderReq[c].id] EXCEPT !.name = folderReq[c].name]
      OBVIOUS
    <3>2. F!Write(c, folderReq[c].id, rec)
      BY <1>10, <2>2, <3>1 DEF F!WriteName
    <3>3. rec \in F!Row
      BY <2>1, <2>2, <3>1, FolderRowed DEF F!Row
    <3>4. clean /\ folder' = [folder EXCEPT ![folderReq[c].id] = rec] => F!Forest'
      BY <2>2, <3>1, FolderKnown, Renamed
    <3> QED BY <2>2, <3>2, <3>3, <3>4, <1>9
  <2>3. CASE folderReq[c].id \notin F!Folders
    BY <1>10, <2>3, IdleIsSure, FolderGoes DEF F!WriteName
  <2> QED BY <2>2, <2>3
<1>11. ASSUME NEW c \in Client, F!Reparent(c) PROVE FoldersInv'
  <2>1. folderReq[c].op = "reparent" /\ folderReq[c].to \in Places
    BY <1>11, FolderKnown, FolderShapes DEF F!Reparent
  <2>2. CASE folderReq[c].id \in F!Folders
    <3>1. PICK rec : rec = [folder[folderReq[c].id] EXCEPT !.parent = folderReq[c].to]
      OBVIOUS
    <3>2. F!Write(c, folderReq[c].id, rec)
      BY <1>11, <2>2, <3>1 DEF F!Reparent
    <3>3. rec \in F!Row
      BY <2>1, <2>2, <3>1, FolderRowed DEF F!Row, Places
    <3>4. alone[c] => RootedAway(folderReq[c].id, folderReq[c].to)
      BY <2>1, FolderKnown DEF Sure
    <3>5. clean /\ alone[c] /\ folder' = [folder EXCEPT ![folderReq[c].id] = rec] => F!Forest'
      BY <2>2, <3>1, <3>4, FolderKnown, Moved
    <3> QED BY <2>2, <3>2, <3>3, <3>5, <1>9
  <2>3. CASE folderReq[c].id \notin F!Folders
    BY <1>11, <2>3, IdleIsSure, FolderGoes DEF F!Reparent
  <2> QED BY <2>2, <2>3
<1>12. ASSUME NEW c \in Client, F!CountItems(c) PROVE FoldersInv'
  <2>1. PICK r : r = IF \E i \in F!Items : place[i] = folderReq[c].id THEN F!Idle
                     ELSE [op |-> "delete", id |-> folderReq[c].id]
    OBVIOUS
  <2>2. folderReq[c].op = "count" /\ F!Goto(c, r)
    BY <1>12, <2>1 DEF F!CountItems
  <2>3. r \in FolderRequests
    BY <2>1, <2>2, FolderKnown, FolderShapes, IdleIsSure DEF FolderRequests
  <2>4. alone[c] => Sure(r)
    BY <2>1, <2>2, FolderKnown, IdleIsSure DEF Sure
  <2> QED BY <2>2, <2>3, <2>4, FolderGoes
<1>13. ASSUME NEW c \in Client, F!RemoveFolder(c) PROVE FoldersInv'
  <2>1. folderReq[c].op = "delete"
    BY <1>13 DEF F!RemoveFolder
  <2>2. CASE F!Goto(c, F!Idle)
    BY <2>2, IdleIsSure, FolderGoes
  <2>3. CASE /\ folderReq[c].id \in F!Folders
             /\ folder' = F!Restrict(folder, F!Folders \ {folderReq[c].id})
             /\ F!Wrote(c, F!Idle) /\ UNCHANGED <<made, place, placed>>
    <3>1. /\ folder' \in [F!Folders' -> F!Row] /\ F!Folders' \subseteq made'
          /\ made' \subseteq Folder
      BY <2>3, FolderKnown DEF F!Folders, F!Restrict
    <3>2. /\ place' \in [F!Items' -> Places] /\ F!Items' \subseteq placed'
          /\ placed' \subseteq FolderItem
      BY <2>3, FolderKnown DEF F!Items
    <3>3. alone[c] => \A g \in F!Folders : folder[g].parent # folderReq[c].id
      BY <2>1, FolderKnown DEF Sure
    <3>4. clean /\ alone[c] => F!Forest'
      BY <2>3, <3>3, FolderKnown, Pruned
    <3> QED BY <2>3, <3>1, <3>2, <3>4, IdleIsSure, FolderWrites
  <2> QED BY <1>13, <2>2, <2>3 DEF F!RemoveFolder
<1>14. ASSUME NEW c \in Client, F!Target(c) PROVE FoldersInv'
  <2>1. folderReq[c].op = "target" /\ folderReq[c].id \in Folder /\ folderReq[c].to \in Places
    BY <1>14, FolderKnown, FolderShapes DEF F!Target
  <2>2. CASE folderReq[c].to \notin F!Folders
    BY <1>14, <2>2, IdleIsSure, FolderGoes DEF F!Target
  <2>3. CASE folderReq[c].to \in F!Folders
    <3>1. PICK r : r = [op |-> "walk", id |-> folderReq[c].id, to |-> folderReq[c].to,
                        cur |-> folderReq[c].to, seen |-> {}]
      OBVIOUS
    <3>2. r \in FolderRequests
      BY <2>1, <3>1 DEF FolderRequests
    <3>3. Sure(r)
      BY <3>1 DEF Sure
    <3> QED BY <1>14, <2>3, <3>1, <3>2, <3>3, FolderGoes DEF F!Target
  <2> QED BY <2>2, <2>3
<1>15. ASSUME NEW c \in Client, F!Walk(c) PROVE FoldersInv'
  <2>1. PICK w : w = folderReq[c]
    OBVIOUS
  <2>2. /\ w.op = "walk" /\ w \in FolderRequests /\ w.id \in Folder /\ w.to \in Places
        /\ w.cur \in Places /\ w.seen \subseteq Folder
        /\ w = [op |-> "walk", id |-> w.id, to |-> w.to, cur |-> w.cur, seen |-> w.seen]
        /\ alone[c] => Sure(w)
    BY <1>15, <2>1, FolderKnown, FolderShapes DEF F!Walk
  <2>3. CASE w.cur = Root
    <3>1. PICK r : r = [op |-> "reparent", id |-> w.id, to |-> w.to]
      OBVIOUS
    <3>2. r \in FolderRequests
      BY <2>2, <3>1 DEF FolderRequests
    <3>3. alone[c] => Sure(r)
      <4>1. alone[c] => RootedAway(w.id, w.to)
        BY <2>2, <2>3 DEF Sure, RootedAway
      <4> QED BY <3>1, <4>1 DEF Sure
    <3> QED BY <1>15, <2>1, <2>3, <3>1, <3>2, <3>3, FolderGoes DEF F!Walk
  <2>4. CASE w.cur # Root /\ (F!Under(c) \/ w.cur \notin F!Folders)
    BY <1>15, <2>1, <2>4, IdleIsSure, FolderGoes DEF F!Walk
  <2>5. CASE w.cur # Root /\ ~F!Under(c) /\ w.cur \in F!Folders
    <3>1. PICK r : r = [op |-> "walk", id |-> w.id, to |-> w.to, cur |-> folder[w.cur].parent,
                        seen |-> w.seen \cup {w.cur}]
      OBVIOUS
    <3>2. r = [w EXCEPT !.seen = @ \cup {w.cur}, !.cur = folder[w.cur].parent]
      <4>1. w = [op |-> "walk", id |-> w.id, to |-> w.to, cur |-> w.cur, seen |-> w.seen]
        BY <2>2
      <4>2. PICK x : x = [w EXCEPT !.seen = @ \cup {w.cur}]
        OBVIOUS
      <4>3. x = [op |-> "walk", id |-> w.id, to |-> w.to, cur |-> w.cur,
                 seen |-> w.seen \cup {w.cur}]
        BY <4>1, <4>2
      <4>4. [x EXCEPT !.cur = folder[w.cur].parent] = r
        BY <3>1, <4>3
      <4>5. [w EXCEPT !.seen = @ \cup {w.cur}, !.cur = folder[w.cur].parent]
              = [x EXCEPT !.cur = folder[w.cur].parent]
        BY <4>1, <4>2
      <4> QED BY <4>4, <4>5
    <3>3. F!Goto(c, r)
      BY <1>15, <2>1, <2>5, <3>2 DEF F!Walk
    <3>4. folder[w.cur].parent \in Places /\ w.cur \in Folder /\ w.cur # w.id
      BY <2>1, <2>5, FolderRowed DEF F!Under
    <3>5. r \in FolderRequests
      BY <2>2, <3>1, <3>4 DEF FolderRequests
    <3>6. alone[c] => Sure(r)
      <4>1. r.op = "walk" /\ r.id = w.id /\ r.to = w.to /\ r.seen = w.seen \cup {w.cur}
            /\ r.cur = folder[w.cur].parent
        BY <3>1
      <4> QED BY <2>2, <2>5, <3>4, <4>1 DEF Sure
    <3> QED BY <3>3, <3>5, <3>6, FolderGoes
  <2> QED BY <2>3, <2>4, <2>5
<1>16. ASSUME NEW c \in Client, F!Look(c) PROVE FoldersInv'
  <2>1. PICK w : w = folderReq[c]
    OBVIOUS
  <2>2. /\ w.op = "look" /\ w.ask \subseteq FolderItem /\ w.left \subseteq FolderItem
        /\ w.all \subseteq FolderItem
        /\ w.to \in Places /\ (alone[c] => Sure(w))
        /\ w = [op |-> w.op, ask |-> w.ask, left |-> w.left, all |-> w.all, to |-> w.to]
    BY <1>16, <2>1, FolderKnown, FolderShapes DEF F!Look
  <2>3. CASE ~F!Exists(w.to)
    BY <1>16, <2>1, <2>3, IdleIsSure, FolderGoes DEF F!Look
  <2>4. CASE F!Exists(w.to)
    <3>1. PICK r : r = [op |-> "bulk", ask |-> w.ask, left |-> w.left, all |-> w.all, to |-> w.to]
      OBVIOUS
    <3>2. r = [w EXCEPT !.op = "bulk"]
      <4>1. w = [op |-> "look", ask |-> w.ask, left |-> w.left, all |-> w.all, to |-> w.to]
        BY <2>2
      <4> QED BY <3>1, <4>1
    <3>3. r \in FolderRequests /\ (alone[c] => Sure(r))
      BY <2>2, <3>1 DEF FolderRequests, Sure
    <3> QED BY <1>16, <2>1, <2>4, <3>2, <3>3, FolderGoes DEF F!Look
  <2> QED BY <2>3, <2>4
<1>17. ASSUME NEW c \in Client, folderReq[c].op = "bulk", F!Resolve(c) PROVE FoldersInv'
  <2>1. PICK w : w = folderReq[c]
    OBVIOUS
  <2>2. /\ w.op = "bulk" /\ w.ask \subseteq FolderItem /\ w.left \subseteq FolderItem
        /\ w.all \subseteq FolderItem
        /\ w.to \in Places /\ (alone[c] => Sure(w))
        /\ w = [op |-> w.op, ask |-> w.ask, left |-> w.left, all |-> w.all, to |-> w.to]
    BY <1>17, <2>1, FolderKnown, FolderShapes
  <2>3. PICK i \in w.ask : F!Goto(c, IF i \in F!Items THEN [w EXCEPT !.ask = @ \ {i}] ELSE F!Idle)
    BY <1>17, <2>1 DEF F!Resolve
  <2>4. CASE i \notin F!Items
    BY <2>3, <2>4, IdleIsSure, FolderGoes
  <2>5. CASE i \in F!Items
    <3>1. PICK r : r = [op |-> "bulk", ask |-> w.ask \ {i}, left |-> w.left, all |-> w.all,
                        to |-> w.to]
      OBVIOUS
    <3>2. r = [w EXCEPT !.ask = @ \ {i}]
      BY <2>2, <3>1
    <3>3. r \in FolderRequests
      BY <2>2, <3>1 DEF FolderRequests
    <3>4. alone[c] => Sure(r)
      BY <2>2, <2>5, <3>1 DEF Sure
    <3> QED BY <2>3, <2>5, <3>2, <3>3, <3>4, FolderGoes
  <2> QED BY <2>4, <2>5
<1>18. ASSUME NEW c \in Client, folderReq[c].op = "bulk", F!PlaceItem(c) PROVE FoldersInv'
  <2>1. PICK w : w = folderReq[c]
    OBVIOUS
  <2>2. /\ w.op = "bulk" /\ w.ask \subseteq FolderItem /\ w.left \subseteq FolderItem
        /\ w.all \subseteq FolderItem
        /\ w.to \in Places /\ (alone[c] => Sure(w))
        /\ w = [op |-> w.op, ask |-> w.ask, left |-> w.left, all |-> w.all, to |-> w.to]
    BY <1>18, <2>1, FolderKnown, FolderShapes
  <2>3. PICK i \in w.left \cap F!Items :
          /\ w.ask = {} /\ place' = [place EXCEPT ![i] = w.to]
          /\ F!Wrote(c, IF w.left = {i} THEN F!Idle ELSE [w EXCEPT !.left = @ \ {i}])
          /\ UNCHANGED <<folder, made, placed>>
    BY <1>18, <2>1 DEF F!PlaceItem
  <2>4. /\ made' \subseteq Folder /\ placed' \subseteq FolderItem
        /\ F!Folders' \subseteq made' /\ folder' \in [F!Folders' -> F!Row]
    BY <2>3, FolderKnown DEF F!Folders
  <2>5. F!Items' = F!Items /\ place' \in [F!Items' -> Places] /\ F!Items' \subseteq placed'
    BY <2>2, <2>3, FolderKnown DEF F!Items
  <2>6. clean => F!Forest'
    BY <2>3, FolderKnown DEF F!Forest, F!NoFolderCycle, F!Exists, F!Folders
  <2>7. CASE w.left = {i}
    BY <2>3, <2>4, <2>5, <2>6, <2>7, IdleIsSure, FolderWrites
  <2>8. CASE w.left # {i}
    <3>1. PICK r : r = [op |-> "bulk", ask |-> w.ask, left |-> w.left \ {i}, all |-> w.all,
                        to |-> w.to]
      OBVIOUS
    <3>2. r = [w EXCEPT !.left = @ \ {i}]
      BY <2>2, <3>1
    <3>3. r \in FolderRequests
      BY <2>2, <3>1 DEF FolderRequests
    <3>4. alone[c] => Sure(r)'
      <4>1. alone[c] => w.left \ w.ask \subseteq F!Items
        BY <2>2 DEF Sure
      <4> QED BY <2>3, <2>5, <3>1, <4>1 DEF Sure
    <3> QED BY <2>3, <2>4, <2>5, <2>6, <2>8, <3>2, <3>3, <3>4, FolderWrites
  <2> QED BY <2>7, <2>8
<1>19. ASSUME NEW c \in Client, F!PlaceFails(c) PROVE FoldersInv'
  BY <1>19, IdleIsSure, FolderGoes DEF F!PlaceFails
<1>20. CASE UNCHANGED F!vars
  BY <1>20 DEF F!vars, FoldersInv, FoldersTyped, F!Row, FolderRequests, Places, F!Idle, F!Rooted,
               F!Forest, F!NoFolderCycle, F!Exists,
              Sure, RootedAway, F!Folders, F!Items
<1> QED BY <1>1, <1>2, <1>3, <1>4, <1>5, <1>6, <1>7, <1>8, <1>10, <1>11, <1>12, <1>13, <1>14, <1>15,
           <1>16, <1>17, <1>18, <1>19, <1>20 DEF F!Next, F!Step

-----------------------------------------------------------------------------
(* Delta tables: what was acknowledged is there, and read in one version.     *)

-----------------------------------------------------------------------------
(* Replays of a log, by induction on its length.                             *)

\* A set of numbers that holds 0, and with a number the next, holds them all: were
\* n left out, k - 1 would map those left out up to n one to one into themselves,
\* and so onto themselves; but nothing maps to n.
LEMMA Induction ==
  ASSUME NEW T, 0 \in T, \A n \in Nat : n \in T => n + 1 \in T
  PROVE  Nat \subseteq T
<1> SUFFICES ASSUME NEW n \in Nat, n \notin T PROVE FALSE
  OBVIOUS
<1> DEFINE Out == {k \in 0 .. n : k \notin T}
           f == [k \in Out |-> k - 1]
<1>1. IsFiniteSet(Out)
  <2>1. Out \in SUBSET Nat /\ \A s \in Out : s <= n
    OBVIOUS
  <2> HIDE DEF Out
  <2> QED BY <2>1, FS_BoundedSetOfNaturals
<1>2. \A k \in Out : k - 1 \in Out
  <2> SUFFICES ASSUME NEW k \in Out PROVE k - 1 \in Out
    OBVIOUS
  <2>1. k \in Nat /\ k # 0 /\ k <= n /\ k \notin T
    OBVIOUS
  <2>2. k - 1 \in Nat /\ k - 1 + 1 = k
    BY <2>1
  <2>3. k - 1 \notin T
    BY <2>1, <2>2
  <2> QED BY <2>1, <2>2, <2>3
<1>3. f \in Injection(Out, Out)
  <2>1. \A k \in Out : k \in Int
    OBVIOUS
  <2>2. f \in [Out -> Out]
    BY <1>2
  <2>3. \A a, b \in Out : f[a] = f[b] => a = b
    BY <2>1
  <2> QED BY <2>2, <2>3 DEF Injection, IsInjective
<1>4. f \in Surjection(Out, Out)
  <2> HIDE DEF Out, f
  <2> QED BY <1>1, <1>3, FS_Injection
<1>5. \E k \in Out : f[k] = n
  <2>1. n \in Out
    OBVIOUS
  <2> QED BY <1>4, <2>1 DEF Surjection
<1> QED BY <1>5

\* f says what is active after each of the first m commits of a log.
Replay(f, m, lg) == f = [n \in 0 .. m |-> IF n = 0 THEN {} ELSE D!Apply(f[n - 1], lg[n])]

LEMMA ReplayStep ==
  ASSUME NEW f, NEW m \in Nat, NEW lg, Replay(f, m, lg)
  PROVE  /\ DOMAIN f = 0 .. m /\ f[0] = {}
         /\ \A n \in 0 .. m : n # 0 => f[n] = D!Apply(f[n - 1], lg[n])
<1> DEFINE g == [n \in 0 .. m |-> IF n = 0 THEN {} ELSE D!Apply(f[n - 1], lg[n])]
<1>1. f = g
  BY DEF Replay
<1>2. DOMAIN g = 0 .. m /\ g[0] = {} /\ \A n \in 0 .. m : n # 0 => g[n] = D!Apply(f[n - 1], lg[n])
  OBVIOUS
<1> HIDE DEF g
<1> QED BY <1>1, <1>2

\* Logs that begin alike replay alike.
LEMMA ReplaysAgree ==
  ASSUME NEW f, NEW g, NEW k \in Nat, NEW m \in Nat, NEW lg, NEW lh,
         Replay(f, k, lg), Replay(g, m, lh), k <= m, \A n \in 1 .. k : lg[n] = lh[n]
  PROVE  \A n \in 0 .. k : f[n] = g[n]
<1> DEFINE T == {n \in Nat : n <= k => f[n] = g[n]}
<1>1. 0 \in T
  BY ReplayStep
<1>2. ASSUME NEW n \in Nat, n \in T PROVE n + 1 \in T
  <2> SUFFICES ASSUME n + 1 <= k PROVE f[n + 1] = g[n + 1]
    OBVIOUS
  <2>1. n + 1 \in 0 .. k /\ n + 1 \in 0 .. m /\ n + 1 # 0 /\ n + 1 - 1 = n /\ n + 1 \in 1 .. k
    OBVIOUS
  <2>2. f[n + 1] = D!Apply(f[n], lg[n + 1]) /\ g[n + 1] = D!Apply(g[n], lh[n + 1])
    BY <2>1, ReplayStep
  <2> QED BY <1>2, <2>1, <2>2
<1>3. Nat \subseteq T
  <2> HIDE DEF T
  <2> QED BY <1>1, <1>2, Induction
<1> QED BY <1>3

LEMMA ReplayExists == ASSUME NEW lg PROVE \A m \in Nat : \E f : Replay(f, m, lg)
<1> DEFINE T == {m \in Nat : \E f : Replay(f, m, lg)}
<1>1. 0 \in T
  <2> DEFINE f == [n \in 0 .. 0 |-> {}]
  <2>1. f = [n \in 0 .. 0 |-> IF n = 0 THEN {} ELSE D!Apply(f[n - 1], lg[n])]
    OBVIOUS
  <2> HIDE DEF f
  <2> QED BY <2>1 DEF Replay
<1>2. ASSUME NEW m \in Nat, m \in T PROVE m + 1 \in T
  <2>1. PICK f : Replay(f, m, lg)
    BY <1>2
  <2> DEFINE g == [n \in 0 .. m + 1 |-> IF n = m + 1 THEN D!Apply(f[m], lg[m + 1]) ELSE f[n]]
  <2>2. ASSUME NEW n \in 0 .. m + 1
        PROVE  g[n] = IF n = 0 THEN {} ELSE D!Apply(g[n - 1], lg[n])
    <3>1. CASE n = 0
      <4>1. 0 \in 0 .. m + 1 /\ 0 # m + 1
        OBVIOUS
      <4> QED BY <2>1, <3>1, <4>1, ReplayStep
    <3>2. CASE n \in 1 .. m
      <4>1. n \in 0 .. m /\ n - 1 \in 0 .. m + 1 /\ n # m + 1 /\ n - 1 # m + 1 /\ n # 0
        BY <3>2
      <4> QED BY <2>1, <4>1, ReplayStep
    <3>3. CASE n = m + 1
      <4>1. n - 1 = m /\ m \in 0 .. m + 1 /\ m # m + 1 /\ n # 0
        BY <3>3
      <4> QED BY <3>3, <4>1
    <3> QED BY <3>1, <3>2, <3>3
  <2>3. g = [n \in 0 .. m + 1 |-> IF n = 0 THEN {} ELSE D!Apply(g[n - 1], lg[n])]
    <3>1. g = [n \in 0 .. m + 1 |-> g[n]]
      OBVIOUS
    <3> HIDE DEF g
    <3> QED BY <2>2, <3>1
  <2> HIDE DEF g
  <2> QED BY <2>3 DEF Replay
<1>3. Nat \subseteq T
  <2> HIDE DEF T
  <2> QED BY <1>1, <1>2, Induction
<1> QED BY <1>3

\* What is active after the first n commits of a log.
After(lg, n) == (CHOOSE f : Replay(f, n, lg))[n]

LEMMA AfterStep ==
  ASSUME NEW lg
  PROVE  /\ After(lg, 0) = {}
         /\ \A n \in Nat \ {0} : After(lg, n) = D!Apply(After(lg, n - 1), lg[n])
<1>1. \A n \in Nat : Replay(CHOOSE f : Replay(f, n, lg), n, lg)
  BY ReplayExists
<1>2. After(lg, 0) = {}
  BY <1>1, ReplayStep DEF After
<1>3. ASSUME NEW n \in Nat \ {0} PROVE After(lg, n) = D!Apply(After(lg, n - 1), lg[n])
  <2>1. PICK f : f = CHOOSE h : Replay(h, n, lg)
    OBVIOUS
  <2>2. PICK g : g = CHOOSE h : Replay(h, n - 1, lg)
    OBVIOUS
  <2>3. n - 1 \in Nat /\ n - 1 <= n /\ n \in 0 .. n /\ n # 0 /\ n - 1 \in 0 .. n - 1
    OBVIOUS
  <2>4. Replay(f, n, lg) /\ Replay(g, n - 1, lg)
    BY <1>1, <2>1, <2>2, <2>3
  <2>5. f[n - 1] = g[n - 1]
    BY <2>3, <2>4, ReplaysAgree
  <2>6. f[n] = D!Apply(f[n - 1], lg[n])
    BY <2>3, <2>4, ReplayStep
  <2> QED BY <2>1, <2>2, <2>5, <2>6 DEF After
<1> QED BY <1>2, <1>3

\* The files active in a log are those its replay ends with.
LEMMA ActiveIsAfter == \A n \in Nat : D!Active[n] = After(log, n)
<1> DEFINE Is(f) == f = [n \in Nat |-> IF n = 0 THEN {} ELSE D!Apply(f[n - 1], log[n])]
           g == [n \in Nat |-> After(log, n)]
<1>1. Is(g)
  <2>1. \A n \in Nat : g[n] = IF n = 0 THEN {} ELSE D!Apply(g[n - 1], log[n])
    <3>1. \A n \in Nat \ {0} : n - 1 \in Nat
      OBVIOUS
    <3> QED BY <3>1, AfterStep
  <2> QED BY <2>1
<1>2. Is(D!Active)
  <2>1. D!Active = CHOOSE f : Is(f)
    BY DEF D!Active
  <2> HIDE DEF Is, g
  <2> QED BY <1>1, <2>1
<1>3. PICK a : a = D!Active
  OBVIOUS
<1> DEFINE h == [n \in Nat |-> IF n = 0 THEN {} ELSE D!Apply(a[n - 1], log[n])]
           T == {n \in Nat : a[n] = After(log, n)}
<1>4. a = h
  BY <1>2, <1>3
<1>5. h[0] = {} /\ \A n \in Nat \ {0} : h[n] = D!Apply(a[n - 1], log[n])
  OBVIOUS
<1>6. a[0] = {} /\ \A n \in Nat \ {0} : a[n] = D!Apply(a[n - 1], log[n])
  <2> HIDE DEF h
  <2> QED BY <1>4, <1>5
<1>7. Nat \subseteq T
  <2>1. 0 \in T
    BY <1>6, AfterStep
  <2>2. ASSUME NEW n \in Nat, n \in T PROVE n + 1 \in T
    <3>1. n + 1 \in Nat \ {0} /\ n + 1 - 1 = n
      OBVIOUS
    <3> QED BY <1>6, <2>2, <3>1, AfterStep
  <2> HIDE DEF T
  <2> QED BY <2>1, <2>2, Induction
<1> QED BY <1>3, <1>7

\* Logs that begin alike have the same files active there.
LEMMA AfterAgree ==
  ASSUME NEW lg, NEW lh, NEW k \in Nat, \A n \in 1 .. k : lg[n] = lh[n]
  PROVE  After(lg, k) = After(lh, k)
<1>1. PICK f : f = CHOOSE h : Replay(h, k, lg)
  OBVIOUS
<1>2. PICK g : g = CHOOSE h : Replay(h, k, lh)
  OBVIOUS
<1>3. Replay(f, k, lg) /\ Replay(g, k, lh)
  BY <1>1, <1>2, ReplayExists
<1>4. f[k] = g[k]
  <2>1. k \in 0 .. k /\ k <= k
    OBVIOUS
  <2> QED BY <1>3, <2>1, ReplaysAgree
<1> QED BY <1>1, <1>2, <1>4 DEF After

-----------------------------------------------------------------------------
Modes == {"append", "overwrite"}

TableRequests ==
  {D!Idle}
  \cup [op : {"list"}, mode : Modes \cup {"read"}, write : Nat, v : Nat, removes : SUBSET D!Path]
  \cup [op : {"data", "commit"}, mode : Modes, write : Nat, v : Nat, removes : SUBSET D!Path]
  \cup [op : {"replay"}, mode : Modes \cup {"read"}, write : Nat, v : Nat, to : Nat, next : Nat,
        active : SUBSET D!Path, was : SUBSET Nat]
  \cup [op : {"fetch"}, left : SUBSET D!Path, rows : SUBSET Nat, was : SUBSET Nat]
  \cup [op : {"plan"}, mode : Modes, write : Nat]
  \cup [op : {"put"}, mode : Modes, write : Nat, v : Nat, removes : SUBSET D!Path]

Entry == [add : D!Path, removes : SUBSET D!Path]

TableTyped ==
  /\ log \in Seq(Entry) /\ files \in SUBSET (D!Path \X Nat) /\ writes \in Nat
  /\ tableReq \in [D!Actor -> TableRequests] /\ acked \in SUBSET Nat
  /\ undisturbed \in [Client -> BOOLEAN] /\ orderly \in BOOLEAN

\* The rows at these paths.
RowsOf(fs, P) == {f[2] : f \in {g \in fs : g[1] \in P}}
Rows(P) == RowsOf(files, P)

\* The paths that n commits can have added.
Old(n, k) == {<<"part", i>> : i \in 0 .. n - 1} \cup {<<"own", i>> : i \in 1 .. k}

\* A write of the emulator is under way.
TableWriting(r) == r.op \in {"list", "replay", "data", "commit"} /\ r.mode # "read"

Replaced(r) == IF r.mode = "overwrite" THEN After(log, r.v) ELSE {}

\* The next version is that of a writer that is alone: what it removes is what is
\* active, and the part file it has put holds its rows alone.
Lone(r) ==
  TableWriting(r) =>
    /\ r.v = Len(log)
    /\ r.op \in {"list", "replay"} => r.mode = "overwrite"
    /\ r.op \in {"data", "commit"} => r.removes = Replaced(r)
    /\ r.op = "replay" => r.to = r.v
    /\ r.op = "commit" => Rows({<<"part", r.v>>}) = {r.write}

\* A replay is at a version of the log; and what was read so far, with the files
\* still to be read, is what the table held.
TableReading(r) ==
  /\ r.op = "replay" =>
       /\ r.to <= Len(log) /\ r.next \in 1 .. r.to + 1
       /\ r.active = After(log, r.next - 1) /\ r.was = Rows(After(log, r.to))
  /\ r.op = "fetch" => r.left \subseteq Old(Len(log), writes) /\ r.rows \cup Rows(r.left) = r.was

\* An engine replaces what was active at the version it has read.
Planned(r) == r.op = "put" => r.v <= Len(log) /\ r.removes = Replaced(r)

\* The data file of an engine is there before it commits, and the versions that a
\* replay reads are.
Stored(r) ==
  /\ r.op \in {"plan", "put"} =>
       r.write \in 1 .. writes /\ <<<<"own", r.write>>, r.write>> \in files
  /\ r.op = "replay" => r.to <= Len(log) /\ r.next >= 1

Apart ==
  \A w \in Client : undisturbed[w] /\ TableWriting(tableReq[w]) =>
    \A d \in Client \ {w} : ~TableWriting(tableReq[d])

\* A file of an engine holds one write.
Owned == \A f \in files : f[1][1] = "own" => f[1][2] = f[2] /\ f[2] \in 1 .. writes

\* Without overlap a commit adds a path of its own, and the table holds what was
\* acknowledged.
TableSound ==
  /\ \A n \in 0 .. Len(log) : After(log, n) \subseteq Old(n, writes)
  /\ Rows(After(log, Len(log))) = acked
  /\ \A a \in D!Actor : TableReading(tableReq[a]) /\ Planned(tableReq[a])
  /\ \A w \in Client : undisturbed[w] => Lone(tableReq[w])

TableInv ==
  /\ TableTyped /\ Apart /\ Owned /\ \A a \in D!Actor : Stored(tableReq[a])
  /\ orderly => TableSound

-----------------------------------------------------------------------------
LEMMA TableShapes ==
  ASSUME NEW r \in TableRequests
  PROVE  /\ r.op \in {"list", "data", "commit"} =>
              /\ r.mode \in Modes \cup {"read"} /\ r.write \in Nat /\ r.v \in Nat
              /\ r.removes \in SUBSET D!Path
              /\ r = [op |-> r.op, mode |-> r.mode, write |-> r.write, v |-> r.v,
                      removes |-> r.removes]
         /\ r.op \in {"data", "commit"} => r.mode \in Modes
         /\ r.op = "replay" =>
              /\ r.mode \in Modes \cup {"read"} /\ r.write \in Nat /\ r.v \in Nat
              /\ r.to \in Nat /\ r.next \in Nat /\ r.active \in SUBSET D!Path
              /\ r.was \in SUBSET Nat
              /\ r = [op |-> "replay", mode |-> r.mode, write |-> r.write, v |-> r.v,
                      to |-> r.to, next |-> r.next, active |-> r.active, was |-> r.was]
         /\ r.op = "fetch" =>
              /\ r.left \in SUBSET D!Path /\ r.rows \in SUBSET Nat /\ r.was \in SUBSET Nat
              /\ r = [op |-> "fetch", left |-> r.left, rows |-> r.rows, was |-> r.was]
         /\ r.op = "plan" => r.mode \in Modes /\ r.write \in Nat
         /\ r.op = "put" => /\ r.mode \in Modes /\ r.write \in Nat /\ r.v \in Nat
                            /\ r.removes \in SUBSET D!Path
BY DEF TableRequests, D!Idle

LEMMA TableIdle == D!Idle \in TableRequests /\ D!Idle.op = "idle"
BY DEF TableRequests, D!Idle

\* What is active in a log is paths.
LEMMA AfterTyped ==
  ASSUME NEW lg \in Seq(Entry)
  PROVE  \A n \in 0 .. Len(lg) : After(lg, n) \in SUBSET D!Path
<1> DEFINE T == {n \in Nat : n <= Len(lg) => After(lg, n) \in SUBSET D!Path}
<1>1. 0 \in T
  BY AfterStep
<1>2. ASSUME NEW n \in Nat, n \in T PROVE n + 1 \in T
  <2> SUFFICES ASSUME n + 1 <= Len(lg) PROVE After(lg, n + 1) \in SUBSET D!Path
    OBVIOUS
  <2>1. n + 1 \in Nat \ {0} /\ n + 1 - 1 = n /\ n + 1 \in 1 .. Len(lg) /\ n <= Len(lg)
    OBVIOUS
  <2>2. After(lg, n + 1) = D!Apply(After(lg, n), lg[n + 1])
    <3>1. PICK m \in Nat \ {0} : m = n + 1
      BY <2>1
    <3>2. After(lg, m) = D!Apply(After(lg, m - 1), lg[m])
      BY AfterStep
    <3> QED BY <2>1, <3>1, <3>2
  <2>3. lg[n + 1] \in Entry /\ After(lg, n) \in SUBSET D!Path
    BY <1>2, <2>1
  <2> QED BY <2>2, <2>3 DEF D!Apply, Entry
<1>3. Nat \subseteq T
  <2> HIDE DEF T
  <2> QED BY <1>1, <1>2, Induction
<1> QED BY <1>3

LEMMA TableKnown ==
  ASSUME TableInv
  PROVE  /\ log \in Seq(Entry) /\ Len(log) \in Nat /\ DOMAIN log = 1 .. Len(log)
         /\ files \in SUBSET (D!Path \X Nat) /\ writes \in Nat
         /\ tableReq \in [D!Actor -> TableRequests] /\ acked \in SUBSET Nat
         /\ undisturbed \in [Client -> BOOLEAN] /\ orderly \in BOOLEAN
         /\ \A a \in D!Actor : tableReq[a] \in TableRequests /\ Stored(tableReq[a])
         /\ Apart /\ Owned
         /\ orderly => TableSound
         /\ \A n \in Nat : D!Active[n] = After(log, n)
         /\ \A n \in 0 .. Len(log) : After(log, n) \in SUBSET D!Path
         /\ Client \subseteq D!Actor /\ Engine \subseteq D!Actor /\ Reader \subseteq D!Actor
BY ActiveIsAfter, AfterTyped DEF TableInv, TableTyped, D!Actor

LEMMA RowsAdd ==
  ASSUME NEW fs, NEW P, NEW Q
  PROVE  RowsOf(fs, P \cup Q) = RowsOf(fs, P) \cup RowsOf(fs, Q) /\ RowsOf(fs, {}) = {}
BY DEF RowsOf

LEMMA RowsTyped ==
  ASSUME NEW fs \in SUBSET (D!Path \X Nat), NEW P
  PROVE  RowsOf(fs, P) \in SUBSET Nat
BY DEF RowsOf

LEMMA RowsOfKept ==
  ASSUME NEW P, NEW path, NEW x, path \notin P, D!Put(path, x)
  PROVE  RowsOf(files', P) = RowsOf(files, P)
<1>1. {g \in files' : g[1] \in P} = {g \in files : g[1] \in P}
  BY DEF D!Put
<1> QED BY <1>1 DEF RowsOf

LEMMA RowsPut ==
  ASSUME NEW path, NEW x, D!Put(path, x)
  PROVE  RowsOf(files', {path}) = {x}
<1>1. {g \in files' : g[1] \in {path}} = {<<path, x>>}
  BY DEF D!Put
<1>2. RowsOf(files', {path}) = {f[2] : f \in {<<path, x>>}}
  BY <1>1 DEF RowsOf
<1>3. {f[2] : f \in {<<path, x>>}} = {x}
  OBVIOUS
<1> QED BY <1>2, <1>3

\* A step that leaves log and files alone.
LEMMA TableGoesOn ==
  ASSUME TableInv, NEW a \in D!Actor, NEW r \in TableRequests,
         tableReq' = [tableReq EXCEPT ![a] = r],
         UNCHANGED <<log, files, writes, acked, undisturbed, orderly>>,
         TableWriting(r) => TableWriting(tableReq[a]), Stored(r),
         orderly => TableReading(r) /\ Planned(r) /\ (a \in Client /\ undisturbed[a] => Lone(r))
  PROVE  TableInv'
<1>1. TableTyped'
  <2>1. tableReq' \in [D!Actor -> TableRequests]
    BY TableKnown
  <2> QED BY <2>1, TableKnown DEF TableTyped, D!Actor, TableRequests, D!Idle, D!Path, Modes, Entry
<1>2. \A d \in D!Actor : tableReq'[d] = IF d = a THEN r ELSE tableReq[d]
  BY TableKnown
<1>3. Apart'
  <2> SUFFICES ASSUME NEW w \in Client, undisturbed[w], TableWriting(tableReq'[w]),
                      NEW d \in Client \ {w}, TableWriting(tableReq'[d])
               PROVE  FALSE
    BY DEF Apart, TableWriting
  <2>1. TableWriting(tableReq[w]) /\ TableWriting(tableReq[d])
    BY <1>2, TableKnown
  <2> QED BY <2>1, TableKnown DEF Apart
<1>4. Owned' /\ \A d \in D!Actor : Stored(tableReq[d])'
  <2>1. \A d \in D!Actor : Stored(tableReq'[d])
    BY <1>2, TableKnown
  <2> QED BY <2>1, TableKnown DEF Owned, Stored
<1>5. ASSUME orderly' PROVE TableSound'
  <2>1. /\ \A d \in D!Actor : TableReading(tableReq'[d]) /\ Planned(tableReq'[d])
        /\ \A w \in Client : undisturbed[w] => Lone(tableReq'[w])
    BY <1>2, <1>5, TableKnown DEF TableSound
  <2>2. /\ \A n \in 0 .. Len(log) : After(log, n) \subseteq Old(n, writes)
        /\ Rows(After(log, Len(log))) = acked
    BY <1>5, TableKnown DEF TableSound
  <2>3. ASSUME NEW d \in D!Actor PROVE TableReading(tableReq[d])' /\ Planned(tableReq[d])'
    <3>1. TableReading(tableReq'[d]) /\ Planned(tableReq'[d])
      BY <2>1
    <3> QED BY <3>1 DEF TableReading, Planned, Replaced, Rows
  <2>4. ASSUME NEW w \in Client, undisturbed'[w] PROVE Lone(tableReq[w])'
    <3>1. PICK q : q = tableReq'[w]
      OBVIOUS
    <3>2. Lone(q)
      BY <2>1, <2>4, <3>1
    <3>3. Lone(q)'
      <4>1. Replaced(q)' = Replaced(q) /\ Rows({<<"part", q.v>>})' = Rows({<<"part", q.v>>})
        BY DEF Replaced, Rows
      <4> QED BY <3>2, <4>1 DEF Lone, TableWriting
    <3> QED BY <3>1, <3>3
  <2>5. /\ \A n \in 0 .. Len(log') : After(log', n) \subseteq Old(n, writes')
        /\ RowsOf(files', After(log', Len(log'))) = acked'
    BY <2>2 DEF Rows
  <2> QED BY <2>3, <2>4, <2>5 DEF TableSound, Rows, D!Actor
<1> QED BY <1>1, <1>3, <1>4, <1>5 DEF TableInv, D!Actor

-----------------------------------------------------------------------------
(* What every step keeps that only adds: to the log, to the files of paths that *)
(* no commit has named yet, to the ids given out.                              *)
LEMMA TableStays ==
  ASSUME TableInv, TableSound, log' \in Seq(Entry), Len(log) <= Len(log'),
         \A n \in 1 .. Len(log) : log'[n] = log[n],
         writes' \in Nat, writes <= writes',
         \A P : P \subseteq Old(Len(log), writes) => RowsOf(files', P) = RowsOf(files, P)
  PROVE  /\ \A n \in 0 .. Len(log) :
              /\ After(log', n) = After(log, n) /\ After(log', n) \subseteq Old(n, writes')
              /\ RowsOf(files', After(log', n)) = RowsOf(files, After(log, n))
         /\ \A q \in TableRequests :
              TableReading(q) /\ Planned(q) => TableReading(q)' /\ Planned(q)'
<1>known. Len(log) \in Nat /\ Len(log') \in Nat /\ writes \in Nat
  BY TableKnown
<1>1. \A n \in 0 .. Len(log) : After(log', n) = After(log, n)
  <2> SUFFICES ASSUME NEW n \in 0 .. Len(log) PROVE After(log', n) = After(log, n)
    OBVIOUS
  <2>1. n \in Nat /\ \A i \in 1 .. n : log'[i] = log[i]
    BY <1>known
  <2> QED BY <2>1, AfterAgree
<1>2. \A n \in 0 .. Len(log) : Old(n, writes) \subseteq Old(n, writes')
                               /\ Old(n, writes) \subseteq Old(Len(log), writes)
  BY <1>known DEF Old
<1>3. Old(Len(log), writes) \subseteq Old(Len(log'), writes')
  BY <1>known DEF Old
<1>4. \A n \in 0 .. Len(log) : After(log, n) \subseteq Old(n, writes)
  BY DEF TableSound
<1>5. \A n \in 0 .. Len(log) :
        /\ After(log', n) \subseteq Old(n, writes')
        /\ RowsOf(files', After(log', n)) = RowsOf(files, After(log, n))
  BY <1>1, <1>2, <1>4
<1>6. ASSUME NEW q \in TableRequests, TableReading(q) PROVE TableReading(q)'
  <2>1. CASE q.op = "replay"
    <3>1. /\ q.to <= Len(log) /\ q.next \in 1 .. q.to + 1 /\ q.to \in Nat /\ q.next \in Nat
          /\ q.active = After(log, q.next - 1) /\ q.was = RowsOf(files, After(log, q.to))
      BY <1>6, <2>1, TableShapes DEF TableReading, Rows
    <3>2. q.to \in 0 .. Len(log) /\ q.next - 1 \in 0 .. Len(log) /\ q.to <= Len(log')
      BY <1>known, <3>1
    <3>3. q.active = After(log', q.next - 1) /\ q.was = RowsOf(files', After(log', q.to))
      BY <1>1, <1>5, <3>1, <3>2
    <3> QED BY <2>1, <3>1, <3>2, <3>3 DEF TableReading, Rows
  <2>2. CASE q.op = "fetch"
    <3>1. q.left \subseteq Old(Len(log), writes) /\ q.rows \cup RowsOf(files, q.left) = q.was
      BY <1>6, <2>2 DEF TableReading, Rows
    <3>2. q.left \subseteq Old(Len(log'), writes') /\ q.rows \cup RowsOf(files', q.left) = q.was
      BY <1>3, <3>1
    <3> QED BY <2>2, <3>2 DEF TableReading, Rows
  <2> QED BY <2>1, <2>2 DEF TableReading
<1>7. ASSUME NEW q \in TableRequests, Planned(q) PROVE Planned(q)'
  <2>1. CASE q.op = "put"
    <3>1. q.v <= Len(log) /\ q.v \in Nat /\ q.removes = Replaced(q)
      BY <1>7, <2>1, TableShapes DEF Planned
    <3>2. q.v \in 0 .. Len(log) /\ q.v <= Len(log')
      BY <1>known, <3>1
    <3>3. Replaced(q)' = Replaced(q)
      BY <1>1, <3>2 DEF Replaced
    <3> QED BY <3>1, <3>2, <3>3 DEF Planned
  <2> QED BY <2>1 DEF Planned
<1> QED BY <1>1, <1>5, <1>6, <1>7

\* A commit of a new path, that removes what is active or nothing.
LEMMA TableCommits ==
  ASSUME TableInv, TableSound, NEW r, NEW path \in D!Path, log' = Append(log, D!Commit(path, r)),
         r.mode \in Modes, r.removes \in SUBSET D!Path,
         r.removes = IF r.mode = "overwrite" THEN After(log, Len(log)) ELSE {},
         UNCHANGED <<files, writes>>, RowsOf(files, {path}) = {r.write},
         path \in Old(Len(log) + 1, writes), D!Acknowledge(r)
  PROVE  /\ log' \in Seq(Entry) /\ Len(log') = Len(log) + 1
         /\ \A n \in 1 .. Len(log) : log'[n] = log[n]
         /\ \A n \in 0 .. Len(log') : After(log', n) \subseteq Old(n, writes')
         /\ RowsOf(files', After(log', Len(log'))) = acked'
         /\ \A q \in TableRequests :
              TableReading(q) /\ Planned(q) => TableReading(q)' /\ Planned(q)'
<1> DEFINE c == D!Commit(path, r)
<1>known. Len(log) \in Nat /\ log \in Seq(Entry) /\ writes \in Nat
  BY TableKnown
<1>1. c \in Entry /\ c.add = path /\ c.removes = r.removes
  BY DEF D!Commit, Entry
<1>2. /\ log' \in Seq(Entry) /\ Len(log') = Len(log) + 1 /\ log'[Len(log) + 1] = c
      /\ \A n \in 1 .. Len(log) : log'[n] = log[n]
  <2> HIDE DEF c
  <2>1. log' = Append(log, c)
    BY DEF c
  <2> QED BY <1>known, <1>1, <2>1
<1>3. /\ \A n \in 0 .. Len(log) :
           /\ After(log', n) = After(log, n) /\ After(log', n) \subseteq Old(n, writes')
      /\ \A q \in TableRequests : TableReading(q) /\ Planned(q) => TableReading(q)' /\ Planned(q)'
  BY <1>known, <1>2, TableStays
<1>4. After(log', Len(log) + 1) = (After(log, Len(log)) \ r.removes) \cup {path}
  <2>1. Len(log) + 1 \in Nat \ {0} /\ Len(log) + 1 - 1 = Len(log) /\ Len(log) \in 0 .. Len(log)
    BY <1>known
  <2>2. After(log', Len(log) + 1) = D!Apply(After(log', Len(log)), log'[Len(log) + 1])
    <3>1. \A n \in Nat \ {0} : After(log', n) = D!Apply(After(log', n - 1), log'[n])
      BY AfterStep
    <3>2. PICK m \in Nat \ {0} : m = Len(log) + 1
      BY <2>1
    <3>3. m - 1 = Len(log)
      BY <2>1, <3>2
    <3>4. After(log', m) = D!Apply(After(log', m - 1), log'[m])
      BY <3>1
    <3> QED BY <3>2, <3>3, <3>4
  <2> QED BY <1>1, <1>2, <1>3, <2>1, <2>2 DEF D!Apply
<1>5. After(log', Len(log) + 1) \subseteq Old(Len(log) + 1, writes')
  <2>1. Old(Len(log), writes) \subseteq Old(Len(log) + 1, writes)
    BY <1>known DEF Old
  <2>2. After(log, Len(log)) \subseteq Old(Len(log), writes)
    BY <1>known DEF TableSound
  <2> QED BY <1>4, <2>1, <2>2
<1>6. \A n \in 0 .. Len(log') : After(log', n) \subseteq Old(n, writes')
  <2> SUFFICES ASSUME NEW n \in 0 .. Len(log') PROVE After(log', n) \subseteq Old(n, writes')
    OBVIOUS
  <2>1. n \in 0 .. Len(log) \/ n = Len(log) + 1
    BY <1>known, <1>2
  <2> QED BY <1>3, <1>5, <2>1
<1>7. RowsOf(files', After(log', Len(log'))) = acked'
  <2>1. RowsOf(files, After(log, Len(log))) = acked
    BY DEF TableSound, Rows
  <2>2. RowsOf(files', After(log', Len(log'))) =
          RowsOf(files, After(log, Len(log)) \ r.removes) \cup {r.write}
    <3>1. After(log', Len(log')) = (After(log, Len(log)) \ r.removes) \cup {path}
      BY <1>2, <1>4
    <3>2. RowsOf(files, (After(log, Len(log)) \ r.removes) \cup {path}) =
            RowsOf(files, After(log, Len(log)) \ r.removes) \cup RowsOf(files, {path})
      BY RowsAdd
    <3>3. RowsOf(files, {path}) = {r.write} /\ files' = files
      OBVIOUS
    <3> QED BY <3>1, <3>2, <3>3
  <2>3. acked' = (IF r.mode = "overwrite" THEN {} ELSE acked) \cup {r.write}
    BY DEF D!Acknowledge
  <2>4. CASE r.mode = "overwrite"
    <3>1. After(log, Len(log)) \ r.removes = {}
      BY <2>4
    <3> QED BY <2>2, <2>3, <2>4, <3>1, RowsAdd
  <2>5. CASE r.mode # "overwrite"
    <3>1. After(log, Len(log)) \ r.removes = After(log, Len(log))
      BY <2>5
    <3> QED BY <2>1, <2>2, <2>3, <2>5, <3>1
  <2> QED BY <2>4, <2>5
<1> QED BY <1>2, <1>3, <1>6, <1>7

-----------------------------------------------------------------------------
LEMMA TableInit == D!Init => TableInv
<1> SUFFICES ASSUME D!Init PROVE TableInv
  OBVIOUS
<1>1. TableTyped
  BY TableIdle DEF D!Init, TableTyped
<1>2. /\ \A a \in D!Actor : tableReq[a] = D!Idle
  BY DEF D!Init
<1>3. Apart /\ Owned /\ \A a \in D!Actor : Stored(tableReq[a])
  BY <1>2, TableIdle DEF D!Init, Apart, Owned, Stored, TableWriting, D!Actor
<1>4. TableSound
  <2>1. Len(log) = 0 /\ After(log, 0) = {} /\ RowsOf(files, {}) = {}
    BY AfterStep, RowsAdd DEF D!Init
  <2>2. \A n \in 0 .. Len(log) : After(log, n) \subseteq Old(n, writes)
    <3>1. \A n \in 0 .. Len(log) : n = 0
      BY <2>1
    <3> QED BY <2>1, <3>1
  <2>3. Rows(After(log, Len(log))) = acked
    BY <2>1 DEF D!Init, Rows
  <2>4. \A a \in D!Actor : TableReading(tableReq[a]) /\ Planned(tableReq[a])
    BY <1>2, TableIdle DEF TableReading, Planned
  <2>5. \A w \in Client : Lone(tableReq[w])
    BY <1>2, TableIdle DEF Lone, TableWriting, D!Actor
  <2> QED BY <2>2, <2>3, <2>4, <2>5 DEF TableSound
<1> QED BY <1>1, <1>3, <1>4 DEF TableInv

\* The writer w goes from req[w] to r, and the others are not alone any more.
LEMMA TableDisturbs ==
  ASSUME TableInv, NEW a \in D!Actor, NEW r \in TableRequests,
         tableReq' = [tableReq EXCEPT ![a] = r], D!Disturb(a),
         TableWriting(r) => TableWriting(tableReq[a])
  PROVE  /\ tableReq' \in [D!Actor -> TableRequests] /\ undisturbed' \in [Client -> BOOLEAN]
         /\ Apart'
         /\ \A d \in D!Actor : tableReq'[d] = IF d = a THEN r ELSE tableReq[d]
         /\ \A w \in Client : undisturbed'[w] => w = a /\ undisturbed[w]
<1>1. /\ tableReq' \in [D!Actor -> TableRequests] /\ undisturbed' \in [Client -> BOOLEAN]
      /\ \A d \in D!Actor : tableReq'[d] = IF d = a THEN r ELSE tableReq[d]
      /\ \A w \in Client : undisturbed'[w] => w = a /\ undisturbed[w]
  BY TableKnown DEF D!Disturb
<1>2. Apart'
  <2> SUFFICES ASSUME NEW w \in Client, undisturbed'[w], TableWriting(tableReq'[w]),
                      NEW d \in Client \ {w}, TableWriting(tableReq'[d])
               PROVE  FALSE
    BY DEF Apart, TableWriting
  <2>1. undisturbed[w] /\ TableWriting(tableReq[w]) /\ TableWriting(tableReq[d])
    BY <1>1, TableKnown
  <2> QED BY <2>1, TableKnown DEF Apart
<1> QED BY <1>1, <1>2

LEMMA TableWrites == ASSUME TableInv, NEW w \in Client, D!WriteDeltaTable(w) PROVE TableInv'
<1>1. PICK mode \in Modes :
        /\ tableReq[w] = D!Idle /\ writes' = writes + 1
        /\ tableReq' = [tableReq EXCEPT ![w] =
                    [op |-> IF mode = "overwrite" /\ Len(log) > 0 THEN "list" ELSE "data",
                     mode |-> mode, write |-> writes', v |-> Len(log), removes |-> {}]]
        /\ undisturbed' = [x \in Client |->
                             IF x = w THEN \A y \in Client : tableReq[y] = D!Idle ELSE FALSE]
        /\ UNCHANGED <<log, files, acked, orderly>>
  BY DEF D!WriteDeltaTable, Modes
<1>2. PICK r : r = [op |-> IF mode = "overwrite" /\ Len(log) > 0 THEN "list" ELSE "data",
                    mode |-> mode, write |-> writes', v |-> Len(log), removes |-> {}]
  OBVIOUS
<1>3. /\ r \in TableRequests /\ w \in D!Actor /\ writes' \in Nat /\ writes \in Nat
      /\ r.op \in {"list", "data"}
  BY <1>1, <1>2, TableKnown DEF TableRequests
<1>4. /\ tableReq' \in [D!Actor -> TableRequests] /\ undisturbed' \in [Client -> BOOLEAN]
      /\ \A d \in D!Actor : tableReq'[d] = IF d = w THEN r ELSE tableReq[d]
      /\ \A d \in Client : undisturbed'[d] => d = w
      /\ undisturbed'[w] => \A y \in Client : tableReq[y] = D!Idle
  BY <1>1, <1>2, <1>3, TableKnown
<1>5. TableTyped'
  BY <1>1, <1>3, <1>4, TableKnown DEF TableTyped, D!Actor, TableRequests, D!Idle, D!Path, Modes,
                                      Entry
<1>6. Apart'
  BY <1>4, TableKnown, TableIdle DEF Apart, TableWriting
<1>7. 1 .. writes \subseteq 1 .. writes'
  BY <1>1, <1>3
<1>8. Owned' /\ \A d \in D!Actor : Stored(tableReq[d])'
  <2>1. Owned'
    BY <1>1, <1>7, TableKnown DEF Owned
  <2>2. ASSUME NEW d \in D!Actor PROVE Stored(tableReq[d])'
    BY <1>1, <1>3, <1>4, <1>7, TableKnown DEF Stored
  <2> QED BY <2>1, <2>2
<1>9. ASSUME orderly PROVE TableSound'
  <2>1. TableSound /\ Len(log) \in Nat /\ log \in Seq(Entry)
    BY <1>9, TableKnown
  <2>2. /\ \A n \in 0 .. Len(log) :
             /\ After(log', n) = After(log, n) /\ After(log', n) \subseteq Old(n, writes')
             /\ RowsOf(files', After(log', n)) = RowsOf(files, After(log, n))
        /\ \A q \in TableRequests : TableReading(q) /\ Planned(q) => TableReading(q)' /\ Planned(q)'
    BY <1>1, <1>3, <2>1, TableStays
  <2>3. ASSUME NEW d \in D!Actor PROVE TableReading(tableReq[d])' /\ Planned(tableReq[d])'
    <3>1. CASE d = w
      BY <1>3, <1>4, <3>1 DEF TableReading, Planned
    <3>2. CASE d # w
      <4>1. /\ tableReq'[d] = tableReq[d] /\ tableReq[d] \in TableRequests
            /\ TableReading(tableReq[d]) /\ Planned(tableReq[d])
        BY <1>4, <2>1, <3>2, TableKnown DEF TableSound
      <4>2. PICK q \in TableRequests : q = tableReq[d]
        BY <4>1
      <4> QED BY <2>2, <4>1, <4>2
    <3> QED BY <3>1, <3>2
  <2>4. ASSUME NEW d \in Client, undisturbed'[d] PROVE Lone(tableReq[d])'
    <3>1. tableReq'[d] = r
      BY <1>3, <1>4, <2>4
    <3>2. Lone(r)'
      <4>1. After(log', 0) = {}
        BY AfterStep
      <4>2. r.op = "data" /\ r.mode = "overwrite" => Len(log) = 0
        BY <1>2, <2>1
      <4>3. r.v = Len(log) /\ r.removes = {}
        BY <1>2
      <4>4. r.op = "list" => r.mode = "overwrite"
        BY <1>2
      <4>5. r.op = "data" => r.removes = Replaced(r)'
        BY <4>1, <4>2, <4>3, <1>1 DEF Replaced
      <4> QED BY <1>1, <1>3, <4>3, <4>4, <4>5 DEF Lone
    <3> QED BY <3>1, <3>2
  <2>5. RowsOf(files', After(log', Len(log'))) = acked'
    BY <1>1, <2>1, <2>2 DEF TableSound, Rows
  <2> QED BY <1>1, <2>1, <2>2, <2>3, <2>4, <2>5 DEF TableSound, Rows, D!Actor
<1> QED BY <1>1, <1>5, <1>6, <1>8, <1>9 DEF TableInv, D!Actor

LEMMA PutsData == ASSUME TableInv, NEW w \in Client, D!PutData(w) PROVE TableInv'
<1>1. PICK q \in TableRequests : q = tableReq[w]
  BY TableKnown
<1>2. /\ q.op = "data" /\ q.mode \in Modes /\ q.write \in Nat /\ q.v \in Nat
      /\ q.removes \in SUBSET D!Path /\ w \in D!Actor
      /\ q = [op |-> q.op, mode |-> q.mode, write |-> q.write, v |-> q.v, removes |-> q.removes]
  BY <1>1, TableShapes, TableKnown DEF D!PutData
<1>3. PICK r : r = [op |-> "commit", mode |-> q.mode, write |-> q.write, v |-> q.v,
                    removes |-> q.removes]
  OBVIOUS
<1>4. r = [q EXCEPT !.op = "commit"]
  <2>1. q = [op |-> "data", mode |-> q.mode, write |-> q.write, v |-> q.v, removes |-> q.removes]
    BY <1>2
  <2> QED BY <1>3, <2>1
<1>5. r \in TableRequests /\ TableWriting(r) /\ TableWriting(q)
  BY <1>2, <1>3 DEF TableRequests, TableWriting, Modes
<1>6. /\ D!Put(<<"part", q.v>>, q.write) /\ tableReq' = [tableReq EXCEPT ![w] = r]
      /\ orderly' = (orderly /\ undisturbed[w]) /\ D!Disturb(w) /\ UNCHANGED <<log, writes, acked>>
  <2>1. [tableReq EXCEPT ![w].op = "commit"] = [tableReq EXCEPT ![w] = [q EXCEPT !.op = "commit"]]
    BY <1>1
  <2> QED BY <1>1, <1>4, <2>1 DEF D!PutData
<1>7. /\ tableReq' \in [D!Actor -> TableRequests] /\ undisturbed' \in [Client -> BOOLEAN] /\ Apart'
      /\ \A d \in D!Actor : tableReq'[d] = IF d = w THEN r ELSE tableReq[d]
      /\ \A d \in Client : undisturbed'[d] => d = w /\ undisturbed[d]
  BY <1>1, <1>2, <1>5, <1>6, TableDisturbs
<1>8. PICK path \in D!Path : path = <<"part", q.v>>
  BY <1>2 DEF D!Path
<1>9. files' \in SUBSET (D!Path \X Nat) /\ D!Put(path, q.write)
  <2>1. D!Put(path, q.write)
    BY <1>6, <1>8
  <2>2. <<path, q.write>> \in D!Path \X Nat
    BY <1>2, <1>8
  <2> QED BY <2>1, <2>2, TableKnown DEF D!Put
<1>10. TableTyped'
  BY <1>6, <1>7, <1>9, TableKnown DEF TableTyped, D!Actor, TableRequests, D!Idle, D!Path, Modes,
                                      Entry
<1>11. Owned' /\ \A d \in D!Actor : Stored(tableReq[d])'
  <2>1. path[1] = "part" /\ <<path, q.write>>[1] = path
    BY <1>8
  <2>2. Owned'
    BY <1>6, <1>9, <2>1, TableKnown DEF Owned, D!Put
  <2>3. ASSUME NEW d \in D!Actor PROVE Stored(tableReq[d])'
    <3>1. CASE d = w
      BY <1>3, <1>7, <3>1 DEF Stored
    <3>2. CASE d # w
      <4>1. PICK s \in TableRequests : s = tableReq[d]
        BY TableKnown
      <4>2. Stored(s) /\ tableReq'[d] = s
        BY <1>7, <3>2, <4>1, TableKnown
      <4>3. <<"own", s.write>> # path
        BY <1>8
      <4>4. Stored(s)'
        BY <1>6, <1>9, <4>2, <4>3 DEF Stored, D!Put
      <4> QED BY <4>2, <4>4
    <3> QED BY <3>1, <3>2
  <2> QED BY <2>2, <2>3
<1>12. ASSUME orderly' PROVE TableSound'
  <2>1. /\ TableSound /\ Len(log) \in Nat /\ log \in Seq(Entry) /\ writes \in Nat /\ undisturbed[w]
        /\ Lone(q)
    BY <1>1, <1>6, <1>12, TableKnown DEF TableSound
  <2>2. q.v = Len(log) /\ q.removes = Replaced(q)
    BY <1>2, <1>5, <2>1 DEF Lone
  <2>3. path \notin Old(Len(log), writes)
    BY <1>8, <2>1, <2>2 DEF Old
  <2>4. \A P : P \subseteq Old(Len(log), writes) => RowsOf(files', P) = RowsOf(files, P)
    BY <1>9, <2>3, RowsOfKept
  <2>5. /\ \A n \in 0 .. Len(log) :
             /\ After(log', n) = After(log, n) /\ After(log', n) \subseteq Old(n, writes')
             /\ RowsOf(files', After(log', n)) = RowsOf(files, After(log, n))
        /\ \A s \in TableRequests : TableReading(s) /\ Planned(s) => TableReading(s)' /\ Planned(s)'
    BY <1>6, <2>1, <2>4, TableStays
  <2>6. ASSUME NEW d \in D!Actor PROVE TableReading(tableReq[d])' /\ Planned(tableReq[d])'
    <3>1. CASE d = w
      BY <1>3, <1>7, <3>1 DEF TableReading, Planned
    <3>2. CASE d # w
      <4>1. /\ tableReq'[d] = tableReq[d] /\ tableReq[d] \in TableRequests
            /\ TableReading(tableReq[d]) /\ Planned(tableReq[d])
        BY <1>7, <2>1, <3>2, TableKnown DEF TableSound
      <4>2. PICK s \in TableRequests : s = tableReq[d]
        BY <4>1
      <4> QED BY <2>5, <4>1, <4>2
    <3> QED BY <3>1, <3>2
  <2>7. ASSUME NEW d \in Client, undisturbed'[d] PROVE Lone(tableReq[d])'
    <3>1. tableReq'[d] = r
      BY <1>2, <1>7, <2>7
    <3>2. Replaced(r)' = q.removes /\ RowsOf(files', {<<"part", q.v>>}) = {q.write}
      BY <1>3, <1>6, <1>8, <1>9, <2>2, RowsPut DEF Replaced
    <3>3. Lone(r)'
      BY <1>3, <1>6, <2>2, <3>2 DEF Lone, Rows
    <3> QED BY <3>1, <3>3
  <2>8. RowsOf(files', After(log', Len(log'))) = acked'
    BY <1>6, <2>1, <2>5 DEF TableSound, Rows
  <2> QED BY <1>6, <2>1, <2>5, <2>6, <2>7, <2>8 DEF TableSound, Rows, D!Actor
<1> QED BY <1>7, <1>10, <1>11, <1>12 DEF TableInv, D!Actor

LEMMA PutsCommit == ASSUME TableInv, NEW w \in Client, D!PutCommit(w) PROVE TableInv'
<1>1. PICK q \in TableRequests : q = tableReq[w]
  BY TableKnown
<1>2. /\ q.op = "commit" /\ q.mode \in Modes /\ q.write \in Nat /\ q.v \in Nat
      /\ q.removes \in SUBSET D!Path /\ w \in D!Actor /\ TableWriting(q)
  <2>1. q.op = "commit" /\ w \in D!Actor
    BY <1>1, TableKnown DEF D!PutCommit
  <2> QED BY <2>1, TableShapes DEF TableWriting, Modes
<1>3. PICK path \in D!Path : path = <<"part", q.v>>
  BY <1>2 DEF D!Path
<1>4. PICK c \in Entry : c = D!Commit(path, q)
  BY <1>2 DEF D!Commit, Entry
<1>5. /\ log' = IF q.v < Len(log) THEN [log EXCEPT ![q.v + 1] = c] ELSE Append(log, c)
      /\ D!Acknowledge(q) /\ tableReq' = [tableReq EXCEPT ![w] = D!Idle]
      /\ orderly' = (orderly /\ undisturbed[w]) /\ D!Disturb(w) /\ UNCHANGED <<files, writes>>
  BY <1>1, <1>3, <1>4 DEF D!PutCommit
<1>6. /\ tableReq' \in [D!Actor -> TableRequests] /\ undisturbed' \in [Client -> BOOLEAN] /\ Apart'
      /\ \A d \in D!Actor : tableReq'[d] = IF d = w THEN D!Idle ELSE tableReq[d]
      /\ \A d \in Client : undisturbed'[d] => d = w /\ undisturbed[d]
  <2>1. ~TableWriting(D!Idle)
    BY TableIdle DEF TableWriting
  <2> QED BY <1>2, <1>5, <2>1, TableIdle, TableDisturbs
<1>7. log' \in Seq(Entry) /\ Len(log) <= Len(log')
  <2>1. CASE q.v < Len(log)
    <3>1. q.v + 1 \in 1 .. Len(log)
      BY <1>2, <2>1, TableKnown
    <3>2. log' = [log EXCEPT ![q.v + 1] = c]
      BY <1>5, <2>1
    <3> QED BY <3>1, <3>2, TableKnown
  <2>2. CASE ~(q.v < Len(log))
    BY <1>5, <2>2, TableKnown
  <2> QED BY <2>1, <2>2
<1>8. acked' \in SUBSET Nat /\ orderly' \in BOOLEAN
  BY <1>2, <1>5, TableKnown DEF D!Acknowledge
<1>9. TableTyped'
  BY <1>5, <1>6, <1>7, <1>8, TableKnown DEF TableTyped, D!Actor, TableRequests, D!Idle, D!Path,
                                            Modes, Entry
<1>10. Owned' /\ \A d \in D!Actor : Stored(tableReq[d])'
  <2>1. Owned'
    BY <1>5, TableKnown DEF Owned
  <2>2. ASSUME NEW d \in D!Actor PROVE Stored(tableReq[d])'
    <3>1. CASE d = w
      BY <1>6, <3>1, TableIdle DEF Stored
    <3>2. CASE d # w
      <4>1. PICK s \in TableRequests : s = tableReq[d]
        BY TableKnown
      <4>2. Stored(s) /\ tableReq'[d] = s /\ (s.op = "replay" => s.to \in Nat)
        BY <1>6, <3>2, <4>1, TableShapes, TableKnown
      <4>3. Len(log) \in Nat /\ Len(log') \in Nat
        BY <1>7, TableKnown
      <4>4. Stored(s)'
        BY <1>5, <1>7, <4>2, <4>3 DEF Stored
      <4> QED BY <4>2, <4>4
    <3> QED BY <3>1, <3>2
  <2> QED BY <2>1, <2>2
<1>11. ASSUME orderly' PROVE TableSound'
  <2>1. TableSound /\ Len(log) \in Nat /\ undisturbed[w] /\ Lone(q)
    BY <1>1, <1>5, <1>11, TableKnown DEF TableSound
  <2>2. q.v = Len(log) /\ q.removes = Replaced(q) /\ RowsOf(files, {path}) = {q.write}
    BY <1>2, <1>3, <2>1 DEF Lone, Rows
  <2>3. log' = Append(log, D!Commit(path, q))
    BY <1>4, <1>5, <2>1, <2>2
  <2>4. path \in Old(Len(log) + 1, writes)
    BY <1>3, <2>1, <2>2 DEF Old
  <2>5. q.removes = IF q.mode = "overwrite" THEN After(log, Len(log)) ELSE {}
    BY <2>2 DEF Replaced
  <2>6. /\ \A n \in 0 .. Len(log') : After(log', n) \subseteq Old(n, writes')
        /\ RowsOf(files', After(log', Len(log'))) = acked'
        /\ \A s \in TableRequests : TableReading(s) /\ Planned(s) => TableReading(s)' /\ Planned(s)'
    BY <1>2, <1>5, <2>1, <2>2, <2>3, <2>4, <2>5, TableCommits
  <2>7. ASSUME NEW d \in D!Actor PROVE TableReading(tableReq[d])' /\ Planned(tableReq[d])'
    <3>1. CASE d = w
      BY <1>6, <3>1, TableIdle DEF TableReading, Planned
    <3>2. CASE d # w
      <4>1. /\ tableReq'[d] = tableReq[d] /\ tableReq[d] \in TableRequests
            /\ TableReading(tableReq[d]) /\ Planned(tableReq[d])
        BY <1>6, <2>1, <3>2, TableKnown DEF TableSound
      <4>2. PICK s \in TableRequests : s = tableReq[d]
        BY <4>1
      <4> QED BY <2>6, <4>1, <4>2
    <3> QED BY <3>1, <3>2
  <2>8. ASSUME NEW d \in Client, undisturbed'[d] PROVE Lone(tableReq[d])'
    BY <1>2, <1>6, <2>8, TableIdle DEF Lone, TableWriting
  <2> QED BY <2>6, <2>7, <2>8 DEF TableSound, Rows, D!Actor
<1> QED BY <1>6, <1>9, <1>10, <1>11 DEF TableInv, D!Actor

-----------------------------------------------------------------------------
LEMMA EngineWrites == ASSUME TableInv, NEW e \in Engine, D!EngineWrite(e) PROVE TableInv'
<1>1. PICK mode \in Modes :
        /\ writes' = writes + 1 /\ D!Put(<<"own", writes'>>, writes')
        /\ tableReq' = [tableReq EXCEPT ![e] = [op |-> "plan", mode |-> mode, write |-> writes']]
        /\ UNCHANGED <<log, acked, undisturbed, orderly>>
  BY DEF D!EngineWrite, Modes
<1>2. PICK r : r = [op |-> "plan", mode |-> mode, write |-> writes']
  OBVIOUS
<1>3. /\ writes \in Nat /\ writes' \in Nat /\ writes' \in 1 .. writes'
      /\ 1 .. writes \subseteq 1 .. writes' /\ writes' \notin 1 .. writes
      /\ \A i \in 1 .. writes : i # writes'
  BY <1>1, TableKnown
<1>4. /\ r \in TableRequests /\ e \in D!Actor /\ ~TableWriting(r) /\ r.op = "plan"
      /\ r.write = writes'
      /\ tableReq' \in [D!Actor -> TableRequests]
      /\ \A d \in D!Actor : tableReq'[d] = IF d = e THEN r ELSE tableReq[d]
  <2>1. /\ r \in TableRequests /\ e \in D!Actor /\ ~TableWriting(r) /\ r.op = "plan"
        /\ r.write = writes'
    BY <1>2, <1>3, TableKnown DEF TableRequests, TableWriting
  <2> QED BY <1>1, <1>2, <2>1, TableKnown
<1>5. PICK path \in D!Path : path = <<"own", writes'>>
  BY <1>3 DEF D!Path
<1>6. files' \in SUBSET (D!Path \X Nat) /\ D!Put(path, writes')
  <2>1. D!Put(path, writes')
    BY <1>1, <1>5
  <2>2. <<path, writes'>> \in D!Path \X Nat
    BY <1>3
  <2> QED BY <2>1, <2>2, TableKnown DEF D!Put
<1>7. TableTyped'
  BY <1>1, <1>3, <1>4, <1>6, TableKnown DEF TableTyped, D!Actor, TableRequests, D!Idle, D!Path,
                                            Modes, Entry
<1>8. Apart'
  BY <1>1, <1>4, TableKnown DEF Apart
<1>9. Owned' /\ \A d \in D!Actor : Stored(tableReq[d])'
  <2>1. \A f \in files' : f \in files \/ f = <<path, writes'>>
    BY <1>6 DEF D!Put
  <2>2. Owned'
    <3> SUFFICES ASSUME NEW f \in files', f[1][1] = "own"
                 PROVE  f[1][2] = f[2] /\ f[2] \in 1 .. writes'
      BY DEF Owned
    <3>1. CASE f \in files
      <4>1. f[1][2] = f[2] /\ f[2] \in 1 .. writes
        BY <3>1, TableKnown DEF Owned
      <4> QED BY <1>3, <4>1
    <3>2. CASE f = <<path, writes'>>
      BY <1>3, <1>5, <3>2
    <3> QED BY <2>1, <3>1, <3>2
  <2>3. ASSUME NEW d \in D!Actor PROVE Stored(tableReq[d])'
    <3>1. CASE d = e
      <4>1. <<<<"own", r.write>>, r.write>> \in files'
        BY <1>4, <1>5, <1>6 DEF D!Put
      <4> QED BY <1>3, <1>4, <3>1, <4>1 DEF Stored
    <3>2. CASE d # e
      <4>1. PICK s \in TableRequests : s = tableReq[d]
        BY TableKnown
      <4>2. Stored(s) /\ tableReq'[d] = s
        BY <1>4, <3>2, <4>1, TableKnown
      <4>3. s.write \in 1 .. writes => <<"own", s.write>> # path
        BY <1>3, <1>5
      <4>4. Stored(s)'
        BY <1>1, <1>3, <1>6, <4>2, <4>3 DEF Stored, D!Put
      <4> QED BY <4>2, <4>4
    <3> QED BY <3>1, <3>2
  <2> QED BY <2>2, <2>3
<1>10. ASSUME orderly' PROVE TableSound'
  <2>1. TableSound /\ Len(log) \in Nat /\ log \in Seq(Entry)
    BY <1>1, <1>10, TableKnown
  <2>2. path \notin Old(Len(log), writes)
    BY <1>3, <1>5 DEF Old
  <2>3. \A P : P \subseteq Old(Len(log), writes) => RowsOf(files', P) = RowsOf(files, P)
    BY <1>6, <2>2, RowsOfKept
  <2>4. /\ \A n \in 0 .. Len(log) :
             /\ After(log', n) = After(log, n) /\ After(log', n) \subseteq Old(n, writes')
             /\ RowsOf(files', After(log', n)) = RowsOf(files, After(log, n))
        /\ \A s \in TableRequests : TableReading(s) /\ Planned(s) => TableReading(s)' /\ Planned(s)'
    BY <1>1, <1>3, <2>1, <2>3, TableStays
  <2>5. ASSUME NEW d \in D!Actor PROVE TableReading(tableReq[d])' /\ Planned(tableReq[d])'
    <3>1. CASE d = e
      BY <1>4, <3>1 DEF TableReading, Planned
    <3>2. CASE d # e
      <4>1. /\ tableReq'[d] = tableReq[d] /\ tableReq[d] \in TableRequests
            /\ TableReading(tableReq[d]) /\ Planned(tableReq[d])
        BY <1>4, <2>1, <3>2, TableKnown DEF TableSound
      <4>2. PICK s \in TableRequests : s = tableReq[d]
        BY <4>1
      <4> QED BY <2>4, <4>1, <4>2
    <3> QED BY <3>1, <3>2
  <2>6. ASSUME NEW d \in Client, undisturbed'[d] PROVE Lone(tableReq[d])'
    <3>1. CASE d = e
      BY <1>4, <3>1 DEF Lone, TableWriting
    <3>2. CASE d # e
      <4>1. PICK s \in TableRequests : s = tableReq[d]
        BY TableKnown
      <4>2. Lone(s) /\ tableReq'[d] = s
        BY <1>1, <1>4, <2>1, <2>6, <3>2, <4>1, TableKnown DEF TableSound
      <4>3. path \notin {<<"part", s.v>>}
        BY <1>5
      <4>4. RowsOf(files', {<<"part", s.v>>}) = RowsOf(files, {<<"part", s.v>>})
        BY <1>6, <4>3, RowsOfKept
      <4>5. Replaced(s)' = Replaced(s)
        BY <1>1 DEF Replaced
      <4>6. Lone(s)'
        BY <1>1, <4>2, <4>4, <4>5 DEF Lone, TableWriting, Rows
      <4> QED BY <4>2, <4>6
    <3> QED BY <3>1, <3>2
  <2>7. RowsOf(files', After(log', Len(log'))) = acked'
    BY <1>1, <2>1, <2>4 DEF TableSound, Rows
  <2> QED BY <1>1, <2>1, <2>4, <2>5, <2>6, <2>7 DEF TableSound, Rows, D!Actor
<1> QED BY <1>7, <1>8, <1>9, <1>10 DEF TableInv, D!Actor

LEMMA EnginePlans == ASSUME TableInv, NEW e \in Engine, D!EnginePlan(e) PROVE TableInv'
<1>1. PICK q \in TableRequests : q = tableReq[e]
  BY TableKnown
<1>2. q.op = "plan" /\ q.mode \in Modes /\ q.write \in Nat /\ e \in D!Actor /\ Stored(q)
  BY <1>1, TableShapes, TableKnown DEF D!EnginePlan
<1>3. PICK r : r = [op |-> "put", mode |-> q.mode, write |-> q.write, v |-> Len(log),
                    removes |-> IF q.mode = "overwrite" THEN After(log, Len(log)) ELSE {}]
  OBVIOUS
<1>4. Len(log) \in Nat /\ D!Active[Len(log)] = After(log, Len(log))
  BY TableKnown
<1>5. /\ tableReq' = [tableReq EXCEPT ![e] = r]
      /\ UNCHANGED <<log, files, writes, acked, undisturbed, orderly>>
  BY <1>1, <1>3, <1>4 DEF D!EnginePlan, D!Goto
<1>6. r \in TableRequests /\ r.op = "put" /\ r.v = Len(log) /\ r.mode = q.mode /\ r.write = q.write
  <2>1. After(log, Len(log)) \in SUBSET D!Path
    BY <1>4, TableKnown
  <2> QED BY <1>2, <1>3, <1>4, <2>1 DEF TableRequests
<1>7. TableReading(r) /\ Planned(r) /\ Lone(r) /\ Stored(r) /\ ~TableWriting(r)
  <2>1. Stored(r)
    BY <1>2, <1>6 DEF Stored
  <2>2. Planned(r)
    BY <1>3, <1>4, <1>6 DEF Planned, Replaced
  <2> QED BY <1>6, <2>1, <2>2 DEF TableReading, Lone, TableWriting
<1> QED BY <1>2, <1>5, <1>6, <1>7, TableGoesOn

LEMMA EngineCommits == ASSUME TableInv, NEW e \in Engine, D!EngineCommit(e) PROVE TableInv'
<1>1. PICK q \in TableRequests : q = tableReq[e]
  BY TableKnown
<1>2. /\ q.op = "put" /\ q.mode \in Modes /\ q.write \in Nat /\ q.v \in Nat
      /\ q.removes \in SUBSET D!Path /\ e \in D!Actor /\ Stored(q) /\ Owned
  BY <1>1, TableShapes, TableKnown DEF D!EngineCommit
<1>3. CASE q.v = Len(log)
  <2>1. PICK path \in D!Path : path = <<"own", q.write>>
    BY <1>2 DEF D!Path
  <2>2. PICK c \in Entry : c = D!Commit(path, q)
    BY <1>2 DEF D!Commit, Entry
  <2>3. /\ log' = Append(log, D!Commit(path, q)) /\ log' = Append(log, c) /\ D!Acknowledge(q)
        /\ tableReq' = [tableReq EXCEPT ![e] = D!Idle] /\ D!Disturb(e)
        /\ UNCHANGED <<files, writes, orderly>>
    BY <1>1, <1>3, <2>1, <2>2 DEF D!EngineCommit
  <2>4. /\ tableReq' \in [D!Actor -> TableRequests] /\ undisturbed' \in [Client -> BOOLEAN]
        /\ Apart'
        /\ \A d \in D!Actor : tableReq'[d] = IF d = e THEN D!Idle ELSE tableReq[d]
        /\ \A d \in Client : undisturbed'[d] => d = e /\ undisturbed[d]
    <3>1. ~TableWriting(D!Idle)
      BY TableIdle DEF TableWriting
    <3> QED BY <1>2, <2>3, <3>1, TableIdle, TableDisturbs
  <2>5. log' \in Seq(Entry) /\ Len(log') = Len(log) + 1 /\ Len(log) \in Nat
    BY <2>3, TableKnown
  <2>6. acked' \in SUBSET Nat
    BY <1>2, <2>3, TableKnown DEF D!Acknowledge
  <2>7. TableTyped'
    BY <2>3, <2>4, <2>5, <2>6, TableKnown DEF TableTyped, D!Actor, TableRequests, D!Idle, D!Path,
                                              Modes, Entry
  <2>8. Owned' /\ \A d \in D!Actor : Stored(tableReq[d])'
    <3>1. Owned'
      BY <2>3, TableKnown DEF Owned
    <3>2. ASSUME NEW d \in D!Actor PROVE Stored(tableReq[d])'
      <4>1. CASE d = e
        BY <2>4, <4>1, TableIdle DEF Stored
      <4>2. CASE d # e
        <5>1. PICK s \in TableRequests : s = tableReq[d]
          BY TableKnown
        <5>2. Stored(s) /\ tableReq'[d] = s /\ (s.op = "replay" => s.to \in Nat)
          BY <2>4, <4>2, <5>1, TableShapes, TableKnown
        <5>3. Stored(s)'
          BY <2>3, <2>5, <5>2 DEF Stored
        <5> QED BY <5>2, <5>3
      <4> QED BY <4>1, <4>2
    <3> QED BY <3>1, <3>2
  <2>9. ASSUME orderly' PROVE TableSound'
    <3>1. TableSound /\ Planned(q)
      BY <1>1, <1>2, <2>3, <2>9, TableKnown DEF TableSound
    <3>2. q.removes = IF q.mode = "overwrite" THEN After(log, Len(log)) ELSE {}
      BY <1>2, <1>3, <3>1 DEF Planned, Replaced
    <3>3. RowsOf(files, {path}) = {q.write}
      <4>1. <<path, q.write>> \in files /\ path[1] = "own" /\ path[2] = q.write
        BY <1>2, <2>1 DEF Stored
      <4>2. {g \in files : g[1] \in {path}} = {<<path, q.write>>}
        <5>1. ASSUME NEW g \in files, g[1] = path PROVE g = <<path, q.write>>
          <6>1. g[2] = q.write
            BY <1>2, <4>1, <5>1 DEF Owned
          <6>2. g \in D!Path \X Nat
            BY TableKnown
          <6> QED BY <5>1, <6>1, <6>2
        <5> QED BY <4>1, <5>1
      <4>3. RowsOf(files, {path}) = {f[2] : f \in {<<path, q.write>>}}
        BY <4>2 DEF RowsOf
      <4>4. {f[2] : f \in {<<path, q.write>>}} = {q.write}
        OBVIOUS
      <4> QED BY <4>3, <4>4
    <3>4. path \in Old(Len(log) + 1, writes)
      BY <1>2, <2>1 DEF Old, Stored
    <3>5. /\ \A n \in 0 .. Len(log') : After(log', n) \subseteq Old(n, writes')
          /\ RowsOf(files', After(log', Len(log'))) = acked'
          /\ \A s \in TableRequests :
               TableReading(s) /\ Planned(s) => TableReading(s)' /\ Planned(s)'
      BY <1>2, <2>3, <3>1, <3>2, <3>3, <3>4, TableCommits
    <3>6. ASSUME NEW d \in D!Actor PROVE TableReading(tableReq[d])' /\ Planned(tableReq[d])'
      <4>1. CASE d = e
        BY <2>4, <4>1, TableIdle DEF TableReading, Planned
      <4>2. CASE d # e
        <5>1. /\ tableReq'[d] = tableReq[d] /\ tableReq[d] \in TableRequests
              /\ TableReading(tableReq[d]) /\ Planned(tableReq[d])
          BY <2>4, <3>1, <4>2, TableKnown DEF TableSound
        <5>2. PICK s \in TableRequests : s = tableReq[d]
          BY <5>1
        <5> QED BY <3>5, <5>1, <5>2
      <4> QED BY <4>1, <4>2
    <3>7. ASSUME NEW d \in Client, undisturbed'[d] PROVE Lone(tableReq[d])'
      BY <1>2, <2>4, <3>7, TableIdle DEF Lone, TableWriting
    <3> QED BY <3>5, <3>6, <3>7 DEF TableSound, Rows, D!Actor
  <2> QED BY <2>4, <2>7, <2>8, <2>9 DEF TableInv, D!Actor
<1>4. CASE q.v # Len(log)
  <2>1. PICK r : r = [op |-> "plan", mode |-> q.mode, write |-> q.write]
    OBVIOUS
  <2>2. /\ tableReq' = [tableReq EXCEPT ![e] = r]
        /\ UNCHANGED <<log, files, writes, acked, undisturbed, orderly>>
    BY <1>1, <1>4, <2>1 DEF D!EngineCommit, D!Goto
  <2>3. r \in TableRequests /\ r.op = "plan" /\ r.write = q.write
    BY <1>2, <2>1 DEF TableRequests
  <2>4. TableReading(r) /\ Planned(r) /\ Lone(r) /\ Stored(r) /\ ~TableWriting(r)
    BY <1>2, <2>3 DEF TableReading, Planned, Lone, Stored, TableWriting
  <2> QED BY <1>2, <2>2, <2>3, <2>4, TableGoesOn
<1> QED BY <1>3, <1>4

-----------------------------------------------------------------------------
LEMMA TableReads == ASSUME TableInv, NEW a \in Reader, D!ReadDeltaTable(a) PROVE TableInv'
<1>1. PICK r : r = [op |-> "list", mode |-> "read", write |-> 0, v |-> 0, removes |-> {}]
  OBVIOUS
<1>2. /\ a \in D!Actor /\ tableReq' = [tableReq EXCEPT ![a] = r]
      /\ UNCHANGED <<log, files, writes, acked, undisturbed, orderly>>
  BY <1>1, TableKnown DEF D!ReadDeltaTable, D!Goto
<1>3. r \in TableRequests /\ r.op = "list" /\ r.mode = "read"
  BY <1>1 DEF TableRequests
<1>4. TableReading(r) /\ Planned(r) /\ Lone(r) /\ Stored(r) /\ ~TableWriting(r)
  BY <1>3 DEF TableReading, Planned, Lone, Stored, TableWriting
<1> QED BY <1>2, <1>3, <1>4, TableGoesOn

LEMMA TableLists == ASSUME TableInv, NEW a \in D!Actor, D!List(a) PROVE TableInv'
<1>1. PICK q \in TableRequests : q = tableReq[a]
  BY TableKnown
<1>2. /\ q.op = "list" /\ q.mode \in Modes \cup {"read"} /\ q.write \in Nat /\ q.v \in Nat
      /\ Len(log) \in Nat /\ D!Active[Len(log)] = After(log, Len(log))
  BY <1>1, TableShapes, TableKnown DEF D!List
<1>3. D!Content = Rows(After(log, Len(log))) /\ D!Content \in SUBSET Nat
  <2>1. D!Content = Rows(After(log, Len(log)))
    BY <1>2 DEF D!Content, Rows, RowsOf
  <2> QED BY <2>1, RowsTyped, TableKnown DEF Rows
<1>4. PICK r : r = [op |-> "replay", mode |-> q.mode, write |-> q.write, v |-> q.v,
                    to |-> Len(log), next |-> 1, active |-> {}, was |-> D!Content]
  OBVIOUS
<1>5. /\ tableReq' = [tableReq EXCEPT ![a] = r]
      /\ UNCHANGED <<log, files, writes, acked, undisturbed, orderly>>
  BY <1>1, <1>4 DEF D!List, D!Goto
<1>6. /\ r \in TableRequests /\ r.op = "replay" /\ r.to = Len(log) /\ r.next = 1 /\ r.mode = q.mode
      /\ r.v = q.v /\ r.active = {} /\ r.was = D!Content
  BY <1>2, <1>3, <1>4 DEF TableRequests
<1>7. TableReading(r)
  <2>1. After(log, 0) = {} /\ 1 - 1 = 0
    BY AfterStep
  <2> QED BY <1>2, <1>3, <1>6, <2>1 DEF TableReading
<1>8. Planned(r) /\ Stored(r) /\ (TableWriting(r) => TableWriting(q))
  BY <1>2, <1>6 DEF Planned, Stored, TableWriting
<1>9. ASSUME orderly, a \in Client, undisturbed[a] PROVE Lone(r)
  <2>1. Lone(q)
    BY <1>1, <1>9, TableKnown DEF TableSound
  <2> QED BY <1>2, <1>6, <2>1 DEF Lone, TableWriting
<1> QED BY <1>1, <1>5, <1>6, <1>7, <1>8, <1>9, TableGoesOn

LEMMA ReadsCommit == ASSUME TableInv, NEW a \in D!Actor, D!ReadCommit(a) PROVE TableInv'
<1>1. PICK q \in TableRequests : q = tableReq[a]
  BY TableKnown
<1>2. /\ q.op = "replay" /\ q.next <= q.to /\ q.mode \in Modes \cup {"read"} /\ q.write \in Nat
      /\ q.v \in Nat /\ q.to \in Nat /\ q.next \in Nat /\ q.active \in SUBSET D!Path
      /\ q.was \in SUBSET Nat /\ q.to <= Len(log) /\ q.next >= 1 /\ Len(log) \in Nat
      /\ q = [op |-> "replay", mode |-> q.mode, write |-> q.write, v |-> q.v, to |-> q.to,
              next |-> q.next, active |-> q.active, was |-> q.was]
  BY <1>1, TableShapes, TableKnown DEF D!ReadCommit, Stored
<1>3. PICK act \in SUBSET D!Path : act = D!Apply(q.active, log[q.next])
  <2>1. log[q.next] \in Entry
    <3>1. q.next \in 1 .. Len(log)
      BY <1>2
    <3> QED BY <3>1, TableKnown
  <2> QED BY <1>2, <2>1 DEF D!Apply, Entry
<1>4. PICK r : r = [op |-> "replay", mode |-> q.mode, write |-> q.write, v |-> q.v, to |-> q.to,
                    next |-> q.next + 1, active |-> act, was |-> q.was]
  OBVIOUS
<1>5. /\ tableReq' = [tableReq EXCEPT ![a] = r]
      /\ UNCHANGED <<log, files, writes, acked, undisturbed, orderly>>
  <2>1. [q EXCEPT !.next = q.next + 1, !.active = act] = r
    <3>1. PICK m : m = [op |-> "replay", mode |-> q.mode, write |-> q.write, v |-> q.v,
                        to |-> q.to, next |-> q.next + 1, active |-> q.active, was |-> q.was]
      OBVIOUS
    <3>2. [q EXCEPT !.next = q.next + 1] = m
      BY <1>2, <3>1
    <3>3. [m EXCEPT !.active = act] = r
      BY <1>4, <3>1
    <3> QED BY <3>2, <3>3
  <2>2. tableReq' = [tableReq EXCEPT ![a] = [q EXCEPT !.next = q.next + 1, !.active = act]]
    BY <1>1, <1>3 DEF D!ReadCommit, D!Goto
  <2> QED BY <2>1, <2>2 DEF D!ReadCommit, D!Goto
<1>6. /\ r \in TableRequests /\ r.op = "replay" /\ r.to = q.to /\ r.next = q.next + 1
      /\ r.mode = q.mode
      /\ r.v = q.v /\ r.active = act /\ r.was = q.was
  BY <1>2, <1>4 DEF TableRequests
<1>7. ASSUME orderly PROVE TableReading(r)
  <2>1. q.active = After(log, q.next - 1) /\ q.was = Rows(After(log, q.to))
    BY <1>1, <1>2, <1>7, TableKnown DEF TableSound, TableReading
  <2>2. After(log, q.next) = D!Apply(After(log, q.next - 1), log[q.next])
    <3>1. q.next \in Nat \ {0}
      BY <1>2
    <3> QED BY <3>1, AfterStep
  <2>3. r.next \in 1 .. r.to + 1 /\ r.next - 1 = q.next
    BY <1>2, <1>6
  <2> QED BY <1>2, <1>3, <1>6, <2>1, <2>2, <2>3 DEF TableReading
<1>8. Planned(r) /\ Stored(r) /\ (TableWriting(r) => TableWriting(q))
  BY <1>2, <1>6 DEF Planned, Stored, TableWriting
<1>9. ASSUME orderly, a \in Client, undisturbed[a] PROVE Lone(r)
  <2>1. Lone(q)
    BY <1>1, <1>9, TableKnown DEF TableSound
  <2> QED BY <1>2, <1>6, <2>1 DEF Lone, TableWriting
<1> QED BY <1>1, <1>5, <1>6, <1>7, <1>8, <1>9, TableGoesOn

LEMMA TableReplays == ASSUME TableInv, NEW a \in D!Actor, D!Replayed(a) PROVE TableInv'
<1>1. PICK q \in TableRequests : q = tableReq[a]
  BY TableKnown
<1>2. /\ q.op = "replay" /\ q.next > q.to /\ q.mode \in Modes \cup {"read"} /\ q.write \in Nat
      /\ q.v \in Nat /\ q.to \in Nat /\ q.next \in Nat /\ q.active \in SUBSET D!Path
      /\ q.was \in SUBSET Nat /\ Len(log) \in Nat /\ writes \in Nat
  BY <1>1, TableShapes, TableKnown DEF D!Replayed
<1>3. ASSUME orderly
      PROVE  q.active = After(log, q.to) /\ q.was = Rows(After(log, q.to)) /\ q.to <= Len(log)
  <2>1. /\ q.active = After(log, q.next - 1) /\ q.was = Rows(After(log, q.to)) /\ q.to <= Len(log)
        /\ q.next \in 1 .. q.to + 1
    BY <1>1, <1>2, <1>3, TableKnown DEF TableSound, TableReading
  <2>2. q.next - 1 = q.to
    BY <1>2, <2>1
  <2> QED BY <2>1, <2>2
<1>4. CASE q.mode = "read"
  <2>1. PICK r : r = [op |-> "fetch", left |-> q.active, rows |-> {}, was |-> q.was]
    OBVIOUS
  <2>2. /\ tableReq' = [tableReq EXCEPT ![a] = r]
        /\ UNCHANGED <<log, files, writes, acked, undisturbed, orderly>>
    BY <1>1, <1>4, <2>1 DEF D!Replayed, D!Goto
  <2>3. r \in TableRequests /\ r.op = "fetch" /\ r.left = q.active /\ r.rows = {} /\ r.was = q.was
    BY <1>2, <2>1 DEF TableRequests
  <2>4. ASSUME orderly PROVE TableReading(r)
    <3>1. q.to \in 0 .. Len(log)
      BY <1>2, <1>3, <2>4
    <3>2. After(log, q.to) \subseteq Old(q.to, writes)
      BY <2>4, <3>1, TableKnown DEF TableSound
    <3>3. Old(q.to, writes) \subseteq Old(Len(log), writes)
      BY <1>2, <3>1 DEF Old
    <3> QED BY <1>3, <2>3, <2>4, <3>2, <3>3 DEF TableReading
  <2>5. Planned(r) /\ Stored(r) /\ Lone(r) /\ ~TableWriting(r)
    BY <2>3 DEF Planned, Stored, Lone, TableWriting
  <2> QED BY <2>2, <2>3, <2>4, <2>5, TableGoesOn
<1>5. CASE q.mode # "read"
  <2>1. PICK r : r = [op |-> "data", mode |-> q.mode, write |-> q.write, v |-> q.v,
                      removes |-> q.active]
    OBVIOUS
  <2>2. /\ tableReq' = [tableReq EXCEPT ![a] = r]
        /\ UNCHANGED <<log, files, writes, acked, undisturbed, orderly>>
    BY <1>1, <1>5, <2>1 DEF D!Replayed, D!Goto
  <2>3. /\ r \in TableRequests /\ r.op = "data" /\ r.v = q.v /\ r.removes = q.active
        /\ r.mode = q.mode
    BY <1>2, <1>5, <2>1 DEF TableRequests, Modes
  <2>4. TableReading(r) /\ Planned(r) /\ Stored(r) /\ TableWriting(q)
    BY <1>2, <1>5, <2>3 DEF TableReading, Planned, Stored, TableWriting
  <2>5. ASSUME orderly, a \in Client, undisturbed[a] PROVE Lone(r)
    <3>1. Lone(q)
      BY <1>1, <2>5, TableKnown DEF TableSound
    <3>2. q.v = Len(log) /\ q.mode = "overwrite" /\ q.to = q.v
      BY <1>2, <2>4, <3>1 DEF Lone
    <3> QED BY <1>3, <2>3, <2>5, <3>2 DEF Lone, Replaced
  <2> QED BY <1>1, <2>2, <2>3, <2>4, <2>5, TableGoesOn
<1> QED BY <1>4, <1>5

LEMMA ReadsFile == ASSUME TableInv, NEW a \in Reader, D!ReadFile(a) PROVE TableInv'
<1>1. PICK q \in TableRequests : q = tableReq[a]
  BY TableKnown
<1>2. /\ q.op = "fetch" /\ q.left \in SUBSET D!Path /\ q.rows \in SUBSET Nat /\ q.was \in SUBSET Nat
      /\ q = [op |-> "fetch", left |-> q.left, rows |-> q.rows, was |-> q.was] /\ a \in D!Actor
  BY <1>1, TableShapes, TableKnown DEF D!ReadFile
<1>3. PICK p \in q.left :
        D!Goto(a, [q EXCEPT !.left = @ \ {p},
                            !.rows = @ \cup {f[2] : f \in {g \in files : g[1] = p}}])
  BY <1>1 DEF D!ReadFile
<1>4. {f[2] : f \in {g \in files : g[1] = p}} = Rows({p})
  <2>1. {g \in files : g[1] = p} = {g \in files : g[1] \in {p}}
    OBVIOUS
  <2> QED BY <2>1 DEF Rows, RowsOf
<1>5. PICK x \in SUBSET Nat : x = q.rows \cup Rows({p})
  BY <1>2, RowsTyped, TableKnown DEF Rows
<1>6. PICK r : r = [op |-> "fetch", left |-> q.left \ {p}, rows |-> x, was |-> q.was]
  OBVIOUS
<1>7. /\ tableReq' = [tableReq EXCEPT ![a] = r]
      /\ UNCHANGED <<log, files, writes, acked, undisturbed, orderly>>
  <2>1. D!Goto(a, [q EXCEPT !.left = q.left \ {p}, !.rows = x])
    BY <1>3, <1>4, <1>5
  <2>2. [q EXCEPT !.left = q.left \ {p}, !.rows = x] = r
    <3> DEFINE rest == q.left \ {p}
    <3>1. PICK m : m = [op |-> "fetch", left |-> rest, rows |-> q.rows, was |-> q.was]
      OBVIOUS
    <3>2. [q EXCEPT !.left = rest] = m
      <4>1. q = [op |-> "fetch", left |-> q.left, rows |-> q.rows, was |-> q.was]
        BY <1>2
      <4> HIDE DEF rest
      <4> QED BY <3>1, <4>1
    <3>3. [m EXCEPT !.rows = x] = r
      BY <1>6, <3>1
    <3> QED BY <3>2, <3>3
  <2> QED BY <2>1, <2>2 DEF D!Goto, D!ReadFile
<1>8. r \in TableRequests /\ r.op = "fetch" /\ r.left = q.left \ {p} /\ r.rows = x /\ r.was = q.was
  BY <1>2, <1>6 DEF TableRequests
<1>9. ASSUME orderly PROVE TableReading(r)
  <2>1. q.left \subseteq Old(Len(log), writes) /\ q.rows \cup Rows(q.left) = q.was
    BY <1>1, <1>2, <1>9, TableKnown DEF TableSound, TableReading
  <2>2. Rows({p} \cup (q.left \ {p})) = Rows({p}) \cup Rows(q.left \ {p})
    BY RowsAdd DEF Rows
  <2>3. {p} \cup (q.left \ {p}) = q.left
    OBVIOUS
  <2>4. r.rows \cup Rows(r.left) = q.was
    BY <1>5, <1>8, <2>1, <2>2, <2>3
  <2> QED BY <1>8, <2>1, <2>4 DEF TableReading
<1>10. Planned(r) /\ Stored(r) /\ Lone(r) /\ ~TableWriting(r)
  BY <1>8 DEF Planned, Stored, Lone, TableWriting
<1> QED BY <1>2, <1>7, <1>8, <1>9, <1>10, TableGoesOn

LEMMA TableEnds == ASSUME TableInv, NEW a \in D!Actor, D!Crash(a) \/ D!Answer(a) PROVE TableInv'
<1>1. /\ tableReq' = [tableReq EXCEPT ![a] = D!Idle]
      /\ UNCHANGED <<log, files, writes, acked, undisturbed, orderly>>
  BY DEF D!Crash, D!Answer, D!Goto
<1>2. /\ TableReading(D!Idle) /\ Planned(D!Idle) /\ Stored(D!Idle) /\ Lone(D!Idle)
      /\ ~TableWriting(D!Idle)
  BY TableIdle DEF TableReading, Planned, Stored, Lone, TableWriting
<1> QED BY <1>1, <1>2, TableIdle, TableGoesOn

LEMMA TableNext == ASSUME TableInv, [D!Next]_(D!vars) PROVE TableInv'
<1>1. ASSUME NEW w \in Client, D!WriteDeltaTable(w) \/ D!PutData(w) \/ D!PutCommit(w) \/ D!Crash(w)
      PROVE  TableInv'
  BY <1>1, TableWrites, PutsData, PutsCommit, TableEnds DEF D!Actor
<1>2. ASSUME NEW e \in Engine, D!EngineWrite(e) \/ D!EnginePlan(e) \/ D!EngineCommit(e)
      PROVE  TableInv'
  BY <1>2, EngineWrites, EnginePlans, EngineCommits
<1>3. ASSUME NEW a \in Reader, D!ReadDeltaTable(a) \/ D!ReadFile(a) \/ D!Answer(a) PROVE TableInv'
  BY <1>3, TableReads, ReadsFile, TableEnds DEF D!Actor
<1>4. ASSUME NEW a \in Client \cup Reader, D!List(a) \/ D!ReadCommit(a) \/ D!Replayed(a)
      PROVE  TableInv'
  BY <1>4, TableLists, ReadsCommit, TableReplays DEF D!Actor
<1>5. CASE UNCHANGED D!vars
  <2> USE DEF D!vars
  <2>1. TableTyped' /\ Apart' /\ Owned'
    BY <1>5 DEF TableInv, TableTyped, Apart, Owned, TableWriting, D!Actor, TableRequests, Entry,
                D!Path, Modes, D!Idle
  <2>2. \A a \in D!Actor : Stored(tableReq[a])'
    BY <1>5 DEF TableInv, Stored
  <2>3. ASSUME orderly' PROVE TableSound'
    <3>1. TableSound
      BY <1>5, <2>3, TableKnown
    <3>2. \A a \in D!Actor : TableReading(tableReq[a])' /\ Planned(tableReq[a])'
      BY <1>5, <3>1 DEF TableSound, TableReading, Planned, Replaced, Rows
    <3>3. \A w \in Client : undisturbed'[w] => Lone(tableReq[w])'
      BY <1>5, <3>1 DEF TableSound, Lone, TableWriting, Replaced, Rows
    <3>4. /\ \A n \in 0 .. Len(log') : After(log', n) \subseteq Old(n, writes')
          /\ RowsOf(files', After(log', Len(log'))) = acked'
      BY <1>5, <3>1 DEF TableSound, Rows
    <3> QED BY <3>2, <3>3, <3>4 DEF TableSound, Rows, D!Actor
  <2> QED BY <2>1, <2>2, <2>3 DEF TableInv, D!Actor
<1> QED BY <1>1, <1>2, <1>3, <1>4, <1>5 DEF D!Next

LEMMA TableHolds == TableInv => D!TableIsAcked /\ D!ReadsVersion
<1> SUFFICES ASSUME TableInv, orderly PROVE D!HoldsAcknowledged /\ D!ReadsVersion
  BY DEF D!TableIsAcked, D!ReadsVersion
<1>1. D!HoldsAcknowledged
  <2>1. Len(log) \in Nat /\ D!Active[Len(log)] = After(log, Len(log)) /\ TableSound
    BY TableKnown
  <2> QED BY <2>1 DEF D!HoldsAcknowledged, D!Content, TableSound, Rows, RowsOf
<1>2. D!ReadsVersion
  <2> SUFFICES ASSUME NEW a \in Reader, tableReq[a].op = "fetch", tableReq[a].left = {}
               PROVE  tableReq[a].rows = tableReq[a].was
    BY DEF D!ReadsVersion
  <2>1. tableReq[a].rows \cup Rows({}) = tableReq[a].was
    BY TableKnown DEF TableSound, TableReading
  <2>2. Rows({}) = {}
    BY RowsAdd DEF Rows
  <2> QED BY <2>1, <2>2
<1> QED BY <1>1, <1>2

-----------------------------------------------------------------------------
(* Lineage: the graph of the warehouse is how its tables were built.           *)

Readable == TableName \cup L!Outside
ObjectShapes ==
  [kind : {"table"}, from : SUBSET Readable, written : BOOLEAN]
  \cup [kind : {"view"}, from : SUBSET Readable]
Flows ==
  {L!NoFlow}
  \cup [kind : {"modify", "drop"}, target : TableName]
  \cup [kind : {"ctas", "insert", "view"}, target : TableName, sources : SUBSET Readable]
  \cup [kind : {"rename"}, target : TableName, new : TableName]

LineageTyped ==
  /\ object \in UNION {[S -> ObjectShapes] : S \in SUBSET TableName}
  /\ known \in UNION {[S -> SUBSET (TableName \cup Lake)] : S \in SUBSET TableName}
  /\ flow \in [Client -> Flows]
  /\ edges \subseteq (TableName \cup Lake) \X TableName
  /\ missed \in BOOLEAN /\ forgot \in BOOLEAN

\* What the edges into a name should come from.
DrawnFrom(n) ==
  IF n \in L!Objects /\ object[n].kind = "table" THEN object[n].from \ Elsewhere ELSE {}

EdgeInto(x, n) == <<x, n>> \in edges

\* Flows under way are about names that no other one changes.
FlowsApart ==
  \A s, t \in Client :
    s # t /\ flow[s] # L!NoFlow /\ flow[t] # L!NoFlow =>
      L!Changes(flow[s]) \cap L!Mentions(flow[t]) = {}

\* No flow under way changes what the name stands for.
NotInFlow(n) == \A s \in Client : flow[s] # L!NoFlow => n \notin L!Changes(flow[s])

\* What other tables' rows went into was announced, and what a name stands for has the
\* edges that are due and is known as a view if it is one.
LitAs(n) == n \in L!Objects /\ object[n].kind = "table" /\ object[n].from # {} => n \in lit
Drawn(n) == \A x \in Readable : EdgeInto(x, n) <=> x \in DrawnFrom(n)
\* The observer knows, under the name o, what is behind the view n.
SeenAs(o, n) ==
  /\ o \in DOMAIN known <=> L!IsView(n)
  /\ L!IsView(n) /\ ~L!Nested(L!Objects) => known[o] = object[n].from \ Elsewhere
GraphRight(n) == LitAs(n) /\ (~forgot => Drawn(n) /\ SeenAs(n, n))

IsTable(n) == n \in L!Objects /\ object[n].kind = "table"

\* Of a flow under way, the statement was carried out, and its observation is what is
\* left to make its names right.
FlowModified(f) == IsTable(f.target) /\ GraphRight(f.target)

FlowFilled(f) ==
  /\ IsTable(f.target)
  /\ ~forgot =>
       /\ f.target \notin DOMAIN known
       /\ \A x \in Readable :
            EdgeInto(x, f.target) \/ x \in L!Sources(f.sources) \ {f.target} <=>
              x \in DrawnFrom(f.target)

FlowViewed(f) ==
  /\ L!IsView(f.target) /\ object[f.target].from = f.sources /\ f.target \notin f.sources
  /\ ~forgot =>
       /\ \A x \in Readable : ~EdgeInto(x, f.target)
       /\ ~L!Nested(L!Objects) => L!Sources(f.sources) = f.sources \ Elsewhere

FlowRenamed(f) ==
  /\ f.target \notin L!Objects /\ f.new \in L!Objects
  /\ ~forgot =>
       /\ \A x \in Readable : EdgeInto(x, f.target) <=> x \in DrawnFrom(f.new)
       /\ \A x \in Readable : ~EdgeInto(x, f.new)
       /\ f.new \notin DOMAIN known
       /\ SeenAs(f.target, f.new)

FlowPending(f) ==
  /\ f.kind = "modify" => FlowModified(f)
  /\ f.kind \in {"ctas", "insert"} => FlowFilled(f)
  /\ f.kind = "view" => FlowViewed(f)
  /\ f.kind = "rename" => FlowRenamed(f)
  /\ f.kind = "drop" => f.target \notin L!Objects

GraphFollows ==
  /\ FlowsApart
  /\ \A n \in TableName : NotInFlow(n) => GraphRight(n)
  /\ \A s \in Client : flow[s] # L!NoFlow => FlowPending(flow[s])

LineageInv == LineageTyped /\ (~missed => GraphFollows)

\* Of the names outside X nothing changes but that one may be announced.
SameBut(X) ==
  /\ \A n \in Readable \ X :
       /\ n \in DOMAIN object' <=> n \in DOMAIN object
       /\ n \in DOMAIN object => object'[n] = object[n]
       /\ n \in DOMAIN known' <=> n \in DOMAIN known
       /\ n \in DOMAIN known => known'[n] = known[n]
       /\ \A x \in Readable : EdgeInto(x, n)' <=> EdgeInto(x, n)
  /\ lit \subseteq lit' /\ forgot' = forgot
  /\ L!Nested(L!Objects) => L!Nested(L!Objects)'

-----------------------------------------------------------------------------
LEMMA ObjectFacts ==
  ASSUME LineageTyped, L!LineageAssumption
  PROVE  /\ L!Objects \subseteq TableName /\ DOMAIN known \subseteq TableName
         /\ object = [n \in L!Objects |-> object[n]] /\ known = [n \in DOMAIN known |-> known[n]]
         /\ \A n \in L!Objects : object[n] \in ObjectShapes
         /\ \A n \in L!Objects : object[n].from \subseteq Readable
         /\ \A n \in L!Objects : object[n].kind \in {"table", "view"}
         /\ \A n \in DOMAIN known : known[n] \subseteq TableName \cup Lake
         /\ \A n \in L!Outside : n \notin TableName
         /\ Elsewhere \cap (TableName \cup Lake) = {}
<1>1. PICK S \in SUBSET TableName : object \in [S -> ObjectShapes]
  BY DEF LineageTyped
<1>2. PICK T \in SUBSET TableName : known \in [T -> SUBSET (TableName \cup Lake)]
  BY DEF LineageTyped
<1>3. \A n \in L!Objects : object[n] \in ObjectShapes
  BY <1>1 DEF L!Objects
<1>4. \A n \in L!Objects : object[n].from \subseteq Readable /\ object[n].kind \in {"table", "view"}
  BY <1>3 DEF ObjectShapes
<1> QED BY <1>1, <1>2, <1>3, <1>4 DEF L!Objects, L!LineageAssumption, L!Outside

LEMMA FlowKinds ==
  ASSUME NEW f \in Flows, f # L!NoFlow
  PROVE  /\ f.kind \in {"modify", "drop", "ctas", "insert", "view", "rename"}
         /\ f.target \in TableName
         /\ f.kind \in {"ctas", "insert", "view"} =>
              /\ f.sources \subseteq Readable
              /\ L!Mentions(f) = {f.target} \cup f.sources /\ L!Changes(f) = {f.target}
         /\ f.kind = "rename" =>
              /\ f.new \in TableName
              /\ L!Mentions(f) = {f.target, f.new} /\ L!Changes(f) = {f.target, f.new}
         /\ f.kind \in {"modify", "drop"} => L!Mentions(f) = {f.target} /\ L!Changes(f) = {f.target}
         /\ f.target \in L!Changes(f) /\ L!Changes(f) \subseteq L!Mentions(f)
         /\ L!Changes(f) \subseteq TableName
<1>1. CASE f \in [kind : {"modify", "drop"}, target : TableName]
  BY <1>1 DEF L!Mentions, L!Changes
<1>2. CASE f \in [kind : {"ctas", "insert", "view"}, target : TableName, sources : SUBSET Readable]
  BY <1>2 DEF L!Mentions, L!Changes
<1>3. CASE f \in [kind : {"rename"}, target : TableName, new : TableName]
  BY <1>3 DEF L!Mentions, L!Changes
<1> QED BY <1>1, <1>2, <1>3 DEF Flows

\* What is outside X stays right.
LEMMA GraphKept ==
  ASSUME L!LineageAssumption, LineageTyped, LineageTyped', NEW X, SameBut(X),
         NEW n \in TableName \ X, GraphRight(n)
  PROVE  GraphRight(n)'
<1>1. n \in Readable \ X
  BY DEF Readable
<1>2. /\ n \in DOMAIN object' <=> n \in DOMAIN object
      /\ n \in DOMAIN object => object'[n] = object[n]
      /\ n \in DOMAIN known' <=> n \in DOMAIN known
      /\ n \in DOMAIN known => known'[n] = known[n]
      /\ \A x \in Readable : EdgeInto(x, n)' <=> EdgeInto(x, n)
      /\ lit \subseteq lit' /\ forgot' = forgot
      /\ L!Nested(L!Objects) => L!Nested(L!Objects)'
  BY <1>1 DEF SameBut
<1>3. LitAs(n)'
  BY <1>2 DEF GraphRight, LitAs, L!Objects
<1>4. DrawnFrom(n)' = DrawnFrom(n)
  BY <1>2 DEF DrawnFrom, L!Objects
<1>5. ASSUME ~forgot PROVE Drawn(n)'
  BY <1>2, <1>4, <1>5 DEF GraphRight, Drawn
<1>6. ASSUME ~forgot PROVE SeenAs(n, n)'
  <2>1. SeenAs(n, n)
    BY <1>6 DEF GraphRight
  <2>2. L!IsView(n)' <=> L!IsView(n)
    BY <1>2 DEF L!IsView, L!Objects
  <2> QED BY <1>2, <2>1, <2>2 DEF SeenAs, L!IsView, L!Objects
<1> QED BY <1>2, <1>3, <1>5, <1>6 DEF GraphRight

LEMMA SourcesKept ==
  ASSUME NEW X, SameBut(X), NEW names \in SUBSET Readable, names \cap X = {}
  PROVE  L!Sources(names)' = L!Sources(names)
<1>1. \A n \in names :
        /\ n \in DOMAIN known' <=> n \in DOMAIN known
        /\ n \in DOMAIN known => known'[n] = known[n]
  BY DEF SameBut
<1> DEFINE Of(n) == IF n \in DOMAIN known THEN known[n] ELSE {n}
           Then(n) == IF n \in DOMAIN known' THEN known'[n] ELSE {n}
<1>2. \A n \in names : Of(n) = Then(n)
  BY <1>1
<1>3. L!Sources(names) = UNION {Of(n) : n \in {m \in names : L!Resolves(m)}}
  BY DEF L!Sources
<1>4. L!Sources(names)' = UNION {Then(n) : n \in {m \in names : L!Resolves(m)}}
  BY DEF L!Sources, L!Resolves
<1> HIDE DEF Of, Then
<1>5. {Of(n) : n \in {m \in names : L!Resolves(m)}}
      = {Then(n) : n \in {m \in names : L!Resolves(m)}}
  BY <1>2
<1> QED BY <1>3, <1>4, <1>5

LEMMA FlowKept ==
  ASSUME L!LineageAssumption, LineageTyped, LineageTyped', NEW X, SameBut(X), NEW f \in Flows,
         f # L!NoFlow,
         L!Mentions(f) \cap X = {}, FlowPending(f)
  PROVE  FlowPending(f)'
<1> DEFINE t == f.target
<1>1. t \in TableName \ X /\ t \in Readable \ X
  BY FlowKinds DEF Readable
<1>2. \A n \in Readable \ X :
       /\ n \in DOMAIN object' <=> n \in DOMAIN object
       /\ n \in DOMAIN object => object'[n] = object[n]
       /\ n \in DOMAIN known' <=> n \in DOMAIN known
       /\ n \in DOMAIN known => known'[n] = known[n]
       /\ \A x \in Readable : EdgeInto(x, n)' <=> EdgeInto(x, n)
       /\ DrawnFrom(n)' = DrawnFrom(n)
       /\ L!IsView(n)' <=> L!IsView(n)
       /\ IsTable(n)' <=> IsTable(n)
  BY DEF SameBut, DrawnFrom, L!Objects, L!IsView, IsTable
<1>3. forgot' = forgot /\ (L!Nested(L!Objects) => L!Nested(L!Objects)')
  BY DEF SameBut
<1>4. CASE f.kind = "modify"
  <2>1. GraphRight(t)'
    BY <1>1, <1>4, GraphKept DEF FlowPending, FlowModified
  <2> QED BY <1>1, <1>2, <1>4, <2>1 DEF FlowPending, FlowModified
<1>5. CASE f.kind \in {"ctas", "insert"}
  <2>1. L!Sources(f.sources)' = L!Sources(f.sources)
    BY <1>5, FlowKinds, SourcesKept
  <2>2. FlowFilled(f)
    BY <1>5 DEF FlowPending
  <2>3. FlowFilled(f)'
    BY <1>1, <1>2, <1>3, <2>1, <2>2 DEF FlowFilled
  <2> QED BY <1>5, <2>3 DEF FlowPending
<1>6. CASE f.kind = "view"
  <2>1. L!Sources(f.sources)' = L!Sources(f.sources)
    BY <1>6, FlowKinds, SourcesKept
  <2>2. FlowViewed(f)
    BY <1>6 DEF FlowPending
  <2>3. object'[t].from = object[t].from
    BY <1>1, <1>2, <2>2 DEF FlowViewed, L!IsView, L!Objects
  <2>4. FlowViewed(f)'
    BY <1>1, <1>2, <1>3, <2>1, <2>2, <2>3 DEF FlowViewed
  <2> QED BY <1>6, <2>4 DEF FlowPending
<1>7. CASE f.kind = "rename"
  <2>1. f.new \in Readable \ X
    BY <1>7, FlowKinds DEF Readable
  <2>2. FlowRenamed(f)
    BY <1>7 DEF FlowPending
  <2>3. t \notin DOMAIN object' /\ f.new \in DOMAIN object' /\ object'[f.new] = object[f.new]
    BY <1>1, <1>2, <2>1, <2>2 DEF FlowRenamed, L!Objects
  <2>4. SeenAs(t, f.new) => SeenAs(t, f.new)'
    BY <1>1, <1>2, <1>3, <2>1, <2>3 DEF SeenAs
  <2>5. FlowRenamed(f)'
    BY <1>1, <1>2, <1>3, <2>1, <2>2, <2>3, <2>4 DEF FlowRenamed, L!Objects
  <2> QED BY <1>7, <2>5 DEF FlowPending
<1>8. CASE f.kind = "drop"
  BY <1>1, <1>2, <1>8 DEF FlowPending, L!Objects
<1> QED BY <1>4, <1>5, <1>6, <1>7, <1>8, FlowKinds

-----------------------------------------------------------------------------
\* What a statement mentions is right before it, and views are of tables.
FlowReady(f) == ~L!Nested(L!Objects) /\ \A n \in TableName \cap L!Mentions(f) : GraphRight(n)

LEMMA Executes ==
  ASSUME L!LineageAssumption, LineageInv, NEW s \in Client, NEW f \in Flows, f # L!NoFlow, NEW o,
         L!Execute(s, f, o), o \in UNION {[S -> ObjectShapes] : S \in SUBSET TableName},
         \A n \in Readable \ L!Changes(f) :
           (n \in DOMAIN o <=> n \in L!Objects) /\ (n \in L!Objects => o[n] = object[n]),
         FlowReady(f) => FlowPending(f)'
  PROVE  LineageInv'
<1>1. LineageTyped'
  BY DEF LineageInv, LineageTyped, L!Execute
<1>2. SUFFICES ASSUME ~missed' PROVE GraphFollows'
  BY <1>1 DEF LineageInv
<1>3. ~missed /\ GraphFollows /\ ~L!OutOfTurn(f) /\ ~L!Nested(L!Objects)
  BY <1>2 DEF LineageInv, L!Execute, LineageTyped
<1>4. /\ LineageTyped /\ flow \in [Client -> Flows] /\ flow[s] = L!NoFlow
      /\ flow' = [flow EXCEPT ![s] = f]
  BY DEF LineageInv, LineageTyped, L!Execute
<1>5. \A t \in Client : flow[t] # L!NoFlow =>
        L!Changes(flow[t]) \cap L!Mentions(f) = {} /\ L!Changes(f) \cap L!Mentions(flow[t]) = {}
  BY <1>3 DEF L!OutOfTurn
<1>6. \A t \in Client : t # s => flow'[t] = flow[t]
  BY <1>4
<1>7. flow'[s] = f
  BY <1>4
<1>8. SameBut(L!Changes(f))
  BY <1>3 DEF SameBut, L!Execute, EdgeInto, L!Objects
<1>9. FlowsApart'
  <2> SUFFICES ASSUME NEW t \in Client, NEW u \in Client, t # u, flow'[t] # L!NoFlow,
                      flow'[u] # L!NoFlow
               PROVE  L!Changes(flow'[t]) \cap L!Mentions(flow'[u]) = {}
    BY DEF FlowsApart, L!Changes, L!Mentions
  <2>1. CASE t = s
    BY <1>5, <1>6, <1>7, <2>1
  <2>2. CASE u = s
    BY <1>5, <1>6, <1>7, <2>2
  <2>3. CASE t # s /\ u # s
    BY <1>3, <1>6, <2>3 DEF GraphFollows, FlowsApart
  <2> QED BY <2>1, <2>2, <2>3
<1>10. ASSUME NEW n \in TableName, NotInFlow(n)' PROVE GraphRight(n)'
  <2>1. n \notin L!Changes(f)
    BY <1>7, <1>10 DEF NotInFlow, L!Changes
  <2>2. NotInFlow(n)
    BY <1>4, <1>6, <1>10 DEF NotInFlow, L!Changes
  <2> QED BY <1>1, <1>3, <1>4, <1>8, <2>1, <2>2, GraphKept DEF GraphFollows
<1>11. FlowReady(f)
  <2>1. \A n \in TableName \cap L!Mentions(f) : NotInFlow(n)
    BY <1>5 DEF NotInFlow
  <2> QED BY <1>3, <2>1 DEF FlowReady, GraphFollows
<1>12. ASSUME NEW t \in Client, flow'[t] # L!NoFlow PROVE FlowPending(flow[t])'
  <2>1. CASE t = s
    <3>1. FlowPending(f)'
      BY <1>11
    <3> QED BY <1>7, <2>1, <3>1
  <2>2. CASE t # s
    <3>1. PICK g \in Flows : g = flow[t]
      BY <1>4
    <3>2. g # L!NoFlow /\ flow'[t] = g /\ FlowPending(g)
      BY <1>3, <1>6, <1>12, <2>2, <3>1 DEF GraphFollows
    <3>3. L!Mentions(g) \cap L!Changes(f) = {}
      BY <1>5, <3>1, <3>2
    <3>4. FlowPending(g)'
      BY <1>1, <1>4, <1>8, <3>2, <3>3, FlowKept
    <3> QED BY <3>2, <3>4
  <2> QED BY <2>1, <2>2
<1> QED BY <1>9, <1>10, <1>12 DEF GraphFollows

-----------------------------------------------------------------------------
\* What a statement reads is what the observer will take it to read.
LEMMA SourcesAreReads ==
  ASSUME L!LineageAssumption, LineageTyped, NEW names \in SUBSET (L!Objects \cup L!Outside),
         ~forgot,
         ~L!Nested(L!Objects), \A n \in TableName \cap names : GraphRight(n)
  PROVE  L!Sources(names) = L!Reads(names) \ Elsewhere
<1> DEFINE Of(n) == IF n \in DOMAIN known THEN known[n] ELSE {n}
           Is(n) == IF L!IsView(n) THEN object[n].from ELSE {n}
<1>1. \A n \in names : n \notin Elsewhere => Of(n) = Is(n) \ Elsewhere
  <2> SUFFICES ASSUME NEW n \in names, n \notin Elsewhere PROVE Of(n) = Is(n) \ Elsewhere
    OBVIOUS
  <2>1. CASE n \in TableName
    BY <2>1 DEF GraphRight, SeenAs
  <2>2. CASE n \notin TableName
    BY <2>2, ObjectFacts DEF L!IsView
  <2> QED BY <2>1, <2>2
<1>2. \A n \in names : n \in Elsewhere => Is(n) = {n}
  BY ObjectFacts DEF L!IsView, L!Outside
<1>3. L!Sources(names) = UNION {Of(n) : n \in {m \in names : m \notin Elsewhere}}
  BY DEF L!Sources, L!Resolves
<1>4. L!Reads(names) = UNION {Is(n) : n \in names}
  BY DEF L!Reads
<1> HIDE DEF Of, Is
<1>5. ASSUME NEW x PROVE x \in L!Sources(names) <=> x \in L!Reads(names) \ Elsewhere
  BY <1>1, <1>2, <1>3, <1>4
<1> QED BY <1>5

LEMMA ReadsReadable ==
  ASSUME L!LineageAssumption, LineageTyped, NEW names \in SUBSET Readable
  PROVE  L!Reads(names) \subseteq Readable
<1> DEFINE Is(n) == IF L!IsView(n) THEN object[n].from ELSE {n}
<1>1. \A n \in names : Is(n) \subseteq Readable
  BY ObjectFacts DEF L!IsView
<1>2. L!Reads(names) = UNION {Is(n) : n \in names}
  BY DEF L!Reads
<1> HIDE DEF Is
<1> QED BY <1>1, <1>2

LEMMA Withs ==
  ASSUME L!LineageAssumption, LineageTyped, NEW n \in TableName, NEW o \in ObjectShapes
  PROVE  /\ L!With(n, o) \in UNION {[S -> ObjectShapes] : S \in SUBSET TableName}
         /\ DOMAIN L!With(n, o) = L!Objects \cup {n} /\ L!With(n, o)[n] = o
         /\ \A m \in L!Objects : m # n => L!With(n, o)[m] = object[m]
<1>1. L!With(n, o) \in [L!Objects \cup {n} -> ObjectShapes]
  BY ObjectFacts DEF L!With
<1>2. L!Objects \cup {n} \in SUBSET TableName
  BY ObjectFacts
<1> QED BY <1>1, <1>2, ObjectFacts DEF L!With
\* What does not change with the engine's objects.
LEMMA NotObserved ==
  ASSUME NEW s, NEW f, NEW o, L!Execute(s, f, o)
  PROVE  /\ object' = o /\ known' = known /\ edges' = edges /\ lit' = lit /\ forgot' = forgot
         /\ \A x, n : EdgeInto(x, n)' <=> EdgeInto(x, n)
         /\ \A names : L!Sources(names)' = L!Sources(names)
BY DEF L!Execute, EdgeInto, L!Sources, L!Resolves

LEMMA CreatesTable ==
  ASSUME L!LineageAssumption, LineageInv, NEW s \in Client, L!CreateTable(s)
  PROVE  LineageInv'
<1> USE DEF LineageInv
<1>1. PICK t \in TableName \ L!Objects :
        L!Execute(s, [kind |-> "modify", target |-> t], L!With(t, L!Table({}, FALSE)))
  BY DEF L!CreateTable
<1>2. PICK f : f = [kind |-> "modify", target |-> t]
  OBVIOUS
<1>w. PICK w : w = L!Table({}, FALSE)
  OBVIOUS
<1>3. PICK o : o = L!With(t, w)
  OBVIOUS
<1>4. f \in Flows /\ f # L!NoFlow /\ f.kind = "modify" /\ f.target = t
  BY <1>2 DEF Flows, L!NoFlow
<1>5. w \in ObjectShapes /\ w.from = {} /\ w.kind = "table"
  BY <1>w DEF ObjectShapes, L!Table
<1>6. /\ o \in UNION {[S -> ObjectShapes] : S \in SUBSET TableName}
      /\ DOMAIN o = L!Objects \cup {t} /\ o[t].from = {} /\ o[t].kind = "table"
      /\ \A m \in L!Objects : m # t => o[m] = object[m]
  <2>1. /\ L!With(t, w) \in UNION {[S -> ObjectShapes] : S \in SUBSET TableName}
        /\ DOMAIN L!With(t, w) = L!Objects \cup {t} /\ L!With(t, w)[t] = w
        /\ \A m \in L!Objects : m # t => L!With(t, w)[m] = object[m]
    BY <1>3, <1>5, Withs
  <2> QED BY <1>3, <1>5, <2>1
<1>7. L!Execute(s, f, o)
  BY <1>1, <1>2, <1>3, <1>w
<1>8. L!Mentions(f) = {t} /\ L!Changes(f) = {t}
  BY <1>4, FlowKinds
<1>9. ASSUME FlowReady(f) PROVE FlowPending(f)'
  <2>1. GraphRight(t)
    BY <1>8, <1>9 DEF FlowReady
  <2>2. IsTable(t)' /\ ~L!IsView(t)' /\ DrawnFrom(t)' = {} /\ LitAs(t)'
    BY <1>6, <1>7, NotObserved DEF IsTable, L!IsView, DrawnFrom, LitAs, L!Objects
  <2>3. ~forgot => Drawn(t)' /\ SeenAs(t, t)'
    <3>1. DrawnFrom(t) = {} /\ ~L!IsView(t)
      BY DEF DrawnFrom, L!IsView
    <3> QED BY <2>1, <2>2, <3>1, <1>7, NotObserved DEF GraphRight, Drawn, SeenAs
  <2>4. FlowModified(f)'
    BY <1>4, <1>7, <2>2, <2>3, NotObserved DEF FlowModified, GraphRight
  <2> QED BY <1>4, <2>4 DEF FlowPending
<1>10. \A n \in Readable \ L!Changes(f) :
         (n \in DOMAIN o <=> n \in L!Objects) /\ (n \in L!Objects => o[n] = object[n])
  BY <1>6, <1>8
<1> QED BY <1>4, <1>6, <1>7, <1>9, <1>10, Executes

LEMMA InsertsValues ==
  ASSUME L!LineageAssumption, LineageInv, NEW s \in Client, L!InsertValues(s)
  PROVE  LineageInv'
<1> USE DEF LineageInv
<1>1. PICK t \in L!Objects :
        /\ ~L!IsView(t)
        /\ L!Execute(s, [kind |-> "modify", target |-> t], L!With(t, L!Table(object[t].from, TRUE)))
  BY DEF L!InsertValues
<1>2. PICK f : f = [kind |-> "modify", target |-> t]
  OBVIOUS
<1>3. PICK o : o = L!With(t, L!Table(object[t].from, TRUE))
  OBVIOUS
<1>4. t \in TableName /\ object[t].kind = "table" /\ object[t].from \subseteq Readable
  BY <1>1, ObjectFacts DEF L!IsView
<1>5. f \in Flows /\ f # L!NoFlow /\ f.kind = "modify" /\ f.target = t
  BY <1>2, <1>4 DEF Flows, L!NoFlow
<1>6. PICK w : w = L!Table(object[t].from, TRUE)
  OBVIOUS
<1>7. w \in ObjectShapes /\ w.from = object[t].from /\ w.kind = "table"
  BY <1>4, <1>6 DEF ObjectShapes, L!Table
<1>8. /\ o \in UNION {[S -> ObjectShapes] : S \in SUBSET TableName}
      /\ DOMAIN o = L!Objects \cup {t} /\ o[t].from = object[t].from /\ o[t].kind = "table"
      /\ \A m \in L!Objects : m # t => o[m] = object[m]
  <2>1. /\ L!With(t, w) \in UNION {[S -> ObjectShapes] : S \in SUBSET TableName}
        /\ DOMAIN L!With(t, w) = L!Objects \cup {t} /\ L!With(t, w)[t] = w
        /\ \A m \in L!Objects : m # t => L!With(t, w)[m] = object[m]
    BY <1>3, <1>4, <1>6, <1>7, Withs
  <2> QED BY <1>3, <1>4, <1>6, <1>7, <2>1
<1>9. L!Execute(s, f, o)
  BY <1>1, <1>2, <1>3
<1>10. L!Mentions(f) = {t} /\ L!Changes(f) = {t}
  BY <1>5, FlowKinds
<1>11. ASSUME FlowReady(f) PROVE FlowPending(f)'
  <2>1. GraphRight(t)
    BY <1>4, <1>10, <1>11 DEF FlowReady
  <2>2. IsTable(t)' /\ ~L!IsView(t)' /\ DrawnFrom(t)' = DrawnFrom(t)
    BY <1>4, <1>8, <1>9, NotObserved DEF IsTable, L!IsView, DrawnFrom, L!Objects
  <2>3. LitAs(t)'
    BY <1>4, <1>8, <1>9, <2>1, NotObserved DEF LitAs, L!Objects, GraphRight
  <2>4. ~forgot => Drawn(t)' /\ SeenAs(t, t)'
    BY <1>1, <2>1, <2>2, <1>9, NotObserved DEF GraphRight, Drawn, SeenAs
  <2>5. FlowModified(f)'
    BY <1>5, <1>9, <2>2, <2>3, <2>4, NotObserved DEF FlowModified, GraphRight
  <2> QED BY <1>5, <2>5 DEF FlowPending
<1>12. \A n \in Readable \ L!Changes(f) :
         (n \in DOMAIN o <=> n \in L!Objects) /\ (n \in L!Objects => o[n] = object[n])
  BY <1>8, <1>10
<1> QED BY <1>5, <1>8, <1>9, <1>11, <1>12, Executes

LEMMA Selects ==
  ASSUME L!LineageAssumption, LineageInv, NEW s \in Client, L!CTAS(s)
  PROVE  LineageInv'
<1> USE DEF LineageInv
<1>1. PICK t \in TableName \ L!Objects, names \in SUBSET (L!Objects \cup L!Outside) :
        /\ L!Bound(names)
        /\ L!Execute(s, [kind |-> "ctas", target |-> t, sources |-> names],
                      L!With(t, L!Table(L!Reads(names), TRUE)))
  BY DEF L!CTAS
<1>2. PICK f : f = [kind |-> "ctas", target |-> t, sources |-> names]
  OBVIOUS
<1>3. PICK w : w = L!Table(L!Reads(names), TRUE)
  OBVIOUS
<1>4. PICK o : o = L!With(t, w)
  OBVIOUS
<1>5. names \in SUBSET Readable /\ L!Reads(names) \subseteq Readable
  BY ObjectFacts, ReadsReadable DEF Readable
<1>6. f \in Flows /\ f # L!NoFlow /\ f.kind = "ctas" /\ f.target = t /\ f.sources = names
  BY <1>2, <1>5 DEF Flows, L!NoFlow
<1>7. w \in ObjectShapes /\ w.from = L!Reads(names) /\ w.kind = "table"
  BY <1>3, <1>5 DEF ObjectShapes, L!Table
<1>8. /\ o \in UNION {[S -> ObjectShapes] : S \in SUBSET TableName}
      /\ DOMAIN o = L!Objects \cup {t} /\ o[t].from = L!Reads(names) /\ o[t].kind = "table"
      /\ \A m \in L!Objects : m # t => o[m] = object[m]
  <2>1. /\ L!With(t, w) \in UNION {[S -> ObjectShapes] : S \in SUBSET TableName}
        /\ DOMAIN L!With(t, w) = L!Objects \cup {t} /\ L!With(t, w)[t] = w
        /\ \A m \in L!Objects : m # t => L!With(t, w)[m] = object[m]
    BY <1>4, <1>7, Withs
  <2> QED BY <1>4, <1>7, <2>1
<1>9. L!Execute(s, f, o)
  BY <1>1, <1>2, <1>3, <1>4
<1>10. L!Mentions(f) = {t} \cup names /\ L!Changes(f) = {t}
  BY <1>6, FlowKinds
<1>11. ASSUME FlowReady(f) PROVE FlowPending(f)'
  <2>1. GraphRight(t) /\ \A n \in TableName \cap names : GraphRight(n)
    BY <1>10, <1>11 DEF FlowReady
  <2>2. IsTable(t)' /\ DrawnFrom(t)' = L!Reads(names) \ Elsewhere
    BY <1>8, <1>9, NotObserved DEF IsTable, DrawnFrom, L!Objects
  <2>3. DrawnFrom(t) = {} /\ ~L!IsView(t) /\ t \notin L!Reads(names)
    BY <1>1, ObjectFacts DEF DrawnFrom, L!IsView, L!Bound
  <2>4. ASSUME ~forgot
        PROVE  /\ t \notin DOMAIN known /\ L!Sources(names) = L!Reads(names) \ Elsewhere
               /\ \A x \in Readable : ~EdgeInto(x, t)
    BY <2>1, <2>3, <2>4, <1>11, SourcesAreReads DEF GraphRight, SeenAs, Drawn, FlowReady
  <2>5. FlowFilled(f)'
    BY <1>6, <1>9, <2>2, <2>3, <2>4, NotObserved DEF FlowFilled
  <2> QED BY <1>6, <2>5 DEF FlowPending
<1>12. \A n \in Readable \ L!Changes(f) :
         (n \in DOMAIN o <=> n \in L!Objects) /\ (n \in L!Objects => o[n] = object[n])
  BY <1>8, <1>10
<1> QED BY <1>6, <1>8, <1>9, <1>11, <1>12, Executes

LEMMA Inserts ==
  ASSUME L!LineageAssumption, LineageInv, NEW s \in Client, L!Insert(s)
  PROVE  LineageInv'
<1> USE DEF LineageInv
<1>1. PICK t \in L!Objects, names \in SUBSET (L!Objects \cup L!Outside) :
        /\ ~L!IsView(t)
        /\ L!Execute(s, [kind |-> "insert", target |-> t, sources |-> names],
                      L!With(t, L!Table(object[t].from \cup (L!Reads(names) \ {t}), TRUE)))
  BY DEF L!Insert
<1>2. PICK f : f = [kind |-> "insert", target |-> t, sources |-> names]
  OBVIOUS
<1>3. PICK w : w = L!Table(object[t].from \cup (L!Reads(names) \ {t}), TRUE)
  OBVIOUS
<1>4. PICK o : o = L!With(t, w)
  OBVIOUS
<1>5. names \in SUBSET Readable /\ L!Reads(names) \subseteq Readable
  BY ObjectFacts, ReadsReadable DEF Readable
<1>6. t \in TableName /\ object[t].kind = "table" /\ object[t].from \subseteq Readable
  BY <1>1, ObjectFacts DEF L!IsView
<1>7. f \in Flows /\ f # L!NoFlow /\ f.kind = "insert" /\ f.target = t /\ f.sources = names
  BY <1>2, <1>5, <1>6 DEF Flows, L!NoFlow
<1>8. w \in ObjectShapes /\ w.from = object[t].from \cup (L!Reads(names) \ {t}) /\ w.kind = "table"
  BY <1>3, <1>5, <1>6 DEF ObjectShapes, L!Table
<1>9. /\ o \in UNION {[S -> ObjectShapes] : S \in SUBSET TableName}
      /\ DOMAIN o = L!Objects \cup {t} /\ o[t].from = object[t].from \cup (L!Reads(names) \ {t})
      /\ o[t].kind = "table"
      /\ \A m \in L!Objects : m # t => o[m] = object[m]
  <2>1. /\ L!With(t, w) \in UNION {[S -> ObjectShapes] : S \in SUBSET TableName}
        /\ DOMAIN L!With(t, w) = L!Objects \cup {t} /\ L!With(t, w)[t] = w
        /\ \A m \in L!Objects : m # t => L!With(t, w)[m] = object[m]
    BY <1>6, <1>8, Withs
  <2> QED BY <1>4, <1>8, <2>1
<1>10. L!Execute(s, f, o)
  BY <1>1, <1>2, <1>3, <1>4
<1>11. L!Mentions(f) = {t} \cup names /\ L!Changes(f) = {t}
  BY <1>7, FlowKinds
<1>12. ASSUME FlowReady(f) PROVE FlowPending(f)'
  <2>1. GraphRight(t) /\ \A n \in TableName \cap names : GraphRight(n)
    BY <1>6, <1>11, <1>12 DEF FlowReady
  <2>2. IsTable(t)' /\ DrawnFrom(t)' = (object[t].from \cup (L!Reads(names) \ {t})) \ Elsewhere
    BY <1>9, <1>10, NotObserved DEF IsTable, DrawnFrom, L!Objects
  <2>3. DrawnFrom(t) = object[t].from \ Elsewhere /\ ~L!IsView(t) /\ t \notin Elsewhere
    BY <1>6, ObjectFacts DEF DrawnFrom, L!IsView
  <2>4. ASSUME ~forgot
        PROVE  /\ t \notin DOMAIN known /\ L!Sources(names) = L!Reads(names) \ Elsewhere
               /\ \A x \in Readable : EdgeInto(x, t) <=> x \in object[t].from \ Elsewhere
    BY <2>1, <2>3, <2>4, <1>12, SourcesAreReads DEF GraphRight, SeenAs, Drawn, FlowReady
  <2>5. FlowFilled(f)'
    BY <1>7, <1>10, <2>2, <2>3, <2>4, NotObserved DEF FlowFilled
  <2> QED BY <1>7, <2>5 DEF FlowPending
<1>13. \A n \in Readable \ L!Changes(f) :
         (n \in DOMAIN o <=> n \in L!Objects) /\ (n \in L!Objects => o[n] = object[n])
  BY <1>9, <1>11
<1> QED BY <1>7, <1>9, <1>10, <1>12, <1>13, Executes

LEMMA CreatesView ==
  ASSUME L!LineageAssumption, LineageInv, NEW s \in Client, L!CreateView(s)
  PROVE  LineageInv'
<1> USE DEF LineageInv
<1>1. PICK v \in TableName, names \in SUBSET (L!Objects \cup L!Outside) :
        /\ v \in L!Objects => L!IsView(v)
        /\ v \notin names /\ L!Bound(names)
        /\ L!Execute(s, [kind |-> "view", target |-> v, sources |-> names],
                      L!With(v, [kind |-> "view", from |-> names]))
  BY DEF L!CreateView
<1>2. PICK f : f = [kind |-> "view", target |-> v, sources |-> names]
  OBVIOUS
<1>3. PICK w : w = [kind |-> "view", from |-> names]
  OBVIOUS
<1>4. PICK o : o = L!With(v, w)
  OBVIOUS
<1>5. names \in SUBSET Readable
  BY ObjectFacts DEF Readable
<1>6. f \in Flows /\ f # L!NoFlow /\ f.kind = "view" /\ f.target = v /\ f.sources = names
  BY <1>2, <1>5 DEF Flows, L!NoFlow
<1>7. w \in ObjectShapes /\ w.from = names /\ w.kind = "view"
  BY <1>3, <1>5 DEF ObjectShapes
<1>8. /\ o \in UNION {[S -> ObjectShapes] : S \in SUBSET TableName}
      /\ DOMAIN o = L!Objects \cup {v} /\ o[v].from = names /\ o[v].kind = "view"
      /\ \A m \in L!Objects : m # v => o[m] = object[m]
  <2>1. /\ L!With(v, w) \in UNION {[S -> ObjectShapes] : S \in SUBSET TableName}
        /\ DOMAIN L!With(v, w) = L!Objects \cup {v} /\ L!With(v, w)[v] = w
        /\ \A m \in L!Objects : m # v => L!With(v, w)[m] = object[m]
    BY <1>4, <1>7, Withs
  <2> QED BY <1>4, <1>7, <2>1
<1>9. L!Execute(s, f, o)
  BY <1>1, <1>2, <1>3, <1>4
<1>10. L!Mentions(f) = {v} \cup names /\ L!Changes(f) = {v}
  BY <1>6, FlowKinds
<1>11. ASSUME FlowReady(f) PROVE FlowPending(f)'
  <2>1. GraphRight(v) /\ \A n \in TableName \cap names : GraphRight(n)
    BY <1>10, <1>11 DEF FlowReady
  <2>2. L!IsView(v)' /\ object'[v].from = names /\ v \in L!Objects'
    BY <1>8, <1>9, NotObserved DEF L!IsView, L!Objects
  <2>3. DrawnFrom(v) = {}
    BY <1>1 DEF DrawnFrom, L!IsView
  <2>4. ASSUME ~forgot PROVE \A x \in Readable : ~EdgeInto(x, v)
    BY <2>1, <2>3, <2>4 DEF GraphRight, Drawn
  <2>5. ASSUME ~forgot, ~L!Nested(L!Objects)' PROVE L!Sources(names) = names \ Elsewhere
    <3>1. \A m \in names : ~L!IsView(m)'
      BY <2>2, <2>5 DEF L!Nested, L!Objects
    <3>2. \A m \in names : ~L!IsView(m)
      BY <1>1, <1>8, <1>9, <3>1, NotObserved DEF L!IsView, L!Objects
    <3>3. L!Reads(names) = names
      BY <3>2 DEF L!Reads
    <3> QED BY <2>1, <2>5, <1>11, <3>3, SourcesAreReads DEF FlowReady
  <2>6. FlowViewed(f)'
    BY <1>1, <1>6, <1>9, <2>2, <2>4, <2>5, NotObserved DEF FlowViewed
  <2> QED BY <1>6, <2>6 DEF FlowPending
<1>12. \A n \in Readable \ L!Changes(f) :
         (n \in DOMAIN o <=> n \in L!Objects) /\ (n \in L!Objects => o[n] = object[n])
  BY <1>8, <1>10
<1> QED BY <1>6, <1>8, <1>9, <1>11, <1>12, Executes

LEMMA Renames ==
  ASSUME L!LineageAssumption, LineageInv, NEW s \in Client, L!Rename(s)
  PROVE  LineageInv'
<1> USE DEF LineageInv
<1>1. PICK n \in L!Objects, m \in TableName \ L!Objects :
        L!Execute(s, [kind |-> "rename", target |-> n, new |-> m],
                [o \in (L!Objects \ {n}) \cup {m} |-> IF o = m THEN object[n] ELSE object[o]])
  BY DEF L!Rename
<1>2. PICK f : f = [kind |-> "rename", target |-> n, new |-> m]
  OBVIOUS
<1>3. PICK o : o = [x \in (L!Objects \ {n}) \cup {m} |-> IF x = m THEN object[n] ELSE object[x]]
  OBVIOUS
<1>4. n \in TableName /\ n # m
  BY ObjectFacts
<1>5. f \in Flows /\ f # L!NoFlow /\ f.kind = "rename" /\ f.target = n /\ f.new = m
  BY <1>2, <1>4 DEF Flows, L!NoFlow
<1>6. /\ DOMAIN o = (L!Objects \ {n}) \cup {m} /\ o[m] = object[n]
      /\ \A x \in L!Objects : x # n => o[x] = object[x]
  BY <1>3
<1>7. o \in UNION {[S -> ObjectShapes] : S \in SUBSET TableName}
  <2>1. o \in [(L!Objects \ {n}) \cup {m} -> ObjectShapes]
    BY <1>3, ObjectFacts
  <2>2. (L!Objects \ {n}) \cup {m} \in SUBSET TableName
    BY ObjectFacts
  <2> QED BY <2>1, <2>2
<1>8. L!Execute(s, f, o)
  BY <1>1, <1>2, <1>3
<1>9. L!Mentions(f) = {n, m} /\ L!Changes(f) = {n, m}
  BY <1>5, FlowKinds
<1>10. ASSUME FlowReady(f) PROVE FlowPending(f)'
  <2>1. GraphRight(n) /\ GraphRight(m) /\ ~L!Nested(L!Objects)
    BY <1>4, <1>9, <1>10 DEF FlowReady
  <2>2. /\ n \notin L!Objects' /\ m \in L!Objects' /\ DrawnFrom(m)' = DrawnFrom(n)
        /\ object'[m] = object[n]
    BY <1>4, <1>6, <1>8, NotObserved DEF DrawnFrom, L!Objects
  <2>3. L!IsView(m)' <=> L!IsView(n)
    BY <2>2 DEF L!IsView, L!Objects
  <2>4. DrawnFrom(m) = {} /\ ~L!IsView(m)
    BY <1>1 DEF DrawnFrom, L!IsView
  <2>5. ASSUME ~forgot PROVE SeenAs(n, m)'
    BY <1>8, <2>1, <2>2, <2>3, <2>5, NotObserved DEF SeenAs, GraphRight
  <2>6. ASSUME ~forgot
        PROVE  /\ \A x \in Readable : (EdgeInto(x, n) <=> x \in DrawnFrom(n)) /\ ~EdgeInto(x, m)
               /\ m \notin DOMAIN known
    BY <2>1, <2>4, <2>6 DEF GraphRight, Drawn, SeenAs
  <2>7. FlowRenamed(f)'
    BY <1>5, <1>8, <2>2, <2>5, <2>6, NotObserved DEF FlowRenamed
  <2> QED BY <1>5, <2>7 DEF FlowPending
<1>11. \A x \in Readable \ L!Changes(f) :
         (x \in DOMAIN o <=> x \in L!Objects) /\ (x \in L!Objects => o[x] = object[x])
  BY <1>6, <1>9
<1> QED BY <1>5, <1>7, <1>8, <1>10, <1>11, Executes

LEMMA Drops ==
  ASSUME L!LineageAssumption, LineageInv, NEW s \in Client, L!Drop(s)
  PROVE  LineageInv'
<1> USE DEF LineageInv
<1>1. PICK n \in L!Objects :
        L!Execute(s, [kind |-> "drop", target |-> n], L!Restrict(object, L!Objects \ {n}))
  BY DEF L!Drop
<1>2. PICK f : f = [kind |-> "drop", target |-> n]
  OBVIOUS
<1>3. PICK o : o = L!Restrict(object, L!Objects \ {n})
  OBVIOUS
<1>4. n \in TableName
  BY ObjectFacts
<1>5. f \in Flows /\ f # L!NoFlow /\ f.kind = "drop" /\ f.target = n
  BY <1>2, <1>4 DEF Flows, L!NoFlow
<1>6. DOMAIN o = L!Objects \ {n} /\ \A x \in L!Objects : x # n => o[x] = object[x]
  BY <1>3 DEF L!Restrict
<1>7. o \in UNION {[S -> ObjectShapes] : S \in SUBSET TableName}
  <2>1. o \in [L!Objects \ {n} -> ObjectShapes]
    BY <1>3, ObjectFacts DEF L!Restrict
  <2>2. L!Objects \ {n} \in SUBSET TableName
    BY ObjectFacts
  <2> QED BY <2>1, <2>2
<1>8. L!Execute(s, f, o)
  BY <1>1, <1>2, <1>3
<1>9. L!Mentions(f) = {n} /\ L!Changes(f) = {n}
  BY <1>5, FlowKinds
<1>10. FlowPending(f)'
  BY <1>5, <1>6, <1>8, NotObserved DEF FlowPending, L!Objects
<1>11. \A x \in Readable \ L!Changes(f) :
         (x \in DOMAIN o <=> x \in L!Objects) /\ (x \in L!Objects => o[x] = object[x])
  BY <1>6, <1>9
<1> QED BY <1>5, <1>7, <1>8, <1>10, <1>11, Executes

-----------------------------------------------------------------------------
\* An observation settles the names its flow changes.
LEMMA Observes ==
  ASSUME L!LineageAssumption, LineageInv, LineageTyped', NEW s \in Client, NEW f \in Flows,
         f = flow[s],
         f # L!NoFlow, flow' = [flow EXCEPT ![s] = L!NoFlow],
         UNCHANGED <<object, statements, reboots, missed, forgot>>,
         SameBut(L!Changes(f)),
         GraphFollows /\ FlowPending(f) => \A n \in L!Changes(f) : GraphRight(n)'
  PROVE  LineageInv'
<1> USE DEF LineageInv
<1>1. SUFFICES ASSUME ~missed PROVE GraphFollows'
  OBVIOUS
<1>2. GraphFollows /\ FlowPending(f) /\ flow \in [Client -> Flows]
  BY <1>1 DEF GraphFollows, LineageTyped
<1>3. flow'[s] = L!NoFlow /\ \A t \in Client : t # s => flow'[t] = flow[t]
  BY <1>2
<1>4. FlowsApart'
  BY <1>2, <1>3 DEF GraphFollows, FlowsApart, L!Changes, L!Mentions
<1>5. ASSUME NEW n \in TableName, NotInFlow(n)' PROVE GraphRight(n)'
  <2>1. CASE n \in L!Changes(f)
    BY <1>2, <2>1
  <2>2. CASE n \notin L!Changes(f)
    <3>1. NotInFlow(n)
      BY <1>3, <1>5, <2>2 DEF NotInFlow, L!Changes
    <3> QED BY <1>2, <2>2, <3>1, GraphKept DEF GraphFollows
  <2> QED BY <2>1, <2>2
<1>6. ASSUME NEW t \in Client, flow'[t] # L!NoFlow PROVE FlowPending(flow[t])'
  <2>1. t # s /\ flow'[t] = flow[t]
    BY <1>3, <1>6
  <2>2. PICK g \in Flows : g = flow[t]
    BY <1>2
  <2>3. g # L!NoFlow /\ flow'[t] = g /\ FlowPending(g) /\ L!Mentions(g) \cap L!Changes(f) = {}
    BY <1>2, <1>6, <2>1, <2>2 DEF GraphFollows, FlowsApart
  <2>4. FlowPending(g)'
    BY <2>3, FlowKept
  <2> QED BY <2>3, <2>4
<1> QED BY <1>4, <1>5, <1>6 DEF GraphFollows

LEMMA SourcesTyped ==
  ASSUME L!LineageAssumption, LineageTyped, NEW names \in SUBSET Readable
  PROVE  L!Sources(names) \subseteq TableName \cup Lake
<1> DEFINE Of(n) == IF n \in DOMAIN known THEN known[n] ELSE {n}
<1>1. \A n \in names : n \notin Elsewhere => Of(n) \subseteq TableName \cup Lake
  BY ObjectFacts DEF Readable, L!Outside
<1>2. L!Sources(names) = UNION {Of(n) : n \in {m \in names : m \notin Elsewhere}}
  BY DEF L!Sources, L!Resolves
<1> HIDE DEF Of
<1> QED BY <1>1, <1>2

LEMMA ObservesModify ==
  ASSUME L!LineageAssumption, LineageInv, NEW s \in Client, NEW f \in Flows, f = flow[s],
         f # L!NoFlow,
         flow' = [flow EXCEPT ![s] = L!NoFlow],
         UNCHANGED <<object, statements, reboots, missed, forgot>>,
         f.kind = "modify", UNCHANGED <<known, edges, lit>>
  PROVE  LineageInv'
<1>1. LineageTyped'
  BY DEF LineageInv, LineageTyped, Flows
<1>2. SameBut(L!Changes(f))
  BY DEF SameBut, EdgeInto, L!Nested, L!IsView, L!Objects
<1>3. \A n : GraphRight(n)' <=> GraphRight(n)
  BY DEF GraphRight, LitAs, Drawn, SeenAs, DrawnFrom, L!IsView, L!Nested, L!Objects, EdgeInto
<1>4. FlowPending(f) => \A n \in L!Changes(f) : GraphRight(n)'
  BY <1>3, FlowKinds DEF FlowPending, FlowModified
<1> QED BY <1>1, <1>2, <1>4, Observes

LEMMA ObservesEdges ==
  ASSUME L!LineageAssumption, LineageInv, NEW s \in Client, NEW f \in Flows, f = flow[s],
         f # L!NoFlow,
         flow' = [flow EXCEPT ![s] = L!NoFlow],
         UNCHANGED <<object, statements, reboots, missed, forgot>>,
         f.kind \in {"ctas", "insert"}, L!RecordEdges(f)
  PROVE  LineageInv'
<1> DEFINE t == f.target
<1>1. t \in TableName /\ f.sources \in SUBSET Readable /\ L!Changes(f) = {t}
  BY FlowKinds
<1>2. \A x, n : EdgeInto(x, n)' <=> EdgeInto(x, n) \/ (n = t /\ x \in L!Sources(f.sources) \ {t})
  BY DEF L!RecordEdges, EdgeInto
<1>3. known' = known /\ lit' = lit \cup {t} /\ object' = object /\ forgot' = forgot
  BY DEF L!RecordEdges
<1>4. LineageTyped'
  <2>1. edges' \subseteq (TableName \cup Lake) \X TableName
    <3>1. L!Sources(f.sources) \subseteq TableName \cup Lake
      BY <1>1, SourcesTyped DEF LineageInv
    <3> QED BY <1>1, <3>1 DEF LineageInv, LineageTyped, L!RecordEdges
  <2> QED BY <1>3, <2>1 DEF LineageInv, LineageTyped, Flows
<1>5. SameBut(L!Changes(f))
  BY <1>1, <1>2, <1>3 DEF SameBut, L!Nested, L!IsView, L!Objects
<1>6. ASSUME FlowPending(f) PROVE GraphRight(t)'
  <2>1. FlowFilled(f)
    BY <1>6 DEF FlowPending
  <2>2. LitAs(t)'
    BY <1>3 DEF LitAs
  <2>3. DrawnFrom(t)' = DrawnFrom(t) /\ ~L!IsView(t)'
    BY <1>3, <2>1 DEF DrawnFrom, L!IsView, L!Objects, FlowFilled, IsTable
  <2>4. ASSUME ~forgot PROVE Drawn(t)' /\ SeenAs(t, t)'
    BY <1>2, <1>3, <2>1, <2>3, <2>4 DEF FlowFilled, Drawn, SeenAs
  <2> QED BY <1>3, <2>2, <2>4 DEF GraphRight
<1> QED BY <1>1, <1>4, <1>5, <1>6, Observes

LEMMA ObservesView ==
  ASSUME L!LineageAssumption, LineageInv, NEW s \in Client, NEW f \in Flows, f = flow[s],
         f # L!NoFlow,
         flow' = [flow EXCEPT ![s] = L!NoFlow],
         UNCHANGED <<object, statements, reboots, missed, forgot>>,
         f.kind = "view", L!RecordView(f)
  PROVE  LineageInv'
<1> DEFINE t == f.target
<1>1. t \in TableName /\ f.sources \in SUBSET Readable /\ L!Changes(f) = {t}
  BY FlowKinds
<1>2. /\ DOMAIN known' = DOMAIN known \cup {t} /\ known'[t] = L!Sources(f.sources)
      /\ \A n \in DOMAIN known : n # t => known'[n] = known[n]
  BY DEF L!RecordView
<1>3. edges' = edges /\ lit' = lit /\ object' = object /\ forgot' = forgot
  BY DEF L!RecordView
<1>4. LineageTyped'
  <2>1. L!Sources(f.sources) \subseteq TableName \cup Lake
    BY <1>1, SourcesTyped DEF LineageInv
  <2>2. known' \in [DOMAIN known \cup {t} -> SUBSET (TableName \cup Lake)]
    BY <2>1, ObjectFacts DEF L!RecordView, LineageInv
  <2>3. DOMAIN known \cup {t} \in SUBSET TableName
    BY <1>1, ObjectFacts DEF LineageInv
  <2>4. known' \in UNION {[S -> SUBSET (TableName \cup Lake)] : S \in SUBSET TableName}
    BY <2>2, <2>3
  <2> QED BY <1>3, <2>4 DEF LineageInv, LineageTyped, Flows
<1>5. SameBut(L!Changes(f))
  BY <1>1, <1>2, <1>3 DEF SameBut, L!Nested, L!IsView, L!Objects, EdgeInto
<1>6. ASSUME FlowPending(f) PROVE GraphRight(t)'
  <2>1. FlowViewed(f)
    BY <1>6 DEF FlowPending
  <2>2. L!IsView(t)' /\ DrawnFrom(t)' = {} /\ LitAs(t)'
    BY <1>3, <2>1 DEF FlowViewed, L!IsView, DrawnFrom, L!Objects, LitAs
  <2>3. L!Nested(L!Objects)' <=> L!Nested(L!Objects)
    BY <1>3 DEF L!Nested, L!IsView, L!Objects
  <2>4. ASSUME ~forgot PROVE Drawn(t)' /\ SeenAs(t, t)'
    BY <1>2, <1>3, <2>1, <2>2, <2>3, <2>4 DEF FlowViewed, Drawn, SeenAs, EdgeInto
  <2> QED BY <1>3, <2>2, <2>4 DEF GraphRight
<1> QED BY <1>1, <1>4, <1>5, <1>6, Observes

LEMMA ObservesRename ==
  ASSUME L!LineageAssumption, LineageInv, NEW s \in Client, NEW f \in Flows, f = flow[s],
         f # L!NoFlow,
         flow' = [flow EXCEPT ![s] = L!NoFlow],
         UNCHANGED <<object, statements, reboots, missed, forgot>>,
         f.kind = "rename", L!RenameObject(f)
  PROVE  LineageInv'
<1>1. PICK n \in TableName, m \in TableName : n = f.target /\ m = f.new
  BY FlowKinds
<1>2. L!Changes(f) = {n, m}
  BY <1>1, FlowKinds
<1>3. /\ known' = [o \in (IF n \in DOMAIN known THEN (DOMAIN known \ {n}) \cup {m}
                          ELSE DOMAIN known) |->
                      IF o = m /\ n \in DOMAIN known THEN known[n] ELSE known[o]]
      /\ edges' = L!Moved(n, m) /\ lit' = lit \cup {m}
      /\ object' = object /\ forgot' = forgot
  BY <1>1 DEF L!RenameObject
<1>4. \A e \in edges : e = <<e[1], e[2]>> /\ e[1] \in TableName \cup Lake /\ e[2] \in TableName
  BY DEF LineageInv, LineageTyped
<1>5. \A e : e \in edges' <=> \E d \in edges : e = IF d[2] = n THEN <<d[1], m>> ELSE d
  BY <1>3 DEF L!Moved
<1>6. LineageTyped'
  <2>1. edges' \subseteq (TableName \cup Lake) \X TableName
    BY <1>4, <1>5
  <2>2. known' \in UNION {[S -> SUBSET (TableName \cup Lake)] : S \in SUBSET TableName}
    <3>1. CASE n \in DOMAIN known
      <4>1. known' \in [(DOMAIN known \ {n}) \cup {m} -> SUBSET (TableName \cup Lake)]
        BY <1>3, <3>1, ObjectFacts DEF LineageInv
      <4>2. (DOMAIN known \ {n}) \cup {m} \in SUBSET TableName
        BY ObjectFacts DEF LineageInv
      <4> QED BY <4>1, <4>2
    <3>2. CASE n \notin DOMAIN known
      <4>1. known' \in [DOMAIN known -> SUBSET (TableName \cup Lake)]
        BY <1>3, <3>2, ObjectFacts DEF LineageInv
      <4>2. DOMAIN known \in SUBSET TableName
        BY ObjectFacts DEF LineageInv
      <4> QED BY <4>1, <4>2
    <3> QED BY <3>1, <3>2
  <2> QED BY <1>3, <2>1, <2>2 DEF LineageInv, LineageTyped, Flows
<1>7. \A x, o : o \notin {n, m} => (EdgeInto(x, o)' <=> EdgeInto(x, o))
  BY <1>4, <1>5 DEF EdgeInto
<1>8. SameBut(L!Changes(f))
  BY <1>2, <1>3, <1>7 DEF SameBut, L!Nested, L!IsView, L!Objects
<1>9. ASSUME FlowPending(f) PROVE GraphRight(n)' /\ GraphRight(m)'
  <2>1. /\ n \notin L!Objects /\ m \in L!Objects /\ n # m
        /\ ~forgot =>
             /\ \A x \in Readable : (EdgeInto(x, n) <=> x \in DrawnFrom(m)) /\ ~EdgeInto(x, m)
             /\ m \notin DOMAIN known
             /\ SeenAs(n, m)
    BY <1>1, <1>9 DEF FlowPending, FlowRenamed
  <2>2. \A x : ~EdgeInto(x, n)' /\ (EdgeInto(x, m)' <=> EdgeInto(x, n) \/ EdgeInto(x, m))
    <3>1. ASSUME NEW x, EdgeInto(x, n)' PROVE FALSE
      BY <1>4, <1>5, <2>1, <3>1 DEF EdgeInto
    <3>2. ASSUME NEW x, EdgeInto(x, m)' PROVE EdgeInto(x, n) \/ EdgeInto(x, m)
      <4>1. PICK d \in edges : <<x, m>> = IF d[2] = n THEN <<d[1], m>> ELSE d
        BY <1>5, <3>2 DEF EdgeInto
      <4>2. CASE d[2] = n
        BY <1>4, <4>1, <4>2 DEF EdgeInto
      <4> QED BY <4>1, <4>2 DEF EdgeInto
    <3>3. ASSUME NEW x, EdgeInto(x, n) PROVE EdgeInto(x, m)'
      <4>1. <<x, n>>[1] = x /\ <<x, n>>[2] = n
        OBVIOUS
      <4> QED BY <1>5, <3>3, <4>1 DEF EdgeInto
    <3>4. ASSUME NEW x, EdgeInto(x, m) PROVE EdgeInto(x, m)'
      <4>1. <<x, m>>[2] = m
        OBVIOUS
      <4> QED BY <1>5, <2>1, <3>4, <4>1 DEF EdgeInto
    <3> QED BY <3>1, <3>2, <3>3, <3>4
  <2>3. /\ DrawnFrom(n)' = {} /\ DrawnFrom(m)' = DrawnFrom(m)
        /\ ~L!IsView(n)' /\ (L!IsView(m)' <=> L!IsView(m))
    BY <1>3, <2>1 DEF DrawnFrom, L!IsView, L!Objects
  <2>4. L!Nested(L!Objects)' <=> L!Nested(L!Objects)
    BY <1>3 DEF L!Nested, L!IsView, L!Objects
  <2>5. LitAs(n)' /\ LitAs(m)'
    BY <1>3, <2>1 DEF LitAs, L!Objects
  <2>6. ASSUME ~forgot PROVE Drawn(n)' /\ Drawn(m)'
    BY <2>1, <2>2, <2>3, <2>6 DEF Drawn
  <2>7. ASSUME ~forgot
        PROVE  /\ n \notin DOMAIN known' /\ (m \in DOMAIN known' <=> n \in DOMAIN known)
               /\ n \in DOMAIN known => known'[m] = known[n]
    BY <1>3, <2>1, <2>7
  <2>8. ASSUME ~forgot PROVE SeenAs(n, n)' /\ SeenAs(m, m)'
    BY <1>3, <2>1, <2>3, <2>4, <2>7, <2>8 DEF SeenAs
  <2> QED BY <1>3, <2>5, <2>6, <2>8 DEF GraphRight
<1> QED BY <1>2, <1>6, <1>8, <1>9, Observes

LEMMA ObservesDrop ==
  ASSUME L!LineageAssumption, LineageInv, NEW s \in Client, NEW f \in Flows, f = flow[s],
         f # L!NoFlow,
         flow' = [flow EXCEPT ![s] = L!NoFlow],
         UNCHANGED <<object, statements, reboots, missed, forgot>>,
         f.kind = "drop", L!DropObject(f)
  PROVE  LineageInv'
<1> DEFINE t == f.target
<1>1. t \in TableName /\ L!Changes(f) = {t}
  BY FlowKinds
<1>2. /\ DOMAIN known' = DOMAIN known \ {t}
      /\ \A n \in DOMAIN known : n # t => known'[n] = known[n]
  BY DEF L!DropObject, L!Restrict
<1>3. edges' = {e \in edges : e[2] # t} /\ lit' = lit /\ object' = object /\ forgot' = forgot
  BY DEF L!DropObject, L!Retired
<1>4. LineageTyped'
  <2>1. known' \in [DOMAIN known \ {t} -> SUBSET (TableName \cup Lake)]
    BY ObjectFacts DEF L!DropObject, L!Restrict, LineageInv
  <2>2. DOMAIN known \ {t} \in SUBSET TableName
    BY ObjectFacts DEF LineageInv
  <2>3. known' \in UNION {[S -> SUBSET (TableName \cup Lake)] : S \in SUBSET TableName}
    BY <2>1, <2>2
  <2> QED BY <1>3, <2>3 DEF LineageInv, LineageTyped, Flows
<1>5. \A x, n : EdgeInto(x, n)' <=> EdgeInto(x, n) /\ n # t
  BY <1>3 DEF EdgeInto
<1>6. SameBut(L!Changes(f))
  BY <1>1, <1>2, <1>3, <1>5 DEF SameBut, L!Nested, L!IsView, L!Objects
<1>7. ASSUME FlowPending(f) PROVE GraphRight(t)'
  <2>1. t \notin L!Objects'
    BY <1>3, <1>7 DEF FlowPending, L!Objects
  <2>2. LitAs(t)' /\ DrawnFrom(t)' = {} /\ ~L!IsView(t)'
    BY <2>1 DEF LitAs, DrawnFrom, L!IsView
  <2> QED BY <1>2, <1>5, <2>2 DEF GraphRight, Drawn, SeenAs
<1> QED BY <1>1, <1>4, <1>6, <1>7, Observes

-----------------------------------------------------------------------------
LEMMA LineageInit ==
  ASSUME L!LineageAssumption, L!Init
  PROVE  LineageInv
<1>1. object \in [{} -> ObjectShapes] /\ known \in [{} -> SUBSET (TableName \cup Lake)]
  BY DEF L!Init
<1>2. L!Objects = {} /\ DOMAIN known = {} /\ edges = {}
  BY DEF L!Init, L!Objects
<1>3. LineageTyped
  BY <1>1 DEF L!Init, LineageTyped, Flows
<1>4. \A s \in Client : flow[s] = L!NoFlow
  BY DEF L!Init
<1>5. \A n \in TableName : GraphRight(n)
  BY <1>2 DEF GraphRight, LitAs, Drawn, SeenAs, DrawnFrom, L!IsView, EdgeInto
<1> QED BY <1>3, <1>4, <1>5 DEF LineageInv, GraphFollows, FlowsApart

LEMMA LineageRestarts ==
  ASSUME L!LineageAssumption, LineageInv, L!Restart
  PROVE  LineageInv'
<1>1. known' \in [{} -> SUBSET (TableName \cup Lake)] /\ DOMAIN known' = {}
  BY DEF L!Restart
<1>2. LineageTyped'
  <2>1. known' \in UNION {[S -> SUBSET (TableName \cup Lake)] : S \in SUBSET TableName}
    BY <1>1
  <2>2. flow' \in [Client -> Flows]
    BY DEF L!Restart, Flows
  <2> QED BY <2>1, <2>2 DEF L!Restart, LineageInv, LineageTyped
<1>3. SUFFICES ASSUME ~missed' PROVE GraphFollows'
  BY <1>2 DEF LineageInv
<1>4. ~missed /\ GraphFollows /\ \A s \in Client : flow[s] = L!NoFlow
  BY <1>3 DEF L!Restart, LineageInv
<1>5. \A s \in Client : flow'[s] = L!NoFlow
  BY DEF L!Restart
<1>6. \A n \in TableName : GraphRight(n)
  BY <1>4 DEF GraphFollows, NotInFlow
<1>7. ASSUME NEW n \in TableName PROVE GraphRight(n)'
  <2>1. LitAs(n)'
    BY <1>6 DEF GraphRight, LitAs, L!Restart, L!Objects
  <2>2. ASSUME ~forgot' PROVE Drawn(n)' /\ SeenAs(n, n)'
    <3>1. ~forgot /\ DOMAIN known = {}
      BY <2>2 DEF L!Restart
    <3>2. Drawn(n) /\ SeenAs(n, n)
      BY <1>6, <3>1 DEF GraphRight
    <3>3. Drawn(n)'
      BY <3>2 DEF Drawn, DrawnFrom, EdgeInto, L!Restart, L!Objects
    <3>4. ~L!IsView(n)'
      BY <3>1, <3>2 DEF SeenAs, L!IsView, L!Restart, L!Objects
    <3> QED BY <1>1, <3>3, <3>4 DEF SeenAs
  <2> QED BY <2>1, <2>2 DEF GraphRight
<1> QED BY <1>5, <1>7 DEF GraphFollows, FlowsApart

LEMMA LineageNext == ASSUME L!LineageAssumption PROVE LineageInv /\ [L!Next]_(L!vars) => LineageInv'
<1> SUFFICES ASSUME LineageInv, [L!Next]_(L!vars) PROVE LineageInv'
  OBVIOUS
<1>1. CASE L!Restart
  BY <1>1, LineageRestarts
<1>2. ASSUME NEW s \in Client, L!Observe(s) PROVE LineageInv'
  <2>1. PICK f \in Flows : f = flow[s]
    BY DEF LineageInv, LineageTyped
  <2>2. /\ f # L!NoFlow /\ flow' = [flow EXCEPT ![s] = L!NoFlow]
        /\ UNCHANGED <<object, statements, reboots, missed, forgot>>
        /\ \/ f.kind = "modify" /\ UNCHANGED <<known, edges, lit>>
           \/ f.kind \in {"ctas", "insert"} /\ L!RecordEdges(f)
           \/ f.kind = "view" /\ L!RecordView(f)
           \/ f.kind = "rename" /\ L!RenameObject(f)
           \/ f.kind = "drop" /\ L!DropObject(f)
    BY <1>2, <2>1 DEF L!Observe
  <2> QED BY <2>1, <2>2, ObservesModify, ObservesEdges, ObservesView, ObservesRename, ObservesDrop
<1>3. ASSUME NEW s \in Client, L!NotUnderstood(s) PROVE LineageInv'
  <2>1. LineageTyped'
    BY <1>3 DEF L!NotUnderstood, LineageInv, LineageTyped, Flows
  <2> QED BY <1>3, <2>1 DEF L!NotUnderstood, LineageInv
<1>4. CASE UNCHANGED L!vars
  <2>1. LineageTyped'
    BY <1>4 DEF LineageInv, LineageTyped, L!vars
  <2>2. GraphFollows' <=> GraphFollows
    BY <1>4 DEF L!vars, GraphFollows, FlowsApart, NotInFlow, FlowPending, FlowModified, FlowFilled,
                FlowViewed, FlowRenamed, GraphRight, LitAs, Drawn, SeenAs, DrawnFrom, EdgeInto,
                IsTable, L!IsView, L!Nested, L!Objects, L!Sources, L!Resolves, L!Changes,
                L!Mentions
  <2> QED BY <1>4, <2>1, <2>2 DEF LineageInv, L!vars
<1> QED BY <1>1, <1>2, <1>3, <1>4, CreatesTable, InsertsValues, Selects, Inserts, CreatesView,
           Renames, Drops DEF L!Next

LEMMA LineageHolds ==
  ASSUME L!LineageAssumption, LineageInv
  PROVE  L!LineageFollows
<1>1. SUFFICES ASSUME L!Quiet, ~missed PROVE L!LineageFollows
  BY DEF L!LineageFollows, L!EdgesMatchBuild, L!TablesLit
<1>2. \A n \in TableName : GraphRight(n)
  BY <1>1 DEF LineageInv, GraphFollows, NotInFlow, L!Quiet
<1>3. \A t \in L!Objects : t \in TableName /\ (~L!IsView(t) => object[t].kind = "table")
  BY ObjectFacts DEF LineageInv, L!IsView
<1>4. L!TablesLit
  BY <1>2, <1>3 DEF L!TablesLit, GraphRight, LitAs
<1>5. ASSUME ~forgot, NEW t \in L!Objects, ~L!IsView(t) PROVE L!Faithful(t)
  <2>1. Drawn(t) /\ DrawnFrom(t) = object[t].from \ Elsewhere
    BY <1>2, <1>3, <1>5 DEF GraphRight, DrawnFrom
  <2>2. \A e \in edges : e = <<e[1], e[2]>> /\ e[1] \in Readable
    BY DEF LineageInv, LineageTyped, Readable, L!Outside
  <2>3. object[t].from \subseteq Readable
    BY ObjectFacts DEF LineageInv
  <2>4. ASSUME NEW e
        PROVE  e \in {d \in edges : d[2] = t} <=>
          e \in {<<n, t>> : n \in object[t].from \ Elsewhere}
    BY <2>1, <2>2, <2>3 DEF Drawn, EdgeInto
  <2> QED BY <2>4 DEF L!Faithful
<1>6. ASSUME ~forgot, NEW e \in edges PROVE e[2] \in L!Objects
  <2>1. e = <<e[1], e[2]>> /\ e[1] \in Readable /\ e[2] \in TableName
    BY DEF LineageInv, LineageTyped, Readable, L!Outside
  <2>2. e[1] \in DrawnFrom(e[2])
    BY <1>2, <1>6, <2>1 DEF GraphRight, Drawn, EdgeInto
  <2> QED BY <2>2 DEF DrawnFrom
<1> QED BY <1>4, <1>5, <1>6 DEF L!LineageFollows, L!EdgesMatchBuild

-----------------------------------------------------------------------------
(* Together.                                                                 *)

\* Requests about views, names, the identity, folders, tables and lineage go through
\* one API, where they share no state of these modules: what is proved of one of
\* them alone carries over to the composition.
LEMMA EachHoldsAsAlone == ContentSpec => Spec /\ N!Spec /\ W!Spec /\ F!Spec /\ D!Spec /\ L!Spec
<1>1. ContentInit => Init /\ N!Init /\ W!Init /\ F!Init /\ D!Init /\ L!Init
  BY DEF ContentInit
<1>2. [ContentNext]_contentVars =>
        /\ [Next]_vars /\ [N!Next]_(N!vars) /\ [W!Next]_(W!vars) /\ [F!Next]_(F!vars)
        /\ [D!Next]_(D!vars) /\ [L!Next]_(L!vars)
  BY DEF ContentNext, contentVars, ViewStep, NameStep, IdentityStep, FolderStep, TableStep,
         LineageStep, vars, nameVars, idVars, folderVars, tableVars, lineageVars, N!vars, W!vars,
         F!vars, D!vars, L!vars
<1> QED BY <1>1, <1>2, PTL DEF ContentSpec, Spec, N!Spec, W!Spec, F!Spec, D!Spec, L!Spec

\* A view reported fresh is current, whatever becomes of names and identity meanwhile
\* (mlvStale): FreshIsCurrent.
THEOREM FreshAmongOthers == ASSUME ViewsAssumption PROVE ContentSpec => []FreshIsCurrent
BY FreshViewsAreCurrent, EachHoldsAsAlone, PTL

\* While requests come one at a time and each name was deleted under one
\* spelling, a deleted name is not given out again before its time is over
\* (DeleteItem and NameReservedUntil), and a name is refused only while that lasts.
THEOREM NamesAreHeld == ASSUME N!NamesAssumption PROVE ContentSpec => NamesHeldExactly
<1>1. NamesInv /\ [N!Next]_(N!vars) => NamesInv'
  BY NamesNext
<1>2. N!Spec => [][N!NameHeldExactly]_(N!vars)
  BY <1>1, NamesInit, NamesStep, PTL DEF N!Spec
<1>3. [N!NameHeldExactly]_(N!vars) => [N!NameHeldExactly]_nameVars
  BY DEF nameVars, N!vars
<1> QED BY <1>2, <1>3, EachHoldsAsAlone, PTL DEF NamesHeldExactly

\* Of a request that was neither overlapped nor cut off midway, entra, the link and
\* the grant agree once it is over, and the identity has the workspace's name
\* (docs/09-identity-handshake.md): IdentityAgrees.
THEOREM HandshakeKept == ASSUME W!IdentityAssumption PROVE ContentSpec => []IdentityAgrees
<1>1. IdentityInv /\ [W!Next]_(W!vars) => IdentityInv'
  BY IdentityNext
<1>2. IdentityInv => IdentityAgrees
  BY DEF IdentityInv, Handled, Agreed, IdentityNames, IdentityNamed, IdentityAgrees,
         W!IdentityAgrees, W!IdentityWhole, W!NameFollows, W!Quiet
<1>3. W!Spec => []IdentityAgrees
  BY <1>1, <1>2, IdentityInit, PTL DEF W!Spec
<1> QED BY <1>3, EachHoldsAsAlone, PTL

\* As long as no two requests about folders overlapped, every folder hangs from the
\* root and none from itself, however folders were made, moved and deleted
\* (store/folders.go, MoveFolder and DeleteFolder); and a bulk move that moved an
\* item finds the others (bulkMoveItems): FoldersSound.
THEOREM FoldersAreTrees == ASSUME F!FoldersAssumption PROVE ContentSpec => []FoldersSound
<1>1. FoldersInv /\ [F!Next]_(F!vars) => FoldersInv'
  BY FoldersNext
<1>2. FoldersInv => FoldersSound
  BY DEF FoldersInv, Sure, FoldersSound, F!BulkGoesThrough
<1>3. F!Spec => []FoldersSound
  BY <1>1, <1>2, FoldersInit, PTL DEF F!Spec
<1> QED BY <1>3, EachHoldsAsAlone, PTL

\* As long as no writer of the emulator wrote while another wrote, the table holds what
\* was acknowledged since the last overwrite, and nothing of a write that ended halfway
\* (warehouse/write.go, WriteDeltaTableAs), beside engines that commit: TableIsAcked.
THEOREM TableIsWhatWasAcknowledged == ContentSpec => []TableIsAcked
<1>1. TableInv /\ [D!Next]_(D!vars) => TableInv'
  BY TableNext
<1>2. TableInv => TableIsAcked
  BY TableHolds DEF TableIsAcked
<1>3. D!Spec => []TableIsAcked
  BY <1>1, <1>2, TableInit, PTL DEF D!Spec
<1> QED BY <1>3, EachHoldsAsAlone, PTL

\* And a reader gets the rows of the version it listed, whatever is committed while it
\* reads commits and data files (warehouse/delta.go, replayCommits): ReadsVersion.
THEOREM ReadersGetOneVersion == ContentSpec => []ReadsVersion
<1>1. TableInv /\ [D!Next]_(D!vars) => TableInv'
  BY TableNext
<1>2. TableInv => ReadsVersion
  BY TableHolds DEF ReadsVersion
<1>3. D!Spec => []ReadsVersion
  BY <1>1, <1>2, TableInit, PTL DEF D!Spec
<1> QED BY <1>3, EachHoldsAsAlone, PTL

\* When every statement was observed in turn and no view was forgotten in a restart, each
\* table has the edges of the tables its statements read, seen through views, under its
\* present name, nothing dropped has any, and what rows went into was announced
\* (server/warehouselineage.go), for any sessions whose statements interleave:
\* LineageFollows.
THEOREM GraphFollowsBuilds == ASSUME L!LineageAssumption PROVE ContentSpec => []LineageFollows
<1>1. LineageInv /\ [L!Next]_(L!vars) => LineageInv'
  BY LineageNext
<1>2. LineageInv => LineageFollows
  BY LineageHolds DEF LineageFollows
<1>3. L!Spec => []LineageFollows
  BY <1>1, <1>2, LineageInit, PTL DEF L!Spec
<1> QED BY <1>3, EachHoldsAsAlone, PTL
=============================================================================
