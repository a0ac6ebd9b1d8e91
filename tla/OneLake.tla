------------------------------- MODULE OneLake -------------------------------
(***************************************************************************)
(* The storage of one item in OneLake (internal/store/onelake.go) and the  *)
(* DFS and Blob requests that change it (internal/onelake).                *)
(*                                                                         *)
(* A path is a sequence of names. Every call of the store is one           *)
(* transaction; a request may be several calls, and the blocks of an       *)
(* unfinished upload are kept in memory in between. Of a file's data only  *)
(* the number of chunks is kept. Shortcuts to other storage accounts are   *)
(* left out, and so is who may do what.                                    *)
(***************************************************************************)
EXTENDS Integers, Sequences, FiniteSets

CONSTANTS
  Client,
  Path,          \* sequences of names
  Like,          \* <<n, m>>: n, as an SQL pattern, also matches the name m
  Block,         \* block ids
  MaxStaged,     \* maxStagedBytes, in chunks
  MaxData        \* bound of the model: chunks of a file

\* Paths have names, and a file can hold a chunk.
OneLakeAssumption ==
  /\ \A p \in Path : Len(p) > 0
  /\ MaxStaged \in Nat /\ MaxData \in Nat \ {0}

VARIABLES
  files,         \* the stored paths: path -> [dir, size]
  staged,        \* blob -> the ids of its blocks, for the blobs with blocks
  age,           \* the blobs with staged blocks, oldest first
  bytes,         \* the stage's own count
  req,           \* client -> the request it is in the middle of
  acked          \* path -> clients told 201 to an If-None-Match: * since the
                 \* path was last deleted, moved or overwritten

vars == <<files, staged, age, bytes, req, acked>>

Idle == [op |-> "idle"]

\* q is p itself, or what `LIKE p || '/%'' finds under it.
Covers(p, q) ==
  \/ q = p
  \/ /\ Len(q) > Len(p)
     /\ \A i \in DOMAIN p : p[i] = q[i] \/ <<p[i], q[i]>> \in Like

\* q is p or under it.
Under(p, q) == Len(q) >= Len(p) /\ SubSeq(q, 1, Len(p)) = p

Stored == DOMAIN files
Without(S) == [q \in Stored \ S |-> files[q]]
Forget(S) == [q \in Path |-> IF q \in S THEN {} ELSE acked[q]]

Init ==
  /\ files = <<>> /\ staged = <<>> /\ age = <<>> /\ bytes = 0
  /\ req = [c \in Client |-> Idle]
  /\ acked = [p \in Path |-> {}]

-----------------------------------------------------------------------------
\* Mutant: the conditional insert updates on a conflict as well.
CreateOver(c, p, f, cond) ==
  /\ files' = [q \in Stored \cup {p} |-> IF q = p THEN f ELSE files[q]]
  /\ acked' = [acked EXCEPT ![p] = IF cond THEN @ \cup {c} ELSE {}]

\* CreateOneLakePath: ON CONFLICT DO NOTHING, or DO UPDATE.
Create(c, p, f, cond) ==
  IF cond /\ p \in Stored THEN UNCHANGED <<files, acked>>
  ELSE /\ files' = [q \in Stored \cup {p} |-> IF q = p THEN f ELSE files[q]]
       /\ acked' = [acked EXCEPT ![p] = IF cond THEN @ \cup {c} ELSE {}]

\* DFS: a directory, an empty file to append to, or a file with its bytes.
Put(c, p, f, cond) ==
  /\ req[c] = Idle
  /\ f.dir => f.size = 0
  /\ Create(c, p, f, cond)
  /\ UNCHANGED <<staged, age, bytes, req>>

\* AppendOneLakePath; any other position is refused.
AppendData(c, p, position) ==
  /\ req[c] = Idle
  /\ p \in Stored /\ ~files[p].dir
  /\ position = files[p].size /\ position < MaxData
  /\ files' = [files EXCEPT ![p].size = @ + 1]
  /\ UNCHANGED <<staged, age, bytes, req, acked>>

\* RenameOneLakePath: the destination goes, then what the source covers moves.
\* (The new names are in Path.)
Rename(c, src, dst) ==
  /\ req[c] = Idle
  /\ \E q \in Stored : Covers(src, q)
  /\ LET kept == {q \in Stored : ~Covers(dst, q)}
         moved == {q \in kept : Covers(src, q)}
         To(q) == dst \o SubSeq(q, Len(src) + 1, Len(q))
     IN  /\ \A q \in moved : To(q) \in Path
         \* the primary key refuses a name that is there, and all is undone
         /\ \A q \in moved : To(q) \notin kept \ moved
         /\ files' = [q \in (kept \ moved) \cup {To(m) : m \in moved} |->
                        IF q \in kept \ moved THEN files[q]
                        ELSE files[CHOOSE m \in moved : To(m) = q]]
         /\ acked' = Forget((Stored \ kept) \cup moved \cup {To(m) : m \in moved})
  /\ UNCHANGED <<staged, age, bytes, req>>

DeleteCovered(p) ==
  /\ files' = Without({q \in Stored : Covers(p, q)})
  /\ acked' = Forget({q \in Path : Covers(p, q)})

\* DeleteOneLakePath, from DFS with recursive=true or from Blob.
Delete(c, p) ==
  /\ req[c] = Idle
  /\ \E q \in Stored : Covers(p, q)
  /\ DeleteCovered(p)
  /\ UNCHANGED <<staged, age, bytes, req>>

\* Without it, DFS lists the path first: nothing below it may be stored.
RmList(c, p) ==
  /\ req[c] = Idle
  /\ ~ \E q \in Stored : q # p /\ Under(p, q)
  /\ req' = [req EXCEPT ![c] = [op |-> "rm", path |-> p]]
  /\ UNCHANGED <<files, staged, age, bytes, acked>>

RmDelete(c) ==
  /\ req[c].op = "rm"
  /\ IF \E q \in Stored : Covers(req[c].path, q)
     THEN DeleteCovered(req[c].path)
     ELSE UNCHANGED <<files, acked>>
  /\ req' = [req EXCEPT ![c] = Idle]
  /\ UNCHANGED <<staged, age, bytes>>

-----------------------------------------------------------------------------
(* Uploads in blocks, blobStage. A chunk counts as one byte.               *)
BlocksOf(p) == IF p \in DOMAIN staged THEN staged[p] ELSE {}

Size(st, keys) ==
  LET pairs == UNION {{p} \X st[p] : p \in keys} IN Cardinality(pairs)

\* The blobs of ages that are not in S, in their order. (As a recursive function:
\* SelectSeq is not one the provers know.)
Remaining(ages, S) ==
  LET kept[i \in 0 .. Len(ages)] ==
        IF i = 0 THEN <<>>
        ELSE IF ages[i] \in S THEN kept[i - 1] ELSE Append(kept[i - 1], ages[i])
  IN  kept[Len(ages)]

\* evictLocked: whole blobs, the oldest first, until the stage fits or only
\* the blob being written is left.
Evicted(n, ages, keep, st) ==
  LET others == Remaining(ages, {keep})
      fits == {k \in 0 .. Len(others) :
                 n - Size(st, {others[i] : i \in 1 .. k}) <= MaxStaged}
      k == IF fits = {} THEN Len(others) ELSE CHOOSE i \in fits : \A j \in fits : i <= j
  IN  {others[i] : i \in 1 .. k}

\* Mutant: a block that is replaced is counted twice.
GrownTwice(p, b) == bytes + 1

\* The count with block b of p in: replacing a block replaces its bytes.
Grown(p, b) == IF b \in BlocksOf(p) THEN bytes ELSE bytes + 1

PutBlock(c, p, b) ==
  /\ req[c] = Idle
  /\ LET with == [q \in DOMAIN staged \cup {p} |->
                    IF q = p THEN BlocksOf(p) \cup {b} ELSE staged[q]]
         ages == IF p \in DOMAIN staged THEN age ELSE Append(age, p)
         gone == Evicted(Grown(p, b), ages, p, with)
     IN  /\ staged' = [q \in DOMAIN with \ gone |-> with[q]]
         /\ age' = Remaining(ages, gone)
         /\ bytes' = Grown(p, b) - Size(with, gone)
  /\ UNCHANGED <<files, req, acked>>

\* commit takes the blocks out of the stage; the blob is written after that.
PutBlockList(c, p, ids, cond) ==
  /\ req[c] = Idle
  /\ Len(ids) <= MaxData /\ \A i \in DOMAIN ids : ids[i] \in BlocksOf(p)
  /\ req' = [req EXCEPT ![c] = [op |-> "write", path |-> p, cond |-> cond, size |-> Len(ids)]]
  /\ bytes' = bytes - Cardinality(staged[p])
  /\ staged' = [q \in DOMAIN staged \ {p} |-> staged[q]]
  /\ age' = Remaining(age, {p})
  /\ UNCHANGED <<files, acked>>

\* Copy Blob reads its source, then writes.
Copy(c, src, dst, cond) ==
  /\ req[c] = Idle /\ src \in Stored
  /\ req' = [req EXCEPT ![c] = [op |-> "write", path |-> dst, cond |-> cond, size |-> files[src].size]]
  /\ UNCHANGED <<files, staged, age, bytes, acked>>

WriteBlob(c) ==
  /\ req[c].op = "write"
  /\ Create(c, req[c].path, [dir |-> FALSE, size |-> req[c].size], req[c].cond)
  /\ req' = [req EXCEPT ![c] = Idle]
  /\ UNCHANGED <<staged, age, bytes>>

BlockList == {<<b>> : b \in Block} \cup {<<b, d>> : b, d \in Block}
Body == [dir : BOOLEAN, size : 0 .. MaxData]

Next == \E c \in Client, p \in Path :
  \/ \E f \in Body, cond \in BOOLEAN : Put(c, p, f, cond)
  \/ \E n \in 0 .. MaxData : AppendData(c, p, n)
  \/ \E d \in Path : Rename(c, p, d)
  \/ Delete(c, p) \/ RmList(c, p) \/ RmDelete(c)
  \/ \E b \in Block : PutBlock(c, p, b)
  \/ \E ids \in BlockList, cond \in BOOLEAN : PutBlockList(c, p, ids, cond)
  \/ \E d \in Path, cond \in BOOLEAN : Copy(c, p, d, cond)
  \/ WriteBlob(c)

Spec == Init /\ [][Next]_vars

-----------------------------------------------------------------------------
\* The primitive Delta's commits rest on: of the clients that created a path
\* on the condition that it was not there, by whichever protocol, one was told
\* it did, and the path is still there until somebody deletes or replaces it.
OneCommitWins ==
  \A p \in Path : acked[p] # {} => Cardinality(acked[p]) = 1 /\ p \in Stored

\* What the stage believes it holds is what it holds, through replaced blocks,
\* evictions and commits, and it is over its bound only by the one blob that
\* cannot be dropped (blockStage).
StageBounded ==
  /\ bytes = Size(staged, DOMAIN staged)
  /\ {age[i] : i \in DOMAIN age} = DOMAIN staged /\ Len(age) = Cardinality(DOMAIN staged)
  /\ bytes > MaxStaged => Len(age) = 1

\* What clients of either protocol rely on: a commit acknowledged stays, an
\* upload in blocks neither starves nor floods the stage.
StorageSound == OneCommitWins /\ StageBounded

=============================================================================
